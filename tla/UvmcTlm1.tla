------------------------------ MODULE UvmcTlm1 ------------------------------
(***************************************************************************)
(* TLM1 calls across the language boundary, in both directions:            *)
(* uvmc_tlm1_channel_proxy of uvmc_channels.h for those from SystemC,      *)
(* uvmc_tlm1_port_proxy of uvmc_ports.h and the port classes derived from  *)
(* it for those from SystemVerilog, and uvmc_tlm1_dispatch of uvmc_tlm1.sv *)
(* on the SystemVerilog side of both.                                      *)
(*                                                                         *)
(* Nothing blocks across the boundary.  The calling process takes the      *)
(* proxy's semaphore, sends the request with a DPI call that only stores   *)
(* it and wakes a process of the other side, and waits for an event.  That *)
(* process calls the object and sends the answer back with another DPI     *)
(* call, which stores the response and notifies the event.  Neither event  *)
(* remembers anything: a notification nobody waits for is lost, and so is  *)
(* a change of m_blocking_op while the process is busy.  Processes give    *)
(* way only where they wait, so a step is what one of them does between    *)
(* two waits, or a finer one.                                              *)
(***************************************************************************)
EXTENDS Tlm1Target, Integers, TLC

CONSTANTS
  Clients,  (* The processes that call through the proxy.                    *)
  Refused,  (* What a refused call returns.                                  *)
  Uses      (* The pairs of a port and the methods called through it.        *)

ASSUME RefusedAssumption == Refused \notin Values \cup {NoValue}

VARIABLES
  use,           (* The port of this run: never changes.                     *)
  m_connected,   (* The proxy has found its counterpart.                     *)
  aborted,       (* The simulation ended with uvm_fatal.                     *)
  pc,            (* Where the call of each client is.                        *)
  op, arg,       (* Its method and its transaction, while it lasts.          *)
  res,           (* What the last call of each client returned.              *)
  m_sem,         (* The semaphore of the proxy, 1 when free.                 *)
  m_t,           (* The last response: m_t here, m_bits in SystemVerilog.    *)
  m_blocking_op, (* The other side: the operation to perform, or "NONE".     *)
  req, rsp,      (* The other side: its request, and its response.           *)
  proc           (* The other side: where blocking_sync_process is.          *)

clientVars == <<pc, op, arg, res>>
procVars == <<m_blocking_op, req, rsp, proc>>
vars == <<boxes, use, m_connected, aborted, clientVars, m_sem, m_t, procVars>>

Results == Values \cup {NoValue, Refused}

-----------------------------------------------------------------------------
(***************************************************************************)
(* The port classes: which of the proxy's methods each one overrides.  A   *)
(* put that takes a REQ& does not override one that takes a const T1&.     *)
(***************************************************************************)

PutPorts ==
  [blocking_put |-> {"put"},
   nonblocking_put |-> {"nb_put", "nb_can_put"},
   put_port |-> {"put", "nb_put", "nb_can_put"}]

GetPorts ==
  [blocking_get |-> {"get"},
   nonblocking_get |-> {"nb_get", "nb_can_get"},
   get_port |-> {"get", "nb_get", "nb_can_get"}]

PeekPorts ==
  [blocking_peek |-> {"peek"},
   nonblocking_peek |-> {"nb_peek", "nb_can_peek"},
   peek_port |-> {"peek", "nb_peek", "nb_can_peek"}]

NbGetPeek == {"nb_get", "nb_can_get", "nb_peek", "nb_can_peek"}

GetPeekPorts ==
  [blocking_get_peek |-> {"get", "peek"},
   nonblocking_get_peek |-> NbGetPeek,
   get_peek |-> {"get", "peek"} \cup NbGetPeek]

\* tlm_analysis_port has a write of its own, which does not override the proxy's.
WritePorts == [write |-> {"write"}, analysis |-> {}]

NbPut == {"nb_put", "nb_can_put"}

MasterPorts ==
  [blocking_master |-> {"get", "peek"},
   nonblocking_master |-> NbPut \cup NbGetPeek,
   master |-> {"get", "peek"} \cup NbPut \cup NbGetPeek]

SlavePorts ==
  [blocking_slave |-> {"get", "peek"},
   nonblocking_slave |-> NbPut \cup NbGetPeek,
   slave |-> {"get", "peek"} \cup NbPut \cup NbGetPeek]

TransportPort == [transport |-> {"transport"}]

\* The other direction: an implementation in SystemVerilog has every method that the
\* binding has found on both sides.
Channel ==
  [channel |-> Blocking \cup {"nb_put", "nb_can_put"} \cup NbGetPeek]

Overridden ==
  PutPorts @@ GetPorts @@ PeekPorts @@ GetPeekPorts @@ WritePorts @@ MasterPorts
    @@ SlavePorts @@ TransportPort @@ Channel


Offers(method) == method \in Overridden[use.port]

\* The calls come from SystemC.
FromSystemC == use.port = "channel"

\* try_* of SystemVerilog, nb_* of SystemC, is nb_can_* and nb_* of the object.
NbOf == [put |-> "nb_put", get |-> "nb_get", peek |-> "nb_peek"]
CanOf == [put |-> "nb_can_put", get |-> "nb_can_get", peek |-> "nb_can_peek"]
TryOf == [put |-> "try_put", get |-> "try_get", peek |-> "try_peek"]

Methods == Blocking \cup {"try_put", "try_get", "try_peek", "write"}

ASSUME UsesAssumption ==
  \A u \in Uses : u.port \in DOMAIN Overridden /\ u.ops \subseteq Methods

-----------------------------------------------------------------------------

TypeOK ==
  /\ BoxesOK
  /\ use \in Uses
  /\ m_connected \in BOOLEAN /\ aborted \in BOOLEAN
  /\ pc \in [Clients -> {"idle", "connect", "acquire", "wait", "woken"}]
  /\ op \in [Clients -> Blocking \cup {"none"}]
  /\ arg \in [Clients -> Values \cup {NoValue}]
  /\ res \in [Clients -> Results]
  /\ m_sem \in {0, 1}
  /\ m_t \in Values \cup {NoValue}
  /\ m_blocking_op \in Blocking \cup {"NONE"}
  /\ req \in Values \cup {NoValue} /\ rsp \in Values \cup {NoValue}
  /\ proc \in {"none", "waiting", "runnable", "performed"}

Init ==
  /\ BoxesInit
  /\ use \in Uses
  \* SystemVerilog processes call when the bindings have been resolved.
  /\ m_connected = ~FromSystemC
  /\ aborted = FALSE
  /\ pc = [c \in Clients |-> "idle"]
  /\ op = [c \in Clients |-> "none"]
  /\ arg = [c \in Clients |-> NoValue]
  /\ res = [c \in Clients |-> NoValue]
  /\ m_sem = 1 /\ m_t = NoValue
  /\ m_blocking_op = "NONE" /\ req = NoValue /\ rsp = NoValue
  /\ proc = IF FromSystemC THEN "waiting" ELSE "none"

\* uvmc_proxy_base::notify_connected, when the bindings are resolved.
NotifyConnected ==
  /\ ~m_connected
  /\ m_connected' = TRUE
  /\ UNCHANGED <<boxes, use, aborted, clientVars, m_sem, m_t, procVars>>

-----------------------------------------------------------------------------
(***************************************************************************)
(* The calling processes                                                   *)
(***************************************************************************)

\* peek is the only method of the channel that does not wait until the proxy is
\* connected.
WaitsConnected(o) == FromSystemC /\ o # "peek"

Start(c, o, v) ==
  /\ pc[c] = "idle"
  /\ o \in use.ops
  /\ pc' = [pc EXCEPT ![c] = IF WaitsConnected(o) THEN "connect" ELSE "acquire"]
  /\ op' = [op EXCEPT ![c] = o]
  /\ arg' = [arg EXCEPT ![c] = v]
  /\ res' = [res EXCEPT ![c] = NoValue]
  /\ UNCHANGED <<boxes, use, m_connected, aborted, m_sem, m_t, procVars>>

WaitConnected(c) ==
  /\ pc[c] = "connect" /\ m_connected
  /\ pc' = [pc EXCEPT ![c] = "acquire"]
  /\ UNCHANGED <<boxes, use, m_connected, aborted, op, arg, res, m_sem, m_t, procVars>>

\* (Bug variant, not the code: the semaphore is not looked at.)
SemaphoreIgnored == TRUE

SemaphoreFree == m_sem > 0

\* (Bug variant, not the code: the process is notified and never spawned.)
OnlyNotified == proc = "waiting" /\ m_blocking_op = "NONE"

\* A request wakes the process of the other side: in SystemVerilog it waits for a
\* change of m_blocking_op, in SystemC it is spawned by the first request and notified
\* by the others.
Wakes ==
  \/ FromSystemC /\ proc = "waiting" /\ m_blocking_op = "NONE"
  \/ ~FromSystemC /\ proc \in {"none", "waiting"}

\* Without a counterpart m_x_id is 0, and C2SV_peek ends the simulation, whatever the
\* caller has done so far.
Abort ==
  /\ aborted' = TRUE
  /\ UNCHANGED <<boxes, use, m_connected, clientVars, m_sem, m_t, procVars>>

\* C2SV_put and x_put, and the same for the other methods and the other direction.
Issue(c) ==
  /\ pc[c] = "acquire" /\ SemaphoreFree
  /\ IF ~m_connected
     THEN Abort
     ELSE /\ m_sem' = m_sem - 1
          /\ req' = IF op[c] \in Sends THEN arg[c] ELSE req
          /\ m_t' = IF ~FromSystemC /\ op[c] \in Sends THEN arg[c] ELSE m_t
          /\ m_blocking_op' = op[c]
          /\ proc' = IF Wakes THEN "runnable" ELSE proc
          /\ pc' = [pc EXCEPT ![c] = "wait"]
          /\ UNCHANGED <<boxes, use, m_connected, aborted, op, arg, res, rsp>>

\* After the event: the response is copied out of m_t.
Finish(c) ==
  /\ pc[c] = "woken"
  /\ res' = [res EXCEPT ![c] = IF op[c] \in Returns THEN m_t ELSE NoValue]
  /\ m_sem' = m_sem + 1
  /\ pc' = [pc EXCEPT ![c] = "idle"]
  /\ op' = [op EXCEPT ![c] = "none"]
  /\ arg' = [arg EXCEPT ![c] = NoValue]
  /\ UNCHANGED <<boxes, use, m_connected, aborted, m_t, procVars>>

\* The transaction a try leaves in m_bits of SystemVerilog.
Packed(o, v) == IF o \in Sends THEN v ELSE Answer(o, v)

\* nb_put, nb_get and nb_peek, or try_*: can_* first, then the call itself.  Nothing is
\* tried while a blocking call is under way.
Try(c, o, v) ==
  /\ pc[c] = "idle"
  /\ TryOf[o] \in use.ops
  /\ IF m_connected /\ SemaphoreFree /\ Offers(CanOf[o]) /\ CanPerform(o)
     THEN /\ Offers(NbOf[o])
          /\ Perform(o, v)
          /\ res' = [res EXCEPT ![c] = Answer(o, v)]
          /\ m_t' = IF FromSystemC THEN m_t ELSE Packed(o, v)
     ELSE /\ res' = [res EXCEPT ![c] = Refused]
          /\ UNCHANGED <<boxes, m_t>>
  /\ UNCHANGED <<use, m_connected, aborted, pc, op, arg, m_sem, procVars>>

\* The analysis write: not under the semaphore.  A subscriber never blocks; the guard
\* only bounds what it has recorded.
Write(c, v) ==
  /\ pc[c] = "idle"
  /\ "write" \in use.ops
  /\ CanPerform("put")
  /\ IF Offers("write") THEN Perform("put", v) ELSE UNCHANGED boxes
  /\ m_t' = v
  /\ res' = [res EXCEPT ![c] = NoValue]
  /\ UNCHANGED <<use, m_connected, aborted, pc, op, arg, m_sem, procVars>>

-----------------------------------------------------------------------------
(***************************************************************************)
(* blocking_sync_process on the other side                                 *)
(***************************************************************************)

\* A method the port does not override does nothing and returns at once.
ProcPerform ==
  /\ proc = "runnable"
  /\ IF Offers(m_blocking_op)
     THEN /\ Perform(m_blocking_op, req)
          /\ rsp' = Answer(m_blocking_op, req)
     ELSE UNCHANGED <<boxes, rsp>>
  /\ proc' = "performed"
  /\ UNCHANGED <<use, m_connected, aborted, clientVars, m_sem, m_t, m_blocking_op, req>>

\* (Bug variant, not the code: the process waits again without resetting
\* m_blocking_op, so that the same operation is no change the next time.)
NoReset == m_blocking_op

\* Only the SystemVerilog process resets m_blocking_op.
Reset == IF FromSystemC THEN "NONE" ELSE m_blocking_op

\* The event is notified: everyone who waits at this moment.
BlockingOpDone == [c \in Clients |-> IF pc[c] = "wait" THEN "woken" ELSE pc[c]]

\* blocking_req_done, or blocking_rsp_done with the response.
ProcDone ==
  /\ proc = "performed"
  /\ m_t' = IF m_blocking_op \in Returns THEN rsp ELSE m_t
  /\ pc' = BlockingOpDone
  /\ m_blocking_op' = Reset
  /\ proc' = "waiting"
  /\ UNCHANGED <<boxes, use, m_connected, aborted, op, arg, res, m_sem, req, rsp>>

ObjectWorks ==
  /\ Work
  /\ UNCHANGED <<use, m_connected, aborted, clientVars, m_sem, m_t, procVars>>

ClientStep(c) == WaitConnected(c) \/ Issue(c) \/ Finish(c)

Next ==
  /\ ~aborted
  /\ \/ NotifyConnected
     \/ ProcPerform
     \/ ProcDone
     \/ ObjectWorks
     \/ \E c \in Clients :
          \/ \E o \in Blocking : \E v \in Arguments(o) : Start(c, o, v)
          \/ ClientStep(c)
          \/ \E o \in NonBlocking : \E v \in Arguments(o) : Try(c, o, v)
          \/ \E v \in Values : Write(c, v)

Spec == Init /\ [][Next]_vars

\* Both kernels run every process that can run.  Nothing is assumed of the callers
\* that wait for the semaphore: which of them gets it is not said.
Fairness ==
  /\ WF_vars(~aborted /\ ProcPerform)
  /\ WF_vars(~aborted /\ ProcDone)
  /\ WF_vars(~aborted /\ Consume /\ ObjectWorks)
  /\ WF_vars(~aborted /\ (\E v \in Values : Produce(v)) /\ ObjectWorks)
  /\ \A c \in Clients : WF_vars(~aborted /\ Finish(c))

FairSpec == Spec /\ Fairness

-----------------------------------------------------------------------------
(***************************************************************************)
(* Properties                                                              *)
(***************************************************************************)

Holds(c) == pc[c] \in {"wait", "woken"}

\* The proxy has one event, one response and one operation for all its callers: at
\* most one call is between the two halves, and the semaphore says whether one is.
OneCallInFlight ==
  /\ \A c, d \in Clients : Holds(c) /\ Holds(d) => c = d
  /\ m_sem = 0 <=> \E c \in Clients : Holds(c)

\* A call that waits is one the other side works on, with the caller's own method
\* and transaction: no request is lost on the way to the process that performs it,
\* and no process works for nobody.
CallIsWorkedOn ==
  /\ (\E c \in Clients : pc[c] = "wait") <=> proc \in {"runnable", "performed"}
  /\ \A c \in Clients : pc[c] = "wait" =>
       /\ m_blocking_op = op[c]
       /\ op[c] \in Sends => req = arg[c]

\* The response of the caller that was woken stays in m_t until it has copied it,
\* whoever else calls in between, blocking or not.
Performed(c) == pc[c] = "woken" \/ (pc[c] = "wait" /\ proc = "performed")

callBar ==
  [c \in Clients |-> IF pc[c] = "idle" THEN "idle"
                     ELSE IF Performed(c) THEN "done"
                     ELSE "called"]

resBar ==
  [c \in Clients |-> IF ~Performed(c) THEN res[c]
                     ELSE IF op[c] \notin Returns THEN NoValue
                     ELSE IF pc[c] = "woken" THEN m_t ELSE rsp]

Remote == INSTANCE RemoteObject WITH open <- m_connected, call <- callBar, res <- resBar

\* Every method that is called is there, which the binding sees to but for the masters'
\* and slaves; and what an analysis port calls is only the write.
UsesFit ==
  \A u \in Uses :
    /\ u.ops \cap Blocking \subseteq Overridden[u.port]
    /\ \A o \in NonBlocking : TryOf[o] \in u.ops => CanOf[o] \in Overridden[u.port]
    /\ "write" \in u.ops =>
         u.ops = {"write"} /\ "write" \in Overridden[u.port] /\ u.port # "channel"

\* Through the proxies the object behaves as if it were on the caller's side: one
\* effect per call, with the caller's transaction and the caller's answer.
ImplementsRemoteObject == Remote!Spec

\* Once the request has gone out the call returns, as soon as the object can
\* perform it: neither the request nor the event is missed.
CallsReturn ==
  \A c \in Clients : pc[c] = "wait" ~> pc[c] = "idle" \/ aborted

\* A put that the process of the other side has performed has reached the object.
PutReachesObject ==
  [][ProcPerform /\ m_blocking_op = "put" => inbox' = Append(inbox, req)]_vars
=============================================================================
