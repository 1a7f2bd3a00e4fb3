------------------------------ MODULE UvmcTlm2 ------------------------------
(***************************************************************************)
(* TLM2 calls across the language boundary: uvmc_tlm2_channel_proxy and    *)
(* uvmc_target_socket of uvmc_channels.h, uvmc_tlm2_port_proxy and         *)
(* uvmc_initiator_socket of uvmc_ports.h, and uvmc_tlm2_dispatch of        *)
(* uvmc_tlm2.sv.                                                           *)
(*                                                                         *)
(* b_transport crosses in two halves, like the blocking calls of TLM1: the *)
(* request is unpacked into a payload of the other side, a process there   *)
(* calls the target, and the response comes back with a second DPI call.   *)
(* nb_transport_fw crosses in one call; the payload it is unpacked into    *)
(* stays with the proxy, because the target may keep the reference and     *)
(* answer later with nb_transport_bw, which hands the initiator a copy.    *)
(* The SystemC proxy tests a pointer to that payload, m_nb_t, which its    *)
(* constructor has not written, and deletes the payload when the target    *)
(* answers END_REQ.  What is kept in such memory may be overwritten, and   *)
(* the target finds any of Garbage there.  It may also crash: a behaviour  *)
(* may end before each of the steps of nb_transport.                       *)
(***************************************************************************)
EXTENDS GenericPayload, Integers

CONSTANTS
  Clients,   (* The initiators.                                              *)
  Payloads,  (* The payloads they send.                                      *)
  NoDelay,   (* A delay that was not computed from the target's.             *)
  NoClient,  (* Nobody's transaction is outstanding.                         *)
  Latency,   (* Latency[cmd]: what the target adds to the delay.             *)
  MaxDelay,  (* A bound of the delays.                                       *)
  Garbage    (* Payloads found in memory that is not the proxy's.            *)

\* Nobody but the converter allocates arrays for it.
ASSUME PayloadsAssumption ==
  Payloads \subseteq {p \in GenericPayloads : p.data.ptr # "new" /\ p.be.ptr # "new"}
ASSUME GarbageAssumption == Garbage \subseteq GenericPayloads
ASSUME NoClientAssumption == NoClient \notin Clients
ASSUME DelayAssumption ==
  /\ MaxDelay \in Nat /\ NoDelay \notin Nat
  /\ Latency \in [Commands -> 0 .. MaxDelay]

VARIABLES
  caller,        (* The language of the initiators: "SC" or "SV".            *)
  target,        (* The interface of the target: "b", "nb" or "write".       *)
  mem,           (* The target, a memory of one byte.                        *)
  m_connected,   (* The proxy has found its counterpart.                     *)
  pc,            (* Where the b_transport of each initiator is.              *)
  trans, delay,  (* Its payload and its delay.                               *)
  m_sem,         (* The semaphore of the proxy, 1 when free.                 *)
  m_bits,        (* The response while it waits for the initiator.           *)
  m_blocking_op, (* The operation to perform.                                *)
  proc,          (* Where blocking_sync_process is.                          *)
  m_t, m_delay,  (* The other side's payload and delay.                      *)
  out,           (* The initiator of the outstanding nb_transport_fw.        *)
  stage,         (* Where that is.                                           *)
  held,          (* The payload the target keeps, when it is no longer m_t.  *)
  astray         (* m_nb_t points at memory that nobody has allocated for it.*)

bVars == <<pc, m_sem, m_bits, m_blocking_op, proc>>
nbVars == <<out, stage, held, astray>>
vars == <<caller, target, mem, m_connected, trans, delay, m_t, m_delay, bVars, nbVars>>

NoBits == <<>>
NoPayload == <<>>

IsBits(s) == s = NoBits \/ Unpack(FreshPayload, s) \in GenericPayloads

Delays == 0 .. MaxDelay

TypeOK ==
  /\ caller \in {"SC", "SV"} /\ target \in {"b", "nb", "write"}
  /\ mem \in Bytes
  /\ m_connected \in BOOLEAN
  /\ pc \in [Clients -> {"idle", "connect", "acquire", "wait", "woken"}]
  /\ trans \in [Clients -> GenericPayloads]
  /\ delay \in [Clients -> Delays \cup {NoDelay}]
  /\ m_sem \in {0, 1}
  /\ IsBits(m_bits)
  /\ m_blocking_op \in {"NONE", "B_TRANSPORT"}
  /\ proc \in {"none", "waiting", "runnable", "performed"}
  /\ m_t \in GenericPayloads /\ m_delay \in Delays
  /\ out \in Clients \cup {NoClient}
  /\ stage \in {"none", "held", "answered"}
  /\ held \in GenericPayloads \cup {NoPayload}
  /\ astray \in BOOLEAN

Init ==
  /\ caller \in {"SC", "SV"}
  /\ target \in {"b", "nb"} \cup IF caller = "SC" THEN {"write"} ELSE {}
  /\ mem \in Bytes
  \* SystemVerilog initiators run when the bindings have been resolved.
  /\ m_connected = (caller = "SV")
  /\ pc = [c \in Clients |-> "idle"]
  /\ trans = [c \in Clients |-> FreshPayload]
  /\ delay = [c \in Clients |-> 0]
  /\ m_sem = 1 /\ m_bits = NoBits
  /\ m_blocking_op = "NONE"
  /\ proc = IF caller = "SC" THEN "waiting" ELSE "none"
  \* The first request finds m_nb_t as NULL, and allocates a payload, or as anything.
  /\ astray \in IF caller = "SV" /\ target = "nb" THEN BOOLEAN ELSE {FALSE}
  /\ m_t \in IF astray THEN Garbage ELSE {FreshPayload}
  /\ m_delay = 0
  /\ out = NoClient /\ stage = "none" /\ held = NoPayload

\* uvmc_proxy_base::notify_connected.
NotifyConnected ==
  /\ ~m_connected
  /\ m_connected' = TRUE
  /\ UNCHANGED <<caller, target, mem, trans, delay, m_t, m_delay, bVars, nbVars>>

-----------------------------------------------------------------------------
(***************************************************************************)
(* b_transport                                                             *)
(***************************************************************************)

\* The target performs a payload in place.
Stored(p) == IF p.cmd = "write" /\ p.data.bytes # <<>> THEN p.data.bytes[1] ELSE mem

Served(p) ==
  [p EXCEPT !.status = "ok",
            !.data.bytes = IF p.cmd = "read" /\ @ # <<>> THEN [@ EXCEPT ![1] = mem] ELSE @]

BTransport(c, p) ==
  /\ target = "b"
  /\ pc[c] = "idle"
  /\ pc' = [pc EXCEPT ![c] = IF caller = "SC" THEN "connect" ELSE "acquire"]
  /\ trans' = [trans EXCEPT ![c] = p]
  /\ delay' = [delay EXCEPT ![c] = 0]
  /\ UNCHANGED <<caller, target, mem, m_connected, m_t, m_delay, m_sem, m_bits,
                 m_blocking_op, proc, nbVars>>

WaitConnected(c) ==
  /\ pc[c] = "connect" /\ m_connected
  /\ pc' = [pc EXCEPT ![c] = "acquire"]
  /\ UNCHANGED <<caller, target, mem, m_connected, trans, delay, m_t, m_delay, m_sem,
                 m_bits, m_blocking_op, proc, nbVars>>

SemaphoreFree == m_sem > 0

\* SystemVerilog unpacks every request into a new payload; the SystemC proxy has one
\* for all of them.
ForRequest == IF caller = "SC" THEN FreshPayload ELSE m_t

\* (Bug variant, not the code: the process is notified and never spawned.)
OnlyNotified == proc = "waiting" /\ m_blocking_op = "NONE"

\* In SystemVerilog the process waits for a change of m_blocking_op, in SystemC it is
\* spawned by the first request and notified by the others.
Wakes ==
  IF caller = "SC" THEN proc = "waiting" /\ m_blocking_op = "NONE"
                   ELSE proc \in {"none", "waiting"}

RequestDelay(c) == delay[c]

\* x_b_transport of the other side, and m_t = &trans.
Issue(c) ==
  /\ pc[c] = "acquire" /\ SemaphoreFree
  /\ m_sem' = m_sem - 1
  /\ m_t' = Unpack(ForRequest, Pack(trans[c]))
  /\ m_delay' = RequestDelay(c)
  /\ m_blocking_op' = "B_TRANSPORT"
  /\ proc' = IF Wakes THEN "runnable" ELSE proc
  /\ pc' = [pc EXCEPT ![c] = "wait"]
  /\ UNCHANGED <<caller, target, mem, m_connected, trans, delay, m_bits, nbVars>>

\* The target performs the payload and adds to its delay.
Perform ==
  /\ proc = "runnable"
  /\ mem' = Stored(m_t)
  /\ m_t' = Served(m_t)
  /\ m_delay' = m_delay + Latency[m_t.cmd]
  /\ proc' = "performed"
  /\ UNCHANGED <<caller, target, m_connected, trans, delay, pc, m_sem, m_bits,
                 m_blocking_op, nbVars>>

\* (Bug variant, not the code: m_blocking_op is not reset.)
NotReset == m_blocking_op

\* Only the SystemVerilog process resets m_blocking_op.
Reset == IF caller = "SC" THEN "NONE" ELSE m_blocking_op

\* The initiator in whose payload the response is unpacked: m_t of the channel.
Waiting == {c \in Clients : pc[c] = "wait"}

\* blocking_rsp_done.  A SystemC initiator's payload is unpacked by the process that
\* brings the response, that of a SystemVerilog one by itself, out of m_bits.
RspDone ==
  /\ proc = "performed"
  /\ IF caller = "SC"
     THEN /\ trans' = [c \in Clients |-> IF c \in Waiting THEN Unpack(trans[c], Pack(m_t))
                                                          ELSE trans[c]]
          /\ UNCHANGED m_bits
     ELSE /\ m_bits' = Pack(m_t)
          /\ UNCHANGED trans
  /\ pc' = [c \in Clients |-> IF c \in Waiting THEN "woken" ELSE pc[c]]
  /\ m_blocking_op' = Reset
  /\ proc' = "waiting"
  /\ UNCHANGED <<caller, target, mem, m_connected, delay, m_t, m_delay, m_sem, nbVars>>

Finish(c) ==
  /\ pc[c] = "woken"
  /\ trans' = IF caller = "SC" THEN trans
              ELSE [trans EXCEPT ![c] = Unpack(trans[c], m_bits)]
  /\ delay' = [delay EXCEPT ![c] = m_delay]
  /\ m_bits' = NoBits
  /\ m_sem' = m_sem + 1
  /\ pc' = [pc EXCEPT ![c] = "idle"]
  /\ UNCHANGED <<caller, target, mem, m_connected, m_t, m_delay, m_blocking_op, proc,
                 nbVars>>

-----------------------------------------------------------------------------
(***************************************************************************)
(* nb_transport                                                            *)
(***************************************************************************)

\* The payload of the proxy after a phase: it is given up when the phase that comes
\* back is 2, which is TLM_COMPLETED as an answer and END_REQ as a phase.
AfterPhase(p, phase) == IF phase = "END_REQ" THEN FreshPayload ELSE p

\* The delay of a SystemC initiator is read out of a pointer.
NbDelay(cmd) == IF caller = "SC" THEN NoDelay ELSE Latency[cmd]

\* nb_transport_fw with BEGIN_REQ.  Only one transaction is outstanding: that is all
\* the converter supports.  The target performs it at once and answers TLM_COMPLETED,
\* or keeps the payload and answers TLM_ACCEPTED, or TLM_UPDATED with END_REQ.  At
\* END_REQ the SystemVerilog proxy drops its handle; the SystemC proxy deletes the
\* payload and has m_nb_t as NULL.
NbRequest(c, p) ==
  /\ target = "nb"
  /\ out = NoClient
  /\ LET r == Unpack(m_t, Pack(p))
     IN IF ~m_connected
        THEN /\ trans' = [trans EXCEPT ![c] = p]
             /\ delay' = [delay EXCEPT ![c] = 0]
             /\ UNCHANGED <<mem, m_t, nbVars>>
        ELSE /\ delay' = [delay EXCEPT ![c] = NbDelay(p.cmd)]
             /\ \/ /\ mem' = Stored(r)
                   /\ m_t' = Served(r)
                   /\ trans' = [trans EXCEPT ![c] = Unpack(p, Pack(Served(r)))]
                   /\ UNCHANGED nbVars
                \/ \E phase \in {"BEGIN_REQ", "END_REQ"} :
                     /\ m_t' = AfterPhase(r, phase)
                     /\ trans' = [trans EXCEPT ![c] = Unpack(p, Pack(r))]
                     /\ out' = c /\ stage' = "held"
                     /\ held' = IF phase = "END_REQ" THEN r ELSE NoPayload
                     /\ astray' = (astray /\ phase # "END_REQ")
                     /\ UNCHANGED mem
  /\ UNCHANGED <<caller, target, m_connected, m_delay, bVars>>

\* An initiator takes the response out of the copy it is handed.
Answered(p, x) == [p EXCEPT !.status = x.status, !.data.bytes = x.data.bytes]

\* (Bug variant, not the code: the target finds its payload in the proxy.)
ProxysPayload == m_t

\* The payload the target keeps.
Kept == IF held = NoPayload THEN m_t ELSE held

\* It is in memory that somebody else may write: deleted, or never allocated.
Loose == caller = "SV" /\ (held # NoPayload \/ astray)

\* What the target finds in the payload it keeps.
Found == {Kept} \cup IF Loose THEN Garbage ELSE {}

\* nb_transport_bw with BEGIN_RESP.  The other side unpacks it into a payload of its own.
NbResponse ==
  /\ stage = "held"
  /\ \E k \in Found :
       /\ mem' = Stored(k)
       /\ IF held = NoPayload THEN m_t' = Served(k) /\ UNCHANGED held
                              ELSE held' = Served(k) /\ UNCHANGED m_t
       /\ trans' = [trans EXCEPT ![out] =
                      Answered(@, Unpack(FreshPayload, Pack(Served(k))))]
  /\ stage' = "answered"
  /\ UNCHANGED <<caller, target, m_connected, delay, m_delay, out, astray, bVars>>

\* The initiator has answered TLM_COMPLETED, or ends the response with a call of its
\* own, which is unpacked into the payload of the proxy.
NbEnd(c) ==
  /\ stage = "answered" /\ out = c
  /\ m_t' \in {m_t, Unpack(m_t, Pack(trans[c]))}
  /\ out' = NoClient /\ stage' = "none" /\ held' = NoPayload
  /\ UNCHANGED <<caller, target, mem, m_connected, trans, delay, m_delay, astray, bVars>>

-----------------------------------------------------------------------------

\* write of the channel: an analysis port of the SystemC side.
Write(c, p) ==
  /\ target = "write"
  /\ mem' = IF m_connected THEN Stored(Unpack(FreshPayload, Pack(p))) ELSE mem
  /\ UNCHANGED <<caller, target, m_connected, trans, delay, m_t, m_delay, bVars, nbVars>>

Next ==
  \/ NotifyConnected
  \/ Perform
  \/ RspDone
  \/ NbResponse
  \/ \E c \in Clients :
       \/ WaitConnected(c) \/ Issue(c) \/ Finish(c) \/ NbEnd(c)
       \/ \E p \in Payloads : BTransport(c, p) \/ NbRequest(c, p) \/ Write(c, p)

Spec == Init /\ [][Next]_vars

\* Both kernels run every process that can run.  Nothing is assumed of the initiators
\* that wait for the semaphore.
Fairness ==
  /\ WF_vars(Perform)
  /\ WF_vars(RspDone)
  /\ \A c \in Clients : WF_vars(Finish(c))

FairSpec == Spec /\ Fairness

-----------------------------------------------------------------------------
(***************************************************************************)
(* Properties                                                              *)
(***************************************************************************)

\* The process of the other side works on the request of the initiator that waits, as
\* that initiator sent it; it works for nobody else and no request is forgotten.
RequestArrives ==
  /\ proc \in {"runnable", "performed"} <=> Waiting # {}
  /\ proc = "runnable" =>
       \A c \in Waiting : View(m_t) = View(trans[c]) /\ m_delay = delay[c]

\* An initiator that gave an array for its data finds the response in that array: the
\* converter does not put another one into its payload.
OwnArrayKept ==
  \A c \in Clients : trans[c].data.ptr # "new" /\ trans[c].be.ptr # "new"

\* What the initiator gets to see of its transport when the process is done with it.
Responding(c) == pc[c] = "wait" /\ proc = "performed"
InBits(c) == pc[c] = "woken" /\ caller = "SV"

callBar ==
  [c \in Clients |->
     IF Responding(c) \/ pc[c] = "woken" \/ (out = c /\ stage = "answered") THEN "done"
     ELSE IF out = c /\ stage = "held" /\ Loose THEN "loose"
     ELSE IF pc[c] # "idle" \/ (out = c /\ stage = "held") THEN "called"
     ELSE "idle"]

trBar ==
  [c \in Clients |-> IF Responding(c) THEN View(Unpack(trans[c], Pack(m_t)))
                     ELSE IF InBits(c) THEN View(Unpack(trans[c], m_bits))
                     ELSE View(trans[c])]

dlBar ==
  [c \in Clients |-> IF target = "nb" THEN NoDelay
                     ELSE IF Responding(c) \/ pc[c] = "woken" THEN m_delay
                     ELSE delay[c]]

Remote ==
  INSTANCE RemoteMemory WITH
    Transactions <- {View(p) : p \in Payloads},
    native <- caller = "SV", open <- m_connected, call <- callBar, tr <- trBar, dl <- dlBar

\* Through the proxies a target behaves as if it were on the initiator's side: one
\* effect per transport, with the initiator's own data, response and delay.  Only the
\* late answer of a SystemC target whose payload is loose (it had answered END_REQ and
\* x_nb_transport_fw has deleted the payload, or m_nb_t was never allocated) is
\* undefined, and it disturbs no other transport.
ImplementsRemoteMemory == Remote!Spec

\* A b_transport whose request has gone out returns: neither the process of the other
\* side nor the initiator misses the event it waits for.
TransportsReturn ==
  \A c \in Clients : pc[c] = "wait" ~> pc[c] = "idle"
=============================================================================
