----------------------------- MODULE UvmcBinding ----------------------------
(***************************************************************************)
(* How UVM Connect pairs the two sides.  Each uvmc_connect makes a proxy   *)
(* and enters it under its name and its lookup string in the registry of   *)
(* its side: the constructors of uvmc_proxy_base (uvmc_common.cpp) and of  *)
(* uvmc_base (uvmc_common.sv).  Two proxies of one side under one string   *)
(* are connected with each other.  At the end of elaboration every proxy of*)
(* the SystemVerilog side that is not yet connected looks for its          *)
(* counterpart with SV2C_resolve_binding (uvmc_connect.cpp); SystemC       *)
(* processes that call through a channel before that wait for it.          *)
(*                                                                         *)
(* An id is a position in m_proxies or in x_ports, 0 is none: the proxy    *)
(* at position 0 is NULL on both sides.                                    *)
(***************************************************************************)
EXTENDS Integers, Sequences, FiniteSets, TLC

CONSTANTS
  Sc,       (* The objects passed to uvmc_connect in SystemC.                *)
  Sv,       (* The ports passed to connect in SystemVerilog.                 *)
  Strings,  (* Names and lookup strings.                                     *)
  NoLookup, (* No lookup string.                                             *)
  Designs,  (* The designs: what the objects and ports are that they have.   *)
  Callers   (* The SystemC processes that call through the objects.          *)

ASSUME StringsAssumption == NoLookup \notin Strings
ASSUME SidesAssumption == Sc \cap Sv = {} /\ IsFiniteSet(Sc) /\ IsFiniteSet(Sv)
ASSUME DesignsAssumption ==
  \A d \in Designs : \A p \in DOMAIN d :
    /\ d[p].name \in Strings /\ d[p].lookup \in Strings \cup {NoLookup}
    /\ p \in Sc => d[p].object \in {"port", "export", "interface", "tlm2_port", "tlm2_export",
                                     "tlm2_interface", "initiator_socket", "target_socket"}

-----------------------------------------------------------------------------
(***************************************************************************)
(* What is connected                                                       *)
(***************************************************************************)

\* The bits of the masks.
PrimitiveMasks ==
  [blocking_put |-> {0}, blocking_get |-> {1}, blocking_peek |-> {2}, transport |-> {3},
   nonblocking_put |-> {4}, nonblocking_get |-> {5}, nonblocking_peek |-> {6},
   analysis |-> {8},
   fw_nonblocking_transport |-> {0}, bw_nonblocking_transport |-> {1},
   blocking_transport |-> {2}]

CombinationMasks ==
  [put |-> {0, 4}, get |-> {1, 5}, peek |-> {2, 6},
   blocking_get_peek |-> {1, 2}, nonblocking_get_peek |-> {5, 6}, get_peek |-> {1, 2, 5, 6},
   blocking_master |-> {0, 1, 2, 9}, nonblocking_master |-> {4, 5, 6, 9},
   master |-> {0, 1, 2, 4, 5, 6, 9},
   blocking_slave |-> {0, 1, 2, 10}, nonblocking_slave |-> {4, 5, 6, 10},
   slave |-> {0, 1, 2, 4, 5, 6, 10},
   socket |-> {0, 1, 2}]

Mask == PrimitiveMasks @@ CombinationMasks

\* Which proxy an overload of uvmc_connect, or of uvmc_connect_hier, makes: a channel
\* takes calls from SystemC, a port hands calls on to SystemC.
Tlm1PortProxy(hier) == IF hier THEN "port" ELSE "channel"
Tlm1ExportProxy(hier) == IF hier THEN "channel" ELSE "port"
Tlm1InterfaceProxy == "port"
Tlm2PortProxy(hier) == IF hier THEN "port" ELSE "channel"
Tlm2ExportProxy(hier) == IF hier THEN "channel" ELSE "port"
Tlm2InterfaceProxy == "port"
SocketProxy(isInitiator, hier) == IF isInitiator = hier THEN "port" ELSE "channel"

ScKind(d) ==
  CASE d.object = "port" -> Tlm1PortProxy(d.hier)
    [] d.object = "export" -> Tlm1ExportProxy(d.hier)
    [] d.object = "interface" -> Tlm1InterfaceProxy
    [] d.object = "tlm2_port" -> Tlm2PortProxy(d.hier)
    [] d.object = "tlm2_export" -> Tlm2ExportProxy(d.hier)
    [] d.object = "tlm2_interface" -> Tlm2InterfaceProxy
    [] d.object = "initiator_socket" -> SocketProxy(TRUE, d.hier)
    [] d.object = "target_socket" -> SocketProxy(FALSE, d.hier)

\* The proxy of a port implements it; that of an export or an imp drives it.
SvKind(d) == IF d.object = "port" THEN "imp" ELSE "port"

-----------------------------------------------------------------------------

VARIABLES
  design,      (* The design of this run: never changes.                     *)
  m_proxies, m_proxy_names, (* The registry of the SystemC side.             *)
  m_id, m_x_id, m_connected, m_locally_connected, (* Per SystemC proxy.      *)
  x_ports, x_port_names,    (* The registry of the SystemVerilog side.       *)
  sv_x_id, x_connected, sv_local, (* Per SystemVerilog proxy: m_x_id, ...    *)
  fatal,       (* The simulation ended with uvm_fatal.                       *)
  caller       (* Where each calling process is.                             *)

scVars == <<m_proxies, m_proxy_names, m_id, m_x_id, m_connected, m_locally_connected>>
svVars == <<x_ports, x_port_names, sv_x_id, x_connected, sv_local>>
Objects == Sc \cap DOMAIN design
Ports == Sv \cap DOMAIN design

vars == <<design, scVars, svVars, fatal, caller>>

Registered(p, registry) == \E i \in DOMAIN registry : registry[i] = p
IdOf(p, registry) == CHOOSE i \in DOMAIN registry : registry[i] = p

TypeOK ==
  /\ m_proxies \in Seq(Sc) /\ x_ports \in Seq(Sv)
  /\ m_proxy_names \in [Strings -> 0..Len(m_proxies)]
  /\ x_port_names \in [Strings -> 0..Len(x_ports)]
  /\ m_id \in [Sc -> {-1} \cup 1..Len(m_proxies)]
  /\ m_x_id \in [Sc -> 0..Len(m_proxies) \cup 0..Len(x_ports)]
  /\ m_connected \in [Sc -> BOOLEAN] /\ m_locally_connected \in [Sc -> BOOLEAN]
  /\ sv_x_id \in [Sv -> {-1} \cup 0..Len(m_proxies) \cup 0..Len(x_ports)]
  /\ x_connected \in [Sv -> {"no", "bound", "failed"}] /\ sv_local \in [Sv -> BOOLEAN]
  /\ fatal \in BOOLEAN
  /\ caller \in [Callers -> {"idle", "through"} \cup Sc]

Init ==
  /\ design \in Designs
  /\ m_proxies = <<>> /\ x_ports = <<>>
  /\ m_proxy_names = [s \in Strings |-> 0] /\ x_port_names = [s \in Strings |-> 0]
  /\ m_id = [p \in Sc |-> -1] /\ m_x_id = [p \in Sc |-> 0]
  /\ m_connected = [p \in Sc |-> FALSE] /\ m_locally_connected = [p \in Sc |-> FALSE]
  /\ sv_x_id = [q \in Sv |-> 0] /\ x_connected = [q \in Sv |-> "no"]
  /\ sv_local = [q \in Sv |-> FALSE]
  /\ fatal = FALSE
  /\ caller = [c \in Callers |-> "idle"]

-----------------------------------------------------------------------------
(***************************************************************************)
(* Registration                                                            *)
(***************************************************************************)

Entry(names, s) == IF s = NoLookup THEN 0 ELSE names[s]

\* The id of the proxy that is registered next: m_proxies.size(), with the NULL.
NextId(registry) == Len(registry) + 1

\* (Bug variant, not the code: only the name is looked up.)
ByName(names, d) == Entry(names, d.name)

\* The proxy already registered under the name, else under the lookup string.
Existing(names, d) ==
  IF Entry(names, d.name) # 0 THEN Entry(names, d.name) ELSE Entry(names, d.lookup)

Enter(names, strings, id) == [s \in Strings |-> IF s \in strings THEN id ELSE names[s]]

\* The constructor of a SystemC proxy.  If the proxy it finds is bound already, the
\* new one is left out of the registry.
ScNew(p) ==
  LET d == design[p]
      id == NextId(m_proxies)
      old == Existing(m_proxy_names, d)
  IN
  /\ ~Registered(p, m_proxies)
  /\ IF old = 0
     THEN /\ m_id' = [m_id EXCEPT ![p] = id]
          /\ m_proxies' = Append(m_proxies, p)
          /\ m_proxy_names' = Enter(m_proxy_names, {d.name, d.lookup}, id)
          /\ UNCHANGED <<m_x_id, m_locally_connected>>
     ELSE /\ m_x_id[m_proxies[old]] = 0
          /\ m_proxies' = Append(m_proxies, p)
          /\ m_proxy_names' = Enter(m_proxy_names, {d.name}, id)
          /\ m_x_id' = [m_x_id EXCEPT ![p] = old, ![m_proxies[old]] = id]
          /\ m_locally_connected' =
               [m_locally_connected EXCEPT ![p] = TRUE, ![m_proxies[old]] = TRUE]
          /\ UNCHANGED m_id
  /\ UNCHANGED <<design, m_connected, svVars, fatal, caller>>

\* The constructor of a SystemVerilog proxy; a bound one is fatal.
SvNew(q) ==
  LET d == design[q]
      id == NextId(x_ports)
      old == Existing(x_port_names, d)
  IN
  /\ ~Registered(q, x_ports)
  /\ IF old = 0
     THEN /\ x_ports' = Append(x_ports, q)
          /\ x_port_names' = Enter(x_port_names, {d.name, d.lookup}, id)
          /\ UNCHANGED <<sv_x_id, sv_local, fatal>>
     ELSE IF sv_x_id[x_ports[old]] # 0
     THEN /\ fatal' = TRUE
          /\ UNCHANGED <<x_ports, x_port_names, sv_x_id, sv_local>>
     ELSE /\ x_ports' = Append(x_ports, q)
          /\ x_port_names' = Enter(x_port_names, {d.name}, id)
          /\ sv_x_id' = [sv_x_id EXCEPT ![q] = old, ![x_ports[old]] = id]
          /\ sv_local' = [sv_local EXCEPT ![q] = TRUE, ![x_ports[old]] = TRUE]
          /\ UNCHANGED fatal
  /\ UNCHANGED <<design, x_connected, scVars, caller>>

-----------------------------------------------------------------------------
(***************************************************************************)
(* Resolution                                                              *)
(***************************************************************************)

\* No proxy that could still be registered.
Left(p) == LET old == Existing(m_proxy_names, design[p])
           IN old # 0 /\ m_x_id[m_proxies[old]] # 0

Elaborated ==
  /\ \A p \in Objects : Registered(p, m_proxies) \/ Left(p)
  /\ \A q \in Ports : Registered(q, x_ports)

\* m_kind: the second proxy of a local connection never sets it.
KindOf(p) == IF m_id[p] = -1 THEN {"port", "channel", "other"} ELSE {ScKind(design[p])}

\* (Bug variant, not the code: the masks are compared in the same direction whoever
\* of the two makes the calls.)
MasksCompareOneWay(kind, mask, sv_mask) == sv_mask \subseteq mask

MasksCompatible(kind, mask, sv_mask) ==
  IF kind = "port" THEN sv_mask \subseteq mask ELSE mask \subseteq sv_mask

KindsCompatible(kind, sv_kind) ==
  ~ \/ kind = "channel" /\ sv_kind # "port"
    \/ kind = "port" /\ sv_kind = "port"

\* uvmc_proxy_base::resolve finds a proxy by the port's name, else by its lookup
\* string.
Found(q) == Existing(m_proxy_names, design[q])

\* (Bug variant, not the code: the processes that wait are not notified.)
NobodyNotified(p) == caller

\* m_connected_event.notify() wakes those who wait at this moment.
Notified(p) == [c \in Callers |-> IF caller[c] = p THEN "through" ELSE caller[c]]

Bind(q, p) ==
  /\ m_x_id' = [m_x_id EXCEPT ![p] = IdOf(q, x_ports)]
  /\ sv_x_id' = [sv_x_id EXCEPT ![q] = m_id[p]]
  /\ x_connected' = [x_connected EXCEPT ![q] = "bound"]
  /\ m_connected' = [m_connected EXCEPT ![p] = TRUE]
  /\ caller' = Notified(p)

\* *sc_id is not assigned when nothing is found: what comes back in m_x_id is what
\* the simulator's argument held.
Fail(q) ==
  /\ \E garbage \in 0..Len(m_proxies) : sv_x_id' = [sv_x_id EXCEPT ![q] = garbage]
  /\ x_connected' = [x_connected EXCEPT ![q] = "failed"]
  /\ UNCHANGED <<m_x_id, m_connected, caller>>

\* (Bug variant, not the code: a proxy that has been connected locally is resolved
\* all the same.)
AlwaysResolves(q) == x_connected[q] = "no"

\* resolve_bindings runs once, and not at all for a local connection.
ToResolve(q) == x_connected[q] = "no" /\ sv_x_id[q] = 0

Resolve(q) ==
  /\ Elaborated
  /\ ToResolve(q)
  /\ IF Found(q) = 0
     THEN Fail(q)
     ELSE LET p == m_proxies[Found(q)]
          IN \E kind \in KindOf(p) :
               IF /\ KindsCompatible(kind, SvKind(design[q]))
                  /\ MasksCompatible(kind, Mask[design[p].iface], Mask[design[q].iface])
               THEN Bind(q, p)
               ELSE Fail(q)
  /\ UNCHANGED <<design, m_proxies, m_proxy_names, m_id, m_locally_connected,
                 x_ports, x_port_names, sv_local, fatal>>

\* A process calls through a channel: wait_connected.
Call(c, p) ==
  /\ caller[c] = "idle"
  /\ Registered(p, m_proxies) /\ ScKind(design[p]) = "channel"
  /\ caller' = [caller EXCEPT ![c] = IF m_connected[p] THEN "through" ELSE p]
  /\ UNCHANGED <<design, scVars, svVars, fatal>>

Next ==
  /\ ~fatal
  /\ \/ \E p \in Objects : ScNew(p)
     \/ \E q \in Ports : SvNew(q)
     \/ \E q \in Ports : Resolve(q)
     \/ \E c \in Callers, p \in Objects : Call(c, p)

Spec == Init /\ [][Next]_vars

\* Elaboration goes through all objects and ports.
Fairness ==
  /\ WF_vars(~fatal /\ \E p \in Objects : ScNew(p))
  /\ WF_vars(~fatal /\ \E q \in Ports : SvNew(q))
  /\ WF_vars(~fatal /\ \E q \in Ports : Resolve(q))

FairSpec == Spec /\ Fairness

-----------------------------------------------------------------------------
(***************************************************************************)
(* Properties                                                              *)
(***************************************************************************)

StringsOf(p) == {design[p].name, design[p].lookup} \ {NoLookup}
Share(p, r) == p # r /\ StringsOf(p) \cap StringsOf(r) # {}

\* A design in which every object or port is meant for at most one other.
WellNamed == \A p \in Objects \cup Ports : Cardinality({r \in Objects \cup Ports : Share(p, r)}) <= 1

Fits(p, q) ==
  /\ KindsCompatible(ScKind(design[p]), SvKind(design[q]))
  /\ MasksCompatible(ScKind(design[p]), Mask[design[p].iface], Mask[design[q].iface])

IsAt(registry, i, x) == i \in DOMAIN registry /\ registry[i] = x

Bound(p, q) == x_connected[q] = "bound" /\ IsAt(m_proxies, sv_x_id[q], p)

\* The registry and its ids come to what the names say: an object and a port are
\* bound if and only if they share a string and fit, each knows the other's id, and
\* two of one side that share a string know each other's.
PairsAreDeclared ==
  WellNamed =>
    /\ \A p \in Objects, q \in Ports :
         /\ Bound(p, q) => Share(p, q) /\ Fits(p, q)
         /\ x_connected[q] # "no" /\ Share(p, q) /\ Fits(p, q) => Bound(p, q)
         /\ Bound(p, q) => IsAt(x_ports, m_x_id[p], q)
    /\ \A p, r \in Objects :
         Share(p, r) /\ Registered(p, m_proxies) /\ Registered(r, m_proxies) =>
           IsAt(m_proxies, m_x_id[p], r) /\ IsAt(m_proxies, m_x_id[r], p)
    /\ \A q, r \in Ports :
         Share(q, r) /\ Registered(q, x_ports) /\ Registered(r, x_ports) =>
           IsAt(x_ports, sv_x_id[q], r) /\ IsAt(x_ports, sv_x_id[r], q)

Tlm2 == {"fw_nonblocking_transport", "bw_nonblocking_transport", "blocking_transport", "socket"}
SameGeneration(p, q) == design[p].iface \in Tlm2 <=> design[q].iface \in Tlm2

\* The methods behind the bits.
Methods(iface) ==
  IF iface \in Tlm2
  THEN {<<"fw", "bw", "b">>[b + 1] : b \in Mask[iface]}
  ELSE UNION {<<{"put"}, {"get"}, {"peek"}, {"transport"}, {"nb_put"}, {"nb_get"},
                {"nb_peek"}, {}, {"write"}, {}, {}>>[b + 1] : b \in Mask[iface]}

\* Whatever the names are: the side that makes the calls of a bound pair calls
\* nothing that the other side does not have, and exactly one side makes them.
BoundSidesAgree ==
  \A p \in Objects, q \in Ports :
    Bound(p, q) /\ SameGeneration(p, q) =>
      IF ScKind(design[p]) = "channel"
      THEN SvKind(design[q]) = "port" /\ Methods(design[p].iface) \subseteq Methods(design[q].iface)
      ELSE SvKind(design[q]) = "imp" /\ Methods(design[q].iface) \subseteq Methods(design[p].iface)

\* A connection, local or across, is made once and stays.
ConnectionsStay ==
  [][WellNamed =>
       /\ \A p \in Objects : m_x_id[p] # 0 => m_x_id'[p] = m_x_id[p]
       /\ \A q \in Ports : sv_x_id[q] # 0 => sv_x_id'[q] = sv_x_id[q]]_vars

\* A process that calls through a channel that has a counterpart gets through,
\* whether it called before the counterpart was found or after.
CallersGetThrough ==
  \A c \in Callers : \A p \in Sc :
    (/\ p \in Objects /\ caller[c] = p
     /\ WellNamed /\ ~m_locally_connected[p]
     /\ \E q \in Ports : Share(p, q) /\ Fits(p, q))
      ~> caller[c] = "through"
=============================================================================
