---------------------------- MODULE UvmcCommands ----------------------------
(***************************************************************************)
(* The UVM command interface: uvmc_commands.cpp on the SystemC side,       *)
(* uvmc_commands.sv on the other.                                          *)
(*                                                                         *)
(* Every command waits until SystemVerilog is ready and then calls it.     *)
(* uvmc_wait_for_phase is the one whose answer comes later: it registers   *)
(* an event under the number of its request and waits.  SystemVerilog      *)
(* queues the request; a process takes it from the queue and starts one    *)
(* that waits for the state of the phase and sends the notification, which *)
(* finds the event by the number.  The phase is a task phase of UVM without*)
(* a jump, and no process that waits is reset or killed: external.         *)
(***************************************************************************)
EXTENDS Integers, Sequences, FiniteSets, Functions

CONSTANTS
  Clients,     (* The SystemC processes that give commands.                  *)
  Wanted,      (* The requests: pairs of a state of the phase and a relation.*)
  Unknown,     (* A request for a phase that UVM does not know.              *)
  MaxRequests  (* A bound of the numbers of requests.                        *)

\* The states of a phase in their order, each a bit of its own in the code.
Dormant == 0
Started == 3
Executing == 4
ReadyToEnd == 5
Ended == 6
Done == 8
States == Dormant .. Done

Relations == {"LT", "LTE", "NE", "EQ", "GT", "GTE"}

ASSUME WantedAssumption ==
  /\ \A w \in Wanted : w.state \in States /\ w.op \in Relations
  /\ Unknown \notin Wanted
ASSUME MaxRequestsAssumption == MaxRequests \in Nat
ASSUME ClientsAssumption == IsFiniteSet(Clients)

VARIABLES
  sv_is_ready,           (* SystemVerilog has announced itself.              *)
  running,               (* uvmc_init has started the processes.             *)
  m_state,               (* The state of the phase.                          *)
  raised,                (* The clients that object to its end.              *)
  pc, cmd,               (* Where the command of each client is, and what.   *)
  want,                  (* What it waits for.                               *)
  met,                   (* That has been so since it began to wait.         *)
  number,                (* The number of its request.                       *)
  uvmc_phase_events,     (* By number: the client whose event it is.         *)
  id,                    (* The last number given.                           *)
  uvmc_wait_for_phase_q, (* The requests nobody looks after yet.             *)
  watchers,              (* Those that a process of their own looks after.   *)
  stopped                (* sc_stop has been called.                         *)

clientVars == <<pc, cmd, want, met, number, uvmc_phase_events>>
queueVars == <<id, uvmc_wait_for_phase_q, watchers>>
cmdVars == <<sv_is_ready, running, m_state, raised, clientVars, queueVars, stopped>>

UnknownId == -1
Requests == [id : 1 .. MaxRequests, want : Wanted]

CmdTypeOK ==
  /\ sv_is_ready \in BOOLEAN /\ running \in BOOLEAN /\ stopped \in BOOLEAN
  /\ m_state \in States
  /\ raised \subseteq Clients
  /\ pc \in [Clients -> {"idle", "not_ready", "go", "wait", "notified"}]
  /\ cmd \in [Clients -> {"none", "wait", "raise", "drop"}]
  /\ want \in [Clients -> Wanted \cup {Unknown}]
  /\ met \in [Clients -> BOOLEAN]
  /\ number \in [Clients -> -1 .. MaxRequests]
  /\ DOMAIN uvmc_phase_events \subseteq {UnknownId} \cup 1 .. MaxRequests
  /\ \A n \in DOMAIN uvmc_phase_events : uvmc_phase_events[n] \in Clients
  /\ id \in 0 .. MaxRequests
  /\ uvmc_wait_for_phase_q \in Seq(Requests)
  /\ watchers \subseteq Requests

CmdInit ==
  /\ sv_is_ready = FALSE /\ running = FALSE /\ stopped = FALSE
  /\ m_state = Dormant
  /\ raised = {}
  /\ pc = [c \in Clients |-> "idle"]
  /\ cmd = [c \in Clients |-> "none"]
  /\ want = [c \in Clients |-> Unknown]
  /\ met = [c \in Clients |-> FALSE]
  /\ number = [c \in Clients |-> 0]
  /\ uvmc_phase_events = <<>>
  /\ id = 0 /\ uvmc_wait_for_phase_q = <<>> /\ watchers = {}

-----------------------------------------------------------------------------
(***************************************************************************)
(* Start and phase                                                         *)
(***************************************************************************)

\* SV2C_sv_ready, from the initializer of a variable of the package: before any process of
\* SystemVerilog, so that what SV2C_resolve_binding notifies later finds nobody waiting.
SvReady ==
  /\ ~sv_is_ready
  /\ sv_is_ready' = TRUE
  /\ pc' = [c \in Clients |-> IF pc[c] = "not_ready" THEN "go" ELSE pc[c]]
  /\ UNCHANGED <<running, m_state, raised, cmd, want, met, number, uvmc_phase_events,
                 queueVars, stopped>>

\* uvmc_init.
UvmcInit ==
  /\ sv_is_ready /\ ~running
  /\ running' = TRUE
  /\ UNCHANGED <<sv_is_ready, m_state, raised, clientVars, queueVars, stopped>>

\* wait_for_state of uvm_phase: w of the phase in state s.
Related(s, w) ==
  CASE w.op = "LT" -> s < w.state
    [] w.op = "LTE" -> s <= w.state
    [] w.op = "NE" -> s # w.state
    [] w.op = "EQ" -> s = w.state
    [] w.op = "GT" -> s > w.state
    [] w.op = "GTE" -> s >= w.state

Met(c, s) == want[c] # Unknown /\ Related(s, want[c])

\* The phase goes on when nobody objects and those that wait for its state have run.
\* It falls back when an objection is raised while it is ready to end.
PhaseStep ==
  /\ sv_is_ready
  /\ ~\E w \in watchers : Related(m_state, w.want)
  /\ \/ /\ m_state < Done
        /\ m_state \in {Executing, ReadyToEnd} => raised = {}
        /\ m_state' = m_state + 1
     \/ /\ m_state = ReadyToEnd /\ raised # {}
        /\ m_state' = Executing
  /\ met' = [c \in Clients |-> met[c] \/ (pc[c] = "wait" /\ Met(c, m_state'))]
  /\ UNCHANGED <<sv_is_ready, running, raised, pc, cmd, want, number, uvmc_phase_events,
                 queueVars, stopped>>

-----------------------------------------------------------------------------
(***************************************************************************)
(* SystemC: the commands                                                   *)
(***************************************************************************)

\* (Bug variant, not the code: wait_sv_ready waits for the event in any case.)
EventOnly == "not_ready"

\* wait_sv_ready.
WaitSvReady == IF sv_is_ready THEN "go" ELSE "not_ready"

Asking == {c \in Clients : cmd[c] = "wait" /\ pc[c] \in {"not_ready", "go"}}

Command(c, what, w) ==
  /\ pc[c] = "idle"
  /\ CASE what = "wait" -> id + Cardinality(Asking) < MaxRequests
       [] what = "raise" -> c \notin raised
       [] what = "drop" -> c \in raised
  /\ pc' = [pc EXCEPT ![c] = WaitSvReady]
  /\ cmd' = [cmd EXCEPT ![c] = what]
  /\ want' = [want EXCEPT ![c] = w]
  /\ UNCHANGED <<sv_is_ready, running, m_state, raised, met, number, uvmc_phase_events,
                 queueVars, stopped>>

\* (Bug variant, not the code: the number is that of the last request.)
SameNumber == IF id = 0 THEN 1 ELSE id

NextNumber == id + 1

IsUnknown(c) == want[c] = Unknown

With(f, n, c) == [m \in {n} \cup DOMAIN f |-> IF m = n THEN c ELSE f[m]]

\* UVMC_wait_for_phase_request, and the event registered under its answer.
WaitForPhase(c) ==
  /\ IF IsUnknown(c)
     THEN number' = [number EXCEPT ![c] = UnknownId] /\ UNCHANGED queueVars
     ELSE /\ id' = NextNumber
          /\ uvmc_wait_for_phase_q' =
               Append(uvmc_wait_for_phase_q, [id |-> NextNumber, want |-> want[c]])
          /\ number' = [number EXCEPT ![c] = NextNumber]
          /\ UNCHANGED watchers
  /\ uvmc_phase_events' = With(uvmc_phase_events, number'[c], c)
  /\ met' = [met EXCEPT ![c] = Met(c, m_state)]
  /\ pc' = [pc EXCEPT ![c] = "wait"]
  /\ UNCHANGED <<cmd, want, raised>>

\* A command that is done at once: an objection, and as the others are done.
AtOnce(c) ==
  /\ raised' = IF cmd[c] = "raise" THEN raised \cup {c} ELSE raised \ {c}
  /\ pc' = [pc EXCEPT ![c] = "idle"]
  /\ cmd' = [cmd EXCEPT ![c] = "none"]
  /\ UNCHANGED <<want, met, number, uvmc_phase_events, queueVars>>

Proceed(c) ==
  /\ pc[c] = "go"
  /\ IF cmd[c] = "wait" THEN WaitForPhase(c) ELSE AtOnce(c)
  /\ UNCHANGED <<sv_is_ready, running, m_state, stopped>>

Without(f, n) == Restrict(f, DOMAIN f \ {n})

\* After wait(e).
Return(c) ==
  /\ pc[c] = "notified"
  /\ uvmc_phase_events' = Without(uvmc_phase_events, number[c])
  /\ pc' = [pc EXCEPT ![c] = "idle"]
  /\ cmd' = [cmd EXCEPT ![c] = "none"]
  /\ want' = [want EXCEPT ![c] = Unknown]
  /\ met' = [met EXCEPT ![c] = FALSE]
  /\ number' = [number EXCEPT ![c] = 0]
  /\ UNCHANGED <<sv_is_ready, running, m_state, raised, queueVars, stopped>>

-----------------------------------------------------------------------------
(***************************************************************************)
(* SystemVerilog: the processes that wait for the phase                    *)
(***************************************************************************)

\* m_uvmc_wait_for_phase_proc.
TakeRequest ==
  /\ running
  /\ uvmc_wait_for_phase_q # <<>>
  /\ watchers' = watchers \cup {Head(uvmc_wait_for_phase_q)}
  /\ uvmc_wait_for_phase_q' = Tail(uvmc_wait_for_phase_q)
  /\ UNCHANGED <<sv_is_ready, running, m_state, raised, clientVars, id, stopped>>

\* SV2C_phase_notification.
Notify(w) ==
  /\ Related(m_state, w.want)
  /\ watchers' = watchers \ {w}
  /\ IF w.id \in DOMAIN uvmc_phase_events
     THEN /\ pc' = [c \in Clients |-> IF uvmc_phase_events[w.id] = c /\ pc[c] = "wait"
                                      THEN "notified" ELSE pc[c]]
          /\ UNCHANGED stopped
     ELSE stopped' = TRUE /\ UNCHANGED pc
  /\ UNCHANGED <<sv_is_ready, running, m_state, raised, cmd, want, met, number,
                 uvmc_phase_events, id, uvmc_wait_for_phase_q>>

CmdNext ==
  /\ ~stopped
  /\ \/ SvReady
     \/ UvmcInit
     \/ PhaseStep
     \/ TakeRequest
     \/ \E w \in watchers : Notify(w)
     \/ \E c \in Clients :
          \/ \E w \in Wanted \cup {Unknown} : Command(c, "wait", w)
          \/ \E what \in {"raise", "drop"} : Command(c, what, Unknown)
          \/ Proceed(c)
          \/ Return(c)

CmdSpec == CmdInit /\ [][CmdNext]_cmdVars

\* SystemVerilog starts and calls uvmc_init; every process that can run does.  The
\* phase need not go on.
CmdFairness ==
  /\ WF_cmdVars(~stopped /\ SvReady)
  /\ WF_cmdVars(~stopped /\ UvmcInit)
  /\ WF_cmdVars(~stopped /\ TakeRequest)
  /\ \A w \in Requests : WF_cmdVars(~stopped /\ w \in watchers /\ Notify(w))
  /\ \A c \in Clients : WF_cmdVars(~stopped /\ (Proceed(c) \/ Return(c)))

CmdFairSpec == CmdSpec /\ CmdFairness

-----------------------------------------------------------------------------
(***************************************************************************)
(* Properties                                                              *)
(***************************************************************************)

Pending ==
  watchers \cup {uvmc_wait_for_phase_q[i] : i \in DOMAIN uvmc_wait_for_phase_q}

Waits(c) == pc[c] = "wait" /\ want[c] # Unknown

\* The two sides agree on who waits for what: every request SystemVerilog has belongs to
\* one process that waits for just that, and every process that waits has its request
\* there.  So no notification stops the simulation, reaches another process or is lost.
RequestsHaveWaiters ==
  /\ ~stopped
  /\ \A r \in Pending :
       /\ r.id \in DOMAIN uvmc_phase_events
       /\ \E c \in Clients :
            uvmc_phase_events[r.id] = c /\ Waits(c) /\ want[c] = r.want /\ number[c] = r.id
  /\ \A c \in Clients : Waits(c) => \E r \in Pending : r.id = number[c]
  /\ \A r, s \in Pending : r.id = s.id => r = s

\* A process is not woken before the phase has been as it wanted since it asked.
WokenWhenMet == \A c \in Clients : pc[c] = "notified" => met[c]

\* The states the phase can still be in.
Later == {s \in States : s >= IF m_state = ReadyToEnd THEN Executing ELSE m_state}

\* A process that waits for what is so from now on returns, even when it asked too late
\* to see it begin.
WaitersReturn ==
  \A c \in Clients :
    (Waits(c) /\ \A s \in Later : Related(s, want[c])) ~> (pc[c] = "idle")

\* A command given before SystemVerilog is ready, or while it becomes so, is performed.
CommandsStart ==
  \A c \in Clients : cmd[c] # "none" ~> pc[c] \in {"idle", "wait"}
=============================================================================
