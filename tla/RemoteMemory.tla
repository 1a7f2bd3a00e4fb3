---------------------------- MODULE RemoteMemory ----------------------------
(***************************************************************************)
(* What the TLM2 proxies promise an initiator whose target is on the other *)
(* side: a transport takes effect on the target exactly once, with the     *)
(* initiator's own transaction, between the call and the return, and the   *)
(* initiator finds its own response in that transaction.  The target is a  *)
(* memory of one byte.                                                     *)
(*                                                                         *)
(* There is one exception.  A target in SystemC, native, may have lost a   *)
(* transaction it answers later; the answer to such a loose transaction is *)
(* undefined.                                                              *)
(***************************************************************************)
EXTENDS Naturals, Sequences

CONSTANTS
  Clients,
  Transactions, (* What can be read of the payloads the clients send.        *)
  NoDelay,      (* The delay of a transport that reports none.               *)
  Latency       (* Latency[cmd]: what the target adds to the delay.          *)

VARIABLES native, open, mem, call, tr, dl

absVars == <<native, open, mem, call, tr, dl>>

\* The memory after transaction t, and t as it comes back.
Stored(m, t) == IF t.cmd = "write" /\ t.data # <<>> THEN t.data[1] ELSE m

Served(m, t) ==
  [t EXCEPT !.status = "ok",
            !.data = IF t.cmd = "read" /\ @ # <<>> THEN [@ EXCEPT ![1] = m] ELSE @]

Init ==
  /\ native \in BOOLEAN /\ open \in BOOLEAN
  /\ call = [c \in Clients |-> "idle"]

Open == open' = TRUE /\ UNCHANGED <<mem, call, tr, dl>>

Call(c, t) ==
  /\ call[c] = "idle"
  /\ call' = [call EXCEPT ![c] = "called"]
  /\ tr' = [tr EXCEPT ![c] = t]
  /\ dl' = [dl EXCEPT ![c] = 0]
  /\ UNCHANGED <<open, mem>>

Effect(c) ==
  /\ open
  /\ call[c] = "called"
  /\ call' = [call EXCEPT ![c] = "done"]
  /\ mem' = Stored(mem, tr[c])
  /\ tr' = [tr EXCEPT ![c] = Served(mem, @)]
  /\ dl' = [dl EXCEPT ![c] = IF @ = NoDelay THEN @ ELSE @ + Latency[tr[c].cmd]]
  /\ UNCHANGED open

\* The memory, the status and the data come out as anything.
Undefined(c) ==
  /\ call[c] = "loose"
  /\ call' = [call EXCEPT ![c] = "done"]
  /\ tr' = [tr EXCEPT ![c] = [@ EXCEPT !.status = tr'[c].status, !.data = tr'[c].data]]
  /\ UNCHANGED <<open, dl>>

Return(c) ==
  /\ call[c] = "done"
  /\ call' = [call EXCEPT ![c] = "idle"]
  /\ UNCHANGED <<open, mem, tr, dl>>

\* A transport that does not block, and an analysis write: called, performed and
\* returned at once, or called and answered later, or not performed at all when
\* the proxy is not connected.
Quick(c, t) ==
  /\ call[c] = "idle"
  /\ \/ /\ open
        /\ mem' = Stored(mem, t)
        /\ tr' = [tr EXCEPT ![c] = Served(mem, t)]
        /\ UNCHANGED call
     \/ /\ open
        /\ \/ call' = [call EXCEPT ![c] = "called"]
           \/ native /\ call' = [call EXCEPT ![c] = "loose"]
        /\ tr' = [tr EXCEPT ![c] = t]
        /\ UNCHANGED mem
     \/ /\ ~open
        /\ tr' = [tr EXCEPT ![c] = t]
        /\ UNCHANGED <<mem, call>>
  /\ dl' = [dl EXCEPT ![c] = NoDelay]
  /\ UNCHANGED open

Post(c, t) ==
  /\ call[c] = "idle"
  /\ mem' = IF open THEN Stored(mem, t) ELSE mem
  /\ UNCHANGED <<open, call, tr, dl>>

Next ==
  /\ UNCHANGED native
  /\ \/ Open
     \/ \E c \in Clients :
          \/ Effect(c) \/ Undefined(c) \/ Return(c)
          \/ \E t \in Transactions : Call(c, t) \/ Quick(c, t) \/ Post(c, t)

Spec == Init /\ [][Next]_absVars
=============================================================================
