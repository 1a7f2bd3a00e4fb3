--------------------------- MODULE UvmcTlm1Proofs ---------------------------
(***************************************************************************)
(* Theorems about UvmcTlm1, for every set of callers, of transactions and  *)
(* of ports, every capacity of the object and both directions.             *)
(***************************************************************************)
EXTENDS UvmcTlm1, TLAPS

\* What a client that is in a call is in.
CallsTyped ==
  \A c \in Clients : pc[c] # "idle" => op[c] \in Blocking /\ arg[c] \in Arguments(op[c])

\* The process of the other side can be woken whenever it does not work.
ProcIdle == FromSystemC => proc # "none" /\ (proc = "waiting" => m_blocking_op = "NONE")

IInv == TypeOK /\ OneCallInFlight /\ CallIsWorkedOn /\ CallsTyped /\ ProcIdle

-----------------------------------------------------------------------------
(***************************************************************************)
(* The object                                                              *)
(***************************************************************************)

\* What the object performs leaves its boxes as they should be, and its answer is a
\* transaction or none.
LEMMA PerformOK ==
  ASSUME BoxesOK, NEW o \in Blocking, NEW v \in Arguments(o), Perform(o, v)
  PROVE  BoxesOK' /\ Answer(o, v) \in Values \cup {NoValue}
<1> USE CapacityAssumption, ReplyAssumption
<1> USE DEF BoxesOK, Perform, CanPerform, Answer, Arguments, Sends, Blocking
<1>1. CASE o = "put"
  BY <1>1
<1>2. CASE o = "get"
  BY <1>2
<1>3. CASE o = "peek"
  BY <1>3
<1>4. CASE o = "transport"
  BY <1>4
<1> QED  BY <1>1, <1>2, <1>3, <1>4

LEMMA WorkOK ==
  ASSUME BoxesOK, Work
  PROVE  BoxesOK'
<1>1. CASE Consume
  <2>1. Tail(inbox) \in Seq(Values) /\ Len(Tail(inbox)) = Len(inbox) - 1
    BY <1>1 DEF BoxesOK, Consume
  <2> QED  BY <1>1, <2>1, CapacityAssumption DEF BoxesOK, Consume
<1>2. CASE \E v \in Values : Produce(v)
  BY <1>2, CapacityAssumption DEF BoxesOK, Produce
<1> QED  BY <1>1, <1>2 DEF Work

\* While a call is under way the semaphore is taken, and the other way round.
LEMMA SemaphoreTells ==
  ASSUME IInv
  PROVE  /\ m_sem = 1 => proc \in {"none", "waiting"} /\ \A c \in Clients : ~Holds(c)
         /\ \A c \in Clients : Holds(c) => m_sem = 0
BY DEF IInv, TypeOK, OneCallInFlight, CallIsWorkedOn, Holds

-----------------------------------------------------------------------------
(***************************************************************************)
(* The invariant                                                           *)
(***************************************************************************)

LEMMA InitInv ==
  ASSUME Init
  PROVE  IInv
<1>1. BoxesOK
  BY CapacityAssumption DEF Init, BoxesInit, BoxesOK
<1>2. TypeOK
  <2>1. m_connected \in BOOLEAN
    BY DEF Init
  <2>2. proc \in {"none", "waiting", "runnable", "performed"}
    BY DEF Init
  <2> QED  BY <1>1, <2>1, <2>2 DEF Init, TypeOK, Results
<1>3. OneCallInFlight /\ CallIsWorkedOn /\ CallsTyped /\ ProcIdle
  BY DEF Init, OneCallInFlight, CallIsWorkedOn, CallsTyped, ProcIdle, Holds, FromSystemC
<1> QED  BY <1>2, <1>3 DEF IInv

LEMMA NotifyConnectedInv ==
  ASSUME IInv, NotifyConnected
  PROVE  IInv'
BY DEF IInv, TypeOK, BoxesOK, OneCallInFlight, CallIsWorkedOn, CallsTyped, ProcIdle, Holds,
  FromSystemC, NotifyConnected, boxes, clientVars, procVars

LEMMA StartInv ==
  ASSUME IInv, NEW c \in Clients, NEW o \in Blocking, NEW v \in Arguments(o), Start(c, o, v)
  PROVE  IInv'
<1> USE DEF Start, boxes, procVars
<1>1. v \in Values \cup {NoValue}
  BY DEF Arguments
<1>2. TypeOK'
  BY <1>1 DEF IInv, TypeOK, BoxesOK, Results
<1>3. \A d \in Clients : (Holds(d)' <=> Holds(d)) /\ (pc'[d] = "wait" <=> pc[d] = "wait")
  BY DEF IInv, TypeOK, Holds
<1>4. OneCallInFlight'
  BY <1>3 DEF IInv, OneCallInFlight
<1>5. CallIsWorkedOn'
  <2>1. \A d \in Clients : pc[d] = "wait" => op'[d] = op[d] /\ arg'[d] = arg[d]
    BY DEF IInv, TypeOK
  <2> QED  BY <1>3, <2>1 DEF IInv, CallIsWorkedOn
<1>6. CallsTyped'
  BY DEF IInv, TypeOK, CallsTyped
<1>7. ProcIdle'
  BY DEF IInv, ProcIdle, FromSystemC
<1> QED  BY <1>2, <1>4, <1>5, <1>6, <1>7 DEF IInv

LEMMA WaitConnectedInv ==
  ASSUME IInv, NEW c \in Clients, WaitConnected(c)
  PROVE  IInv'
<1> USE DEF WaitConnected, boxes, procVars
<1>1. TypeOK'
  BY DEF IInv, TypeOK, BoxesOK
<1>2. \A d \in Clients : (Holds(d)' <=> Holds(d)) /\ (pc'[d] = "wait" <=> pc[d] = "wait")
  BY DEF IInv, TypeOK, Holds
<1>3. OneCallInFlight' /\ CallIsWorkedOn'
  BY <1>2 DEF IInv, OneCallInFlight, CallIsWorkedOn
<1>4. CallsTyped' /\ ProcIdle'
  BY DEF IInv, TypeOK, CallsTyped, ProcIdle, FromSystemC
<1> QED  BY <1>1, <1>3, <1>4 DEF IInv

\* The request finds nobody in a call and the process of the other side idle, so the
\* process is woken, by the only caller.
LEMMA IssueInv ==
  ASSUME IInv, NEW c \in Clients, Issue(c)
  PROVE  IInv'
<1>1. CASE ~m_connected
  BY <1>1 DEF Issue, Abort, IInv, TypeOK, BoxesOK, OneCallInFlight, CallIsWorkedOn, CallsTyped,
    ProcIdle, Holds, FromSystemC, boxes, clientVars, procVars
<1>2. CASE m_connected
  <2> USE <1>2 DEF Issue, boxes
  <2>1. m_sem = 1 /\ m_sem' = 0
    BY DEF IInv, TypeOK, SemaphoreFree
  <2>2. proc \in {"none", "waiting"} /\ \A d \in Clients : ~Holds(d)
    BY <2>1, SemaphoreTells
  <2>3. Wakes
    BY <2>2 DEF Wakes, IInv, ProcIdle, TypeOK
  <2>4. op[c] \in Blocking /\ arg[c] \in Arguments(op[c])
    BY DEF IInv, CallsTyped
  <2>5. arg[c] \in Values \cup {NoValue}
    BY DEF IInv, TypeOK
  <2>6. TypeOK'
    BY <2>1, <2>3, <2>4, <2>5 DEF IInv, TypeOK, BoxesOK
  <2>7. pc' = [pc EXCEPT ![c] = "wait"] /\ op' = op /\ arg' = arg
    OBVIOUS
  <2>8. \A d \in Clients : Holds(d)' <=> d = c
    BY <2>2, <2>7 DEF IInv, TypeOK, Holds
  <2>9. OneCallInFlight'
    BY <2>1, <2>8 DEF OneCallInFlight
  <2>10. \A d \in Clients : pc'[d] = "wait" <=> d = c
    BY <2>2, <2>7 DEF IInv, TypeOK, Holds
  <2>11. CallIsWorkedOn'
    BY <2>3, <2>7, <2>10 DEF CallIsWorkedOn
  <2>12. CallsTyped'
    BY <2>7 DEF IInv, TypeOK, CallsTyped
  <2>13. ProcIdle'
    BY <2>3 DEF ProcIdle
  <2> QED  BY <2>6, <2>9, <2>11, <2>12, <2>13 DEF IInv
<1> QED  BY <1>1, <1>2

LEMMA FinishInv ==
  ASSUME IInv, NEW c \in Clients, Finish(c)
  PROVE  IInv'
<1> USE DEF Finish, boxes, procVars
<1>1. Holds(c) /\ m_sem = 0
  BY SemaphoreTells DEF Holds
<1>2. TypeOK'
  BY <1>1 DEF IInv, TypeOK, BoxesOK, Results
<1>3. \A d \in Clients : ~Holds(d)'
  BY <1>1 DEF IInv, TypeOK, OneCallInFlight, Holds
<1>4. OneCallInFlight'
  BY <1>1, <1>3 DEF OneCallInFlight
<1>5. \A d \in Clients : pc[d] # "wait" /\ pc'[d] # "wait"
  BY <1>1 DEF IInv, TypeOK, OneCallInFlight, Holds
<1>6. CallIsWorkedOn'
  BY <1>5 DEF IInv, CallIsWorkedOn
<1>7. CallsTyped' /\ ProcIdle'
  BY DEF IInv, TypeOK, CallsTyped, ProcIdle, FromSystemC
<1> QED  BY <1>2, <1>4, <1>6, <1>7 DEF IInv

\* A step that only changes the boxes, a result and the last response.
LEMMA AsideInv ==
  ASSUME IInv, BoxesOK', res' \in [Clients -> Results], m_t' \in Values \cup {NoValue},
         UNCHANGED <<use, m_connected, aborted, pc, op, arg, m_sem, procVars>>
  PROVE  IInv'
BY DEF IInv, TypeOK, OneCallInFlight, CallIsWorkedOn, CallsTyped, ProcIdle, Holds,
  FromSystemC, procVars

LEMMA TryInv ==
  ASSUME IInv, NEW c \in Clients, NEW o \in NonBlocking, NEW v \in Arguments(o), Try(c, o, v)
  PROVE  IInv'
<1>0. o \in Blocking /\ v \in Values \cup {NoValue}
  BY DEF NonBlocking, Blocking, Arguments
<1>1. CASE m_connected /\ SemaphoreFree /\ Offers(CanOf[o]) /\ CanPerform(o)
  <2>1. Perform(o, v) /\ res' = [res EXCEPT ![c] = Answer(o, v)]
    BY <1>1 DEF Try
  <2>2. BoxesOK' /\ Answer(o, v) \in Values \cup {NoValue}
    BY <2>1, <1>0, PerformOK DEF IInv, TypeOK
  <2>3. m_t' \in Values \cup {NoValue}
    BY <1>0, <1>1, <2>2 DEF Try, Packed, IInv, TypeOK
  <2>4. res' \in [Clients -> Results]
    BY <2>1, <2>2 DEF IInv, TypeOK, Results
  <2> QED  BY <2>2, <2>3, <2>4, AsideInv DEF Try
<1>2. CASE ~(m_connected /\ SemaphoreFree /\ Offers(CanOf[o]) /\ CanPerform(o))
  <2>1. res' = [res EXCEPT ![c] = Refused] /\ UNCHANGED <<boxes, m_t>>
    BY <1>2 DEF Try
  <2>2. BoxesOK' /\ res' \in [Clients -> Results] /\ m_t' \in Values \cup {NoValue}
    BY <2>1 DEF IInv, TypeOK, BoxesOK, Results, boxes
  <2> QED  BY <2>2, AsideInv DEF Try
<1> QED  BY <1>1, <1>2

LEMMA WriteInv ==
  ASSUME IInv, NEW c \in Clients, NEW v \in Values, Write(c, v)
  PROVE  IInv'
<1>1. BoxesOK'
  <2>1. CASE Offers("write")
    <3>1. "put" \in Blocking /\ v \in Arguments("put") /\ Perform("put", v)
      BY <2>1 DEF Write, Blocking, Arguments, Sends
    <3> QED  BY <3>1, PerformOK DEF IInv, TypeOK
  <2>2. CASE ~Offers("write")
    BY <2>2 DEF Write, IInv, TypeOK, BoxesOK, boxes
  <2> QED  BY <2>1, <2>2
<1>2. res' \in [Clients -> Results] /\ m_t' \in Values \cup {NoValue}
  BY DEF Write, IInv, TypeOK, Results
<1> QED  BY <1>1, <1>2, AsideInv DEF Write

LEMMA ObjectWorksInv ==
  ASSUME IInv, ObjectWorks
  PROVE  IInv'
<1>1. BoxesOK'
  BY WorkOK DEF ObjectWorks, IInv, TypeOK
<1> QED  BY <1>1, AsideInv DEF ObjectWorks, IInv, TypeOK, clientVars

\* The call the process of the other side works on.
LEMMA WorkedOn ==
  ASSUME IInv, proc \in {"runnable", "performed"}
  PROVE  \E c \in Clients :
           /\ pc[c] = "wait" /\ \A d \in Clients : Holds(d) => d = c
           /\ m_blocking_op = op[c] /\ op[c] \in Blocking /\ arg[c] \in Arguments(op[c])
           /\ op[c] \in Sends => req = arg[c]
BY DEF IInv, CallIsWorkedOn, OneCallInFlight, Holds, CallsTyped

\* A get, a peek: the object is performed with what is left of an earlier request.
LEMMA PerformIgnores ==
  ASSUME NEW o \in Blocking, NEW v, NEW w, o \notin Sends
  PROVE  (Perform(o, v) <=> Perform(o, w)) /\ Answer(o, v) = Answer(o, w)
BY DEF Blocking, Sends, Perform, Answer

\* The effect of the process on the object is that of the call it works on.
LEMMA PerformedForCaller ==
  ASSUME NEW c \in Clients, m_blocking_op = op[c], op[c] \in Blocking,
         op[c] \in Sends => req = arg[c]
  PROVE  /\ Perform(m_blocking_op, req) <=> Perform(op[c], arg[c])
         /\ Answer(m_blocking_op, req) = Answer(op[c], arg[c])
<1>1. CASE op[c] \in Sends
  BY <1>1
<1>2. CASE op[c] \notin Sends
  BY <1>2, PerformIgnores
<1> QED  BY <1>1, <1>2

LEMMA ProcPerformInv ==
  ASSUME IInv, ProcPerform
  PROVE  IInv'
<1>1. PICK c \in Clients :
        /\ pc[c] = "wait" /\ \A d \in Clients : Holds(d) => d = c
        /\ m_blocking_op = op[c] /\ op[c] \in Blocking /\ arg[c] \in Arguments(op[c])
        /\ op[c] \in Sends => req = arg[c]
  BY WorkedOn DEF ProcPerform
<1>2. BoxesOK' /\ rsp' \in Values \cup {NoValue}
  <2>1. CASE Offers(m_blocking_op)
    <3>1. Perform(op[c], arg[c]) /\ rsp' = Answer(op[c], arg[c])
      BY <1>1, <2>1, PerformedForCaller DEF ProcPerform
    <3> QED  BY <1>1, <3>1, PerformOK DEF IInv, TypeOK
  <2>2. CASE ~Offers(m_blocking_op)
    BY <2>2 DEF ProcPerform, IInv, TypeOK, BoxesOK, boxes
  <2> QED  BY <2>1, <2>2
<1>3. TypeOK'
  BY <1>2 DEF ProcPerform, IInv, TypeOK, clientVars
<1>4. OneCallInFlight' /\ CallIsWorkedOn' /\ CallsTyped' /\ ProcIdle'
  BY DEF ProcPerform, IInv, OneCallInFlight, CallIsWorkedOn, CallsTyped, ProcIdle, Holds,
    FromSystemC, clientVars
<1> QED  BY <1>3, <1>4 DEF IInv

\* The event wakes the caller the process has worked for, and nobody else waits.
LEMMA ProcDoneInv ==
  ASSUME IInv, ProcDone
  PROVE  IInv'
<1> USE DEF ProcDone, boxes
<1>1. pc' = [c \in Clients |-> IF pc[c] = "wait" THEN "woken" ELSE pc[c]]
  BY DEF BlockingOpDone
<1>2. m_blocking_op' \in Blocking \cup {"NONE"} /\ (FromSystemC => m_blocking_op' = "NONE")
  BY DEF Reset, IInv, TypeOK
<1>3. m_t' \in Values \cup {NoValue}
  BY DEF IInv, TypeOK
<1>4. TypeOK'
  <2>1. pc' \in [Clients -> {"idle", "connect", "acquire", "wait", "woken"}]
    BY <1>1 DEF IInv, TypeOK
  <2> QED  BY <1>2, <1>3, <2>1 DEF IInv, TypeOK, BoxesOK
<1>5. \A c \in Clients : Holds(c)' <=> Holds(c)
  BY <1>1 DEF IInv, TypeOK, Holds
<1>6. OneCallInFlight'
  BY <1>5 DEF IInv, OneCallInFlight
<1>7. CallIsWorkedOn'
  BY <1>1 DEF CallIsWorkedOn
<1>8. CallsTyped'
  BY <1>1 DEF IInv, TypeOK, CallsTyped
<1>9. ProcIdle'
  BY <1>2 DEF ProcIdle, FromSystemC
<1> QED  BY <1>4, <1>6, <1>7, <1>8, <1>9 DEF IInv

LEMMA NextInv ==
  ASSUME IInv, [Next]_vars
  PROVE  IInv'
<1>1. CASE UNCHANGED vars
  BY <1>1 DEF vars, boxes, clientVars, procVars, IInv, TypeOK, BoxesOK, OneCallInFlight,
    CallIsWorkedOn, CallsTyped, ProcIdle, Holds, FromSystemC
<1>2. CASE Next
  BY <1>2, NotifyConnectedInv, StartInv, WaitConnectedInv, IssueInv, FinishInv, TryInv, WriteInv,
    ObjectWorksInv, ProcPerformInv, ProcDoneInv DEF Next, ClientStep
<1> QED  BY <1>1, <1>2

THEOREM Invariance == Spec => []IInv
BY InitInv, NextInv, PTL DEF Spec

\* The types are right in every state.
THEOREM TypeCorrect == Spec => []TypeOK
BY Invariance, PTL DEF IInv

\* The semaphore lets one call at a time onto the proxy's one event and response.
THEOREM CallsExclusive == Spec => []OneCallInFlight
BY Invariance, PTL DEF IInv

\* No request is lost, and none is performed twice or for another caller.
THEOREM RequestsKept == Spec => []CallIsWorkedOn
BY Invariance, PTL DEF IInv

-----------------------------------------------------------------------------
(***************************************************************************)
(* The refinement                                                          *)
(***************************************************************************)

\* Only methods of the port are called, and only a connected proxy sends requests.
Allowed ==
  /\ \A c \in Clients : pc[c] # "idle" => op[c] \in use.ops
  /\ \A c \in Clients : Holds(c) => m_connected
  /\ ~FromSystemC => m_connected

LEMMA AllowedInit ==
  ASSUME Init
  PROVE  Allowed
BY DEF Init, Allowed, Holds

LEMMA AllowedNext ==
  ASSUME IInv, Allowed, [Next]_vars
  PROVE  Allowed'
<1> USE DEF Allowed, Holds, FromSystemC, IInv, TypeOK
<1>1. CASE NotifyConnected \/ ObjectWorks \/ ProcPerform
  BY <1>1 DEF NotifyConnected, ObjectWorks, ProcPerform, clientVars
<1>2. CASE ProcDone
  BY <1>2 DEF ProcDone, BlockingOpDone
<1>3. ASSUME NEW c \in Clients, NEW o \in Blocking, NEW v \in Arguments(o), Start(c, o, v)
      PROVE  Allowed'
  BY <1>3 DEF Start
<1>4. ASSUME NEW c \in Clients, WaitConnected(c)
      PROVE  Allowed'
  BY <1>4 DEF WaitConnected
<1>5. ASSUME NEW c \in Clients, Issue(c)
      PROVE  Allowed'
  BY <1>5 DEF Issue, Abort, clientVars
<1>6. ASSUME NEW c \in Clients, Finish(c)
      PROVE  Allowed'
  BY <1>6 DEF Finish
<1>7. ASSUME NEW c \in Clients, NEW o \in NonBlocking, NEW v \in Arguments(o), Try(c, o, v)
      PROVE  Allowed'
  BY <1>7 DEF Try
<1>8. ASSUME NEW c \in Clients, NEW v \in Values, Write(c, v)
      PROVE  Allowed'
  BY <1>8 DEF Write
<1>9. CASE UNCHANGED vars
  BY <1>9 DEF vars, clientVars
<1> QED  BY <1>1, <1>2, <1>3, <1>4, <1>5, <1>6, <1>7, <1>8, <1>9 DEF Next, ClientStep

RInv == IInv /\ Allowed

\* The methods of the object are those of the abstract specification.
LEMMA SameObject ==
  /\ Remote!Blocking = Blocking /\ Remote!NonBlocking = NonBlocking
  /\ \A o : Remote!Arguments(o) = Arguments(o)
  /\ \A o : Remote!CanPerform(o) <=> CanPerform(o)
  /\ \A o, v : Remote!Perform(o, v) <=> Perform(o, v)
  /\ \A o, v : Remote!Answer(o, v) = Answer(o, v)
  /\ Remote!Work <=> Work
BY DEF Remote!Blocking, Blocking, Remote!NonBlocking, NonBlocking, Remote!Arguments, Arguments,
  Remote!Sends, Sends, Remote!CanPerform, CanPerform, Remote!Perform, Perform,
  Remote!Answer, Answer, Remote!Work, Work, Remote!Consume, Consume, Remote!Produce, Produce

LEMMA InitMaps ==
  ASSUME Init
  PROVE  Remote!Init
<1>1. callBar = [c \in Clients |-> "idle"]
  BY DEF Init, callBar
<1>2. resBar = [c \in Clients |-> NoValue]
  BY DEF Init, resBar, Performed
<1> QED  BY <1>1, <1>2 DEF Init, BoxesInit, Remote!Init, Remote!BoxesInit

LEMMA NotifyConnectedMaps ==
  ASSUME NotifyConnected
  PROVE  Remote!Open
BY DEF NotifyConnected, Remote!Open, Remote!boxes, boxes, clientVars, procVars, callBar, resBar,
  Performed

LEMMA StartMaps ==
  ASSUME RInv, NEW c \in Clients, NEW o \in Blocking, NEW v \in Arguments(o), Start(c, o, v)
  PROVE  Remote!Call(c, o, v)
<1> USE DEF RInv, IInv, TypeOK
<1>1. pc[c] = "idle" /\ pc'[c] \in {"connect", "acquire"} /\ \A d \in Clients \ {c} : pc'[d] = pc[d]
  BY DEF Start
<1>2. \A d \in Clients : Performed(d)' <=> Performed(d)
  BY <1>1 DEF Start, procVars, Performed
<1>3. ~Performed(c)
  BY <1>1 DEF Performed
<1>4. callBar' = [callBar EXCEPT ![c] = "called"]
  BY <1>1, <1>2, <1>3 DEF callBar
<1>5. resBar' = [resBar EXCEPT ![c] = NoValue]
  BY <1>1, <1>2, <1>3 DEF Start, resBar, procVars
<1> QED  BY <1>1, <1>4, <1>5 DEF Start, Remote!Call, callBar, boxes, Remote!boxes

LEMMA WaitConnectedMaps ==
  ASSUME RInv, NEW c \in Clients, WaitConnected(c)
  PROVE  UNCHANGED Remote!absVars
<1> USE DEF RInv, IInv, TypeOK
<1>1. pc[c] = "connect" /\ pc'[c] = "acquire" /\ \A d \in Clients \ {c} : pc'[d] = pc[d]
  BY DEF WaitConnected
<1>2. \A d \in Clients : Performed(d)' <=> Performed(d)
  BY <1>1 DEF WaitConnected, procVars, Performed
<1>3. callBar' = callBar /\ resBar' = resBar
  BY <1>1, <1>2 DEF WaitConnected, procVars, callBar, resBar
<1> QED  BY <1>3 DEF WaitConnected, Remote!absVars, Remote!boxes, boxes

LEMMA IssueMaps ==
  ASSUME RInv, NEW c \in Clients, Issue(c)
  PROVE  UNCHANGED Remote!absVars
<1>1. CASE ~m_connected
  BY <1>1 DEF Issue, Abort, Remote!absVars, Remote!boxes, boxes, clientVars, procVars, callBar,
    resBar, Performed
<1>2. CASE m_connected
  <2> USE <1>2 DEF RInv, IInv, TypeOK
  <2>1. m_sem = 1
    BY DEF Issue, SemaphoreFree
  <2>2. proc \in {"none", "waiting"} /\ \A d \in Clients : ~Holds(d)
    BY <2>1, SemaphoreTells
  <2>3. proc' \in {"none", "waiting", "runnable"}
    BY <2>2 DEF Issue
  <2>4. pc[c] = "acquire" /\ pc'[c] = "wait" /\ \A d \in Clients \ {c} : pc'[d] = pc[d]
    BY DEF Issue
  <2>5. \A d \in Clients : ~Performed(d) /\ ~Performed(d)'
    BY <2>2, <2>3, <2>4 DEF Performed, Holds
  <2>6. callBar' = callBar
    BY <2>4, <2>5 DEF callBar
  <2>7. resBar' = resBar
    BY <2>5 DEF Issue, resBar
  <2> QED  BY <2>6, <2>7 DEF Issue, Remote!absVars, Remote!boxes, boxes
<1> QED  BY <1>1, <1>2

LEMMA FinishMaps ==
  ASSUME RInv, NEW c \in Clients, Finish(c)
  PROVE  Remote!Return(c)
<1> USE DEF RInv, IInv, TypeOK
<1>1. pc[c] = "woken" /\ pc'[c] = "idle" /\ \A d \in Clients \ {c} : pc'[d] = pc[d] /\ op'[d] = op[d]
  BY DEF Finish
<1>2. \A d \in Clients \ {c} : ~Holds(d)
  BY <1>1 DEF OneCallInFlight, Holds
<1>3. Performed(c) /\ ~Performed(c)'
  BY <1>1 DEF Performed
<1>4. \A d \in Clients \ {c} : ~Performed(d) /\ ~Performed(d)'
  BY <1>1, <1>2 DEF Performed, Holds
<1>5. callBar[c] = "done" /\ callBar' = [callBar EXCEPT ![c] = "idle"]
  BY <1>1, <1>3, <1>4 DEF callBar
<1>6. res'[c] = IF op[c] \in Returns THEN m_t ELSE NoValue
  BY DEF Finish
<1>7. \A d \in Clients \ {c} : res'[d] = res[d]
  BY DEF Finish
<1>8. resBar' = resBar
  BY <1>1, <1>3, <1>4, <1>6, <1>7 DEF resBar
<1> QED  BY <1>5, <1>8 DEF Finish, Remote!Return, boxes, Remote!boxes

\* The process of the other side performs the call of the one client that waits.
LEMMA ProcPerformMaps ==
  ASSUME UsesFit, RInv, ProcPerform
  PROVE  \E c \in Clients : Remote!Effect(c)
<1> USE DEF RInv, IInv, TypeOK
<1>1. PICK c \in Clients :
        /\ pc[c] = "wait" /\ \A d \in Clients : Holds(d) => d = c
        /\ m_blocking_op = op[c] /\ op[c] \in Blocking /\ arg[c] \in Arguments(op[c])
        /\ op[c] \in Sends => req = arg[c]
  BY WorkedOn DEF ProcPerform
<1>2. m_connected /\ op[c] \in use.ops
  BY <1>1 DEF Allowed, Holds
<1>3. Offers(m_blocking_op)
  BY <1>1, <1>2 DEF UsesFit, Offers
<1>4. Perform(op[c], arg[c]) /\ rsp' = Answer(op[c], arg[c])
  BY <1>1, <1>3, PerformedForCaller DEF ProcPerform
<1>5. pc' = pc /\ op' = op /\ res' = res /\ m_t' = m_t
  BY DEF ProcPerform, clientVars
<1>6. ~Performed(c) /\ Performed(c)'
  BY <1>1, <1>5 DEF ProcPerform, Performed
<1>7. \A d \in Clients \ {c} : ~Performed(d) /\ ~Performed(d)'
  BY <1>1, <1>5 DEF Performed, Holds
<1>8. callBar[c] = "called" /\ callBar' = [callBar EXCEPT ![c] = "done"]
  BY <1>1, <1>5, <1>6, <1>7 DEF callBar
<1>9. resBar' = [resBar EXCEPT ![c] = Answer(op[c], arg[c])]
  <2>1. op[c] \notin Returns => Answer(op[c], arg[c]) = NoValue
    BY <1>1 DEF Blocking, Returns, Answer
  <2>2. resBar'[c] = Answer(op[c], arg[c])
    BY <2>1, <1>1, <1>4, <1>5, <1>6 DEF resBar
  <2> QED  BY <2>2, <1>5, <1>6, <1>7 DEF resBar
<1> QED  BY <1>2, <1>4, <1>8, <1>9, SameObject DEF ProcPerform, Remote!Effect, clientVars

LEMMA ProcDoneMaps ==
  ASSUME RInv, ProcDone
  PROVE  UNCHANGED Remote!absVars
<1> USE DEF RInv, IInv, TypeOK
<1>1. PICK c \in Clients :
        /\ pc[c] = "wait" /\ \A d \in Clients : Holds(d) => d = c
        /\ m_blocking_op = op[c]
  BY WorkedOn DEF ProcDone
<1>2. pc'[c] = "woken" /\ \A d \in Clients \ {c} : pc'[d] = pc[d] /\ ~Holds(d)
  BY <1>1 DEF ProcDone, BlockingOpDone, Holds
<1>3. Performed(c) /\ Performed(c)'
  BY <1>1, <1>2 DEF ProcDone, Performed
<1>4. \A d \in Clients \ {c} : ~Performed(d) /\ ~Performed(d)'
  BY <1>2 DEF Performed, Holds
<1>5. callBar' = callBar
  BY <1>1, <1>2, <1>3, <1>4 DEF callBar
<1>6. op[c] \in Returns => m_t' = rsp
  BY <1>1 DEF ProcDone
<1>7. op' = op /\ res' = res
  BY DEF ProcDone
<1>8. resBar' = resBar
  BY <1>1, <1>2, <1>3, <1>4, <1>6, <1>7 DEF resBar
<1> QED  BY <1>5, <1>8 DEF ProcDone, Remote!absVars, Remote!boxes, boxes

LEMMA ObjectWorksMaps ==
  ASSUME ObjectWorks
  PROVE  Remote!ObjectWorks
BY SameObject DEF ObjectWorks, Remote!ObjectWorks, clientVars, procVars, callBar, resBar, Performed

\* A step that gives an idle client a result, while nobody's response is in m_t, or
\* while m_t stays.
LEMMA AsideMaps ==
  ASSUME RInv, NEW c \in Clients, NEW r, pc[c] = "idle", res' = [res EXCEPT ![c] = r],
         UNCHANGED <<pc, op, procVars>>,
         m_t' = m_t \/ \A d \in Clients : ~Performed(d)
  PROVE  callBar' = callBar /\ callBar[c] = "idle" /\ resBar' = [resBar EXCEPT ![c] = r]
<1> USE DEF RInv, IInv, TypeOK, procVars
<1>1. \A d \in Clients : Performed(d)' <=> Performed(d)
  BY DEF Performed
<1>2. ~Performed(c)
  BY DEF Performed
<1>3. callBar' = callBar /\ callBar[c] = "idle"
  BY <1>1 DEF callBar
<1>4. resBar' = [resBar EXCEPT ![c] = r]
  BY <1>1, <1>2 DEF resBar
<1> QED  BY <1>3, <1>4

LEMMA TryMaps ==
  ASSUME UsesFit, RInv, NEW c \in Clients, NEW o \in NonBlocking, NEW v \in Arguments(o),
         Try(c, o, v)
  PROVE  Remote!Try(c, o, v)
<1> USE DEF RInv, IInv, TypeOK
<1>1. Offers(CanOf[o])
  BY DEF Try, UsesFit, Offers
<1>2. CASE m_connected /\ SemaphoreFree /\ CanPerform(o)
  <2>1. /\ Perform(o, v) /\ res' = [res EXCEPT ![c] = Answer(o, v)]
        /\ pc[c] = "idle" /\ UNCHANGED <<m_connected, pc, op, arg, procVars>>
    BY <1>1, <1>2 DEF Try
  <2>2. \A d \in Clients : ~Holds(d)
    BY <1>2, SemaphoreTells DEF SemaphoreFree
  <2>3. \A d \in Clients : ~Performed(d)
    BY <2>2 DEF Holds, Performed
  <2>4. callBar' = callBar /\ callBar[c] = "idle" /\ resBar' = [resBar EXCEPT ![c] = Answer(o, v)]
    BY <2>1, <2>3, AsideMaps
  <2> QED  BY <1>2, <2>1, <2>4, SameObject DEF Remote!Try
<1>3. CASE ~(m_connected /\ SemaphoreFree /\ CanPerform(o))
  <2>1. /\ res' = [res EXCEPT ![c] = Refused] /\ UNCHANGED <<boxes, m_t>>
        /\ pc[c] = "idle" /\ UNCHANGED <<m_connected, pc, op, arg, procVars>>
    BY <1>3 DEF Try
  <2>2. callBar' = callBar /\ callBar[c] = "idle" /\ resBar' = [resBar EXCEPT ![c] = Refused]
    BY <2>1, AsideMaps
  <2>3. SemaphoreFree \/ \E d \in Clients : callBar[d] # "idle"
    BY DEF SemaphoreFree, OneCallInFlight, Holds, callBar
  <2>4. ~m_connected \/ ~CanPerform(o) \/ \E d \in Clients : callBar[d] # "idle"
    BY <1>3, <2>3
  <2> QED  BY <2>1, <2>2, <2>4, SameObject DEF Remote!Try, boxes, Remote!boxes
<1> QED  BY <1>2, <1>3

LEMMA WriteMaps ==
  ASSUME UsesFit, RInv, NEW c \in Clients, NEW v \in Values, Write(c, v)
  PROVE  Remote!Try(c, "put", v)
<1> USE DEF RInv, IInv, TypeOK
<1>1. use.ops = {"write"} /\ Offers("write") /\ use.port # "channel"
  BY DEF Write, UsesFit, Offers
<1>2. m_connected
  BY <1>1 DEF Allowed, FromSystemC
<1>3. \A d \in Clients : pc[d] = "idle"
  BY <1>1 DEF Allowed, CallsTyped, Blocking
<1>4. /\ Perform("put", v) /\ res' = [res EXCEPT ![c] = NoValue]
      /\ UNCHANGED <<m_connected, pc, op, arg, procVars>>
  BY <1>1 DEF Write
<1>5. \A d \in Clients : ~Performed(d)
  BY <1>3 DEF Performed
<1>6. callBar' = callBar /\ callBar[c] = "idle" /\ resBar' = [resBar EXCEPT ![c] = NoValue]
  BY <1>3, <1>4, <1>5, AsideMaps
<1>7. Answer("put", v) = NoValue
  BY DEF Answer
<1> QED  BY <1>2, <1>4, <1>6, <1>7, SameObject DEF Remote!Try

LEMMA NextMaps ==
  ASSUME UsesFit, RInv, [Next]_vars
  PROVE  [Remote!Next]_Remote!absVars
<1>1. CASE NotifyConnected
  BY <1>1, NotifyConnectedMaps DEF Remote!Next
<1>2. CASE ProcPerform
  BY <1>2, ProcPerformMaps DEF Remote!Next
<1>3. CASE ProcDone
  BY <1>3, ProcDoneMaps
<1>4. CASE ObjectWorks
  BY <1>4, ObjectWorksMaps DEF Remote!Next
<1>5. ASSUME NEW c \in Clients, NEW o \in Blocking, NEW v \in Arguments(o), Start(c, o, v)
      PROVE  Remote!Next
  BY <1>5, StartMaps, SameObject DEF Remote!Next
<1>6. ASSUME NEW c \in Clients, WaitConnected(c) \/ Issue(c)
      PROVE  UNCHANGED Remote!absVars
  BY <1>6, WaitConnectedMaps, IssueMaps
<1>7. ASSUME NEW c \in Clients, Finish(c)
      PROVE  Remote!Next
  BY <1>7, FinishMaps DEF Remote!Next
<1>8. ASSUME NEW c \in Clients, NEW o \in NonBlocking, NEW v \in Arguments(o), Try(c, o, v)
      PROVE  Remote!Next
  BY <1>8, TryMaps, SameObject DEF Remote!Next
<1>9. ASSUME NEW c \in Clients, NEW v \in Values, Write(c, v)
      PROVE  Remote!Next
  <2>1. "put" \in NonBlocking /\ v \in Arguments("put")
    BY DEF NonBlocking, Arguments, Sends
  <2> QED  BY <1>9, <2>1, WriteMaps, SameObject DEF Remote!Next
<1>10. CASE UNCHANGED vars
  BY <1>10 DEF vars, clientVars, procVars, boxes, Remote!absVars, Remote!boxes, callBar, resBar,
    Performed
<1> QED  BY <1>1, <1>2, <1>3, <1>4, <1>5, <1>6, <1>7, <1>8, <1>9, <1>10 DEF Next, ClientStep

\* Through the proxies the object behaves as if it were here, whatever the port, for
\* callers that call only what is there.
THEOREM Refinement ==
  ASSUME UsesFit
  PROVE  Spec => ImplementsRemoteObject
<1>1. Init => RInv
  BY InitInv, AllowedInit DEF RInv
<1>2. RInv /\ [Next]_vars => RInv'
  BY NextInv, AllowedNext DEF RInv
<1>3. Init => Remote!Init
  BY InitMaps
<1>4. RInv /\ [Next]_vars => [Remote!Next]_Remote!absVars
  BY NextMaps
<1> QED  BY <1>1, <1>2, <1>3, <1>4, PTL DEF Spec, ImplementsRemoteObject, Remote!Spec
=============================================================================
