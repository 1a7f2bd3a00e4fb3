--------------------------- MODULE UvmcTlm2Proofs ---------------------------
(***************************************************************************)
(* Theorems about UvmcTlm2, for every set of initiators, of payloads and   *)
(* of bytes, every latency of the target, both directions, and whatever a  *)
(* SystemC target finds in memory that is not the proxy's any more.        *)
(***************************************************************************)
EXTENDS UvmcTlm2, SequenceTheorems, TLAPS

\* The arrays of two payloads are of the same lengths.
SameLengths(p, q) ==
  /\ Len(Sent(p.data)) = Len(Sent(q.data))
  /\ Len(Sent(p.be)) = Len(Sent(q.be))

Holds(c) == pc[c] \in {"wait", "woken"}

\* The semaphore is taken for the one initiator whose request is out.
OneInFlight ==
  /\ \A c, d \in Clients : Holds(c) /\ Holds(d) => c = d
  /\ m_sem = 0 <=> \E c \in Clients : Holds(c)

\* The process of the other side can be woken whenever it does not work.
ProcIdle == caller = "SC" => proc # "none" /\ (proc = "waiting" => m_blocking_op = "NONE")

\* A target has one interface, and nothing goes out before the proxy is connected.
Allowed ==
  /\ target # "b" => \A c \in Clients : pc[c] = "idle"
  /\ target # "nb" => out = NoClient
  /\ out = NoClient <=> stage = "none"
  /\ \A c \in Clients : pc[c] \notin {"idle", "connect"} => m_connected
  /\ caller = "SV" \/ stage # "none" => m_connected

\* What the target works on, or keeps, has been unpacked for it.
Arrived ==
  /\ \A c \in Clients : pc[c] \in {"connect", "acquire", "wait"} => delay[c] = 0
  /\ proc = "runnable" => m_t.data.ptr # "null"
  /\ stage = "held" => View(Kept) = View(trans[out]) /\ Kept.data.ptr # "null"

\* The response fits into the arrays of the initiator, whose next action unpacks it.
ResponseFits ==
  \A c \in Clients :
    /\ Responding(c) \/ InBits(c) => SameLengths(m_t, trans[c])
    /\ InBits(c) => m_bits = Pack(m_t)

IInv ==
  /\ TypeOK
  /\ OneInFlight /\ RequestArrives /\ ProcIdle /\ Allowed /\ Arrived
  /\ ResponseFits /\ OwnArrayKept

-----------------------------------------------------------------------------
(***************************************************************************)
(* The converter                                                           *)
(***************************************************************************)

Fields == Bytes \cup Commands \cup Statuses \cup Nat

LEMMA SentTyped ==
  ASSUME NEW a \in Arrays
  PROVE  Sent(a) \in Seq(Bytes) /\ Sent(a) \in Seq(Fields) /\ Len(Sent(a)) \in Nat
<1>1. Sent(a) \in Seq(Bytes)
  BY EmptySeq DEF Sent, Arrays
<1>2. Sent(a) \in Seq(Fields)
  <2>1. Bytes \subseteq Fields
    BY DEF Fields
  <2> QED  BY <1>1, <2>1, SeqMonotonic
<1> QED  BY <1>1, <1>2, LenProperties

\* Where the fields of a payload are in what is sent.
LEMMA PackIs ==
  ASSUME NEW p \in GenericPayloads
  PROVE  LET d == Len(Sent(p.data))
             e == Len(Sent(p.be))
         IN /\ Pack(p)[1] = p.cmd /\ Pack(p)[2] = d
            /\ SubSeq(Pack(p), 3, 2 + d) = Sent(p.data)
            /\ Pack(p)[3 + d] = p.status /\ Pack(p)[4 + d] = e
            /\ SubSeq(Pack(p), 5 + d, 4 + d + e) = Sent(p.be)
<1> DEFINE ds == Sent(p.data)
           es == Sent(p.be)
           d == Len(ds)
           e == Len(es)
           h == <<p.cmd, d>>
           m == <<p.status, e>>
           a == h \o ds
           b == a \o m
           bits == b \o es
<1>1. /\ ds \in Seq(Fields) /\ es \in Seq(Fields) /\ d \in Nat /\ e \in Nat
      /\ ds \in Seq(Bytes) /\ es \in Seq(Bytes)
  BY SentTyped DEF GenericPayloads
<1>2. /\ h \in Seq(Fields) /\ Len(h) = 2 /\ h[1] = p.cmd /\ h[2] = d
      /\ m \in Seq(Fields) /\ Len(m) = 2 /\ m[1] = p.status /\ m[2] = e
  <2>1. p.cmd \in Fields /\ p.status \in Fields /\ d \in Fields /\ e \in Fields
    BY <1>1 DEF GenericPayloads, Fields
  <2> QED  BY <2>1
<1>3. bits = Pack(p)
  BY DEF Pack
<1> HIDE DEF ds, es, d, e, h, m
<1>4. /\ a \in Seq(Fields) /\ Len(a) = 2 + d
      /\ \A i \in 1 .. 2 + d : a[i] = IF i <= 2 THEN h[i] ELSE ds[i - 2]
  <2>1. /\ Len(ds) = d
        /\ h \o ds \in Seq(Fields) /\ Len(h \o ds) = Len(h) + Len(ds)
        /\ \A i \in 1 .. Len(h) + Len(ds) :
             (h \o ds)[i] = IF i <= Len(h) THEN h[i] ELSE ds[i - Len(h)]
    BY <1>1, <1>2, ConcatProperties DEF d
  <2> QED  BY <1>2, <2>1
<1> HIDE DEF a
<1>5. /\ b \in Seq(Fields) /\ Len(b) = 4 + d
      /\ \A i \in 1 .. 4 + d : b[i] = IF i <= 2 + d THEN a[i] ELSE m[i - (2 + d)]
  <2>1. /\ a \o m \in Seq(Fields) /\ Len(a \o m) = Len(a) + Len(m)
        /\ \A i \in 1 .. Len(a) + Len(m) :
             (a \o m)[i] = IF i <= Len(a) THEN a[i] ELSE m[i - Len(a)]
    BY <1>2, <1>4, ConcatProperties
  <2>2. Len(a) + Len(m) = 4 + d
    BY <1>1, <1>2, <1>4
  <2> QED  BY <1>4, <2>1, <2>2
<1> HIDE DEF b
<1>6. /\ bits \in Seq(Fields) /\ Len(bits) = 4 + d + e
      /\ \A i \in 1 .. 4 + d + e : bits[i] = IF i <= 4 + d THEN b[i] ELSE es[i - (4 + d)]
  <2>1. /\ Len(es) = e
        /\ b \o es \in Seq(Fields) /\ Len(b \o es) = Len(b) + Len(es)
        /\ \A i \in 1 .. Len(b) + Len(es) :
             (b \o es)[i] = IF i <= Len(b) THEN b[i] ELSE es[i - Len(b)]
    BY <1>1, <1>5, ConcatProperties DEF e
  <2> QED  BY <1>5, <2>1
<1> HIDE DEF bits
<1>7. bits[1] = p.cmd /\ bits[2] = d
  BY <1>1, <1>2, <1>4, <1>5, <1>6
<1>8. bits[3 + d] = p.status /\ bits[4 + d] = e
  BY <1>1, <1>2, <1>5, <1>6
<1>9. SubSeq(bits, 3, 2 + d) = ds
  <2>1. \A i \in 1 .. d : bits[2 + i] = ds[i]
    BY <1>1, <1>4, <1>5, <1>6
  <2>2. \A i \in 3 .. 2 + d : bits[i] \in Fields
    BY <1>1, <1>6, ElementOfSeq
  <2>3. /\ SubSeq(bits, 3, 2 + d) \in Seq(Fields) /\ Len(SubSeq(bits, 3, 2 + d)) = d
        /\ \A i \in 1 .. d : SubSeq(bits, 3, 2 + d)[i] = bits[2 + i]
    <3>1. 3 \in Int /\ 2 + d \in Int /\ (2 + d) - 3 + 1 = d /\ (3 <= 2 + d <=> d # 0)
          /\ \A i \in 1 .. d : 3 + i - 1 = 2 + i
      BY <1>1
    <3> QED  BY <1>1, <2>2, <3>1, SubSeqProperties
  <2> QED  BY <1>1, <2>1, <2>3, SeqEqual DEF d
<1>10. SubSeq(bits, 5 + d, 4 + d + e) = es
  <2>1. \A i \in 1 .. e : bits[4 + d + i] = es[i]
    BY <1>1, <1>6
  <2>2. \A i \in 5 + d .. 4 + d + e : bits[i] \in Fields
    BY <1>1, <1>6, ElementOfSeq
  <2>3. /\ SubSeq(bits, 5 + d, 4 + d + e) \in Seq(Fields)
        /\ Len(SubSeq(bits, 5 + d, 4 + d + e)) = e
        /\ \A i \in 1 .. e : SubSeq(bits, 5 + d, 4 + d + e)[i] = bits[4 + d + i]
    <3>1. 5 + d \in Int /\ 4 + d + e \in Int /\ (4 + d + e) - (5 + d) + 1 = e
          /\ (5 + d <= 4 + d + e <=> e # 0) /\ \A i \in 1 .. e : (5 + d) + i - 1 = 4 + d + i
      BY <1>1
    <3> QED  BY <1>1, <2>2, <3>1, SubSeqProperties
  <2> QED  BY <1>1, <2>1, <2>3, SeqEqual DEF e
<1> QED  BY <1>3, <1>7, <1>8, <1>9, <1>10 DEF d, e, ds, es

\* What do_unpack makes of what do_pack has sent.
LEMMA UnpackIs ==
  ASSUME NEW p \in GenericPayloads, NEW q \in GenericPayloads
  PROVE  Unpack(q, Pack(p)) =
           [cmd |-> p.cmd, data |-> UnpackArray(q.data, Sent(p.data)),
            be |-> UnpackArray(q.be, Sent(p.be)), status |-> p.status]
<1> DEFINE d == Len(Sent(p.data))
           e == Len(Sent(p.be))
           bits == Pack(p)
<1>1. d \in Nat /\ e \in Nat
  BY SentTyped DEF GenericPayloads
<1>2. /\ bits[1] = p.cmd /\ bits[2] = d /\ SubSeq(bits, 3, 2 + d) = Sent(p.data)
      /\ bits[3 + d] = p.status /\ bits[4 + d] = e
      /\ SubSeq(bits, 5 + d, 4 + d + e) = Sent(p.be)
  BY PackIs
<1> HIDE DEF d, e, bits
<1>3. /\ DataEnd(bits) = 2 + d /\ (2 + d) + 1 = 3 + d /\ (2 + d) + 2 = 4 + d
      /\ (2 + d) + 3 = 5 + d /\ 4 + d + e = (2 + d) + 2 + e
  BY <1>1, <1>2 DEF DataEnd
<1> QED  BY <1>2, <1>3 DEF Unpack, bits

\* A payload arrives as what was sent, and has an array of some kind.
LEMMA UnpackOK ==
  ASSUME NEW p \in GenericPayloads, NEW q \in GenericPayloads
  PROVE  /\ Unpack(q, Pack(p)) \in GenericPayloads
         /\ View(Unpack(q, Pack(p))) = View(p)
         /\ SameLengths(Unpack(q, Pack(p)), p)
         /\ Unpack(q, Pack(p)).data.ptr # "null" /\ Unpack(q, Pack(p)).be.ptr # "null"
<1>1. ASSUME NEW a \in Arrays, NEW s \in Seq(Bytes)
      PROVE  /\ UnpackArray(a, s) \in Arrays /\ UnpackArray(a, s).ptr # "null"
             /\ Sent(UnpackArray(a, s)) = s
  <2>1. ArrayFor(a, Len(s)) \in Pointers \ {"null"}
    BY DEF ArrayFor, Arrays, Pointers
  <2> QED  BY <2>1 DEF UnpackArray, Sent, Arrays
<1>2. /\ q.data \in Arrays /\ q.be \in Arrays
      /\ Sent(p.data) \in Seq(Bytes) /\ Sent(p.be) \in Seq(Bytes)
  BY SentTyped DEF GenericPayloads
<1>3. p.cmd \in Commands /\ p.status \in Statuses
  BY DEF GenericPayloads
<1>4. Unpack(q, Pack(p)) \in GenericPayloads
  BY <1>1, <1>2, <1>3, UnpackIs DEF GenericPayloads
<1>5. /\ Sent(Unpack(q, Pack(p)).data) = Sent(p.data) /\ Sent(Unpack(q, Pack(p)).be) = Sent(p.be)
      /\ Unpack(q, Pack(p)).data.ptr # "null" /\ Unpack(q, Pack(p)).be.ptr # "null"
      /\ Unpack(q, Pack(p)).cmd = p.cmd /\ Unpack(q, Pack(p)).status = p.status
  BY <1>1, <1>2, UnpackIs
<1> QED  BY <1>4, <1>5 DEF View, SameLengths

\* What fits into the arrays of a payload is unpacked into them.
LEMMA UnpackKeeps ==
  ASSUME NEW p \in GenericPayloads, NEW q \in GenericPayloads, SameLengths(p, q),
         q.data.ptr # "new", q.be.ptr # "new"
  PROVE  Unpack(q, Pack(p)).data.ptr # "new" /\ Unpack(q, Pack(p)).be.ptr # "new"
<1>1. ASSUME NEW a \in Arrays, NEW s \in Seq(Bytes), Len(s) = Len(Sent(a)), a.ptr # "new"
      PROVE  UnpackArray(a, s).ptr # "new"
  <2>1. CASE a.ptr = "null"
    <3>1. Len(s) = 0
      BY <1>1, <2>1, EmptySeq DEF Sent
    <3> QED  BY <2>1, <3>1 DEF UnpackArray, ArrayFor
  <2>2. CASE a.ptr # "null"
    <3>1. Len(s) = Len(a.bytes) /\ Len(s) \in Nat
      BY <1>1, <2>2, LenProperties DEF Sent
    <3>2. ~(Len(s) > Len(a.bytes))
      BY <3>1
    <3> QED  BY <1>1, <2>2, <3>2 DEF UnpackArray, ArrayFor
  <2> QED  BY <2>1, <2>2
<1>2. /\ q.data \in Arrays /\ q.be \in Arrays
      /\ Sent(p.data) \in Seq(Bytes) /\ Sent(p.be) \in Seq(Bytes)
  BY SentTyped DEF GenericPayloads
<1> QED  BY <1>1, <1>2, UnpackIs DEF SameLengths

LEMMA FreshOK == FreshPayload \in GenericPayloads /\ FreshPayload.data.ptr = "null"
                 /\ FreshPayload.be.ptr = "null"
BY EmptySeq DEF FreshPayload, NoArray, GenericPayloads, Arrays, Commands, Statuses, Pointers

LEMMA PackIsNotEmpty ==
  ASSUME NEW p \in GenericPayloads
  PROVE  Unpack(FreshPayload, Pack(p)) \in GenericPayloads
BY FreshOK, UnpackOK

\* Payloads that read the same are of the same lengths.
LEMMA SameViews ==
  ASSUME NEW p, NEW q, View(p) = View(q)
  PROVE  SameLengths(p, q) /\ p.cmd = q.cmd
BY DEF View, SameLengths

-----------------------------------------------------------------------------
(***************************************************************************)
(* The target                                                              *)
(***************************************************************************)

\* A target keeps the arrays of the payload it performs.
LEMMA ServedOK ==
  ASSUME mem \in Bytes, NEW p \in GenericPayloads
  PROVE  /\ Served(p) \in GenericPayloads
         /\ SameLengths(Served(p), p)
         /\ Served(p).data.ptr = p.data.ptr /\ Served(p).be = p.be
         /\ Served(p).cmd = p.cmd /\ Served(p).status = "ok"
         /\ Served(p).data.bytes =
              IF p.cmd = "read" /\ p.data.bytes # <<>> THEN [p.data.bytes EXCEPT ![1] = mem]
              ELSE p.data.bytes
<1> DEFINE s == p.data.bytes
           t == IF p.cmd = "read" /\ s # <<>> THEN [s EXCEPT ![1] = mem] ELSE s
<1>1. p.data \in Arrays /\ s \in Seq(Bytes) /\ p.be \in Arrays /\ p.cmd \in Commands
  BY DEF GenericPayloads, Arrays
<1>2. t \in Seq(Bytes) /\ Len(t) = Len(s)
  <2>1. CASE s # <<>>
    <3>1. 1 \in 1 .. Len(s)
      BY <1>1, <2>1, EmptySeq
    <3> QED  BY <1>1, <3>1, ExceptSeq
  <2> QED  BY <1>1, <2>1
<1>3. Served(p) = [p EXCEPT !.status = "ok", !.data = [p.data EXCEPT !.bytes = t]]
  BY DEF Served
<1> HIDE DEF t
<1>4. [p.data EXCEPT !.bytes = t] \in Arrays /\ [p.data EXCEPT !.bytes = t].ptr = p.data.ptr
      /\ [p.data EXCEPT !.bytes = t].bytes = t
  BY <1>1, <1>2 DEF Arrays
<1>5. /\ Served(p) \in GenericPayloads /\ Served(p).data = [p.data EXCEPT !.bytes = t]
      /\ Served(p).be = p.be /\ Served(p).cmd = p.cmd /\ Served(p).status = "ok"
  BY <1>3, <1>4 DEF GenericPayloads, Statuses
<1>6. SameLengths(Served(p), p)
  BY <1>2, <1>4, <1>5 DEF SameLengths, Sent
<1> QED  BY <1>4, <1>5, <1>6 DEF t

LEMMA StoredOK ==
  ASSUME mem \in Bytes, NEW p \in GenericPayloads
  PROVE  Stored(p) \in Bytes
<1>1. p.data.bytes \in Seq(Bytes)
  BY DEF GenericPayloads, Arrays
<1>2. p.data.bytes # <<>> => p.data.bytes[1] \in Bytes
  <2> SUFFICES ASSUME p.data.bytes # <<>>
               PROVE  p.data.bytes[1] \in Bytes
    OBVIOUS
  <2>1. 1 \in 1 .. Len(p.data.bytes)
    BY <1>1, EmptySeq
  <2> QED  BY <1>1, <2>1, ElementOfSeq
<1> QED  BY <1>2 DEF Stored

-----------------------------------------------------------------------------
(***************************************************************************)
(* The invariant                                                           *)
(***************************************************************************)

LEMMA InitInv ==
  ASSUME Init
  PROVE  IInv
<1>1. TypeOK
  <2>1. trans \in [Clients -> GenericPayloads] /\ m_t \in GenericPayloads /\ astray \in BOOLEAN
    BY FreshOK, GarbageAssumption DEF Init
  <2>2. delay \in [Clients -> Delays \cup {NoDelay}] /\ m_delay \in Delays
    BY DelayAssumption DEF Init, Delays
  <2>3. IsBits(m_bits) /\ held \in GenericPayloads \cup {NoPayload}
    BY DEF Init, IsBits
  <2>4. /\ caller \in {"SC", "SV"} /\ target \in {"b", "nb", "write"}
        /\ m_connected \in BOOLEAN /\ proc \in {"none", "waiting", "runnable", "performed"}
    BY DEF Init
  <2> QED  BY <2>1, <2>2, <2>3, <2>4 DEF Init, TypeOK
<1>2. OneInFlight /\ RequestArrives /\ ProcIdle
  BY DEF Init, OneInFlight, RequestArrives, ProcIdle, Holds, Waiting
<1>3. Allowed
  BY DEF Init, Allowed
<1>4. Arrived /\ ResponseFits
  BY DEF Init, Arrived, ResponseFits, Responding, InBits
<1>5. OwnArrayKept
  BY FreshOK DEF Init, OwnArrayKept
<1> QED  BY <1>1, <1>2, <1>3, <1>4, <1>5 DEF IInv

LEMMA NotifyConnectedInv ==
  ASSUME IInv, NotifyConnected
  PROVE  IInv'
<1> USE DEF NotifyConnected, bVars, nbVars
<1>1. TypeOK' /\ OwnArrayKept'
  BY DEF IInv, TypeOK, OwnArrayKept
<1>2. OneInFlight' /\ RequestArrives' /\ ProcIdle' /\ Allowed'
  BY DEF IInv, OneInFlight, RequestArrives, ProcIdle, Allowed, Holds, Waiting
<1>3. Arrived' /\ ResponseFits'
  BY DEF IInv, Arrived, ResponseFits, Responding, InBits, Kept
<1> QED  BY <1>1, <1>2, <1>3 DEF IInv

\* An initiator that is in a call has a target that blocks, and nothing else is outstanding.
LEMMA InCall ==
  ASSUME IInv, NEW c \in Clients, pc[c] # "idle"
  PROVE  target = "b" /\ out = NoClient /\ stage = "none"
BY DEF IInv, Allowed

\* The process of the other side works for one initiator, which waits.
LEMMA AtWork ==
  ASSUME IInv, proc \in {"runnable", "performed"}
  PROVE  \E c \in Clients :
           /\ pc[c] = "wait" /\ Waiting = {c} /\ (\A d \in Clients \ {c} : ~Holds(d))
           /\ target = "b" /\ out = NoClient /\ stage = "none" /\ m_connected
<1>1. PICK c \in Clients : pc[c] = "wait"
  BY DEF IInv, RequestArrives, Waiting
<1>2. \A d \in Clients \ {c} : ~Holds(d)
  BY <1>1 DEF IInv, OneInFlight, Holds
<1>3. Waiting = {c}
  BY <1>1, <1>2 DEF Waiting, Holds
<1> QED  BY <1>1, <1>2, <1>3, InCall DEF IInv, Allowed

\* A step of an initiator before its request is out disturbs no call under way.
LEMMA BeforeInv ==
  ASSUME IInv, NEW c \in Clients, ~Holds(c), pc[c] # "idle" \/ target = "b",
         pc' = [pc EXCEPT ![c] = pc'[c]], pc'[c] \in {"connect", "acquire"},
         trans' = [trans EXCEPT ![c] = trans'[c]], delay' = [delay EXCEPT ![c] = 0],
         trans'[c] \in GenericPayloads, trans'[c].data.ptr # "new", trans'[c].be.ptr # "new",
         pc'[c] = "acquire" => m_connected,
         UNCHANGED <<caller, target, mem, m_connected, m_t, m_delay, m_sem, m_bits,
                     m_blocking_op, proc, nbVars>>
  PROVE  IInv'
<1> USE DEF nbVars
<1>1. target = "b" /\ out = NoClient /\ stage = "none"
  BY InCall DEF IInv, Allowed
<1>2. \A d \in Clients \ {c} : pc'[d] = pc[d] /\ trans'[d] = trans[d] /\ delay'[d] = delay[d]
  BY DEF IInv, TypeOK
<1>3. ~Holds(c)' /\ delay'[c] = 0
  BY DEF Holds, IInv, TypeOK
<1>4. \A d \in Clients : Holds(d)' <=> Holds(d)
  BY <1>2, <1>3 DEF Holds
<1>5. Waiting' = Waiting /\ c \notin Waiting
  BY <1>2, <1>3 DEF Waiting, Holds
<1>6. TypeOK'
  <2>1. pc' \in [Clients -> {"idle", "connect", "acquire", "wait", "woken"}]
    BY DEF IInv, TypeOK
  <2>2. trans' \in [Clients -> GenericPayloads]
    BY DEF IInv, TypeOK
  <2>3. delay' \in [Clients -> Delays \cup {NoDelay}]
    BY DelayAssumption DEF IInv, TypeOK, Delays
  <2> QED  BY <2>1, <2>2, <2>3 DEF IInv, TypeOK
<1>7. OneInFlight' /\ ProcIdle'
  BY <1>4 DEF IInv, OneInFlight, ProcIdle
<1>8. RequestArrives'
  <2>1. \A d \in Waiting : d \in Clients \ {c}
    BY <1>5 DEF Waiting
  <2> QED  BY <1>2, <1>5, <2>1 DEF IInv, RequestArrives
<1>9. Allowed'
  BY <1>1, <1>2 DEF IInv, Allowed
<1>10. Arrived'
  BY <1>1, <1>2, <1>3 DEF IInv, Arrived
<1>11. ResponseFits'
  <2>1. ~Responding(c)' /\ ~InBits(c)'
    BY <1>3 DEF Responding, InBits, Holds
  <2> QED  BY <1>2, <2>1 DEF IInv, ResponseFits, Responding, InBits
<1>12. OwnArrayKept'
  BY <1>2 DEF IInv, OwnArrayKept
<1> QED  BY <1>6, <1>7, <1>8, <1>9, <1>10, <1>11, <1>12 DEF IInv

LEMMA BTransportInv ==
  ASSUME IInv, NEW c \in Clients, NEW p \in Payloads, BTransport(c, p)
  PROVE  IInv'
<1>1. p \in GenericPayloads /\ p.data.ptr # "new" /\ p.be.ptr # "new"
  BY PayloadsAssumption
<1>2. ~Holds(c) /\ target = "b"
  BY DEF BTransport, Holds
<1>3. /\ trans'[c] = p /\ trans' = [trans EXCEPT ![c] = trans'[c]]
      /\ delay' = [delay EXCEPT ![c] = 0]
  BY DEF BTransport, IInv, TypeOK
<1>4. /\ pc'[c] = (IF caller = "SC" THEN "connect" ELSE "acquire")
      /\ pc' = [pc EXCEPT ![c] = pc'[c]]
  BY DEF BTransport, IInv, TypeOK
<1>5. pc'[c] = "acquire" => m_connected
  BY <1>4 DEF IInv, TypeOK, Allowed
<1>6. UNCHANGED <<caller, target, mem, m_connected, m_t, m_delay, m_sem, m_bits,
                  m_blocking_op, proc, nbVars>>
  BY DEF BTransport
<1> QED  BY <1>1, <1>2, <1>3, <1>4, <1>5, <1>6, BeforeInv

LEMMA WaitConnectedInv ==
  ASSUME IInv, NEW c \in Clients, WaitConnected(c)
  PROVE  IInv'
<1>1. /\ pc'[c] = "acquire" /\ pc' = [pc EXCEPT ![c] = pc'[c]] /\ pc[c] = "connect"
      /\ m_connected
  BY DEF WaitConnected, IInv, TypeOK
<1>2. /\ trans' = [trans EXCEPT ![c] = trans'[c]] /\ delay' = [delay EXCEPT ![c] = 0]
      /\ trans'[c] = trans[c]
  BY <1>1 DEF WaitConnected, IInv, TypeOK, Arrived
<1>3. /\ trans'[c] \in GenericPayloads /\ trans'[c].data.ptr # "new"
      /\ trans'[c].be.ptr # "new"
  BY <1>2 DEF IInv, TypeOK, OwnArrayKept
<1>4. ~Holds(c) /\ pc[c] # "idle"
  BY <1>1 DEF Holds
<1>5. UNCHANGED <<caller, target, mem, m_connected, m_t, m_delay, m_sem, m_bits,
                  m_blocking_op, proc, nbVars>>
  BY DEF WaitConnected
<1> QED  BY <1>1, <1>2, <1>3, <1>4, <1>5, BeforeInv

\* The request finds nobody in a call and the process of the other side idle, so the
\* process is woken, with the payload as the initiator sent it.
LEMMA IssueInv ==
  ASSUME IInv, NEW c \in Clients, Issue(c)
  PROVE  IInv'
<1> USE DEF nbVars
<1>1. /\ pc[c] = "acquire" /\ m_sem = 1 /\ m_sem' = 0
      /\ m_t' = Unpack(ForRequest, Pack(trans[c])) /\ m_delay' = delay[c]
      /\ m_blocking_op' = "B_TRANSPORT" /\ pc' = [pc EXCEPT ![c] = "wait"]
      /\ proc' = IF Wakes THEN "runnable" ELSE proc
      /\ UNCHANGED <<caller, target, mem, m_connected, trans, delay, m_bits, nbVars>>
  BY DEF Issue, SemaphoreFree, RequestDelay, IInv, TypeOK
<1>2. target = "b" /\ out = NoClient /\ stage = "none" /\ delay[c] = 0 /\ m_connected
  BY <1>1, InCall DEF IInv, Arrived, Allowed
<1>3. \A d \in Clients : ~Holds(d)
  BY <1>1 DEF IInv, OneInFlight
<1>4. proc' = "runnable"
  <2>1. Waiting = {}
    BY <1>3 DEF Waiting, Holds
  <2>2. proc \in {"none", "waiting"}
    BY <2>1 DEF IInv, TypeOK, RequestArrives
  <2>3. Wakes
    BY <2>2 DEF Wakes, IInv, ProcIdle, TypeOK
  <2> QED  BY <1>1, <2>3
<1>5. /\ m_t' \in GenericPayloads /\ m_t'.data.ptr # "null" /\ View(m_t') = View(trans[c])
  <2>1. ForRequest \in GenericPayloads /\ trans[c] \in GenericPayloads
    BY FreshOK DEF ForRequest, IInv, TypeOK
  <2> QED  BY <1>1, <2>1, UnpackOK
<1>6. pc'[c] = "wait" /\ \A d \in Clients \ {c} : pc'[d] = pc[d] /\ ~Holds(d)'
  BY <1>1, <1>3 DEF IInv, TypeOK, Holds
<1>7. TypeOK'
  <2>1. m_delay' \in Delays
    BY <1>1, <1>2, DelayAssumption DEF Delays
  <2>2. pc' \in [Clients -> {"idle", "connect", "acquire", "wait", "woken"}]
    BY <1>1 DEF IInv, TypeOK
  <2> QED  BY <1>1, <1>4, <1>5, <2>1, <2>2 DEF IInv, TypeOK
<1>8. OneInFlight'
  BY <1>1, <1>6 DEF OneInFlight, Holds
<1>9. RequestArrives'
  <2>1. Waiting' = {c}
    BY <1>6 DEF Waiting, Holds
  <2> QED  BY <1>1, <1>4, <1>5, <2>1 DEF RequestArrives
<1>10. ProcIdle'
  BY <1>4 DEF ProcIdle
<1>11. Allowed'
  BY <1>1, <1>2, <1>6 DEF IInv, Allowed
<1>12. Arrived'
  BY <1>1, <1>2, <1>5, <1>6 DEF IInv, Arrived
<1>13. ResponseFits'
  BY <1>4, <1>6 DEF ResponseFits, Responding, InBits, Holds
<1>14. OwnArrayKept'
  BY <1>1 DEF IInv, OwnArrayKept
<1> QED  BY <1>7, <1>8, <1>9, <1>10, <1>11, <1>12, <1>13, <1>14 DEF IInv

LEMMA PerformInv ==
  ASSUME IInv, Perform
  PROVE  IInv'
<1> USE DEF nbVars
<1>1. /\ proc = "runnable" /\ proc' = "performed" /\ mem' = Stored(m_t) /\ m_t' = Served(m_t)
      /\ m_delay' = m_delay + Latency[m_t.cmd]
      /\ UNCHANGED <<caller, target, m_connected, trans, delay, pc, m_sem, m_bits,
                     m_blocking_op, nbVars>>
  BY DEF Perform
<1>2. PICK c \in Clients :
        /\ pc[c] = "wait" /\ Waiting = {c} /\ (\A d \in Clients \ {c} : ~Holds(d))
        /\ target = "b" /\ out = NoClient /\ stage = "none" /\ m_connected
  BY <1>1, AtWork
<1>3. m_t \in GenericPayloads /\ mem \in Bytes
  BY DEF IInv, TypeOK
<1>4. View(m_t) = View(trans[c]) /\ m_delay = 0
  BY <1>1, <1>2 DEF IInv, RequestArrives, Arrived
<1>5. m_t' \in GenericPayloads /\ SameLengths(m_t', trans[c])
  <2>1. SameLengths(Served(m_t), m_t) /\ Served(m_t) \in GenericPayloads
    BY <1>3, ServedOK
  <2>2. SameLengths(m_t, trans[c])
    BY <1>4, SameViews
  <2> QED  BY <1>1, <2>1, <2>2 DEF SameLengths
<1>6. TypeOK'
  <2>1. m_delay' \in Delays
    <3>1. m_t.cmd \in Commands
      BY <1>3 DEF GenericPayloads
    <3> QED  BY <1>1, <1>4, <3>1, DelayAssumption DEF Delays
  <2>2. mem' \in Bytes
    BY <1>1, <1>3, StoredOK
  <2> QED  BY <1>1, <1>5, <2>1, <2>2 DEF IInv, TypeOK
<1>7. Waiting' = Waiting
  BY <1>1 DEF Waiting
<1>8. OneInFlight' /\ RequestArrives' /\ ProcIdle' /\ Allowed' /\ OwnArrayKept'
  BY <1>1, <1>7 DEF IInv, OneInFlight, RequestArrives, ProcIdle, Allowed, OwnArrayKept, Holds
<1>9. Arrived'
  BY <1>1, <1>2 DEF IInv, Arrived
<1>10. ResponseFits'
  BY <1>1, <1>2, <1>5 DEF ResponseFits, Responding, InBits, Holds
<1> QED  BY <1>6, <1>8, <1>9, <1>10 DEF IInv

\* The response is unpacked into the arrays of the one initiator that waits, or kept for it.
LEMMA RspDoneInv ==
  ASSUME IInv, RspDone
  PROVE  IInv'
<1> USE DEF nbVars
<1>1. /\ proc = "performed" /\ proc' = "waiting" /\ m_blocking_op' = Reset
      /\ pc' = [c \in Clients |-> IF c \in Waiting THEN "woken" ELSE pc[c]]
      /\ UNCHANGED <<caller, target, mem, m_connected, delay, m_t, m_delay, m_sem, nbVars>>
  BY DEF RspDone
<1>2. PICK c \in Clients :
        /\ pc[c] = "wait" /\ Waiting = {c} /\ (\A d \in Clients \ {c} : ~Holds(d))
        /\ target = "b" /\ out = NoClient /\ stage = "none" /\ m_connected
  BY <1>1, AtWork
<1>3. pc'[c] = "woken" /\ \A d \in Clients \ {c} : pc'[d] = pc[d] /\ ~Holds(d)'
  BY <1>1, <1>2 DEF Holds
<1>4. /\ m_t \in GenericPayloads /\ SameLengths(m_t, trans[c]) /\ trans[c] \in GenericPayloads
      /\ trans[c].data.ptr # "new" /\ trans[c].be.ptr # "new"
  BY <1>1, <1>2 DEF IInv, TypeOK, ResponseFits, Responding, OwnArrayKept
<1>5. ASSUME caller = "SC"
      PROVE  /\ trans' \in [Clients -> GenericPayloads] /\ IsBits(m_bits')
             /\ OwnArrayKept' /\ ResponseFits'
  <2>1. /\ m_bits' = m_bits
        /\ trans' = [d \in Clients |-> IF d \in Waiting THEN Unpack(trans[d], Pack(m_t))
                                        ELSE trans[d]]
    BY <1>5 DEF RspDone
  <2>2. trans'[c] = Unpack(trans[c], Pack(m_t)) /\ \A d \in Clients \ {c} : trans'[d] = trans[d]
    BY <1>2, <2>1
  <2>3. /\ trans'[c] \in GenericPayloads /\ trans'[c].data.ptr # "new"
        /\ trans'[c].be.ptr # "new"
    BY <1>4, <2>2, UnpackOK, UnpackKeeps
  <2>4. trans' \in [Clients -> GenericPayloads]
    BY <2>1, <2>2, <2>3 DEF IInv, TypeOK
  <2>5. OwnArrayKept'
    BY <2>2, <2>3 DEF IInv, OwnArrayKept
  <2>6. ResponseFits'
    BY <1>1, <1>5 DEF ResponseFits, Responding, InBits
  <2> QED  BY <2>1, <2>4, <2>5, <2>6 DEF IInv, TypeOK
<1>6. ASSUME caller = "SV"
      PROVE  /\ trans' \in [Clients -> GenericPayloads] /\ IsBits(m_bits')
             /\ OwnArrayKept' /\ ResponseFits'
  <2>1. m_bits' = Pack(m_t) /\ trans' = trans
    BY <1>6 DEF RspDone
  <2>2. IsBits(m_bits')
    BY <1>4, <2>1, PackIsNotEmpty DEF IsBits
  <2>3. ResponseFits'
    BY <1>1, <1>3, <1>4, <2>1 DEF ResponseFits, Responding, InBits, Holds
  <2> QED  BY <2>1, <2>2, <2>3 DEF IInv, TypeOK, OwnArrayKept
<1>7. trans' \in [Clients -> GenericPayloads] /\ IsBits(m_bits') /\ OwnArrayKept' /\ ResponseFits'
  BY <1>5, <1>6 DEF IInv, TypeOK
<1>8. TypeOK'
  <2>1. pc' \in [Clients -> {"idle", "connect", "acquire", "wait", "woken"}]
    BY <1>1 DEF IInv, TypeOK
  <2>2. m_blocking_op' \in {"NONE", "B_TRANSPORT"}
    BY <1>1 DEF IInv, TypeOK, Reset
  <2> QED  BY <1>1, <1>7, <2>1, <2>2 DEF IInv, TypeOK
<1>9. OneInFlight'
  BY <1>1, <1>2, <1>3 DEF IInv, OneInFlight, Holds
<1>10. RequestArrives'
  <2>1. Waiting' = {}
    BY <1>3 DEF Waiting, Holds
  <2> QED  BY <1>1, <2>1 DEF RequestArrives
<1>11. ProcIdle'
  BY <1>1 DEF ProcIdle, Reset
<1>12. Allowed' /\ Arrived'
  BY <1>1, <1>2, <1>3 DEF IInv, Allowed, Arrived
<1> QED  BY <1>7, <1>8, <1>9, <1>10, <1>11, <1>12 DEF IInv

LEMMA FinishInv ==
  ASSUME IInv, NEW c \in Clients, Finish(c)
  PROVE  IInv'
<1> USE DEF nbVars
<1>1. /\ pc[c] = "woken" /\ pc' = [pc EXCEPT ![c] = "idle"]
      /\ trans' = (IF caller = "SC" THEN trans
                   ELSE [trans EXCEPT ![c] = Unpack(trans[c], m_bits)])
      /\ delay' = [delay EXCEPT ![c] = m_delay] /\ m_bits' = NoBits /\ m_sem' = m_sem + 1
      /\ UNCHANGED <<caller, target, mem, m_connected, m_t, m_delay, m_blocking_op, proc,
                     nbVars>>
  BY DEF Finish
<1>2. Holds(c) /\ m_sem = 0 /\ target = "b" /\ out = NoClient /\ stage = "none"
  BY <1>1, InCall DEF Holds, IInv, OneInFlight
<1>3. \A d \in Clients \ {c} : ~Holds(d) /\ pc'[d] = pc[d] /\ delay'[d] = delay[d]
  BY <1>1, <1>2 DEF IInv, OneInFlight, TypeOK
<1>4. pc'[c] = "idle"
  BY <1>1 DEF IInv, TypeOK
<1>5. \A d \in Clients : ~Holds(d)'
  BY <1>3, <1>4 DEF Holds
<1>6. /\ trans' \in [Clients -> GenericPayloads]
      /\ \A d \in Clients : trans'[d].data.ptr # "new" /\ trans'[d].be.ptr # "new"
  <2>1. CASE caller = "SC"
    BY <1>1, <2>1 DEF IInv, TypeOK, OwnArrayKept
  <2>2. CASE caller # "SC"
    <3>1. InBits(c)
      BY <1>1, <2>2 DEF InBits, IInv, TypeOK
    <3>2. /\ m_bits = Pack(m_t) /\ SameLengths(m_t, trans[c]) /\ m_t \in GenericPayloads
          /\ trans[c] \in GenericPayloads /\ trans[c].data.ptr # "new"
          /\ trans[c].be.ptr # "new"
      BY <3>1 DEF IInv, TypeOK, ResponseFits, OwnArrayKept
    <3>3. /\ Unpack(trans[c], m_bits) \in GenericPayloads
          /\ Unpack(trans[c], m_bits).data.ptr # "new" /\ Unpack(trans[c], m_bits).be.ptr # "new"
      BY <3>2, UnpackOK, UnpackKeeps
    <3> QED  BY <1>1, <2>2, <3>3 DEF IInv, TypeOK, OwnArrayKept
  <2> QED  BY <2>1, <2>2
<1>7. TypeOK'
  <2>1. delay' \in [Clients -> Delays \cup {NoDelay}]
    BY <1>1 DEF IInv, TypeOK
  <2>2. pc' \in [Clients -> {"idle", "connect", "acquire", "wait", "woken"}]
    BY <1>1 DEF IInv, TypeOK
  <2>3. IsBits(m_bits') /\ m_sem' \in {0, 1}
    BY <1>1, <1>2 DEF IsBits
  <2> QED  BY <1>1, <1>6, <2>1, <2>2, <2>3 DEF IInv, TypeOK
<1>8. OneInFlight'
  BY <1>1, <1>2, <1>5 DEF OneInFlight
<1>9. RequestArrives'
  <2>1. Waiting = {} /\ Waiting' = {}
    BY <1>1, <1>3, <1>5 DEF Waiting, Holds
  <2> QED  BY <1>1, <2>1 DEF IInv, RequestArrives
<1>10. ProcIdle' /\ Allowed'
  BY <1>1, <1>2, <1>3, <1>4 DEF IInv, ProcIdle, Allowed
<1>11. Arrived'
  BY <1>1, <1>2, <1>3, <1>4 DEF IInv, Arrived
<1>12. ResponseFits' /\ OwnArrayKept'
  BY <1>5, <1>6 DEF ResponseFits, Responding, InBits, Holds, OwnArrayKept
<1> QED  BY <1>6, <1>7, <1>8, <1>9, <1>10, <1>11, <1>12 DEF IInv

\* A step of the interfaces that do not block.
LEMMA NbFrame ==
  ASSUME IInv, target # "b", UNCHANGED <<caller, target, m_connected, m_delay, bVars>>,
         mem' \in Bytes, m_t' \in GenericPayloads, trans' \in [Clients -> GenericPayloads],
         delay' \in [Clients -> Delays \cup {NoDelay}],
         \A d \in Clients : trans'[d].data.ptr # "new" /\ trans'[d].be.ptr # "new",
         out' \in Clients \cup {NoClient}, stage' \in {"none", "held", "answered"},
         held' \in GenericPayloads \cup {NoPayload}, astray' \in BOOLEAN,
         out' = NoClient <=> stage' = "none", target # "nb" => out' = NoClient,
         stage' # "none" => m_connected,
         stage' = "held" => View(Kept') = View(trans'[out']) /\ Kept'.data.ptr # "null"
  PROVE  IInv'
<1> USE DEF bVars
<1>1. \A d \in Clients : pc[d] = "idle"
  BY DEF IInv, Allowed
<1>2. TypeOK'
  BY DEF IInv, TypeOK
<1>3. OneInFlight' /\ ProcIdle' /\ OwnArrayKept'
  BY DEF IInv, OneInFlight, ProcIdle, Holds, OwnArrayKept
<1>4. Waiting' = Waiting /\ Waiting = {}
  BY <1>1 DEF Waiting
<1>5. RequestArrives'
  BY <1>4 DEF IInv, RequestArrives
<1>6. Allowed'
  BY <1>1 DEF IInv, Allowed
<1>7. Arrived'
  <2>1. proc' # "runnable"
    BY <1>4 DEF IInv, RequestArrives
  <2> QED  BY <1>1, <2>1 DEF Arrived
<1>8. ResponseFits'
  BY <1>1 DEF ResponseFits, Responding, InBits
<1> QED  BY <1>2, <1>3, <1>5, <1>6, <1>7, <1>8 DEF IInv

\* The payload as the target gets it, as it performs it, and what comes back of each.
LEMMA NbPayloads ==
  ASSUME IInv, NEW p \in Payloads
  PROVE  LET r == Unpack(m_t, Pack(p))
         IN /\ p \in GenericPayloads /\ p.data.ptr # "new" /\ p.be.ptr # "new"
            /\ r \in GenericPayloads /\ View(r) = View(p) /\ r.data.ptr # "null"
            /\ Served(r) \in GenericPayloads /\ Stored(r) \in Bytes
            /\ \A x \in {r, Served(r)} :
                 /\ Unpack(p, Pack(x)) \in GenericPayloads /\ View(Unpack(p, Pack(x))) = View(x)
                 /\ Unpack(p, Pack(x)).data.ptr # "new" /\ Unpack(p, Pack(x)).be.ptr # "new"
<1> DEFINE r == Unpack(m_t, Pack(p))
<1>1. p \in GenericPayloads /\ p.data.ptr # "new" /\ p.be.ptr # "new"
  BY PayloadsAssumption
<1>2. m_t \in GenericPayloads /\ mem \in Bytes
  BY DEF IInv, TypeOK
<1>3. r \in GenericPayloads /\ View(r) = View(p) /\ r.data.ptr # "null"
  BY <1>1, <1>2, UnpackOK
<1> HIDE DEF r
<1>4. Served(r) \in GenericPayloads /\ SameLengths(Served(r), r) /\ Stored(r) \in Bytes
  BY <1>2, <1>3, ServedOK, StoredOK
<1>5. SameLengths(r, p) /\ SameLengths(Served(r), p)
  BY <1>3, <1>4, SameViews DEF SameLengths
<1>6. \A x \in {r, Served(r)} : x \in GenericPayloads /\ SameLengths(x, p)
  BY <1>3, <1>4, <1>5
<1>7. \A x \in {r, Served(r)} :
        /\ Unpack(p, Pack(x)) \in GenericPayloads /\ View(Unpack(p, Pack(x))) = View(x)
        /\ Unpack(p, Pack(x)).data.ptr # "new" /\ Unpack(p, Pack(x)).be.ptr # "new"
  BY <1>1, <1>6, UnpackOK, UnpackKeeps
<1> QED  BY <1>1, <1>3, <1>4, <1>7 DEF r

LEMMA NbRequestInv ==
  ASSUME IInv, NEW c \in Clients, NEW p \in Payloads, NbRequest(c, p)
  PROVE  IInv'
<1> DEFINE r == Unpack(m_t, Pack(p))
<1>1. /\ target = "nb" /\ target # "b" /\ out = NoClient /\ stage = "none"
      /\ UNCHANGED <<caller, target, m_connected, m_delay, bVars>>
  BY DEF NbRequest, IInv, Allowed
<1>2. /\ p \in GenericPayloads /\ p.data.ptr # "new" /\ p.be.ptr # "new"
      /\ r \in GenericPayloads /\ View(r) = View(p) /\ r.data.ptr # "null"
      /\ Served(r) \in GenericPayloads /\ Stored(r) \in Bytes
      /\ \A x \in {r, Served(r)} :
           /\ Unpack(p, Pack(x)) \in GenericPayloads /\ View(Unpack(p, Pack(x))) = View(x)
           /\ Unpack(p, Pack(x)).data.ptr # "new" /\ Unpack(p, Pack(x)).be.ptr # "new"
  BY NbPayloads
<1>3. /\ mem \in Bytes /\ m_t \in GenericPayloads /\ trans \in [Clients -> GenericPayloads]
      /\ delay \in [Clients -> Delays \cup {NoDelay}]
      /\ held \in GenericPayloads \cup {NoPayload} /\ astray \in BOOLEAN /\ c # NoClient
      /\ \A d \in Clients : trans[d].data.ptr # "new" /\ trans[d].be.ptr # "new"
  BY NoClientAssumption DEF IInv, TypeOK, OwnArrayKept
<1>4. \A x \in GenericPayloads :
        x.data.ptr # "new" /\ x.be.ptr # "new" /\ trans' = [trans EXCEPT ![c] = x] =>
          /\ trans' \in [Clients -> GenericPayloads] /\ trans'[c] = x
          /\ \A d \in Clients : trans'[d].data.ptr # "new" /\ trans'[d].be.ptr # "new"
  BY <1>3
<1>5. delay' \in [Clients -> Delays \cup {NoDelay}]
  <2>1. p.cmd \in Commands
    BY <1>2 DEF GenericPayloads
  <2>2. NbDelay(p.cmd) \in Delays \cup {NoDelay} /\ 0 \in Delays
    BY <2>1, DelayAssumption DEF NbDelay, Delays
  <2>3. delay' = [delay EXCEPT ![c] = 0] \/ delay' = [delay EXCEPT ![c] = NbDelay(p.cmd)]
    BY DEF NbRequest
  <2> QED  BY <1>3, <2>2, <2>3
<1> HIDE DEF r
<1>6. CASE ~m_connected
  <2>1. trans' = [trans EXCEPT ![c] = p] /\ UNCHANGED <<mem, m_t, out, stage, held, astray>>
    BY <1>6 DEF NbRequest, nbVars
  <2>2. /\ trans' \in [Clients -> GenericPayloads]
        /\ \A d \in Clients : trans'[d].data.ptr # "new" /\ trans'[d].be.ptr # "new"
    BY <1>2, <1>4, <2>1
  <2> QED  BY <1>1, <1>3, <1>5, <2>1, <2>2, NbFrame
<1>7. CASE m_connected /\ trans' = [trans EXCEPT ![c] = Unpack(p, Pack(Served(r)))]
                       /\ mem' = Stored(r) /\ m_t' = Served(r)
                       /\ UNCHANGED <<out, stage, held, astray>>
  <2>1. /\ trans' \in [Clients -> GenericPayloads]
        /\ \A d \in Clients : trans'[d].data.ptr # "new" /\ trans'[d].be.ptr # "new"
    BY <1>2, <1>4, <1>7
  <2>2. mem' \in Bytes /\ m_t' \in GenericPayloads
    BY <1>2, <1>7
  <2> QED  BY <1>1, <1>3, <1>5, <1>7, <2>1, <2>2, NbFrame
<1>8. ASSUME m_connected, NEW phase \in {"BEGIN_REQ", "END_REQ"},
             m_t' = AfterPhase(r, phase), trans' = [trans EXCEPT ![c] = Unpack(p, Pack(r))],
             out' = c, stage' = "held", mem' = mem, astray' \in BOOLEAN,
             held' = IF phase = "END_REQ" THEN r ELSE NoPayload
      PROVE  IInv'
  <2>1. /\ trans' \in [Clients -> GenericPayloads] /\ trans'[c] = Unpack(p, Pack(r))
        /\ \A d \in Clients : trans'[d].data.ptr # "new" /\ trans'[d].be.ptr # "new"
    BY <1>2, <1>4, <1>8
  <2>2. m_t' \in GenericPayloads /\ held' \in GenericPayloads \cup {NoPayload}
    BY <1>2, <1>8, FreshOK DEF AfterPhase
  <2>3. Kept' = r
    <3>1. DOMAIN r = {"cmd", "data", "be", "status"} /\ DOMAIN NoPayload = {}
      BY <1>2 DEF GenericPayloads, NoPayload
    <3>2. r # NoPayload
      BY <3>1
    <3> QED  BY <1>8, <3>2 DEF Kept, AfterPhase
  <2>4. View(Kept') = View(trans'[out']) /\ Kept'.data.ptr # "null"
    BY <1>2, <1>8, <2>1, <2>3
  <2> QED  BY <1>1, <1>3, <1>5, <1>8, <2>1, <2>2, <2>4, NbFrame
<1>9. \/ ~m_connected
      \/ m_connected /\ trans' = [trans EXCEPT ![c] = Unpack(p, Pack(Served(r)))]
           /\ mem' = Stored(r) /\ m_t' = Served(r) /\ UNCHANGED <<out, stage, held, astray>>
      \/ m_connected /\ \E phase \in {"BEGIN_REQ", "END_REQ"} :
           /\ m_t' = AfterPhase(r, phase) /\ trans' = [trans EXCEPT ![c] = Unpack(p, Pack(r))]
           /\ out' = c /\ stage' = "held" /\ mem' = mem /\ astray' \in BOOLEAN
           /\ held' = IF phase = "END_REQ" THEN r ELSE NoPayload
  BY DEF NbRequest, nbVars, r
<1> QED  BY <1>6, <1>7, <1>8, <1>9

\* What the initiator takes out of the copy it is handed.
LEMMA AnsweredOK ==
  ASSUME NEW p \in GenericPayloads, NEW x \in GenericPayloads
  PROVE  /\ Answered(p, x) \in GenericPayloads
         /\ Answered(p, x).data.ptr = p.data.ptr /\ Answered(p, x).be = p.be
         /\ Answered(p, x).data.bytes = x.data.bytes
         /\ Answered(p, x).cmd = p.cmd /\ Answered(p, x).status = x.status
<1>1. x.data.bytes \in Seq(Bytes) /\ x.status \in Statuses /\ p.data \in Arrays
  BY DEF GenericPayloads, Arrays
<1>2. /\ [p.data EXCEPT !.bytes = x.data.bytes] \in Arrays
      /\ [p.data EXCEPT !.bytes = x.data.bytes].ptr = p.data.ptr
      /\ [p.data EXCEPT !.bytes = x.data.bytes].bytes = x.data.bytes
  BY <1>1 DEF Arrays
<1>3. Answered(p, x) =
        [p EXCEPT !.status = x.status, !.data = [p.data EXCEPT !.bytes = x.data.bytes]]
  BY DEF Answered
<1> QED  BY <1>1, <1>2, <1>3 DEF GenericPayloads

LEMMA NbResponseInv ==
  ASSUME IInv, NbResponse
  PROVE  IInv'
<1>0. PICK f \in Found :
        /\ mem' = Stored(f)
        /\ IF held = NoPayload THEN m_t' = Served(f) /\ held' = held
                               ELSE held' = Served(f) /\ m_t' = m_t
        /\ trans' = [trans EXCEPT ![out] =
                       Answered(trans[out], Unpack(FreshPayload, Pack(Served(f))))]
  BY DEF NbResponse
<1> DEFINE k == Served(f)
           x == Unpack(FreshPayload, Pack(k))
<1>1. /\ stage = "held" /\ stage' = "answered" /\ mem' = Stored(f)
      /\ IF held = NoPayload THEN m_t' = k /\ held' = held ELSE held' = k /\ m_t' = m_t
      /\ trans' = [trans EXCEPT ![out] = Answered(trans[out], x)]
      /\ UNCHANGED <<caller, target, m_connected, delay, m_delay, out, astray, bVars>>
  BY <1>0 DEF NbResponse
<1>2. target # "b" /\ out \in Clients /\ m_connected /\ out # NoClient
  BY <1>1, NoClientAssumption DEF IInv, TypeOK, Allowed
<1>3. /\ f \in GenericPayloads /\ astray \in BOOLEAN /\ m_t \in GenericPayloads /\ mem \in Bytes
      /\ trans \in [Clients -> GenericPayloads]
      /\ delay \in [Clients -> Delays \cup {NoDelay}]
      /\ held \in GenericPayloads \cup {NoPayload}
      /\ \A d \in Clients : trans[d].data.ptr # "new" /\ trans[d].be.ptr # "new"
  BY GarbageAssumption DEF IInv, TypeOK, Found, Kept, OwnArrayKept
<1>4. k \in GenericPayloads /\ Stored(f) \in Bytes
  BY <1>3, ServedOK, StoredOK
<1>5. x \in GenericPayloads
  BY <1>4, FreshOK, UnpackOK
<1> HIDE DEF k, x
<1>6. /\ trans' \in [Clients -> GenericPayloads]
      /\ \A d \in Clients : trans'[d].data.ptr # "new" /\ trans'[d].be.ptr # "new"
  <2>1. trans[out] \in GenericPayloads
    BY <1>2, <1>3
  <2>2. /\ Answered(trans[out], x) \in GenericPayloads
        /\ Answered(trans[out], x).data.ptr # "new" /\ Answered(trans[out], x).be.ptr # "new"
    BY <1>2, <1>3, <1>5, <2>1, AnsweredOK
  <2> QED  BY <1>1, <1>2, <1>3, <2>2
<1>7. /\ m_t' \in GenericPayloads /\ held' \in GenericPayloads \cup {NoPayload}
      /\ mem' \in Bytes /\ astray' \in BOOLEAN
  BY <1>1, <1>3, <1>4
<1>8. out' \in Clients /\ out' # NoClient /\ stage' # "none" /\ stage' # "held" /\ target = "nb"
      /\ stage' \in {"none", "held", "answered"} /\ delay' \in [Clients -> Delays \cup {NoDelay}]
  BY <1>1, <1>2, <1>3 DEF IInv, Allowed
<1>9. UNCHANGED <<caller, target, m_connected, m_delay, bVars>>
  BY <1>1
<1> QED  BY <1>2, <1>6, <1>7, <1>8, <1>9, NbFrame

LEMMA NbEndInv ==
  ASSUME IInv, NEW c \in Clients, NbEnd(c)
  PROVE  IInv'
<1>1. /\ stage = "answered" /\ out = c /\ m_t' \in {m_t, Unpack(m_t, Pack(trans[c]))}
      /\ out' = NoClient /\ stage' = "none" /\ held' = NoPayload
      /\ UNCHANGED <<caller, target, mem, m_connected, trans, delay, m_delay, astray, bVars>>
  BY DEF NbEnd
<1>2. target # "b"
  BY <1>1, NoClientAssumption DEF IInv, Allowed
<1>3. /\ mem' \in Bytes /\ trans' \in [Clients -> GenericPayloads] /\ trans[c] \in GenericPayloads
      /\ delay' \in [Clients -> Delays \cup {NoDelay}] /\ m_t \in GenericPayloads
      /\ \A d \in Clients : trans'[d].data.ptr # "new" /\ trans'[d].be.ptr # "new"
  BY <1>1 DEF IInv, TypeOK, OwnArrayKept
<1>4. m_t' \in GenericPayloads /\ astray' \in BOOLEAN
  BY <1>1, <1>3, UnpackOK DEF IInv, TypeOK
<1> QED  BY <1>1, <1>2, <1>3, <1>4, NbFrame

LEMMA WriteInv ==
  ASSUME IInv, NEW c \in Clients, NEW p \in Payloads, Write(c, p)
  PROVE  IInv'
<1>1. /\ target = "write"
      /\ mem' = IF m_connected THEN Stored(Unpack(FreshPayload, Pack(p))) ELSE mem
      /\ UNCHANGED <<caller, target, m_connected, trans, delay, m_t, m_delay, bVars,
                     out, stage, held, astray>>
  BY DEF Write, nbVars
<1>2. mem' \in Bytes
  <2>1. mem \in Bytes /\ p \in GenericPayloads
    BY PayloadsAssumption DEF IInv, TypeOK
  <2>2. Unpack(FreshPayload, Pack(p)) \in GenericPayloads
    BY <2>1, PackIsNotEmpty
  <2> QED  BY <1>1, <2>1, <2>2, StoredOK
<1>3. TypeOK /\ OwnArrayKept /\ out = NoClient /\ stage = "none"
  BY <1>1 DEF IInv, Allowed
<1> QED  BY <1>1, <1>2, <1>3, NbFrame DEF TypeOK, OwnArrayKept

LEMMA NextInv ==
  ASSUME IInv, [Next]_vars
  PROVE  IInv'
<1>1. CASE NotifyConnected \/ Perform \/ RspDone \/ NbResponse
  BY <1>1, NotifyConnectedInv, PerformInv, RspDoneInv, NbResponseInv
<1>2. CASE \E c \in Clients : WaitConnected(c) \/ Issue(c) \/ Finish(c) \/ NbEnd(c)
  BY <1>2, WaitConnectedInv, IssueInv, FinishInv, NbEndInv
<1>3. CASE \E c \in Clients, p \in Payloads : BTransport(c, p) \/ NbRequest(c, p) \/ Write(c, p)
  BY <1>3, BTransportInv, NbRequestInv, WriteInv
<1>4. CASE UNCHANGED vars
  <2> USE <1>4 DEF vars, bVars, nbVars
  <2>1. TypeOK' /\ OwnArrayKept' /\ OneInFlight' /\ ProcIdle' /\ Allowed'
    BY DEF IInv, TypeOK, OwnArrayKept, OneInFlight, ProcIdle, Allowed, Holds
  <2>2. RequestArrives' /\ Arrived' /\ ResponseFits'
    BY DEF IInv, RequestArrives, Waiting, Arrived, Kept, ResponseFits, Responding, InBits
  <2> QED  BY <2>1, <2>2 DEF IInv
<1> QED  BY <1>1, <1>2, <1>3, <1>4 DEF Next

\* Whatever is sent in either direction, the invariant holds.
THEOREM Invariance == Spec => []IInv
<1>1. Init => IInv  BY InitInv
<1>2. IInv /\ [Next]_vars => IInv'  BY NextInv
<1> QED  BY <1>1, <1>2, PTL DEF Spec

\* Payloads, delays and the state of the proxy and of the process stay of their types: no
\* payload loses a field, and no initiator's delay exceeds its bound.
THEOREM TypeCorrect == Spec => []TypeOK
<1>1. IInv => TypeOK  BY DEF IInv
<1> QED  BY <1>1, Invariance, PTL

\* blocking_sync_process works on the request of the initiator that waits, as that
\* initiator sent it, and for nobody else.
THEOREM RequestsArrive == Spec => []RequestArrives
<1>1. IInv => RequestArrives  BY DEF IInv
<1> QED  BY <1>1, Invariance, PTL

\* do_unpack puts no array of its own into the payload of an initiator.
THEOREM ArraysKept == Spec => []OwnArrayKept
<1>1. IInv => OwnArrayKept  BY DEF IInv
<1> QED  BY <1>1, Invariance, PTL

-----------------------------------------------------------------------------
(***************************************************************************)
(* Refinement: the target behaves as if it were on the initiator's side    *)
(***************************************************************************)

LEMMA ViewServed ==
  ASSUME mem \in Bytes, NEW p \in GenericPayloads
  PROVE  View(Served(p)) = Remote!Served(mem, View(p))
<1> DEFINE s == Sent(p.data)
           t == IF p.cmd = "read" /\ s # <<>> THEN [s EXCEPT ![1] = mem] ELSE s
           v == View(p)
           w == View(Served(p))
           u == [v EXCEPT !.status = "ok", !.data = t]
           names == {"cmd", "data", "be", "status"}
<1>1. Sent(Served(p).data) = t
  BY ServedOK DEF Sent
<1>2. Remote!Served(mem, v) = u
  BY DEF Remote!Served, View
<1> HIDE DEF t
<1>3. DOMAIN v = names /\ v.cmd = p.cmd /\ v.be = Sent(p.be)
  BY DEF View
<1>4. /\ w.cmd = p.cmd /\ w.be = Sent(p.be) /\ w.data = t /\ w.status = "ok"
      /\ w = [k \in names |-> w[k]]
  BY <1>1, ServedOK DEF View
<1> HIDE DEF v, w
<1>5. /\ u.cmd = p.cmd /\ u.be = Sent(p.be) /\ u.data = t /\ u.status = "ok"
      /\ u = [k \in names |-> u[k]]
  BY <1>3
<1> HIDE DEF u
<1>6. w = u
  BY <1>4, <1>5
<1> QED  BY <1>2, <1>6 DEF v, w

LEMMA ViewStored ==
  ASSUME NEW p, p.data.ptr # "null"
  PROVE  Stored(p) = Remote!Stored(mem, View(p))
BY DEF Stored, Remote!Stored, View, Sent

LEMMA InitMaps ==
  ASSUME Init
  PROVE  Remote!Init
<1>1. callBar = [c \in Clients |-> "idle"]
  BY DEF Init, callBar, Responding
<1>2. m_connected \in BOOLEAN
  BY DEF Init
<1> QED  BY <1>1, <1>2 DEF Remote!Init

LEMMA NotifyConnectedMaps ==
  ASSUME NotifyConnected
  PROVE  Remote!Open
BY DEF NotifyConnected, Remote!Open, bVars, nbVars, callBar, trBar, dlBar, Responding, InBits,
       Loose

LEMMA BTransportMaps ==
  ASSUME IInv, NEW c \in Clients, NEW p \in Payloads, BTransport(c, p)
  PROVE  Remote!Call(c, View(p))
<1> USE DEF BTransport, nbVars
<1>1. target = "b" /\ out = NoClient /\ stage = "none"
  BY DEF IInv, Allowed
<1>2. /\ pc[c] = "idle" /\ pc'[c] \in {"connect", "acquire"} /\ trans'[c] = p /\ delay'[c] = 0
      /\ \A d \in Clients \ {c} : pc'[d] = pc[d] /\ trans'[d] = trans[d] /\ delay'[d] = delay[d]
  BY DEF IInv, TypeOK
<1>3. /\ \A d \in Clients : (Responding(d)' <=> Responding(d)) /\ (InBits(d)' <=> InBits(d))
      /\ ~Responding(c) /\ ~InBits(c)
  BY <1>2 DEF Responding, InBits
<1>4. callBar[c] = "idle" /\ callBar' = [callBar EXCEPT ![c] = "called"]
  BY <1>1, <1>2, <1>3, NoClientAssumption DEF callBar
<1>5. trBar' = [trBar EXCEPT ![c] = View(p)]
  <2>1. trBar'[c] = View(p)
    BY <1>2, <1>3 DEF trBar
  <2>2. \A d \in Clients \ {c} : trBar'[d] = trBar[d]
    BY <1>2, <1>3 DEF trBar
  <2> QED  BY <2>1, <2>2 DEF trBar
<1>6. dlBar' = [dlBar EXCEPT ![c] = 0]
  BY <1>1, <1>2, <1>3 DEF dlBar
<1> QED  BY <1>4, <1>5, <1>6 DEF Remote!Call

LEMMA WaitConnectedMaps ==
  ASSUME IInv, NEW c \in Clients, WaitConnected(c)
  PROVE  UNCHANGED Remote!absVars
<1> USE DEF WaitConnected, nbVars
<1>1. /\ pc[c] = "connect" /\ pc'[c] = "acquire"
      /\ \A d \in Clients \ {c} : pc'[d] = pc[d]
  BY DEF IInv, TypeOK
<1>2. \A d \in Clients : (Responding(d)' <=> Responding(d)) /\ (InBits(d)' <=> InBits(d))
  BY <1>1 DEF Responding, InBits
<1>3. callBar' = callBar
  BY <1>1, <1>2, InCall DEF callBar, Loose
<1>4. trBar' = trBar
  BY <1>2 DEF trBar
<1>5. dlBar' = dlBar
  BY <1>1, <1>2 DEF dlBar
<1> QED  BY <1>3, <1>4, <1>5 DEF Remote!absVars

LEMMA IssueMaps ==
  ASSUME IInv, NEW c \in Clients, Issue(c)
  PROVE  UNCHANGED Remote!absVars
<1> USE DEF Issue, nbVars
<1>1. m_sem # 0
  BY DEF SemaphoreFree
<1>2. /\ pc[c] = "acquire" /\ pc'[c] = "wait" /\ (\A d \in Clients : ~Holds(d))
      /\ \A d \in Clients \ {c} : pc'[d] = pc[d]
  BY <1>1 DEF IInv, TypeOK, OneInFlight
<1>3. proc' # "performed"
  <2>1. Waiting = {}
    BY <1>2 DEF Waiting, Holds
  <2> QED  BY <2>1 DEF IInv, RequestArrives
<1>4. \A d \in Clients : ~Responding(d) /\ ~Responding(d)' /\ ~InBits(d) /\ ~InBits(d)'
  BY <1>2, <1>3 DEF Responding, InBits, Holds
<1>5. \A d \in Clients : pc[d] # "woken" /\ pc'[d] # "woken" /\ (pc[d] = "idle" <=> pc'[d] = "idle")
  BY <1>2 DEF Holds
<1>6. callBar' = callBar
  BY <1>4, <1>5 DEF callBar, Loose
<1>7. trBar' = trBar
  BY <1>4 DEF trBar
<1>8. dlBar' = dlBar
  BY <1>4, <1>5 DEF dlBar
<1> QED  BY <1>6, <1>7, <1>8 DEF Remote!absVars

LEMMA PerformMaps ==
  ASSUME IInv, Perform
  PROVE  \E c \in Clients : Remote!Effect(c)
<1> USE DEF Perform, nbVars
<1>1. PICK c \in Clients :
        /\ pc[c] = "wait" /\ Waiting = {c} /\ (\A d \in Clients \ {c} : ~Holds(d))
        /\ target = "b" /\ out = NoClient /\ stage = "none" /\ m_connected
  BY AtWork
<1>2. /\ m_t \in GenericPayloads /\ mem \in Bytes /\ trans[c] \in GenericPayloads
      /\ View(m_t) = View(trans[c]) /\ m_delay = delay[c] /\ delay[c] = 0
      /\ m_t.data.ptr # "null" /\ m_t.cmd = trans[c].cmd
  BY <1>1, SameViews DEF IInv, TypeOK, RequestArrives, Arrived
<1>3. /\ Responding(c)' /\ ~Responding(c) /\ ~InBits(c)
      /\ \A d \in Clients \ {c} :
           /\ ~Responding(d) /\ ~Responding(d)' /\ ~InBits(d) /\ ~InBits(d)' /\ pc[d] # "woken"
  BY <1>1 DEF Responding, InBits, Holds
<1>4. callBar[c] = "called" /\ callBar' = [callBar EXCEPT ![c] = "done"]
  BY <1>1, <1>3 DEF callBar
<1>5. trBar[c] = View(m_t)
  BY <1>2, <1>3 DEF trBar
<1>6. trBar' = [trBar EXCEPT ![c] = Remote!Served(mem, View(m_t))]
  <2>1. Served(m_t) \in GenericPayloads
    BY <1>2, ServedOK
  <2>2. View(Unpack(trans[c], Pack(Served(m_t)))) = Remote!Served(mem, View(m_t))
    BY <1>2, <2>1, UnpackOK, ViewServed
  <2>3. trBar'[c] = View(Unpack(trans[c], Pack(Served(m_t))))
    BY <1>3 DEF trBar
  <2>4. \A d \in Clients \ {c} : trBar'[d] = trBar[d]
    BY <1>3 DEF trBar
  <2> QED  BY <2>2, <2>3, <2>4 DEF trBar
<1>7. mem' = Remote!Stored(mem, View(m_t))
  BY <1>2, ViewStored
<1>8. dlBar[c] = 0 /\ dlBar' = [dlBar EXCEPT ![c] = 0 + Latency[View(m_t).cmd]]
  BY <1>1, <1>2, <1>3 DEF dlBar, View
<1>9. 0 # NoDelay
  BY DelayAssumption
<1> QED  BY <1>1, <1>4, <1>5, <1>6, <1>7, <1>8, <1>9 DEF Remote!Effect

LEMMA RspDoneMaps ==
  ASSUME IInv, RspDone
  PROVE  UNCHANGED Remote!absVars
<1> USE DEF RspDone, nbVars
<1>1. PICK c \in Clients :
        /\ pc[c] = "wait" /\ Waiting = {c} /\ (\A d \in Clients \ {c} : ~Holds(d))
        /\ target = "b" /\ out = NoClient /\ stage = "none" /\ m_connected
  BY AtWork
<1>2. pc'[c] = "woken" /\ \A d \in Clients \ {c} : pc'[d] = pc[d] /\ pc[d] \notin {"wait", "woken"}
  BY <1>1 DEF Holds
<1>3. /\ Responding(c) /\ ~Responding(c)' /\ (InBits(c)' <=> caller = "SV")
      /\ \A d \in Clients \ {c} :
           ~Responding(d) /\ ~Responding(d)' /\ ~InBits(d) /\ ~InBits(d)'
  BY <1>1, <1>2 DEF Responding, InBits
<1>4. callBar' = callBar
  BY <1>1, <1>2, <1>3 DEF callBar
<1>5. trBar' = trBar
  <2>1. trBar[c] = View(Unpack(trans[c], Pack(m_t)))
    BY <1>3 DEF trBar
  <2>2. trBar'[c] = View(Unpack(trans[c], Pack(m_t)))
    <3>1. CASE caller = "SC"
      <4>1. trans'[c] = Unpack(trans[c], Pack(m_t))
        BY <1>1, <3>1
      <4> QED  BY <1>3, <3>1, <4>1 DEF trBar
    <3>2. CASE caller = "SV"
      <4>1. trans'[c] = trans[c] /\ m_bits' = Pack(m_t)
        BY <3>2
      <4> QED  BY <1>3, <3>2, <4>1 DEF trBar
    <3> QED  BY <3>1, <3>2 DEF IInv, TypeOK
  <2>3. \A d \in Clients \ {c} : trans'[d] = trans[d]
    BY <1>1
  <2>4. \A d \in Clients \ {c} : trBar'[d] = trBar[d]
    BY <1>3, <2>3 DEF trBar
  <2> QED  BY <2>1, <2>2, <2>4 DEF trBar
<1>6. dlBar' = dlBar
  BY <1>1, <1>2, <1>3 DEF dlBar
<1> QED  BY <1>4, <1>5, <1>6 DEF Remote!absVars

LEMMA FinishMaps ==
  ASSUME IInv, NEW c \in Clients, Finish(c)
  PROVE  Remote!Return(c)
<1> USE DEF Finish, nbVars
<1>1. /\ pc[c] = "woken" /\ pc'[c] = "idle" /\ delay'[c] = m_delay
      /\ \A d \in Clients \ {c} : pc'[d] = pc[d] /\ trans'[d] = trans[d] /\ delay'[d] = delay[d]
  BY DEF IInv, TypeOK
<1>2. /\ target = "b" /\ out = NoClient /\ stage = "none"
      /\ \A d \in Clients \ {c} : ~Holds(d)
  BY <1>1, InCall DEF IInv, OneInFlight, Holds
<1>3. /\ ~Responding(c) /\ ~Responding(c)' /\ ~InBits(c)' /\ (InBits(c) <=> caller = "SV")
      /\ \A d \in Clients \ {c} :
           ~Responding(d) /\ ~Responding(d)' /\ ~InBits(d) /\ ~InBits(d)' /\ pc[d] # "woken"
  BY <1>1, <1>2 DEF Responding, InBits, Holds
<1>4. callBar[c] = "done" /\ callBar' = [callBar EXCEPT ![c] = "idle"]
  BY <1>1, <1>2, <1>3, NoClientAssumption DEF callBar
<1>5. trBar' = trBar
  <2>1. trBar'[c] = trBar[c]
    <3>1. CASE caller = "SC"
      BY <1>3, <3>1 DEF trBar
    <3>2. CASE caller = "SV"
      <4>1. trans'[c] = Unpack(trans[c], m_bits)
        BY <3>2 DEF IInv, TypeOK
      <4> QED  BY <1>3, <3>2, <4>1 DEF trBar
    <3> QED  BY <3>1, <3>2 DEF IInv, TypeOK
  <2>2. \A d \in Clients \ {c} : trBar'[d] = trBar[d]
    BY <1>1, <1>3 DEF trBar
  <2> QED  BY <2>1, <2>2 DEF trBar
<1>6. dlBar' = dlBar
  BY <1>1, <1>2, <1>3 DEF dlBar
<1> QED  BY <1>4, <1>5, <1>6 DEF Remote!Return

\* What the initiator of a target that does not block sees of its transport.
NbBars ==
  /\ callBar = [d \in Clients |-> IF out = d /\ stage = "answered" THEN "done"
                                 ELSE IF out = d /\ stage = "held"
                                      THEN IF Loose THEN "loose" ELSE "called"
                                 ELSE "idle"]
  /\ trBar = [d \in Clients |-> View(trans[d])]
  /\ target = "nb" => dlBar = [d \in Clients |-> NoDelay]

LEMMA NbBarsHold ==
  ASSUME IInv, target # "b"
  PROVE  NbBars
<1>1. \A d \in Clients : pc[d] = "idle" /\ ~Responding(d) /\ ~InBits(d)
  BY DEF IInv, Allowed, Responding, InBits
<1> QED  BY <1>1 DEF NbBars, callBar, trBar, dlBar

LEMMA NbBarsNext ==
  ASSUME IInv', target' # "b"
  PROVE  NbBars'
<1>1. \A d \in Clients : pc'[d] = "idle" /\ ~Responding(d)' /\ ~InBits(d)'
  BY DEF IInv, Allowed, Responding, InBits
<1> QED  BY <1>1 DEF NbBars, callBar, trBar, dlBar

LEMMA NbRequestMaps ==
  ASSUME IInv, IInv', NEW c \in Clients, NEW p \in Payloads, NbRequest(c, p)
  PROVE  Remote!Quick(c, View(p))
<1> DEFINE r == Unpack(m_t, Pack(p))
<1>1. /\ target = "nb" /\ target' = "nb" /\ out = NoClient /\ stage = "none"
      /\ m_connected' = m_connected /\ trans \in [Clients -> GenericPayloads] /\ mem \in Bytes
  BY DEF NbRequest, IInv, Allowed, TypeOK
<1>2. /\ p \in GenericPayloads /\ r \in GenericPayloads /\ View(r) = View(p)
      /\ r.data.ptr # "null"
      /\ \A x \in {r, Served(r)} : View(Unpack(p, Pack(x))) = View(x)
  BY NbPayloads
<1>3. /\ dlBar = [d \in Clients |-> NoDelay] /\ dlBar' = [d \in Clients |-> NoDelay]
      /\ callBar = [d \in Clients |-> "idle"]
      /\ trBar = [d \in Clients |-> View(trans[d])]
      /\ trBar' = [d \in Clients |-> View(trans'[d])]
      /\ callBar' = [d \in Clients |-> IF out' = d /\ stage' = "answered" THEN "done"
                                     ELSE IF out' = d /\ stage' = "held"
                                          THEN IF Loose' THEN "loose" ELSE "called"
                                     ELSE "idle"]
  BY <1>1, NbBarsHold, NbBarsNext DEF NbBars
<1>4. dlBar' = [dlBar EXCEPT ![c] = NoDelay] /\ callBar[c] = "idle"
  BY <1>3
<1>5. \A x : trans' = [trans EXCEPT ![c] = x] => trBar' = [trBar EXCEPT ![c] = View(x)]
  BY <1>1, <1>3
<1> HIDE DEF r
<1>6. CASE ~m_connected
  <2>1. trans' = [trans EXCEPT ![c] = p] /\ mem' = mem /\ stage' = stage /\ out' = out
    BY <1>6 DEF NbRequest, nbVars
  <2>2. callBar' = callBar
    BY <1>1, <1>3, <2>1
  <2> QED  BY <1>1, <1>4, <1>5, <1>6, <2>1, <2>2 DEF Remote!Quick
<1>7. CASE m_connected /\ trans' = [trans EXCEPT ![c] = Unpack(p, Pack(Served(r)))]
                       /\ mem' = Stored(r) /\ UNCHANGED <<out, stage>>
  <2>1. callBar' = callBar
    BY <1>1, <1>3, <1>7
  <2>2. mem' = Remote!Stored(mem, View(p))
    BY <1>2, <1>7, ViewStored
  <2>3. View(Unpack(p, Pack(Served(r)))) = Remote!Served(mem, View(p))
    BY <1>1, <1>2, ViewServed
  <2> QED  BY <1>1, <1>4, <1>5, <1>7, <2>1, <2>2, <2>3 DEF Remote!Quick
<1>8. CASE m_connected /\ trans' = [trans EXCEPT ![c] = Unpack(p, Pack(r))]
                       /\ out' = c /\ stage' = "held" /\ mem' = mem
  <2>1. \/ callBar' = [callBar EXCEPT ![c] = "called"]
        \/ caller = "SV" /\ callBar' = [callBar EXCEPT ![c] = "loose"]
    <3>1. callBar' = [callBar EXCEPT ![c] = IF Loose' THEN "loose" ELSE "called"]
      BY <1>3, <1>8
    <3>2. Loose' => caller = "SV"
      BY DEF Loose, NbRequest
    <3> QED  BY <3>1, <3>2
  <2>2. trBar' = [trBar EXCEPT ![c] = View(p)]
    BY <1>2, <1>5, <1>8
  <2> QED  BY <1>1, <1>4, <1>8, <2>1, <2>2 DEF Remote!Quick
<1>9. \/ ~m_connected
      \/ m_connected /\ trans' = [trans EXCEPT ![c] = Unpack(p, Pack(Served(r)))]
           /\ mem' = Stored(r) /\ UNCHANGED <<out, stage>>
      \/ m_connected /\ trans' = [trans EXCEPT ![c] = Unpack(p, Pack(r))]
           /\ out' = c /\ stage' = "held" /\ mem' = mem
  BY DEF NbRequest, nbVars, r
<1> QED  BY <1>6, <1>7, <1>8, <1>9

\* The answer reaches the transaction of the initiator, with the array it gave.
LEMMA NbResponseMaps ==
  ASSUME IInv, IInv', NbResponse, ~Loose
  PROVE  Remote!Effect(out)
<1> DEFINE k == Served(Kept)
           x == Unpack(FreshPayload, Pack(k))
           t == trans[out]
<1>1. /\ stage = "held" /\ stage' = "answered" /\ mem' = Stored(Kept)
      /\ trans' = [trans EXCEPT ![out] = Answered(t, x)]
      /\ target' = target /\ m_connected' = m_connected /\ out' = out
  BY DEF NbResponse, Found
<1>2. target = "nb" /\ out \in Clients /\ m_connected
  BY <1>1 DEF IInv, TypeOK, Allowed
<1>3. /\ Kept \in GenericPayloads /\ mem \in Bytes /\ t \in GenericPayloads
      /\ trans \in [Clients -> GenericPayloads]
      /\ View(Kept) = View(t) /\ Kept.data.ptr # "null"
  BY <1>1, <1>2 DEF IInv, TypeOK, Kept, Arrived
<1>4. k \in GenericPayloads /\ SameLengths(k, Kept) /\ k.be = Kept.be /\ k.cmd = Kept.cmd
  BY <1>3, ServedOK
<1>5. View(k) = Remote!Served(mem, View(t))
  BY <1>3, ViewServed
<1> HIDE DEF k
<1>6. x \in GenericPayloads /\ View(x) = View(k) /\ x.data.ptr # "null"
  BY <1>4, FreshOK, UnpackOK
<1> HIDE DEF x, t
<1>7. /\ Answered(t, x).data.ptr = t.data.ptr /\ Answered(t, x).be = t.be
      /\ Answered(t, x).data.bytes = x.data.bytes
      /\ Answered(t, x).cmd = t.cmd /\ Answered(t, x).status = x.status
  BY <1>3, <1>6, AnsweredOK
<1>8. View(Answered(t, x)) = View(k)
  <2>1. Sent(x.data) = x.data.bytes /\ Sent(x.data) = Sent(k.data) /\ x.status = k.status
    BY <1>6 DEF View, Sent
  <2>2. /\ t.cmd = k.cmd /\ Sent(t.be) = Sent(k.be) /\ Sent(Kept.data) = Sent(t.data)
    BY <1>3, <1>4 DEF View
  <2>3. Sent(Answered(t, x).data) = Sent(k.data)
    <3>1. CASE t.data.ptr = "null"
      <4>1. Len(Sent(k.data)) = 0
        BY <1>4, <2>2, <3>1, EmptySeq DEF SameLengths, Sent
      <4>2. Sent(k.data) = <<>>
        BY <1>4, <4>1, SentTyped, EmptySeq DEF GenericPayloads
      <4> QED  BY <1>7, <3>1, <4>2 DEF Sent
    <3>2. CASE t.data.ptr # "null"
      BY <1>7, <2>1, <3>2 DEF Sent
    <3> QED  BY <3>1, <3>2
  <2> QED  BY <1>7, <2>1, <2>2, <2>3 DEF View
<1>9. /\ dlBar = [d \in Clients |-> NoDelay] /\ dlBar' = [d \in Clients |-> NoDelay]
      /\ callBar = [d \in Clients |-> IF out = d THEN "called" ELSE "idle"]
      /\ trBar = [d \in Clients |-> View(trans[d])]
      /\ trBar' = [d \in Clients |-> View(trans'[d])]
      /\ callBar' = [d \in Clients |-> IF out = d THEN "done" ELSE "idle"]
  BY <1>1, <1>2, NbBarsHold, NbBarsNext DEF NbBars
<1>10. callBar[out] = "called" /\ callBar' = [callBar EXCEPT ![out] = "done"]
  BY <1>2, <1>9
<1>11. trBar[out] = View(t) /\ trBar' = [trBar EXCEPT ![out] = Remote!Served(mem, View(t))]
  <2>1. View(Answered(t, x)) = Remote!Served(mem, View(t))
    BY <1>5, <1>8
  <2>2. trBar[out] = View(t)
    BY <1>2, <1>9 DEF t
  <2>3. trBar' = [trBar EXCEPT ![out] = View(Answered(t, x))]
    BY <1>1, <1>2, <1>3, <1>9
  <2> QED  BY <2>1, <2>2, <2>3
<1>12. mem' = Remote!Stored(mem, View(t))
  BY <1>1, <1>3, ViewStored
<1>13. dlBar' = [dlBar EXCEPT ![out] = NoDelay] /\ dlBar[out] = NoDelay
  BY <1>2, <1>9
<1> QED  BY <1>1, <1>2, <1>10, <1>11, <1>12, <1>13 DEF Remote!Effect

\* An answer out of memory of somebody else is an undefined one, and only that.
LEMMA LooseResponseMaps ==
  ASSUME IInv, IInv', NbResponse, Loose
  PROVE  Remote!Undefined(out)
<1> DEFINE t == trans[out]
<1>1. PICK f \in Found :
        trans' = [trans EXCEPT ![out] = Answered(t, Unpack(FreshPayload, Pack(Served(f))))]
  BY DEF NbResponse
<1> DEFINE x == Unpack(FreshPayload, Pack(Served(f)))
           y == Answered(t, x)
<1>2. /\ stage = "held" /\ stage' = "answered" /\ target' = target
      /\ m_connected' = m_connected /\ out' = out
  BY DEF NbResponse
<1>3. target = "nb" /\ out \in Clients
  BY <1>2 DEF IInv, TypeOK, Allowed
<1>4. /\ t \in GenericPayloads /\ trans \in [Clients -> GenericPayloads] /\ mem \in Bytes
      /\ f \in GenericPayloads
  BY <1>3, GarbageAssumption DEF IInv, TypeOK, Found, Kept
<1>5. x \in GenericPayloads
  BY <1>4, ServedOK, FreshOK, UnpackOK
<1> HIDE DEF x, t
<1>6. y.cmd = t.cmd /\ y.be = t.be
  BY <1>4, <1>5, AnsweredOK
<1> HIDE DEF y
<1>7. View(y) = [View(t) EXCEPT !.status = View(y).status, !.data = View(y).data]
  <2> DEFINE names == {"cmd", "data", "be", "status"}
             v == View(t)
             w == View(y)
             u == [v EXCEPT !.status = w.status, !.data = w.data]
  <2>1. DOMAIN v = names /\ v.cmd = w.cmd /\ v.be = w.be /\ w = [k \in names |-> w[k]]
    BY <1>6 DEF View
  <2> HIDE DEF v, w
  <2>2. /\ u.cmd = w.cmd /\ u.be = w.be /\ u.data = w.data /\ u.status = w.status
        /\ u = [k \in names |-> u[k]]
    BY <2>1
  <2> HIDE DEF u
  <2>3. w = u
    BY <2>1, <2>2
  <2> QED  BY <2>3 DEF u, v, w
<1>8. /\ dlBar = [d \in Clients |-> NoDelay] /\ dlBar' = [d \in Clients |-> NoDelay]
      /\ callBar = [d \in Clients |-> IF out = d THEN "loose" ELSE "idle"]
      /\ trBar = [d \in Clients |-> View(trans[d])]
      /\ trBar' = [d \in Clients |-> View(trans'[d])]
      /\ callBar' = [d \in Clients |-> IF out = d THEN "done" ELSE "idle"]
  BY <1>2, <1>3, NbBarsHold, NbBarsNext DEF NbBars
<1>9. callBar[out] = "loose" /\ callBar' = [callBar EXCEPT ![out] = "done"]
  BY <1>3, <1>8
<1>10. trBar[out] = View(t) /\ trBar'[out] = View(y) /\ trBar' = [trBar EXCEPT ![out] = View(y)]
  BY <1>1, <1>3, <1>4, <1>8 DEF y, x, t
<1>11. dlBar' = dlBar
  BY <1>8
<1> QED  BY <1>2, <1>7, <1>9, <1>10, <1>11 DEF Remote!Undefined

LEMMA NbEndMaps ==
  ASSUME IInv, IInv', NEW c \in Clients, NbEnd(c)
  PROVE  Remote!Return(c)
<1>1. /\ stage = "answered" /\ out = c /\ out' = NoClient /\ stage' = "none" /\ c # NoClient
      /\ UNCHANGED <<target, mem, m_connected, trans>>
  BY NoClientAssumption DEF NbEnd
<1>2. target = "nb"
  BY <1>1 DEF IInv, Allowed
<1>3. /\ dlBar' = dlBar /\ trBar' = trBar
      /\ callBar = [d \in Clients |-> IF c = d THEN "done" ELSE "idle"]
      /\ callBar' = [d \in Clients |-> "idle"]
  BY <1>1, <1>2, NbBarsHold, NbBarsNext DEF NbBars
<1>4. callBar[c] = "done" /\ callBar' = [callBar EXCEPT ![c] = "idle"]
  BY <1>3
<1> QED  BY <1>1, <1>3, <1>4 DEF Remote!Return

LEMMA WriteMaps ==
  ASSUME IInv, NEW c \in Clients, NEW p \in Payloads, Write(c, p)
  PROVE  Remote!Post(c, View(p))
<1> DEFINE r == Unpack(FreshPayload, Pack(p))
<1>1. /\ target = "write" /\ mem' = IF m_connected THEN Stored(r) ELSE mem
      /\ UNCHANGED <<caller, target, m_connected, trans, delay, m_t, m_delay, bVars, nbVars>>
  BY DEF Write
<1>2. r.data.ptr # "null" /\ View(r) = View(p)
  BY PayloadsAssumption, FreshOK, UnpackOK
<1> HIDE DEF r
<1>3. mem' = IF m_connected THEN Remote!Stored(mem, View(p)) ELSE mem
  BY <1>1, <1>2, ViewStored
<1>4. callBar' = callBar /\ trBar' = trBar /\ dlBar' = dlBar
  BY <1>1 DEF callBar, trBar, dlBar, Responding, InBits, Loose, bVars, nbVars
<1>5. callBar[c] = "idle"
  BY <1>1, NbBarsHold DEF NbBars, IInv, Allowed
<1> QED  BY <1>1, <1>3, <1>4, <1>5 DEF Remote!Post

LEMMA NextMaps ==
  ASSUME IInv, IInv', [Next]_vars
  PROVE  [Remote!Next]_Remote!absVars
<1> DEFINE native == caller = "SV"
<1>0. native' = native
  BY DEF Next, NotifyConnected, Perform, RspDone, NbResponse, WaitConnected, Issue, Finish, NbEnd,
         BTransport, NbRequest, Write, vars
<1>1. CASE NotifyConnected
  BY <1>0, <1>1, NotifyConnectedMaps DEF Remote!Next
<1>2. CASE Perform
  BY <1>0, <1>2, PerformMaps DEF Remote!Next
<1>3. CASE RspDone
  BY <1>3, RspDoneMaps
<1>4. CASE NbResponse
  <2>1. out \in Clients
    BY <1>4 DEF NbResponse, IInv, TypeOK, Allowed
  <2> QED  BY <1>0, <1>4, <2>1, NbResponseMaps, LooseResponseMaps DEF Remote!Next
<1>5. ASSUME NEW c \in Clients, WaitConnected(c) \/ Issue(c)
      PROVE  UNCHANGED Remote!absVars
  BY <1>5, WaitConnectedMaps, IssueMaps
<1>6. ASSUME NEW c \in Clients, Finish(c) \/ NbEnd(c)
      PROVE  Remote!Next
  BY <1>0, <1>6, FinishMaps, NbEndMaps DEF Remote!Next
<1>7. ASSUME NEW c \in Clients, NEW p \in Payloads,
             BTransport(c, p) \/ NbRequest(c, p) \/ Write(c, p)
      PROVE  Remote!Next
  <2>1. View(p) \in {View(q) : q \in Payloads}
    OBVIOUS
  <2> QED  BY <1>0, <1>7, <2>1, BTransportMaps, NbRequestMaps, WriteMaps DEF Remote!Next
<1>8. CASE UNCHANGED vars
  BY <1>8 DEF vars, bVars, nbVars, Remote!absVars, callBar, trBar, dlBar, Responding, InBits,
              Loose
<1> QED  BY <1>1, <1>2, <1>3, <1>4, <1>5, <1>6, <1>7, <1>8 DEF Next

\* Through the proxies a target behaves as if it were on the initiator's side: one effect per
\* transport, with the initiator's own data, response and delay.  The late answer of a SystemC
\* target to a payload that has been deleted under it, or was never allocated, is undefined,
\* whatever is found there, and no other.
THEOREM Refinement == Spec => ImplementsRemoteMemory
<1>1. Init => Remote!Init
  BY InitMaps
<1>2. IInv /\ IInv' /\ [Next]_vars => [Remote!Next]_Remote!absVars
  BY NextMaps
<1> QED  BY <1>1, <1>2, Invariance, PTL DEF Spec, ImplementsRemoteMemory, Remote!Spec
=============================================================================
