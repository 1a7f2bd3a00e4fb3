------------------------- MODULE UvmcConnectProofs --------------------------
(***************************************************************************)
(* Theorems about UVM Connect itself: UvmcBinding, for all finite sets of  *)
(* objects and ports and all designs of them; UvmcCommands, for every      *)
(* finite set of processes, every set of requests and every bound of their *)
(* number; and UvmcPacker, for all widths of words and characters, sizes   *)
(* of the buffer and sets of fields.                                       *)
(***************************************************************************)
EXTENDS UvmcBinding, UvmcCommands, UvmcPacker, FiniteSetTheorems, SequenceTheorems,
        WellFoundedInduction, TLAPS

\* The registries hold what the design has.
Entries ==
  /\ design \in Designs
  /\ \A i \in DOMAIN m_proxies : m_proxies[i] \in Objects
  /\ \A i \in DOMAIN x_ports : x_ports[i] \in Ports

\* What is found under a string has that string.
NamedSo ==
  /\ \A s \in Strings :
       m_proxy_names[s] # 0 => s \in StringsOf(m_proxies[m_proxy_names[s]])
  /\ \A s \in Strings : x_port_names[s] # 0 => s \in StringsOf(x_ports[x_port_names[s]])

\* What met nothing when it was registered is found under all its strings.
Known ==
  /\ \A p \in Objects : Registered(p, m_proxies) /\ m_id[p] # -1 =>
       \A s \in StringsOf(p) : m_proxy_names[s] # 0
  /\ \A q \in Ports : Registered(q, x_ports) /\ ~sv_local[q] =>
       \A s \in StringsOf(q) : x_port_names[s] # 0

\* What met something shares a string with it.
MetOne ==
  /\ \A p \in Objects : Registered(p, m_proxies) /\ m_id[p] = -1 =>
       \E r \in Objects : Registered(r, m_proxies) /\ Share(p, r)
  /\ \A q \in Ports : Registered(q, x_ports) /\ sv_local[q] =>
       \E r \in Ports : Registered(r, x_ports) /\ Share(q, r)

\* A proxy that has an id of its own is registered under it.
IdsRight == \A p \in Objects : m_id[p] # -1 => IsAt(m_proxies, m_id[p], p)

\* What is not registered has no counterpart.
Untouched ==
  /\ \A p \in Objects : ~Registered(p, m_proxies) => m_x_id[p] = 0
  /\ \A q \in Ports : ~Registered(q, x_ports) =>
       sv_x_id[q] = 0 /\ x_connected[q] = "no" /\ ~sv_local[q]

\* A proxy has a counterpart only where it shares a string.
Linked ==
  \A p \in Objects : m_x_id[p] # 0 =>
    \/ \E r \in Objects : Share(p, r)
    \/ \E q \in Ports : Share(p, q) /\ x_connected[q] = "bound"

\* What is bound was found under a string of both, and was compatible.
BoundFits ==
  /\ \A q \in Ports : x_connected[q] = "bound" => sv_x_id[q] \in {-1} \cup DOMAIN m_proxies
  /\ \A p \in Objects, q \in Ports : Bound(p, q) => Share(p, q) /\ Fits(p, q)

\* The parts of PairsAreDeclared.
AcrossDeclared ==
  WellNamed =>
    \A p \in Objects, q \in Ports :
      /\ x_connected[q] # "no" /\ Share(p, q) /\ Fits(p, q) => Bound(p, q)
      /\ Bound(p, q) => IsAt(x_ports, m_x_id[p], q)

ScLocalDeclared ==
  WellNamed =>
    \A p, r \in Objects :
      Share(p, r) /\ Registered(p, m_proxies) /\ Registered(r, m_proxies) =>
        IsAt(m_proxies, m_x_id[p], r) /\ IsAt(m_proxies, m_x_id[r], p)

SvLocalDeclared ==
  WellNamed =>
    \A q, r \in Ports :
      Share(q, r) /\ Registered(q, x_ports) /\ Registered(r, x_ports) =>
        IsAt(x_ports, sv_x_id[q], r) /\ IsAt(x_ports, sv_x_id[r], q)

IInv ==
  /\ TypeOK /\ Entries /\ NamedSo /\ Known /\ MetOne /\ IdsRight /\ Untouched
  /\ Linked /\ BoundFits
  /\ AcrossDeclared /\ ScLocalDeclared /\ SvLocalDeclared

-----------------------------------------------------------------------------
(***************************************************************************)
(* Names and registries                                                    *)
(***************************************************************************)

LEMMA PairsFromParts ==
  BoundFits /\ AcrossDeclared /\ ScLocalDeclared /\ SvLocalDeclared => PairsAreDeclared
BY DEF BoundFits, AcrossDeclared, ScLocalDeclared, SvLocalDeclared, PairsAreDeclared

\* Where everything is meant for one other, that is the same one.
LEMMA OneOther ==
  ASSUME WellNamed, NEW x \in Objects \cup Ports,
         NEW y \in Objects \cup Ports, NEW z \in Objects \cup Ports,
         Share(x, y), Share(x, z)
  PROVE  y = z
<1> DEFINE R == {r \in Objects \cup Ports : Share(x, r)}
<1>1. IsFiniteSet(R)
  <2>1. IsFiniteSet(Sc \cup Sv)
    BY SidesAssumption, FS_Union
  <2>2. R \subseteq Sc \cup Sv
    BY DEF Objects, Ports
  <2> QED  BY <2>1, <2>2, FS_Subset
<1>2. Cardinality(R) <= 1
  BY DEF WellNamed
<1>3. y \in R /\ z \in R
  OBVIOUS
<1> HIDE DEF R
<1>4. /\ IsFiniteSet(R \ {y}) /\ Cardinality(R \ {y}) = Cardinality(R) - 1
      /\ Cardinality(R) \in Nat /\ Cardinality(R \ {y}) \in Nat
  BY <1>1, <1>3, FS_RemoveElement, FS_CardinalityType
<1>5. R \ {y} = {}
  BY <1>2, <1>4, FS_EmptySet
<1> QED  BY <1>3, <1>5

LEMMA ShareSymmetric == \A x, y : Share(x, y) => Share(y, x)
BY DEF Share

\* The strings of an object or a port.
LEMMA StringsAre ==
  ASSUME Entries, NEW x \in Objects \cup Ports
  PROVE  /\ StringsOf(x) \subseteq Strings
         /\ design[x].name \in StringsOf(x) /\ design[x].name # NoLookup
         /\ StringsOf(x) = {design[x].name, design[x].lookup} \cap Strings
         /\ design[x].lookup # NoLookup => design[x].lookup \in StringsOf(x)
BY DesignsAssumption, StringsAssumption DEF Entries, StringsOf, Objects, Ports

\* What is found has been entered under a string of the one that looks for it, ...
LEMMA FoundUnderString ==
  ASSUME Entries, NEW x \in Objects \cup Ports, NEW names, Existing(names, design[x]) # 0
  PROVE  \E s \in StringsOf(x) : names[s] = Existing(names, design[x])
BY StringsAre DEF Existing, Entry

\* ... and something is, if there is anything under one of them.
LEMMA SomethingFound ==
  ASSUME Entries, NEW x \in Objects \cup Ports, NEW names,
         NEW s \in StringsOf(x), names[s] # 0
  PROVE  Existing(names, design[x]) # 0
<1>1. s = design[x].name \/ s = design[x].lookup
  BY DEF StringsOf
<1> QED  BY <1>1, StringsAre DEF Existing, Entry, StringsOf

\* What x finds in the registry of SystemC.
LEMMA ScFinds ==
  ASSUME TypeOK, Entries, NamedSo, NEW x \in Objects \cup Ports,
         Existing(m_proxy_names, design[x]) # 0
  PROVE  LET old == Existing(m_proxy_names, design[x])
         IN /\ old \in 1..Len(m_proxies)
            /\ m_proxies[old] \in Objects /\ Registered(m_proxies[old], m_proxies)
            /\ m_proxies[old] # x => Share(x, m_proxies[old])
<1> DEFINE old == Existing(m_proxy_names, design[x])
<1>1. PICK s \in StringsOf(x) : m_proxy_names[s] = old
  BY FoundUnderString
<1>2. s \in Strings
  BY StringsAre
<1>3. old \in 1..Len(m_proxies)
  BY <1>1, <1>2 DEF TypeOK
<1>4. s \in StringsOf(m_proxies[old])
  BY <1>1, <1>2 DEF NamedSo
<1>5. DOMAIN m_proxies = 1..Len(m_proxies)
  BY DEF TypeOK
<1> QED  BY <1>1, <1>3, <1>4, <1>5 DEF Entries, Registered, Share

\* And in that of SystemVerilog.
LEMMA SvFinds ==
  ASSUME TypeOK, Entries, NamedSo, NEW x \in Objects \cup Ports,
         Existing(x_port_names, design[x]) # 0
  PROVE  LET old == Existing(x_port_names, design[x])
         IN /\ old \in 1..Len(x_ports)
            /\ x_ports[old] \in Ports /\ Registered(x_ports[old], x_ports)
            /\ x_ports[old] # x => Share(x, x_ports[old])
<1> DEFINE old == Existing(x_port_names, design[x])
<1>1. PICK s \in StringsOf(x) : x_port_names[s] = old
  BY FoundUnderString
<1>2. s \in Strings
  BY StringsAre
<1>3. old \in 1..Len(x_ports)
  BY <1>1, <1>2 DEF TypeOK
<1>4. s \in StringsOf(x_ports[old])
  BY <1>1, <1>2 DEF NamedSo
<1>5. DOMAIN x_ports = 1..Len(x_ports)
  BY DEF TypeOK
<1> QED  BY <1>1, <1>3, <1>4, <1>5 DEF Entries, Registered, Share

\* A registry that grows.
LEMMA Grown ==
  ASSUME NEW X, NEW registry \in Seq(X), NEW x \in X
  PROVE  LET r2 == Append(registry, x)
         IN /\ r2 \in Seq(X) /\ Len(r2) = NextId(registry) /\ NextId(registry) \in Nat \ {0}
            /\ Len(registry) \in Nat /\ DOMAIN registry = 1..Len(registry)
            /\ DOMAIN r2 = 1..NextId(registry)
            /\ \A i \in 1..Len(registry) : r2[i] = registry[i]
            /\ IsAt(r2, NextId(registry), x)
            /\ \A i, y : IsAt(registry, i, y) => IsAt(r2, i, y)
            /\ \A y : Registered(y, r2) <=> Registered(y, registry) \/ y = x
<1>1. Append(registry, x) \in Seq(X) /\ Len(Append(registry, x)) = Len(registry) + 1
  OBVIOUS
<1>2. /\ Len(registry) \in Nat /\ DOMAIN registry = 1..Len(registry)
      /\ DOMAIN Append(registry, x) = 1..Len(registry) + 1
  BY <1>1
<1>3. /\ \A i \in 1..Len(registry) : Append(registry, x)[i] = registry[i]
      /\ Append(registry, x)[Len(registry) + 1] = x
  OBVIOUS
<1> QED  BY <1>1, <1>2, <1>3 DEF NextId, IsAt, Registered

\* What is said of the design alone does not change.
LEMMA DesignKept ==
  ASSUME design' = design
  PROVE  /\ Objects' = Objects /\ Ports' = Ports /\ WellNamed' = WellNamed
         /\ \A x : StringsOf(x)' = StringsOf(x)
         /\ \A x, y : Share(x, y)' = Share(x, y) /\ Fits(x, y)' = Fits(x, y)
BY DEF Objects, Ports, WellNamed, StringsOf, Share, Fits

-----------------------------------------------------------------------------
(***************************************************************************)
(* Registration                                                            *)
(***************************************************************************)

\* A counterpart that was found stays.
LinksKept ==
  /\ \A p \in Objects : m_x_id[p] # 0 => m_x_id'[p] = m_x_id[p]
  /\ \A q \in Ports : sv_x_id[q] # 0 => sv_x_id'[q] = sv_x_id[q]

\* What the constructor of a SystemC proxy does, whether it finds another or not.
LEMMA ScNewFacts ==
  ASSUME IInv, NEW p \in Objects, ScNew(p)
  PROVE  LET own == NextId(m_proxies)
             old == Existing(m_proxy_names, design[p])
             r == m_proxies[old]
         IN /\ \A s \in Strings :
                 \/ m_proxy_names'[s] = m_proxy_names[s]
                 \/ m_proxy_names'[s] = own /\ s \in StringsOf(p)
            /\ \A x \in Objects \ {p} : m_id'[x] = m_id[x]
            /\ m_id'[p] \in {own, -1}
            /\ m_id'[p] # -1 => /\ \A s \in StringsOf(p) : m_proxy_names[s] = 0
                                /\ \A s \in StringsOf(p) : m_proxy_names'[s] = own
                                /\ m_x_id' = m_x_id
            /\ m_id'[p] = -1 =>
                 /\ r \in Objects /\ r # p /\ Share(p, r) /\ Registered(r, m_proxies)
                 /\ IsAt(m_proxies, old, r)
                 /\ m_x_id'[p] = old /\ m_x_id[r] = 0 /\ m_x_id'[r] = own
                 /\ \A x \in Objects \ {p, r} : m_x_id'[x] = m_x_id[x]
            /\ TypeOK'
<1> DEFINE own == NextId(m_proxies)
           old == Existing(m_proxy_names, design[p])
           r == m_proxies[old]
<1>1. /\ ~Registered(p, m_proxies) /\ m_proxies' = Append(m_proxies, p)
      /\ UNCHANGED <<design, m_connected, svVars, fatal, caller>>
  BY DEF ScNew
<1>2. p \in Sc /\ m_proxies \in Seq(Sc)
  BY DEF IInv, TypeOK, Objects
<1>3. /\ m_proxies' \in Seq(Sc) /\ Len(m_proxies') = own /\ own = Len(m_proxies) + 1
      /\ Len(m_proxies) \in Nat /\ DOMAIN m_proxies = 1..Len(m_proxies)
  BY <1>1, <1>2, Grown DEF NextId
<1>4. m_id[p] = -1
  BY <1>1 DEF IInv, IdsRight, IsAt, Registered
<1>5. /\ m_proxy_names \in [Strings -> 0..Len(m_proxies)]
      /\ m_id \in [Sc -> {-1} \cup 1..Len(m_proxies)]
      /\ m_x_id \in [Sc -> 0..Len(m_proxies) \cup 0..Len(x_ports)]
      /\ m_locally_connected \in [Sc -> BOOLEAN]
  BY DEF IInv, TypeOK
<1>6. /\ StringsOf(p) \subseteq Strings
      /\ StringsOf(p) = {design[p].name, design[p].lookup} \cap Strings
      /\ design[p].name \in StringsOf(p)
  BY StringsAre DEF IInv
<1>7. /\ x_ports' = x_ports /\ x_port_names' = x_port_names /\ sv_x_id' = sv_x_id
      /\ x_connected' = x_connected /\ sv_local' = sv_local
  BY <1>1 DEF svVars
<1>8. /\ \A i : i \in 0..Len(m_proxies) => i \in 0..own
      /\ \A i : i \in 1..Len(m_proxies) => i \in 1..own
      /\ own \in 1..own /\ own \in 0..own
  BY <1>3
<1>9. ASSUME m_proxy_names' \in [Strings -> 0..own], m_id' \in [Sc -> {-1} \cup 1..own],
             m_x_id' \in [Sc -> 0..own \cup 0..Len(x_ports)],
             m_locally_connected' \in [Sc -> BOOLEAN]
      PROVE  TypeOK'
  <2>1. sv_x_id \in [Sv -> {-1} \cup 0..own \cup 0..Len(x_ports)]
    BY <1>8 DEF IInv, TypeOK
  <2> QED  BY <1>1, <1>3, <1>7, <1>9, <2>1 DEF IInv, TypeOK
<1>10. CASE old = 0
  <2>1. /\ m_id' = [m_id EXCEPT ![p] = own]
        /\ m_proxy_names' = Enter(m_proxy_names, {design[p].name, design[p].lookup}, own)
        /\ UNCHANGED <<m_x_id, m_locally_connected>>
    BY <1>10 DEF ScNew
  <2>2. \A s \in StringsOf(p) : m_proxy_names[s] = 0
    BY <1>10, SomethingFound DEF IInv
  <2>3. \A s \in Strings : m_proxy_names'[s] = IF s \in StringsOf(p) THEN own ELSE m_proxy_names[s]
    BY <2>1, <1>6 DEF Enter
  <2>4. m_proxy_names' \in [Strings -> 0..own]
    BY <2>1, <1>5, <1>8 DEF Enter
  <2>5. m_id' \in [Sc -> {-1} \cup 1..own] /\ m_id'[p] = own
    BY <2>1, <1>2, <1>5, <1>8
  <2>6. m_x_id' \in [Sc -> 0..own \cup 0..Len(x_ports)]
    BY <2>1, <1>5, <1>8
  <2>7. TypeOK'
    BY <1>5, <1>9, <2>1, <2>4, <2>5, <2>6
  <2>8. \A x \in Objects \ {p} : m_id'[x] = m_id[x]
    BY <2>1, <1>5 DEF Objects
  <2>9. own # -1
    BY <1>3
  <2> QED  BY <1>6, <2>1, <2>2, <2>3, <2>5, <2>7, <2>8, <2>9
<1>11. CASE old # 0
  <2>1. /\ m_x_id[r] = 0
        /\ m_proxy_names' = Enter(m_proxy_names, {design[p].name}, own)
        /\ m_x_id' = [m_x_id EXCEPT ![p] = old, ![r] = own]
        /\ m_locally_connected' = [m_locally_connected EXCEPT ![p] = TRUE, ![r] = TRUE]
        /\ m_id' = m_id
    BY <1>11 DEF ScNew
  <2>2. /\ old \in 1..Len(m_proxies) /\ r \in Objects /\ Registered(r, m_proxies)
        /\ r # p => Share(p, r)
    BY <1>11, ScFinds DEF IInv
  <2>3. r # p /\ Share(p, r)
    BY <1>1, <2>2
  <2>4. \A s \in Strings : m_proxy_names'[s] = IF s = design[p].name THEN own ELSE m_proxy_names[s]
    BY <2>1 DEF Enter
  <2>5. m_proxy_names' \in [Strings -> 0..own]
    BY <2>1, <1>5, <1>8 DEF Enter
  <2>6. m_id' \in [Sc -> {-1} \cup 1..own]
    BY <2>1, <1>5, <1>8
  <2>7. r \in Sc
    BY <2>2 DEF Objects
  <2>8. m_x_id' \in [Sc -> 0..own \cup 0..Len(x_ports)]
    <3>1. m_x_id \in [Sc -> 0..own \cup 0..Len(x_ports)] /\ old \in 0..own
      BY <1>3, <1>5, <1>8, <2>2
    <3> QED  BY <2>1, <3>1, <1>8
  <2>9. m_locally_connected' \in [Sc -> BOOLEAN]
    BY <2>1, <1>5
  <2>10. TypeOK'
    BY <1>9, <2>5, <2>6, <2>8, <2>9
  <2>11. /\ m_x_id'[p] = old /\ m_x_id'[r] = own
         /\ \A x \in Objects \ {p, r} : m_x_id'[x] = m_x_id[x]
    BY <1>2, <1>5, <2>1, <2>3, <2>7 DEF Objects
  <2>12. IsAt(m_proxies, old, r)
    BY <1>3, <2>2 DEF IsAt
  <2> QED  BY <1>4, <1>6, <2>1, <2>2, <2>3, <2>4, <2>10, <2>11, <2>12
<1> QED  BY <1>10, <1>11

\* A SystemC proxy is registered.
LEMMA ScNewInv ==
  ASSUME IInv, NEW p \in Objects, ScNew(p)
  PROVE  IInv' /\ LinksKept
<1> DEFINE own == NextId(m_proxies)
           old == Existing(m_proxy_names, design[p])
           r == m_proxies[old]
<1>1. /\ ~Registered(p, m_proxies) /\ m_proxies' = Append(m_proxies, p)
      /\ design' = design /\ x_ports' = x_ports /\ x_port_names' = x_port_names
      /\ sv_x_id' = sv_x_id /\ x_connected' = x_connected /\ sv_local' = sv_local
  BY DEF ScNew, svVars
<1>2. /\ Objects' = Objects /\ Ports' = Ports /\ WellNamed' = WellNamed
      /\ \A x : StringsOf(x)' = StringsOf(x)
      /\ \A x, y : Share(x, y)' = Share(x, y) /\ Fits(x, y)' = Fits(x, y)
  BY <1>1, DesignKept
<1>3. p \in Sc /\ m_proxies \in Seq(Sc)
  BY DEF IInv, TypeOK, Objects
<1>4. /\ own \in Nat \ {0} /\ own = Len(m_proxies) + 1 /\ Len(m_proxies) \in Nat
      /\ DOMAIN m_proxies = 1..Len(m_proxies) /\ DOMAIN m_proxies' = 1..own
      /\ \A i \in 1..Len(m_proxies) : m_proxies'[i] = m_proxies[i]
      /\ m_proxies'[own] = p
      /\ IsAt(m_proxies', own, p)
      /\ \A i, y : IsAt(m_proxies, i, y) => IsAt(m_proxies', i, y)
      /\ \A y : Registered(y, m_proxies') <=> Registered(y, m_proxies) \/ y = p
  BY <1>1, <1>3, Grown DEF NextId, IsAt
<1>5. /\ \A s \in Strings :
           \/ m_proxy_names'[s] = m_proxy_names[s]
           \/ m_proxy_names'[s] = own /\ s \in StringsOf(p)
      /\ \A x \in Objects \ {p} : m_id'[x] = m_id[x]
      /\ m_id'[p] \in {own, -1}
  BY ScNewFacts
<1>6. m_id'[p] # -1 => /\ \A s \in StringsOf(p) : m_proxy_names[s] = 0
                       /\ \A s \in StringsOf(p) : m_proxy_names'[s] = own
                       /\ m_x_id' = m_x_id
  BY ScNewFacts
<1>7. m_id'[p] = -1 =>
        /\ r \in Objects /\ r # p /\ Share(p, r) /\ Registered(r, m_proxies)
        /\ IsAt(m_proxies, old, r)
        /\ m_x_id'[p] = old /\ m_x_id[r] = 0 /\ m_x_id'[r] = own
        /\ \A x \in Objects \ {p, r} : m_x_id'[x] = m_x_id[x]
  BY ScNewFacts
<1>8. TypeOK'
  BY ScNewFacts
<1> HIDE DEF own, old, r
<1>9. m_x_id[p] = 0
  BY <1>1 DEF IInv, Untouched
<1>10. LinksKept
  BY <1>1, <1>6, <1>7, <1>9 DEF LinksKept
<1>11. Entries'
  <2>1. \A i \in 1..own : i = own \/ i \in 1..Len(m_proxies)
    BY <1>4
  <2> QED  BY <1>1, <1>2, <1>4, <2>1 DEF IInv, Entries
<1>12. NamedSo'
  <2>1. ASSUME NEW s \in Strings, m_proxy_names'[s] # 0
        PROVE  s \in StringsOf(m_proxies'[m_proxy_names'[s]])
    <3>1. CASE m_proxy_names'[s] = m_proxy_names[s]
      <4>1. m_proxy_names[s] \in 1..Len(m_proxies)
        BY <2>1, <3>1 DEF IInv, TypeOK
      <4> QED  BY <2>1, <3>1, <4>1, <1>4 DEF IInv, NamedSo
    <3>2. CASE m_proxy_names'[s] = own /\ s \in StringsOf(p)
      BY <3>2, <1>4
    <3> QED  BY <3>1, <3>2, <1>5
  <2>2. \A s \in Strings : m_proxy_names'[s] # 0 => s \in StringsOf(m_proxies[m_proxy_names[s]])'
    BY <2>1, <1>1 DEF StringsOf
  <2> QED  BY <1>1, <1>2, <2>2 DEF IInv, NamedSo
<1>13. Known'
  <2>1. ASSUME NEW x \in Objects, Registered(x, m_proxies'), m_id'[x] # -1, NEW s \in StringsOf(x)
        PROVE  m_proxy_names'[s] # 0
    <3>1. CASE x = p
      BY <3>1, <2>1, <1>4, <1>6
    <3>2. CASE x # p
      <4>1. m_proxy_names[s] # 0
        BY <3>2, <2>1, <1>4, <1>5 DEF IInv, Known
      <4>2. s \in Strings
        BY StringsAre DEF IInv
      <4> QED  BY <4>1, <4>2, <1>4, <1>5
    <3> QED  BY <3>1, <3>2
  <2> QED  BY <1>1, <1>2, <2>1 DEF IInv, Known, Registered
<1>14. MetOne'
  <2>1. ASSUME NEW x \in Objects, Registered(x, m_proxies'), m_id'[x] = -1
        PROVE  \E y \in Objects : Registered(y, m_proxies') /\ Share(x, y)
    <3>1. CASE x = p
      BY <3>1, <2>1, <1>4, <1>7
    <3>2. CASE x # p
      BY <3>2, <2>1, <1>4, <1>5 DEF IInv, MetOne
    <3> QED  BY <3>1, <3>2
  <2> QED  BY <1>1, <1>2, <2>1 DEF IInv, MetOne, Registered
<1>15. IdsRight'
  <2>1. ASSUME NEW x \in Objects, m_id'[x] # -1
        PROVE  IsAt(m_proxies', m_id'[x], x)
    <3>1. CASE x = p
      BY <3>1, <2>1, <1>4, <1>5
    <3>2. CASE x # p
      BY <3>2, <2>1, <1>4, <1>5 DEF IInv, IdsRight
    <3> QED  BY <3>1, <3>2
  <2> QED  BY <1>2, <2>1 DEF IdsRight, IsAt
<1>16. Untouched'
  <2>1. ASSUME NEW x \in Objects, ~Registered(x, m_proxies')
        PROVE  m_x_id'[x] = 0
    BY <2>1, <1>4, <1>6, <1>7 DEF IInv, Untouched
  <2> QED  BY <1>1, <1>2, <2>1 DEF IInv, Untouched, Registered
<1>17. Linked'
  <2>1. ASSUME NEW x \in Objects, m_x_id'[x] # 0
        PROVE  \/ \E y \in Objects : Share(x, y)
               \/ \E q \in Ports : Share(x, q) /\ x_connected[q] = "bound"
    <3>1. CASE m_x_id[x] # 0
      BY <3>1 DEF IInv, Linked
    <3>2. CASE m_x_id[x] = 0
      <4>1. m_id'[p] = -1 /\ x \in {p, r}
        BY <2>1, <3>2, <1>6, <1>7
      <4> QED  BY <4>1, <1>7, ShareSymmetric
    <3> QED  BY <3>1, <3>2
  <2> QED  BY <1>1, <1>2, <2>1 DEF Linked
<1>18. \A q \in Ports : x_connected[q] = "bound" => sv_x_id[q] \in {-1} \cup 1..Len(m_proxies)
  BY <1>4 DEF IInv, BoundFits
<1>19. ASSUME NEW x \in Objects, NEW q \in Ports
       PROVE  Bound(x, q)' <=> Bound(x, q)
  <2>1. CASE x_connected[q] = "bound"
    <3>1. sv_x_id[q] \in {-1} \cup 1..Len(m_proxies)
      BY <1>18, <2>1
    <3>2. IsAt(m_proxies', sv_x_id[q], x) <=> IsAt(m_proxies, sv_x_id[q], x)
      BY <3>1, <1>4 DEF IsAt
    <3> QED  BY <1>1, <3>2 DEF Bound, IsAt
  <2>2. CASE x_connected[q] # "bound"
    BY <1>1, <2>2 DEF Bound
  <2> QED  BY <2>1, <2>2
<1>20. BoundFits'
  <2>1. \A q \in Ports : x_connected[q] = "bound" => sv_x_id[q] \in {-1} \cup DOMAIN m_proxies'
    BY <1>4, <1>18
  <2>2. \A x \in Objects, q \in Ports : Bound(x, q)' => Share(x, q) /\ Fits(x, q)
    BY <1>19 DEF IInv, BoundFits
  <2> QED  BY <1>1, <1>2, <2>1, <2>2 DEF BoundFits
<1>21. AcrossDeclared'
  <2>1. ASSUME WellNamed, NEW x \in Objects, NEW q \in Ports, Bound(x, q)
        PROVE  IsAt(x_ports, m_x_id'[x], q)
    <3>1. IsAt(x_ports, m_x_id[x], q)
      BY <2>1 DEF IInv, AcrossDeclared
    <3>2. m_x_id[x] # 0
      <4>1. x_ports \in Seq(Sv)
        BY DEF IInv, TypeOK
      <4>2. DOMAIN x_ports = 1..Len(x_ports)
        BY <4>1
      <4> QED  BY <3>1, <4>2 DEF IsAt
    <3> QED  BY <3>1, <3>2, <1>10 DEF LinksKept
  <2>2. ASSUME WellNamed, NEW x \in Objects, NEW q \in Ports
        PROVE  /\ x_connected[q] # "no" /\ Share(x, q) /\ Fits(x, q) => Bound(x, q)'
               /\ Bound(x, q)' => IsAt(x_ports, m_x_id'[x], q)
    BY <2>1, <2>2, <1>19 DEF IInv, AcrossDeclared
  <2> QED  BY <1>1, <1>2, <2>2 DEF AcrossDeclared, IsAt
<1>22. ScLocalDeclared'
  <2>1. ASSUME WellNamed, NEW x \in Objects, Share(p, x), Registered(x, m_proxies)
        PROVE  m_id'[p] = -1 /\ x = r
    <3>1. m_id'[p] = -1
      <4> SUFFICES ASSUME m_id'[p] # -1 PROVE FALSE
        OBVIOUS
      <4>1. PICK s \in StringsOf(p) : s \in StringsOf(x)
        BY <2>1 DEF Share
      <4>2. m_id[x] = -1
        BY <4>1, <1>6, <2>1 DEF IInv, Known
      <4>3. PICK y \in Objects : Registered(y, m_proxies) /\ Share(x, y)
        BY <4>2, <2>1 DEF IInv, MetOne
      <4>4. y = p
        BY <4>3, <2>1, OneOther, ShareSymmetric
      <4> QED  BY <4>3, <4>4, <1>1
    <3>2. x = r
      BY <3>1, <1>7, <2>1, OneOther
    <3> QED  BY <3>1, <3>2
  <2>2. ASSUME WellNamed, NEW x \in Objects, Share(p, x), Registered(x, m_proxies)
        PROVE  IsAt(m_proxies', m_x_id'[p], x) /\ IsAt(m_proxies', m_x_id'[x], p)
    BY <2>1, <2>2, <1>4, <1>7
  <2>3. ASSUME WellNamed, NEW x \in Objects, NEW y \in Objects, Share(x, y),
               Registered(x, m_proxies), Registered(y, m_proxies)
        PROVE  IsAt(m_proxies', m_x_id'[x], y) /\ IsAt(m_proxies', m_x_id'[y], x)
    <3>1. IsAt(m_proxies, m_x_id[x], y) /\ IsAt(m_proxies, m_x_id[y], x)
      BY <2>3 DEF IInv, ScLocalDeclared
    <3>2. m_x_id[x] # 0 /\ m_x_id[y] # 0
      BY <3>1, <1>4 DEF IsAt
    <3> QED  BY <3>1, <3>2, <1>4, <1>10 DEF LinksKept
  <2>4. ASSUME WellNamed, NEW x \in Objects, NEW y \in Objects, Share(x, y),
               Registered(x, m_proxies'), Registered(y, m_proxies')
        PROVE  IsAt(m_proxies', m_x_id'[x], y) /\ IsAt(m_proxies', m_x_id'[y], x)
    <3>1. x # y
      BY <2>4 DEF Share
    <3>2. CASE x = p
      BY <3>1, <3>2, <2>2, <2>4, <1>4
    <3>3. CASE y = p
      BY <3>1, <3>3, <2>2, <2>4, <1>4, ShareSymmetric
    <3>4. CASE x # p /\ y # p
      BY <3>4, <2>3, <2>4, <1>4
    <3> QED  BY <3>2, <3>3, <3>4
  <2> QED  BY <1>2, <2>4 DEF ScLocalDeclared, IsAt, Registered
<1>23. SvLocalDeclared'
  BY <1>1, <1>2 DEF IInv, SvLocalDeclared, IsAt, Registered
<1> QED
  BY <1>8, <1>10, <1>11, <1>12, <1>13, <1>14, <1>15, <1>16, <1>17, <1>20, <1>21, <1>22, <1>23
  DEF IInv

\* What the constructor of a SystemVerilog proxy does, unless it ends the simulation.
LEMMA SvNewFacts ==
  ASSUME IInv, NEW q \in Ports, SvNew(q), ~UNCHANGED <<x_ports, x_port_names, sv_x_id, sv_local>>
  PROVE  LET own == NextId(x_ports)
             old == Existing(x_port_names, design[q])
             r == x_ports[old]
         IN /\ x_ports' = Append(x_ports, q)
            /\ \A s \in Strings :
                 \/ x_port_names'[s] = x_port_names[s]
                 \/ x_port_names'[s] = own /\ s \in StringsOf(q)
            /\ ~sv_local'[q] => /\ \A s \in StringsOf(q) : x_port_names[s] = 0
                                /\ \A s \in StringsOf(q) : x_port_names'[s] = own
                                /\ sv_x_id' = sv_x_id /\ sv_local' = sv_local
            /\ sv_local'[q] =>
                 /\ r \in Ports /\ r # q /\ Share(q, r) /\ Registered(r, x_ports)
                 /\ IsAt(x_ports, old, r)
                 /\ sv_x_id'[q] = old /\ sv_x_id[r] = 0 /\ sv_x_id'[r] = own /\ sv_local'[r]
                 /\ \A x \in Ports \ {q, r} : sv_x_id'[x] = sv_x_id[x] /\ sv_local'[x] = sv_local[x]
            /\ TypeOK'
<1> DEFINE own == NextId(x_ports)
           old == Existing(x_port_names, design[q])
           r == x_ports[old]
<1>1. /\ ~Registered(q, x_ports) /\ UNCHANGED <<design, x_connected, scVars, caller>>
      /\ ~sv_local[q]
  BY DEF SvNew, IInv, Untouched
<1>2. q \in Sv /\ x_ports \in Seq(Sv)
  BY DEF IInv, TypeOK, Ports
<1>3. /\ Append(x_ports, q) \in Seq(Sv) /\ Len(Append(x_ports, q)) = own /\ own = Len(x_ports) + 1
      /\ Len(x_ports) \in Nat /\ DOMAIN x_ports = 1..Len(x_ports)
  BY <1>1, <1>2, Grown DEF NextId
<1>4. /\ x_port_names \in [Strings -> 0..Len(x_ports)]
      /\ sv_x_id \in [Sv -> {-1} \cup 0..Len(m_proxies) \cup 0..Len(x_ports)]
      /\ sv_local \in [Sv -> BOOLEAN]
  BY DEF IInv, TypeOK
<1>5. /\ StringsOf(q) \subseteq Strings
      /\ StringsOf(q) = {design[q].name, design[q].lookup} \cap Strings
      /\ design[q].name \in StringsOf(q)
  BY StringsAre DEF IInv
<1>6. /\ m_proxies' = m_proxies /\ m_proxy_names' = m_proxy_names /\ m_id' = m_id
      /\ m_x_id' = m_x_id /\ m_connected' = m_connected
      /\ m_locally_connected' = m_locally_connected
  BY <1>1 DEF scVars
<1>7. /\ \A i : i \in 0..Len(x_ports) => i \in 0..own
      /\ own \in 0..own
  BY <1>3
<1>8. ASSUME x_ports' = Append(x_ports, q), x_port_names' \in [Strings -> 0..own], fatal' = fatal,
             sv_x_id' \in [Sv -> {-1} \cup 0..Len(m_proxies) \cup 0..own],
             sv_local' \in [Sv -> BOOLEAN]
      PROVE  TypeOK'
  <2>1. m_x_id \in [Sc -> 0..Len(m_proxies) \cup 0..own]
    BY <1>7 DEF IInv, TypeOK
  <2> QED  BY <1>1, <1>3, <1>6, <1>8, <2>1 DEF IInv, TypeOK
<1>9. CASE old = 0
  <2>1. /\ x_ports' = Append(x_ports, q)
        /\ x_port_names' = Enter(x_port_names, {design[q].name, design[q].lookup}, own)
        /\ UNCHANGED <<sv_x_id, sv_local, fatal>>
    BY <1>9 DEF SvNew
  <2>2. \A s \in StringsOf(q) : x_port_names[s] = 0
    BY <1>9, SomethingFound DEF IInv
  <2>3. \A s \in Strings : x_port_names'[s] = IF s \in StringsOf(q) THEN own ELSE x_port_names[s]
    BY <2>1, <1>5 DEF Enter
  <2>4. x_port_names' \in [Strings -> 0..own]
    BY <2>1, <1>4, <1>7 DEF Enter
  <2>5. sv_x_id' \in [Sv -> {-1} \cup 0..Len(m_proxies) \cup 0..own]
    BY <2>1, <1>4, <1>7
  <2>6. TypeOK'
    BY <1>4, <1>8, <2>1, <2>4, <2>5
  <2> QED  BY <1>1, <1>5, <2>1, <2>2, <2>3, <2>6
<1>10. CASE old # 0
  <2>1. /\ sv_x_id[r] = 0
        /\ x_ports' = Append(x_ports, q)
        /\ x_port_names' = Enter(x_port_names, {design[q].name}, own)
        /\ sv_x_id' = [sv_x_id EXCEPT ![q] = old, ![r] = own]
        /\ sv_local' = [sv_local EXCEPT ![q] = TRUE, ![r] = TRUE]
        /\ fatal' = fatal
    BY <1>10 DEF SvNew
  <2>2. /\ old \in 1..Len(x_ports) /\ r \in Ports /\ Registered(r, x_ports)
        /\ r # q => Share(q, r)
    BY <1>10, SvFinds DEF IInv
  <2>3. r # q /\ Share(q, r)
    BY <1>1, <2>2
  <2>4. \A s \in Strings : x_port_names'[s] = IF s = design[q].name THEN own ELSE x_port_names[s]
    BY <2>1 DEF Enter
  <2>5. x_port_names' \in [Strings -> 0..own]
    BY <2>1, <1>4, <1>7 DEF Enter
  <2>6. r \in Sv
    BY <2>2 DEF Ports
  <2>7. sv_x_id' \in [Sv -> {-1} \cup 0..Len(m_proxies) \cup 0..own]
    <3>1. sv_x_id \in [Sv -> {-1} \cup 0..Len(m_proxies) \cup 0..own] /\ old \in 0..own
      BY <1>3, <1>4, <1>7, <2>2
    <3> QED  BY <2>1, <3>1, <1>7
  <2>8. sv_local' \in [Sv -> BOOLEAN] /\ sv_local'[q] = TRUE
    BY <2>1, <1>2, <1>4
  <2>9. TypeOK'
    BY <1>8, <2>1, <2>5, <2>7, <2>8
  <2>10. /\ sv_x_id'[q] = old /\ sv_x_id'[r] = own /\ sv_local'[r] = TRUE
         /\ \A x \in Ports \ {q, r} : sv_x_id'[x] = sv_x_id[x] /\ sv_local'[x] = sv_local[x]
    BY <1>2, <1>4, <2>1, <2>3, <2>6 DEF Ports
  <2>11. IsAt(x_ports, old, r)
    BY <1>3, <2>2 DEF IsAt
  <2>12. sv_local'[q] /\ sv_local'[r]
    BY <2>8, <2>10
  <2>13. \A s \in Strings :
           \/ x_port_names'[s] = x_port_names[s]
           \/ x_port_names'[s] = own /\ s \in StringsOf(q)
    BY <1>5, <2>4
  <2> QED  BY <2>1, <2>2, <2>3, <2>9, <2>10, <2>11, <2>12, <2>13
<1> QED  BY <1>9, <1>10

\* A SystemVerilog proxy is registered.
LEMMA SvNewInv ==
  ASSUME IInv, NEW q \in Ports, SvNew(q), ~UNCHANGED <<x_ports, x_port_names, sv_x_id, sv_local>>
  PROVE  IInv' /\ LinksKept
<1> DEFINE own == NextId(x_ports)
           old == Existing(x_port_names, design[q])
           r == x_ports[old]
<1>1. /\ ~Registered(q, x_ports) /\ x_ports' = Append(x_ports, q)
      /\ design' = design /\ m_proxies' = m_proxies /\ m_proxy_names' = m_proxy_names
      /\ m_x_id' = m_x_id /\ m_id' = m_id /\ x_connected' = x_connected
  BY SvNewFacts DEF SvNew, scVars
<1>2. /\ Objects' = Objects /\ Ports' = Ports /\ WellNamed' = WellNamed
      /\ \A x : StringsOf(x)' = StringsOf(x)
      /\ \A x, y : Share(x, y)' = Share(x, y) /\ Fits(x, y)' = Fits(x, y)
  BY <1>1, DesignKept
<1>3. q \in Sv /\ x_ports \in Seq(Sv)
  BY DEF IInv, TypeOK, Ports
<1>4. /\ own \in Nat \ {0} /\ own = Len(x_ports) + 1 /\ Len(x_ports) \in Nat
      /\ DOMAIN x_ports = 1..Len(x_ports) /\ DOMAIN x_ports' = 1..own
      /\ \A i \in 1..Len(x_ports) : x_ports'[i] = x_ports[i]
      /\ x_ports'[own] = q
      /\ IsAt(x_ports', own, q)
      /\ \A i, y : IsAt(x_ports, i, y) => IsAt(x_ports', i, y)
      /\ \A y : Registered(y, x_ports') <=> Registered(y, x_ports) \/ y = q
  BY <1>1, <1>3, Grown DEF NextId, IsAt
<1>5. /\ \A s \in Strings :
           \/ x_port_names'[s] = x_port_names[s]
           \/ x_port_names'[s] = own /\ s \in StringsOf(q)
      /\ TypeOK'
  BY SvNewFacts
<1>6. ~sv_local'[q] => /\ \A s \in StringsOf(q) : x_port_names[s] = 0
                       /\ \A s \in StringsOf(q) : x_port_names'[s] = own
                       /\ sv_x_id' = sv_x_id /\ sv_local' = sv_local
  BY SvNewFacts
<1>7. sv_local'[q] =>
        /\ r \in Ports /\ r # q /\ Share(q, r) /\ Registered(r, x_ports)
        /\ IsAt(x_ports, old, r)
        /\ sv_x_id'[q] = old /\ sv_x_id[r] = 0 /\ sv_x_id'[r] = own /\ sv_local'[r]
        /\ \A x \in Ports \ {q, r} : sv_x_id'[x] = sv_x_id[x] /\ sv_local'[x] = sv_local[x]
  BY SvNewFacts
<1> HIDE DEF own, old, r
<1>8. sv_x_id[q] = 0 /\ x_connected[q] = "no" /\ ~sv_local[q]
  BY <1>1 DEF IInv, Untouched
<1>9. LinksKept
  BY <1>1, <1>6, <1>7, <1>8 DEF LinksKept
<1>10. Entries'
  <2>1. \A i \in 1..own : i = own \/ i \in 1..Len(x_ports)
    BY <1>4
  <2> QED  BY <1>1, <1>2, <1>4, <2>1 DEF IInv, Entries
<1>11. NamedSo'
  <2>1. ASSUME NEW s \in Strings, x_port_names'[s] # 0
        PROVE  s \in StringsOf(x_ports'[x_port_names'[s]])
    <3>1. CASE x_port_names'[s] = x_port_names[s]
      <4>1. x_port_names[s] \in 1..Len(x_ports)
        BY <2>1, <3>1 DEF IInv, TypeOK
      <4> QED  BY <2>1, <3>1, <4>1, <1>4 DEF IInv, NamedSo
    <3>2. CASE x_port_names'[s] = own /\ s \in StringsOf(q)
      BY <3>2, <1>4
    <3> QED  BY <3>1, <3>2, <1>5
  <2> QED  BY <1>1, <1>2, <2>1 DEF IInv, NamedSo, StringsOf
<1>12. Known'
  <2>1. ASSUME NEW x \in Ports, Registered(x, x_ports'), ~sv_local'[x], NEW s \in StringsOf(x)
        PROVE  x_port_names'[s] # 0
    <3>1. CASE x = q
      BY <3>1, <2>1, <1>4, <1>6
    <3>2. CASE x # q
      <4>1. x_port_names[s] # 0
        <5>1. ~sv_local[x]
          BY <3>2, <2>1, <1>6, <1>7
        <5> QED  BY <3>2, <5>1, <2>1, <1>4 DEF IInv, Known
      <4>2. s \in Strings
        BY StringsAre DEF IInv
      <4> QED  BY <4>1, <4>2, <1>4, <1>5
    <3> QED  BY <3>1, <3>2
  <2> QED  BY <1>1, <1>2, <2>1 DEF IInv, Known, Registered
<1>13. MetOne'
  <2>1. ASSUME NEW x \in Ports, Registered(x, x_ports'), sv_local'[x]
        PROVE  \E y \in Ports : Registered(y, x_ports') /\ Share(x, y)
    <3>1. CASE x = q
      BY <3>1, <2>1, <1>4, <1>7
    <3>2. CASE x # q /\ sv_local[x]
      BY <3>2, <2>1, <1>4 DEF IInv, MetOne
    <3>3. CASE x # q /\ ~sv_local[x]
      <4>1. sv_local'[q] /\ x = r
        BY <3>3, <2>1, <1>6, <1>7
      <4> QED  BY <4>1, <1>4, <1>7, ShareSymmetric
    <3> QED  BY <3>1, <3>2, <3>3
  <2> QED  BY <1>1, <1>2, <2>1 DEF IInv, MetOne, Registered
<1>14. IdsRight'
  BY <1>1, <1>2 DEF IInv, IdsRight, IsAt
<1>15. Untouched'
  <2>1. ASSUME NEW x \in Ports, ~Registered(x, x_ports')
        PROVE  sv_x_id'[x] = 0 /\ ~sv_local'[x] /\ x_connected[x] = "no"
    BY <2>1, <1>4, <1>6, <1>7 DEF IInv, Untouched
  <2> QED  BY <1>1, <1>2, <2>1 DEF IInv, Untouched, Registered
<1>16. Linked'
  BY <1>1, <1>2 DEF IInv, Linked
<1>17. ASSUME NEW x \in Ports, x_connected[x] = "bound"
       PROVE  sv_x_id'[x] = sv_x_id[x]
  <2>1. sv_x_id[x] \in {-1} \cup DOMAIN m_proxies
    BY <1>17 DEF IInv, BoundFits
  <2>2. DOMAIN m_proxies = 1..Len(m_proxies)
    BY DEF IInv, TypeOK
  <2>3. sv_x_id[x] # 0
    BY <2>1, <2>2
  <2> QED  BY <2>3, <1>9 DEF LinksKept
<1>18. ASSUME NEW x \in Objects, NEW y \in Ports
       PROVE  Bound(x, y)' <=> Bound(x, y)
  BY <1>1, <1>17 DEF Bound, IsAt
<1>19. BoundFits'
  BY <1>1, <1>2, <1>17, <1>18 DEF IInv, BoundFits
<1>20. AcrossDeclared'
  <2>1. ASSUME WellNamed, NEW x \in Objects, NEW y \in Ports
        PROVE  /\ x_connected[y] # "no" /\ Share(x, y) /\ Fits(x, y) => Bound(x, y)'
               /\ Bound(x, y)' => IsAt(x_ports', m_x_id[x], y)
    BY <2>1, <1>4, <1>18 DEF IInv, AcrossDeclared
  <2> QED  BY <1>1, <1>2, <2>1 DEF AcrossDeclared, IsAt
<1>21. ScLocalDeclared'
  BY <1>1, <1>2 DEF IInv, ScLocalDeclared, IsAt, Registered
<1>22. SvLocalDeclared'
  <2>1. ASSUME WellNamed, NEW x \in Ports, Share(q, x), Registered(x, x_ports)
        PROVE  sv_local'[q] /\ x = r
    <3>1. sv_local'[q]
      <4> SUFFICES ASSUME ~sv_local'[q] PROVE FALSE
        OBVIOUS
      <4>1. PICK s \in StringsOf(q) : s \in StringsOf(x)
        BY <2>1 DEF Share
      <4>2. sv_local[x]
        BY <4>1, <1>6, <2>1 DEF IInv, Known
      <4>3. PICK y \in Ports : Registered(y, x_ports) /\ Share(x, y)
        BY <4>2, <2>1 DEF IInv, MetOne
      <4>4. y = q
        BY <4>3, <2>1, OneOther, ShareSymmetric
      <4> QED  BY <4>3, <4>4, <1>1
    <3>2. x = r
      BY <3>1, <1>7, <2>1, OneOther
    <3> QED  BY <3>1, <3>2
  <2>2. ASSUME WellNamed, NEW x \in Ports, Share(q, x), Registered(x, x_ports)
        PROVE  IsAt(x_ports', sv_x_id'[q], x) /\ IsAt(x_ports', sv_x_id'[x], q)
    BY <2>1, <2>2, <1>4, <1>7
  <2>3. ASSUME WellNamed, NEW x \in Ports, NEW y \in Ports, Share(x, y),
               Registered(x, x_ports), Registered(y, x_ports)
        PROVE  IsAt(x_ports', sv_x_id'[x], y) /\ IsAt(x_ports', sv_x_id'[y], x)
    <3>1. IsAt(x_ports, sv_x_id[x], y) /\ IsAt(x_ports, sv_x_id[y], x)
      BY <2>3 DEF IInv, SvLocalDeclared
    <3>2. sv_x_id[x] # 0 /\ sv_x_id[y] # 0
      BY <3>1, <1>4 DEF IsAt
    <3> QED  BY <3>1, <3>2, <1>4, <1>9 DEF LinksKept
  <2>4. ASSUME WellNamed, NEW x \in Ports, NEW y \in Ports, Share(x, y),
               Registered(x, x_ports'), Registered(y, x_ports')
        PROVE  IsAt(x_ports', sv_x_id'[x], y) /\ IsAt(x_ports', sv_x_id'[y], x)
    <3>1. x # y
      BY <2>4 DEF Share
    <3>2. CASE x = q
      BY <3>1, <3>2, <2>2, <2>4, <1>4
    <3>3. CASE y = q
      BY <3>1, <3>3, <2>2, <2>4, <1>4, ShareSymmetric
    <3>4. CASE x # q /\ y # q
      BY <3>4, <2>3, <2>4, <1>4
    <3> QED  BY <3>2, <3>3, <3>4
  <2> QED  BY <1>2, <2>4 DEF SvLocalDeclared, IsAt, Registered
<1> QED
  BY <1>5, <1>9, <1>10, <1>11, <1>12, <1>13, <1>14, <1>15, <1>16, <1>19, <1>20, <1>21, <1>22
  DEF IInv

-----------------------------------------------------------------------------
(***************************************************************************)
(* Resolution                                                              *)
(***************************************************************************)

\* Nothing is on both sides.
LEMMA SidesApart == \A p \in Objects, q \in Ports : p # q
BY SidesAssumption DEF Objects, Ports

LEMMA IdOfIs ==
  ASSUME NEW registry, NEW x, Registered(x, registry)
  PROVE  IsAt(registry, IdOf(x, registry), x)
BY DEF Registered, IdOf, IsAt

\* A proxy under an own of its own did not meet another of its side, and who is meant
\* for it finds it.
LEMMA FoundByOther ==
  ASSUME IInv, WellNamed, Elaborated, NEW p \in Objects, NEW q \in Ports, Share(p, q)
  PROVE  /\ Registered(p, m_proxies) /\ m_id[p] # -1
         /\ Found(q) # 0 /\ m_proxies[Found(q)] = p
<1>1. \A r \in Objects : ~Share(p, r)
  BY OneOther, SidesApart
<1>2. Registered(p, m_proxies)
  <2> DEFINE old == Existing(m_proxy_names, design[p])
  <2> SUFFICES ASSUME ~Registered(p, m_proxies) PROVE FALSE
    OBVIOUS
  <2>1. Left(p)
    BY DEF Elaborated
  <2>2. old # 0
    BY <2>1 DEF Left
  <2>3. m_proxies[old] \in Objects /\ Registered(m_proxies[old], m_proxies)
        /\ (m_proxies[old] # p => Share(p, m_proxies[old]))
    BY <2>2, ScFinds DEF IInv
  <2> QED  BY <2>3, <1>1
<1>3. m_id[p] # -1
  BY <1>1, <1>2 DEF IInv, MetOne
<1>4. PICK s \in StringsOf(p) : s \in StringsOf(q)
  BY DEF Share
<1>5. m_proxy_names[s] # 0
  BY <1>2, <1>3, <1>4 DEF IInv, Known
<1>6. Found(q) # 0
  BY <1>4, <1>5, SomethingFound DEF IInv, Found
<1>7. m_proxies[Found(q)] \in Objects /\ (m_proxies[Found(q)] # q => Share(q, m_proxies[Found(q)]))
  BY <1>6, ScFinds DEF IInv, Found
<1>8. m_proxies[Found(q)] = p
  BY <1>7, SidesApart, OneOther, ShareSymmetric
<1> QED  BY <1>2, <1>3, <1>6, <1>8

\* A port finds its counterpart.
LEMMA BindInv ==
  ASSUME IInv, NEW q \in Ports, Elaborated, ToResolve(q), Found(q) # 0,
         NEW p, p = m_proxies[Found(q)], NEW kind \in KindOf(p),
         KindsCompatible(kind, SvKind(design[q])),
         MasksCompatible(kind, Mask[design[p].iface], Mask[design[q].iface]),
         Bind(q, p),
         UNCHANGED <<design, m_proxies, m_proxy_names, m_id, m_locally_connected,
                     x_ports, x_port_names, sv_local, fatal>>
  PROVE  IInv' /\ (WellNamed => LinksKept)
<1>1. /\ x_connected[q] = "no" /\ sv_x_id[q] = 0 /\ Registered(q, x_ports)
  BY DEF ToResolve, Elaborated
<1>2. p \in Objects /\ Registered(p, m_proxies) /\ Share(p, q)
  BY ScFinds, SidesApart, ShareSymmetric DEF IInv, Found
<1>3. p \in Sc /\ q \in Sv
  BY <1>2 DEF Objects, Ports
<1>4. /\ m_x_id \in [Sc -> 0..Len(m_proxies) \cup 0..Len(x_ports)]
      /\ sv_x_id \in [Sv -> {-1} \cup 0..Len(m_proxies) \cup 0..Len(x_ports)]
      /\ x_connected \in [Sv -> {"no", "bound", "failed"}]
      /\ m_connected \in [Sc -> BOOLEAN]
      /\ caller \in [Callers -> {"idle", "through"} \cup Sc]
      /\ m_proxies \in Seq(Sc) /\ x_ports \in Seq(Sv)
  BY DEF IInv, TypeOK
<1>5. /\ DOMAIN m_proxies = 1..Len(m_proxies) /\ Len(m_proxies) \in Nat
      /\ DOMAIN x_ports = 1..Len(x_ports) /\ Len(x_ports) \in Nat
  BY <1>4
<1>6. IsAt(x_ports, IdOf(q, x_ports), q) /\ IdOf(q, x_ports) \in 1..Len(x_ports)
  BY <1>1, <1>5, IdOfIs DEF IsAt
<1>7. /\ m_x_id' = [m_x_id EXCEPT ![p] = IdOf(q, x_ports)]
      /\ sv_x_id' = [sv_x_id EXCEPT ![q] = m_id[p]]
      /\ x_connected' = [x_connected EXCEPT ![q] = "bound"]
      /\ m_connected' = [m_connected EXCEPT ![p] = TRUE]
      /\ caller' = [c \in Callers |-> IF caller[c] = p THEN "through" ELSE caller[c]]
  BY DEF Bind, Notified
<1>8. m_id[p] # -1 => IsAt(m_proxies, m_id[p], p)
  BY <1>2 DEF IInv, IdsRight
<1>9. m_id[p] \in {-1} \cup 1..Len(m_proxies)
  BY <1>3 DEF IInv, TypeOK
<1>10. /\ m_x_id'[p] = IdOf(q, x_ports) /\ \A x \in Objects \ {p} : m_x_id'[x] = m_x_id[x]
       /\ sv_x_id'[q] = m_id[p] /\ \A y \in Ports \ {q} : sv_x_id'[y] = sv_x_id[y]
       /\ x_connected'[q] = "bound" /\ \A y \in Ports \ {q} : x_connected'[y] = x_connected[y]
  BY <1>3, <1>4, <1>7 DEF Objects, Ports
<1>11. /\ Objects' = Objects /\ Ports' = Ports /\ WellNamed' = WellNamed
       /\ \A x : StringsOf(x)' = StringsOf(x)
       /\ \A x, y : Share(x, y)' = Share(x, y) /\ Fits(x, y)' = Fits(x, y)
  BY DesignKept
<1>12. TypeOK'
  <2>1. m_x_id' \in [Sc -> 0..Len(m_proxies) \cup 0..Len(x_ports)]
    <3>1. IdOf(q, x_ports) \in 0..Len(x_ports)
      BY <1>5, <1>6
    <3> QED  BY <3>1, <1>4, <1>7
  <2>2. sv_x_id' \in [Sv -> {-1} \cup 0..Len(m_proxies) \cup 0..Len(x_ports)]
    <3>1. m_id[p] \in {-1} \cup 0..Len(m_proxies)
      BY <1>5, <1>9
    <3> QED  BY <3>1, <1>4, <1>7
  <2>3. /\ x_connected' \in [Sv -> {"no", "bound", "failed"}] /\ m_connected' \in [Sc -> BOOLEAN]
        /\ caller' \in [Callers -> {"idle", "through"} \cup Sc]
    BY <1>4, <1>7
  <2> QED  BY <2>1, <2>2, <2>3 DEF IInv, TypeOK
<1>13. Entries' /\ NamedSo' /\ Known' /\ MetOne' /\ IdsRight'
  <2>1. Entries' /\ NamedSo'
    BY <1>11 DEF IInv, Entries, NamedSo
  <2>2. Known'
    BY <1>11 DEF IInv, Known, Registered
  <2>3. MetOne' /\ IdsRight'
    BY <1>11 DEF IInv, MetOne, IdsRight, Registered, IsAt
  <2> QED  BY <2>1, <2>2, <2>3
<1>14. Untouched'
  BY <1>1, <1>2, <1>10, <1>11 DEF IInv, Untouched, Registered
<1>15. Linked'
  <2>1. ASSUME NEW x \in Objects, m_x_id'[x] # 0
        PROVE  \/ \E r \in Objects : Share(x, r)
               \/ \E y \in Ports : Share(x, y) /\ x_connected'[y] = "bound"
    <3>1. CASE x = p
      BY <3>1, <1>2, <1>10
    <3>2. CASE x # p
      BY <3>2, <2>1, <1>10 DEF IInv, Linked
    <3> QED  BY <3>1, <3>2
  <2> QED  BY <1>11, <2>1 DEF Linked
<1>16. ASSUME NEW x \in Objects, NEW y \in Ports \ {q}
       PROVE  Bound(x, y)' <=> Bound(x, y)
  BY <1>10 DEF Bound, IsAt
<1>17. ASSUME NEW x \in Objects
       PROVE  Bound(x, q)' <=> x = p /\ m_id[p] # -1
  BY <1>5, <1>8, <1>9, <1>10 DEF Bound, IsAt
<1>18. m_id[p] # -1 => Fits(p, q)
  BY DEF KindOf, Fits
<1>19. BoundFits'
  <2>1. ASSUME NEW y \in Ports, x_connected'[y] = "bound"
        PROVE  sv_x_id'[y] \in {-1} \cup DOMAIN m_proxies
    <3>1. CASE y = q
      BY <3>1, <1>5, <1>9, <1>10
    <3>2. CASE y # q
      BY <3>2, <2>1, <1>10 DEF IInv, BoundFits
    <3> QED  BY <3>1, <3>2
  <2>2. ASSUME NEW x \in Objects, NEW y \in Ports, Bound(x, y)'
        PROVE  Share(x, y) /\ Fits(x, y)
    <3>1. CASE y = q
      BY <3>1, <2>2, <1>2, <1>17, <1>18
    <3>2. CASE y # q
      BY <3>2, <2>2, <1>16 DEF IInv, BoundFits
    <3> QED  BY <3>1, <3>2
  <2> QED  BY <1>11, <2>1, <2>2 DEF BoundFits
<1>20. ASSUME WellNamed
       PROVE  m_x_id[p] = 0
  <2>1. \A r \in Objects : ~Share(p, r)
    BY <1>2, <1>20, OneOther, SidesApart
  <2>2. \A y \in Ports : Share(p, y) => y = q
    BY <1>2, <1>20, OneOther
  <2> QED  BY <1>1, <1>2, <2>1, <2>2 DEF IInv, Linked
<1>21. WellNamed => LinksKept
  BY <1>1, <1>10, <1>20 DEF LinksKept
<1>22. AcrossDeclared'
  <2>1. ASSUME WellNamed, NEW x \in Objects, NEW y \in Ports
        PROVE  /\ x_connected'[y] # "no" /\ Share(x, y) /\ Fits(x, y) => Bound(x, y)'
               /\ Bound(x, y)' => IsAt(x_ports, m_x_id'[x], y)
    <3>1. CASE y = q
      <4>1. Share(x, q) => x = p
        BY <1>2, <2>1, OneOther, ShareSymmetric
      <4>2. Share(x, q) => m_id[x] # -1
        BY <2>1, FoundByOther
      <4> QED  BY <3>1, <4>1, <4>2, <1>6, <1>10, <1>17
    <3>2. CASE y # q
      <4>1. x_connected[y] # "no" /\ Share(x, y) /\ Fits(x, y) => Bound(x, y)
        BY <2>1 DEF IInv, AcrossDeclared
      <4>2. Bound(x, y) => x # p
        <5>1. Bound(x, y) => Share(x, y)
          BY DEF IInv, BoundFits
        <5> QED  BY <3>2, <5>1, <1>2, <2>1, OneOther
      <4>3. Bound(x, y) => IsAt(x_ports, m_x_id[x], y)
        BY <2>1 DEF IInv, AcrossDeclared
      <4> QED  BY <3>2, <4>1, <4>2, <4>3, <1>10, <1>16
    <3> QED  BY <3>1, <3>2
  <2> QED  BY <1>11, <2>1 DEF AcrossDeclared, IsAt
<1>23. ScLocalDeclared'
  <2>1. ASSUME WellNamed, NEW x \in Objects, NEW y \in Objects, Share(x, y),
               Registered(x, m_proxies), Registered(y, m_proxies)
        PROVE  IsAt(m_proxies, m_x_id'[x], y) /\ IsAt(m_proxies, m_x_id'[y], x)
    <3>1. \A r \in Objects : ~Share(p, r)
      BY <1>2, <2>1, OneOther, SidesApart
    <3>2. x # p /\ y # p
      BY <2>1, <3>1, ShareSymmetric
    <3> QED  BY <2>1, <3>2, <1>10 DEF IInv, ScLocalDeclared
  <2> QED  BY <1>11, <2>1 DEF ScLocalDeclared, IsAt, Registered
<1>24. SvLocalDeclared'
  <2>1. ASSUME WellNamed, NEW x \in Ports, NEW y \in Ports, Share(x, y),
               Registered(x, x_ports), Registered(y, x_ports)
        PROVE  IsAt(x_ports, sv_x_id'[x], y) /\ IsAt(x_ports, sv_x_id'[y], x)
    <3>1. IsAt(x_ports, sv_x_id[x], y) /\ IsAt(x_ports, sv_x_id[y], x)
      BY <2>1 DEF IInv, SvLocalDeclared
    <3>2. x # q /\ y # q
      BY <3>1, <1>1, <1>5 DEF IsAt
    <3> QED  BY <3>1, <3>2, <1>10
  <2> QED  BY <1>11, <2>1 DEF SvLocalDeclared, IsAt, Registered
<1> QED
  BY <1>12, <1>13, <1>14, <1>15, <1>19, <1>21, <1>22, <1>23, <1>24 DEF IInv

\* A port finds no counterpart, or one that is not compatible.
LEMMA FailInv ==
  ASSUME IInv, NEW q \in Ports, Elaborated, ToResolve(q),
         \/ Found(q) = 0
         \/ \E kind \in KindOf(m_proxies[Found(q)]) :
              ~ /\ KindsCompatible(kind, SvKind(design[q]))
                /\ MasksCompatible(kind, Mask[design[m_proxies[Found(q)]].iface],
                                   Mask[design[q].iface]),
         Fail(q),
         UNCHANGED <<design, m_proxies, m_proxy_names, m_id, m_locally_connected,
                     x_ports, x_port_names, sv_local, fatal>>
  PROVE  IInv' /\ LinksKept
<1>1. /\ x_connected[q] = "no" /\ sv_x_id[q] = 0 /\ Registered(q, x_ports) /\ q \in Sv
  BY DEF ToResolve, Elaborated, Ports
<1>2. /\ sv_x_id \in [Sv -> {-1} \cup 0..Len(m_proxies) \cup 0..Len(x_ports)]
      /\ x_connected \in [Sv -> {"no", "bound", "failed"}] /\ x_ports \in Seq(Sv)
  BY DEF IInv, TypeOK
<1>3. PICK garbage \in 0..Len(m_proxies) : sv_x_id' = [sv_x_id EXCEPT ![q] = garbage]
  BY DEF Fail
<1>4. /\ x_connected' = [x_connected EXCEPT ![q] = "failed"]
      /\ UNCHANGED <<m_x_id, m_connected, caller>>
  BY DEF Fail
<1>5. /\ \A y \in Ports \ {q} : sv_x_id'[y] = sv_x_id[y] /\ x_connected'[y] = x_connected[y]
      /\ x_connected'[q] = "failed"
  BY <1>1, <1>2, <1>3, <1>4 DEF Ports
<1>6. /\ Objects' = Objects /\ Ports' = Ports /\ WellNamed' = WellNamed
      /\ \A x : StringsOf(x)' = StringsOf(x)
      /\ \A x, y : Share(x, y)' = Share(x, y) /\ Fits(x, y)' = Fits(x, y)
  BY DesignKept
<1>7. LinksKept
  BY <1>1, <1>4, <1>5 DEF LinksKept
<1>8. TypeOK'
  <2>1. sv_x_id' \in [Sv -> {-1} \cup 0..Len(m_proxies) \cup 0..Len(x_ports)]
    BY <1>2, <1>3
  <2>2. x_connected' \in [Sv -> {"no", "bound", "failed"}]
    BY <1>2, <1>4
  <2> QED  BY <1>4, <2>1, <2>2 DEF IInv, TypeOK
<1>9. Entries' /\ NamedSo' /\ Known' /\ MetOne' /\ IdsRight'
  <2>1. Entries' /\ NamedSo'
    BY <1>6 DEF IInv, Entries, NamedSo
  <2>2. Known'
    BY <1>6 DEF IInv, Known, Registered
  <2>3. MetOne' /\ IdsRight'
    BY <1>6 DEF IInv, MetOne, IdsRight, Registered, IsAt
  <2> QED  BY <2>1, <2>2, <2>3
<1>10. Untouched'
  BY <1>1, <1>4, <1>5, <1>6 DEF IInv, Untouched, Registered
<1>11. Linked'
  <2>1. \A y \in Ports : x_connected[y] = "bound" => x_connected'[y] = "bound"
    BY <1>1, <1>5
  <2> QED  BY <1>4, <1>6, <2>1 DEF IInv, Linked
<1>12. \A x \in Objects, y \in Ports : Bound(x, y)' <=> Bound(x, y)
  <2>1. \A x \in Objects : ~Bound(x, q)' /\ ~Bound(x, q)
    BY <1>1, <1>5 DEF Bound
  <2>2. \A x \in Objects, y \in Ports \ {q} : Bound(x, y)' <=> Bound(x, y)
    BY <1>5 DEF Bound, IsAt
  <2> QED  BY <2>1, <2>2
<1>13. BoundFits'
  BY <1>5, <1>6, <1>12 DEF IInv, BoundFits
<1>14. ASSUME WellNamed, NEW x \in Objects, Share(x, q), Fits(x, q)
       PROVE  FALSE
  <2>1. Found(q) # 0 /\ m_proxies[Found(q)] = x /\ m_id[x] # -1
    BY <1>14, FoundByOther
  <2>2. KindOf(x) = {ScKind(design[x])}
    BY <2>1 DEF KindOf
  <2> QED  BY <1>14, <2>1, <2>2 DEF Fits
<1>15. AcrossDeclared'
  <2>1. ASSUME WellNamed, NEW x \in Objects, NEW y \in Ports
        PROVE  /\ x_connected'[y] # "no" /\ Share(x, y) /\ Fits(x, y) => Bound(x, y)'
               /\ Bound(x, y)' => IsAt(x_ports, m_x_id[x], y)
    <3>1. CASE y = q
      BY <3>1, <2>1, <1>5, <1>14 DEF Bound
    <3>2. CASE y # q
      BY <3>2, <2>1, <1>5, <1>12 DEF IInv, AcrossDeclared
    <3> QED  BY <3>1, <3>2
  <2> QED  BY <1>4, <1>6, <2>1 DEF AcrossDeclared, IsAt
<1>16. ScLocalDeclared'
  BY <1>4, <1>6 DEF IInv, ScLocalDeclared, IsAt, Registered
<1>17. SvLocalDeclared'
  <2>1. ASSUME WellNamed, NEW x \in Ports, NEW y \in Ports, Share(x, y),
               Registered(x, x_ports), Registered(y, x_ports)
        PROVE  IsAt(x_ports, sv_x_id'[x], y) /\ IsAt(x_ports, sv_x_id'[y], x)
    <3>1. IsAt(x_ports, sv_x_id[x], y) /\ IsAt(x_ports, sv_x_id[y], x)
      BY <2>1 DEF IInv, SvLocalDeclared
    <3>2. x # q /\ y # q
      BY <3>1, <1>1, <1>2 DEF IsAt
    <3> QED  BY <3>1, <3>2, <1>5
  <2> QED  BY <1>6, <2>1 DEF SvLocalDeclared, IsAt, Registered
<1> QED
  BY <1>7, <1>8, <1>9, <1>10, <1>11, <1>13, <1>15, <1>16, <1>17 DEF IInv

LEMMA ResolveInv ==
  ASSUME IInv, NEW q \in Ports, Resolve(q)
  PROVE  IInv' /\ (WellNamed => LinksKept)
<1> DEFINE p == m_proxies[Found(q)]
           compatible(kind) ==
             /\ KindsCompatible(kind, SvKind(design[q]))
             /\ MasksCompatible(kind, Mask[design[p].iface], Mask[design[q].iface])
<1>1. /\ Elaborated /\ ToResolve(q)
      /\ UNCHANGED <<design, m_proxies, m_proxy_names, m_id, m_locally_connected,
                     x_ports, x_port_names, sv_local, fatal>>
  BY DEF Resolve
<1>2. CASE Found(q) = 0
  <2>1. Fail(q)
    BY <1>2 DEF Resolve
  <2> QED  BY <1>1, <1>2, <2>1, FailInv
<1>3. CASE Found(q) # 0
  <2>1. PICK kind \in KindOf(p) : IF compatible(kind) THEN Bind(q, p) ELSE Fail(q)
    BY <1>3 DEF Resolve
  <2>2. CASE compatible(kind)
    BY <1>1, <1>3, <2>1, <2>2, BindInv
  <2>3. CASE ~compatible(kind)
    BY <1>1, <1>3, <2>1, <2>3, FailInv
  <2> QED  BY <2>2, <2>3
<1> QED  BY <1>2, <1>3

-----------------------------------------------------------------------------
(***************************************************************************)
(* All steps                                                               *)
(***************************************************************************)

LEMMA InitInv == Init => IInv
<1> SUFFICES ASSUME Init PROVE IInv
  OBVIOUS
<1>1. /\ m_proxies = <<>> /\ x_ports = <<>> /\ design \in Designs
      /\ m_proxy_names = [s \in Strings |-> 0] /\ x_port_names = [s \in Strings |-> 0]
      /\ m_id = [p \in Sc |-> -1] /\ m_x_id = [p \in Sc |-> 0]
      /\ sv_x_id = [q \in Sv |-> 0] /\ x_connected = [q \in Sv |-> "no"]
      /\ sv_local = [q \in Sv |-> FALSE]
  BY DEF Init
<1>2. TypeOK
  <2>1. m_proxies \in Seq(Sc) /\ x_ports \in Seq(Sv) /\ Len(m_proxies) = 0 /\ Len(x_ports) = 0
    BY <1>1
  <2>2. /\ m_proxy_names \in [Strings -> 0..Len(m_proxies)]
        /\ x_port_names \in [Strings -> 0..Len(x_ports)]
    BY <1>1, <2>1
  <2>3. /\ m_id \in [Sc -> {-1} \cup 1..Len(m_proxies)]
        /\ m_x_id \in [Sc -> 0..Len(m_proxies) \cup 0..Len(x_ports)]
        /\ sv_x_id \in [Sv -> {-1} \cup 0..Len(m_proxies) \cup 0..Len(x_ports)]
    BY <1>1, <2>1
  <2>4. /\ m_connected \in [Sc -> BOOLEAN] /\ m_locally_connected \in [Sc -> BOOLEAN]
        /\ x_connected \in [Sv -> {"no", "bound", "failed"}] /\ sv_local \in [Sv -> BOOLEAN]
        /\ fatal \in BOOLEAN /\ caller \in [Callers -> {"idle", "through"} \cup Sc]
    BY DEF Init
  <2> QED  BY <2>1, <2>2, <2>3, <2>4 DEF TypeOK
<1>3. \A y : ~Registered(y, m_proxies) /\ ~Registered(y, x_ports)
  BY <1>1 DEF Registered
<1>4. Entries /\ NamedSo /\ Known /\ MetOne /\ IdsRight /\ Untouched /\ Linked
  BY <1>1, <1>3 DEF Entries, NamedSo, Known, MetOne, IdsRight, Untouched, Linked, Objects, Ports
<1>5. \A p \in Objects, q \in Ports : ~Bound(p, q) /\ x_connected[q] = "no"
  BY <1>1 DEF Bound, Ports
<1>6. BoundFits /\ AcrossDeclared
  <2>1. \A q \in Ports : x_connected[q] # "bound"
    BY <1>1 DEF Ports
  <2>2. BoundFits
    BY <1>5, <2>1 DEF BoundFits
  <2>3. AcrossDeclared
    BY <1>5 DEF AcrossDeclared
  <2> QED  BY <2>2, <2>3
<1>7. ScLocalDeclared /\ SvLocalDeclared
  BY <1>3 DEF ScLocalDeclared, SvLocalDeclared
<1> QED  BY <1>2, <1>4, <1>6, <1>7 DEF IInv

\* Steps that change none of the variables of the pairing.
LEMMA CallersOnly ==
  ASSUME IInv, TypeOK',
         UNCHANGED <<design, m_proxies, m_proxy_names, m_id, m_x_id, svVars>>
  PROVE  IInv' /\ LinksKept
<1>1. /\ x_ports' = x_ports /\ x_port_names' = x_port_names /\ sv_x_id' = sv_x_id
      /\ x_connected' = x_connected /\ sv_local' = sv_local
  BY DEF svVars
<1>2. /\ Objects' = Objects /\ Ports' = Ports /\ WellNamed' = WellNamed
      /\ \A x : StringsOf(x)' = StringsOf(x)
      /\ \A x, y : Share(x, y)' = Share(x, y) /\ Fits(x, y)' = Fits(x, y)
  BY DesignKept
<1>3. Entries' /\ NamedSo'
  BY <1>1, <1>2 DEF IInv, Entries, NamedSo
<1>4. Known' /\ MetOne' /\ IdsRight' /\ Untouched' /\ Linked'
  <2>1. Known'
    BY <1>1, <1>2 DEF IInv, Known, Registered
  <2>2. MetOne'
    BY <1>1, <1>2 DEF IInv, MetOne, Registered
  <2>3. IdsRight' /\ Untouched'
    BY <1>1, <1>2 DEF IInv, IdsRight, Untouched, Registered, IsAt
  <2>4. Linked'
    BY <1>1, <1>2 DEF IInv, Linked
  <2> QED  BY <2>1, <2>2, <2>3, <2>4
<1>5. \A x, y : Bound(x, y)' = Bound(x, y)
  BY <1>1 DEF Bound, IsAt
<1>6. BoundFits' /\ AcrossDeclared'
  BY <1>1, <1>2, <1>5 DEF IInv, BoundFits, AcrossDeclared, IsAt
<1>7. ScLocalDeclared' /\ SvLocalDeclared'
  BY <1>1, <1>2 DEF IInv, ScLocalDeclared, SvLocalDeclared, IsAt, Registered
<1>8. LinksKept
  BY <1>1 DEF LinksKept
<1> QED  BY <1>3, <1>4, <1>6, <1>7, <1>8 DEF IInv

LEMMA NextInv ==
  ASSUME IInv, [Next]_vars
  PROVE  IInv' /\ (WellNamed => LinksKept)
<1>1. ASSUME NEW p \in Objects, ScNew(p)
      PROVE  IInv' /\ LinksKept
  BY <1>1, ScNewInv
<1>2. ASSUME NEW q \in Ports, SvNew(q)
      PROVE  IInv' /\ LinksKept
  <2>1. CASE UNCHANGED <<x_ports, x_port_names, sv_x_id, sv_local>>
    <3>1. UNCHANGED <<design, m_proxies, m_proxy_names, m_id, m_x_id, m_connected,
                      m_locally_connected, x_connected, caller>> /\ fatal' \in {fatal, TRUE}
      BY <1>2 DEF SvNew, scVars
    <3>2. TypeOK'
      BY <2>1, <3>1 DEF IInv, TypeOK
    <3> QED  BY <2>1, <3>1, <3>2, CallersOnly DEF svVars
  <2>2. CASE ~UNCHANGED <<x_ports, x_port_names, sv_x_id, sv_local>>
    BY <1>2, <2>2, SvNewInv
  <2> QED  BY <2>1, <2>2
<1>3. ASSUME NEW q \in Ports, Resolve(q)
      PROVE  IInv' /\ (WellNamed => LinksKept)
  BY <1>3, ResolveInv
<1>4. ASSUME NEW c \in Callers, NEW p \in Objects, Call(c, p)
      PROVE  IInv' /\ LinksKept
  <2>1. /\ caller' = [caller EXCEPT ![c] = IF m_connected[p] THEN "through" ELSE p]
        /\ UNCHANGED <<design, scVars, svVars, fatal>> /\ p \in Sc
    BY <1>4 DEF Call, Objects
  <2>2. caller' \in [Callers -> {"idle", "through"} \cup Sc]
    BY <2>1 DEF IInv, TypeOK
  <2>3. TypeOK'
    BY <2>1, <2>2 DEF IInv, TypeOK, scVars, svVars
  <2> QED  BY <2>1, <2>3, CallersOnly DEF scVars
<1>5. CASE UNCHANGED vars
  <2>1. TypeOK'
    BY <1>5 DEF IInv, TypeOK, vars, scVars, svVars
  <2> QED  BY <1>5, <2>1, CallersOnly DEF vars, scVars
<1> QED  BY <1>1, <1>2, <1>3, <1>4, <1>5 DEF Next

LEMMA Invariance == Spec => []IInv
<1>1. IInv /\ [Next]_vars => IInv'
  BY NextInv
<1> QED  BY <1>1, InitInv, PTL DEF Spec

\* The type invariant.
THEOREM BindingTypeCorrect == Spec => []TypeOK
<1>1. IInv => TypeOK
  BY DEF IInv
<1> QED  BY <1>1, Invariance, PTL

\* Whatever the designs are: connected is exactly what shares a name and fits, when the
\* names are unambiguous.
THEOREM PairsFollowNames == Spec => []PairsAreDeclared
<1>1. IInv => PairsAreDeclared
  BY PairsFromParts DEF IInv
<1> QED  BY <1>1, Invariance, PTL

\* And a connection stays as it was made.
THEOREM LinksStay == Spec => ConnectionsStay
<1>1. IInv /\ [Next]_vars =>
        [WellNamed =>
           /\ \A p \in Objects : m_x_id[p] # 0 => m_x_id'[p] = m_x_id[p]
           /\ \A q \in Ports : sv_x_id[q] # 0 => sv_x_id'[q] = sv_x_id[q]]_vars
  BY NextInv DEF LinksKept
<1> QED  BY <1>1, Invariance, PTL DEF Spec, ConnectionsStay

-----------------------------------------------------------------------------
(***************************************************************************)
(* Who calls whom                                                          *)
(***************************************************************************)

\* A mask that is contained in another has no other methods.
LEMMA MethodsOfMask ==
  ASSUME NEW i, NEW j, i \in Tlm2 <=> j \in Tlm2, Mask[i] \subseteq Mask[j]
  PROVE  Methods(i) \subseteq Methods(j)
BY DEF Methods

LEMMA KindIsOne ==
  ASSUME Entries, NEW p \in Objects
  PROVE  ScKind(design[p]) \in {"channel", "port"}
BY DesignsAssumption
   DEF Entries, Objects, ScKind, Tlm1PortProxy, Tlm1ExportProxy, Tlm1InterfaceProxy,
       Tlm2PortProxy, Tlm2ExportProxy, Tlm2InterfaceProxy, SocketProxy

\* Whatever the names are, the calling side of a bound pair calls only what the other
\* side has.
THEOREM SidesAgree == Spec => []BoundSidesAgree
<1>1. IInv => BoundSidesAgree
  <2> SUFFICES ASSUME IInv, NEW p \in Objects, NEW q \in Ports,
                      Bound(p, q), SameGeneration(p, q)
               PROVE  IF ScKind(design[p]) = "channel"
                      THEN /\ SvKind(design[q]) = "port"
                           /\ Methods(design[p].iface) \subseteq Methods(design[q].iface)
                      ELSE /\ SvKind(design[q]) = "imp"
                           /\ Methods(design[q].iface) \subseteq Methods(design[p].iface)
    BY DEF BoundSidesAgree
  <2>1. Fits(p, q)
    BY DEF IInv, BoundFits
  <2>2. ScKind(design[p]) \in {"channel", "port"}
    BY KindIsOne DEF IInv
  <2>3. SvKind(design[q]) \in {"imp", "port"}
    BY DEF SvKind
  <2>4. CASE ScKind(design[p]) = "channel"
    BY <2>1, <2>4, MethodsOfMask DEF Fits, KindsCompatible, MasksCompatible, SameGeneration
  <2>5. CASE ScKind(design[p]) = "port"
    BY <2>1, <2>3, <2>5, MethodsOfMask DEF Fits, KindsCompatible, MasksCompatible, SameGeneration
  <2> QED  BY <2>2, <2>4, <2>5
<1> QED  BY <1>1, Invariance, PTL

-----------------------------------------------------------------------------
(***************************************************************************)
(* The command interface                                                   *)
(***************************************************************************)

\* There is a number left for each process that is about to ask for one.
NumbersLeft == id + Cardinality(Asking) <= MaxRequests

\* A process that has been given a number is found under it, until it returns.
NumberHolds ==
  \A c \in Clients :
    /\ Waits(c) \/ pc[c] = "notified" =>
         /\ number[c] \in 1 .. id
         /\ number[c] \in DOMAIN uvmc_phase_events
         /\ uvmc_phase_events[number[c]] = c
    /\ pc[c] = "notified" => want[c] # Unknown

\* No request is looked after twice.
QueuedOnce ==
  /\ \A i, j \in DOMAIN uvmc_wait_for_phase_q :
       uvmc_wait_for_phase_q[i].id = uvmc_wait_for_phase_q[j].id => i = j
  /\ \A i \in DOMAIN uvmc_wait_for_phase_q : \A w \in watchers :
       uvmc_wait_for_phase_q[i].id # w.id

\* What the phase is now has been noted for those that wait for it.
MetIsNoted == \A c \in Clients : Waits(c) /\ Related(m_state, want[c]) => met[c]

CommandsInv ==
  /\ CmdTypeOK /\ NumbersLeft
  /\ RequestsHaveWaiters /\ NumberHolds /\ QueuedOnce
  /\ WokenWhenMet /\ MetIsNoted

-----------------------------------------------------------------------------
(***************************************************************************)
(* Counting the processes that are about to ask                            *)
(***************************************************************************)

LEMMA AskingFinite == IsFiniteSet(Asking) /\ Cardinality(Asking) \in Nat
<1>1. Asking \subseteq Clients
  BY DEF Asking
<1> QED  BY <1>1, ClientsAssumption, FS_Subset, FS_CardinalityType

\* A number that is given was kept for the process it is given to.
LEMMA OneLessAsks ==
  ASSUME NEW c \in Asking, Asking' = Asking \ {c}
  PROVE  Cardinality(Asking') = Cardinality(Asking) - 1 /\ Cardinality(Asking) >= 1
BY AskingFinite, FS_RemoveElement, FS_CardinalityType, FS_Subset

LEMMA OneMoreAsks ==
  ASSUME NEW c, c \notin Asking, Asking' = Asking \cup {c}
  PROVE  Cardinality(Asking') = Cardinality(Asking) + 1
BY AskingFinite, FS_AddElement

-----------------------------------------------------------------------------
(***************************************************************************)
(* Steps that leave the requests and those who wait for them alone         *)
(***************************************************************************)

\* Who waits, for what and under which number.
WaitersSame ==
  \A c \in Clients :
    /\ Waits(c)' <=> Waits(c)
    /\ (pc'[c] = "notified") <=> (pc[c] = "notified")
    /\ Waits(c) \/ pc[c] = "notified" =>
         want'[c] = want[c] /\ number'[c] = number[c] /\ met'[c] = met[c]

LEMMA FrameInv ==
  ASSUME CommandsInv, WaitersSame, UNCHANGED <<stopped, queueVars, uvmc_phase_events>>
  PROVE  RequestsHaveWaiters' /\ NumberHolds' /\ QueuedOnce' /\ WokenWhenMet'
<1>1. Pending' = Pending
  BY DEF Pending, queueVars
<1>2. RequestsHaveWaiters'
  BY <1>1 DEF CommandsInv, RequestsHaveWaiters, WaitersSame
<1>3. NumberHolds'
  BY DEF CommandsInv, NumberHolds, WaitersSame, queueVars, Waits
<1>4. QueuedOnce'
  BY DEF CommandsInv, QueuedOnce, queueVars
<1>5. WokenWhenMet'
  BY DEF CommandsInv, WokenWhenMet, WaitersSame
<1> QED  BY <1>2, <1>3, <1>4, <1>5

LEMMA FrameMet ==
  ASSUME CommandsInv, WaitersSame, m_state' = m_state
  PROVE  MetIsNoted'
BY DEF CommandsInv, MetIsNoted, WaitersSame, Related

LEMMA CommandsInitInv ==
  ASSUME CmdInit
  PROVE  CommandsInv
<1>1. CmdTypeOK
  <2>1. uvmc_wait_for_phase_q \in Seq(Requests)
    BY EmptySeq DEF CmdInit
  <2>2. DOMAIN uvmc_phase_events = {}
    BY DEF CmdInit
  <2>3. number \in [Clients -> -1 .. MaxRequests] /\ id \in 0 .. MaxRequests
    BY MaxRequestsAssumption DEF CmdInit
  <2>4. m_state \in States
    BY DEF CmdInit, States, Dormant, Done
  <2>5. /\ DOMAIN uvmc_phase_events \subseteq {UnknownId} \cup 1 .. MaxRequests
        /\ \A n \in DOMAIN uvmc_phase_events : uvmc_phase_events[n] \in Clients
    BY <2>2
  <2>6. raised \subseteq Clients /\ watchers \subseteq Requests
    BY DEF CmdInit
  <2>7. /\ sv_is_ready \in BOOLEAN /\ running \in BOOLEAN /\ stopped \in BOOLEAN
        /\ pc \in [Clients -> {"idle", "not_ready", "go", "wait", "notified"}]
        /\ cmd \in [Clients -> {"none", "wait", "raise", "drop"}]
        /\ want \in [Clients -> Wanted \cup {Unknown}]
        /\ met \in [Clients -> BOOLEAN]
    BY DEF CmdInit
  <2> QED  BY <2>1, <2>3, <2>4, <2>5, <2>6, <2>7 DEF CmdTypeOK
<1>2. NumbersLeft
  <2>1. Asking = {}
    BY DEF CmdInit, Asking
  <2> QED  BY <2>1, FS_EmptySet, MaxRequestsAssumption DEF CmdInit, NumbersLeft
<1>3. Pending = {}
  BY DEF CmdInit, Pending
<1>4. RequestsHaveWaiters
  BY <1>3 DEF CmdInit, RequestsHaveWaiters, Waits
<1>5. NumberHolds /\ QueuedOnce /\ WokenWhenMet /\ MetIsNoted
  BY DEF CmdInit, NumberHolds, QueuedOnce, WokenWhenMet, MetIsNoted, Waits
<1> QED  BY <1>1, <1>2, <1>4, <1>5 DEF CommandsInv

LEMMA SvReadyInv ==
  ASSUME CommandsInv, SvReady
  PROVE  CommandsInv'
<1> USE DEF SvReady, queueVars
<1>1. CmdTypeOK'
  BY DEF CommandsInv, CmdTypeOK
<1>2. Asking' = Asking
  BY DEF Asking, CommandsInv, CmdTypeOK
<1>3. NumbersLeft'
  BY <1>2 DEF CommandsInv, NumbersLeft
<1>4. WaitersSame
  BY DEF WaitersSame, Waits, CommandsInv, CmdTypeOK
<1> QED  BY <1>1, <1>3, <1>4, FrameInv, FrameMet DEF CommandsInv

LEMMA UvmcInitInv ==
  ASSUME CommandsInv, UvmcInit
  PROVE  CommandsInv'
<1> USE DEF UvmcInit, clientVars
<1>1. CmdTypeOK'
  BY DEF CommandsInv, CmdTypeOK, queueVars
<1>2. NumbersLeft'
  BY DEF CommandsInv, NumbersLeft, Asking, queueVars
<1>3. WaitersSame
  BY DEF WaitersSame, Waits
<1> QED  BY <1>1, <1>2, <1>3, FrameInv, FrameMet DEF CommandsInv

\* Only the phase can come to be as a process wanted, and it is noted when it does.
LEMMA PhaseStepInv ==
  ASSUME CommandsInv, PhaseStep
  PROVE  CommandsInv'
<1> USE DEF PhaseStep, queueVars
<1>1. m_state' \in States
  BY DEF CommandsInv, CmdTypeOK, States, Dormant, Done, Executing
<1>2. CmdTypeOK'
  <2>1. met' \in [Clients -> BOOLEAN]
    <3> SUFFICES ASSUME NEW c \in Clients
                 PROVE  (met[c] \/ (pc[c] = "wait" /\ Met(c, m_state'))) \in BOOLEAN
      OBVIOUS
    <3> QED  OBVIOUS
  <2> QED  BY <1>1, <2>1 DEF CommandsInv, CmdTypeOK
<1>3. NumbersLeft'
  BY DEF CommandsInv, NumbersLeft, Asking
<1>4. Pending' = Pending
  BY DEF Pending
<1>5. \A c \in Clients : met[c] => met'[c]
  OBVIOUS
<1>6. RequestsHaveWaiters'
  BY <1>4 DEF CommandsInv, RequestsHaveWaiters, Waits
<1>7. NumberHolds' /\ QueuedOnce'
  BY DEF CommandsInv, NumberHolds, QueuedOnce, Waits
<1>8. WokenWhenMet'
  BY <1>5 DEF CommandsInv, WokenWhenMet
<1>9. MetIsNoted'
  <2> SUFFICES ASSUME NEW c \in Clients, Waits(c)', Related(m_state, want[c])'
               PROVE  met'[c]
    BY DEF MetIsNoted
  <2>1. pc[c] = "wait" /\ Met(c, m_state')
    BY DEF Waits, Met, Related
  <2> QED  BY <2>1
<1> QED  BY <1>2, <1>3, <1>6, <1>7, <1>8, <1>9 DEF CommandsInv

LEMMA CommandInv ==
  ASSUME CommandsInv, NEW c \in Clients, NEW what \in {"wait", "raise", "drop"},
         NEW w \in Wanted \cup {Unknown}, Command(c, what, w)
  PROVE  CommandsInv'
<1> USE DEF Command, queueVars
<1>1. WaitSvReady \in {"go", "not_ready"}
  BY DEF WaitSvReady
<1>2. CmdTypeOK'
  BY <1>1 DEF CommandsInv, CmdTypeOK
<1>3. NumbersLeft'
  <2>1. CASE what = "wait"
    <3>1. id + Cardinality(Asking) < MaxRequests
      BY <2>1
    <3>2. c \notin Asking /\ Asking' = Asking \cup {c}
      BY <1>1, <2>1 DEF Asking, CommandsInv, CmdTypeOK
    <3>3. Cardinality(Asking') = Cardinality(Asking) + 1
      BY <3>2, OneMoreAsks
    <3> QED  BY <3>1, <3>3, AskingFinite, MaxRequestsAssumption
          DEF NumbersLeft, CommandsInv, CmdTypeOK
  <2>2. CASE what # "wait"
    <3>1. Asking' = Asking
      BY <1>1, <2>2 DEF Asking, CommandsInv, CmdTypeOK
    <3> QED  BY <3>1 DEF CommandsInv, NumbersLeft
  <2> QED  BY <2>1, <2>2
<1>4. WaitersSame
  BY <1>1 DEF WaitersSame, Waits, CommandsInv, CmdTypeOK
<1> QED  BY <1>2, <1>3, <1>4, FrameInv, FrameMet DEF CommandsInv

LEMMA AtOnceInv ==
  ASSUME CommandsInv, NEW c \in Clients, Proceed(c), cmd[c] # "wait"
  PROVE  CommandsInv'
<1>1. pc[c] = "go" /\ AtOnce(c) /\ UNCHANGED <<sv_is_ready, running, m_state, stopped>>
  BY DEF Proceed
<1> USE <1>1 DEF AtOnce, queueVars
<1>2. CmdTypeOK'
  BY DEF CommandsInv, CmdTypeOK
<1>3. Asking' = Asking
  BY DEF Asking, CommandsInv, CmdTypeOK
<1>4. NumbersLeft'
  BY <1>3 DEF CommandsInv, NumbersLeft
<1>5. WaitersSame
  BY DEF WaitersSame, Waits, CommandsInv, CmdTypeOK
<1> QED  BY <1>2, <1>4, <1>5, FrameInv, FrameMet DEF CommandsInv

-----------------------------------------------------------------------------
(***************************************************************************)
(* A request and its answer                                                *)
(***************************************************************************)

\* A process that waits for an unknown phase has the number of all such processes, which
\* no request has.
LEMMA AskUnknownInv ==
  ASSUME CommandsInv, NEW c \in Clients, Proceed(c), cmd[c] = "wait", want[c] = Unknown
  PROVE  CommandsInv'
<1>1. pc[c] = "go" /\ WaitForPhase(c) /\ UNCHANGED <<sv_is_ready, running, m_state, stopped>>
  BY DEF Proceed
<1>2. /\ number' = [number EXCEPT ![c] = UnknownId]
      /\ uvmc_phase_events' = With(uvmc_phase_events, number'[c], c)
      /\ met' = [met EXCEPT ![c] = FALSE]
      /\ pc' = [pc EXCEPT ![c] = "wait"]
      /\ UNCHANGED <<cmd, want, raised, queueVars>>
  BY <1>1 DEF WaitForPhase, IsUnknown, Met
<1> HIDE DEF UnknownId
<1>3. number'[c] = UnknownId /\ UnknownId = -1
  BY <1>2 DEF CommandsInv, CmdTypeOK, UnknownId
<1>4. /\ DOMAIN uvmc_phase_events' = {UnknownId} \cup DOMAIN uvmc_phase_events
      /\ uvmc_phase_events'[UnknownId] = c
      /\ \A m \in DOMAIN uvmc_phase_events \ {UnknownId} :
           uvmc_phase_events'[m] = uvmc_phase_events[m]
  BY <1>2, <1>3 DEF With
<1>5. CmdTypeOK'
  <2>1. number' \in [Clients -> -1 .. MaxRequests]
    BY <1>2, <1>3, MaxRequestsAssumption DEF CommandsInv, CmdTypeOK
  <2>2. \A n \in DOMAIN uvmc_phase_events' : uvmc_phase_events'[n] \in Clients
    BY <1>4 DEF CommandsInv, CmdTypeOK
  <2>3. DOMAIN uvmc_phase_events' \subseteq {UnknownId} \cup 1 .. MaxRequests
    BY <1>4 DEF CommandsInv, CmdTypeOK
  <2> QED  BY <1>1, <1>2, <2>1, <2>2, <2>3 DEF CommandsInv, CmdTypeOK, queueVars
<1>6. NumbersLeft'
  <2>1. c \in Asking /\ Asking' = Asking \ {c}
    BY <1>1, <1>2 DEF Asking, CommandsInv, CmdTypeOK
  <2>2. Cardinality(Asking') = Cardinality(Asking) - 1
    BY <2>1, OneLessAsks
  <2> QED  BY <1>2, <2>2, AskingFinite, MaxRequestsAssumption
        DEF CommandsInv, CmdTypeOK, NumbersLeft, queueVars
<1>7. WaitersSame
  BY <1>1, <1>2 DEF WaitersSame, Waits, CommandsInv, CmdTypeOK
<1>8. \A n \in 1 .. id : n \in DOMAIN uvmc_phase_events =>
        n \in DOMAIN uvmc_phase_events' /\ uvmc_phase_events'[n] = uvmc_phase_events[n]
  BY <1>3, <1>4
<1>9. Pending' = Pending
  BY <1>2 DEF Pending, queueVars
<1>10. \A r \in Pending : r.id \in 1 .. id
  <2> TAKE r \in Pending
  <2> QED  BY DEF CommandsInv, RequestsHaveWaiters, NumberHolds
<1>11. RequestsHaveWaiters'
  BY <1>1, <1>7, <1>8, <1>9, <1>10 DEF CommandsInv, RequestsHaveWaiters, WaitersSame
<1>12. NumberHolds'
  BY <1>2, <1>7, <1>8 DEF CommandsInv, NumberHolds, WaitersSame, Waits, queueVars
<1>13. QueuedOnce' /\ WokenWhenMet'
  BY <1>2, <1>7 DEF CommandsInv, QueuedOnce, WokenWhenMet, WaitersSame, queueVars
<1>14. MetIsNoted'
  BY <1>1, <1>7, FrameMet
<1> QED  BY <1>5, <1>6, <1>11, <1>12, <1>13, <1>14 DEF CommandsInv

\* Every other process that asks gets a number of its own.
LEMMA AskInv ==
  ASSUME CommandsInv, NEW c \in Clients, Proceed(c), cmd[c] = "wait", want[c] # Unknown
  PROVE  CommandsInv'
<1> DEFINE n == id + 1
           q == uvmc_wait_for_phase_q
           r == [id |-> n, want |-> want[c]]
<1>1. pc[c] = "go" /\ WaitForPhase(c) /\ UNCHANGED <<sv_is_ready, running, m_state, stopped>>
  BY DEF Proceed
<1>2. /\ number' = [number EXCEPT ![c] = n] /\ id' = n
      /\ q' = Append(q, r)
      /\ uvmc_phase_events' = With(uvmc_phase_events, number'[c], c)
      /\ met' = [met EXCEPT ![c] = Met(c, m_state)]
      /\ pc' = [pc EXCEPT ![c] = "wait"]
      /\ UNCHANGED <<cmd, want, raised, watchers>>
  BY <1>1 DEF WaitForPhase, IsUnknown, NextNumber
<1>3. NumbersLeft' /\ n \in 1 .. MaxRequests
  <2>1. c \in Asking /\ Asking' = Asking \ {c}
    BY <1>1, <1>2 DEF Asking, CommandsInv, CmdTypeOK
  <2>2. Cardinality(Asking') = Cardinality(Asking) - 1 /\ Cardinality(Asking) >= 1
    BY <2>1, OneLessAsks
  <2> QED  BY <1>2, <2>2, AskingFinite, MaxRequestsAssumption
        DEF CommandsInv, CmdTypeOK, NumbersLeft
<1>4. r \in Requests
  BY <1>3 DEF Requests, CommandsInv, CmdTypeOK
<1>5. /\ q' \in Seq(Requests) /\ Len(q') = Len(q) + 1 /\ q'[Len(q) + 1] = r
      /\ \A i \in 1 .. Len(q) : q'[i] = q[i]
      /\ DOMAIN q = 1 .. Len(q) /\ DOMAIN q' = 1 .. Len(q) + 1 /\ Len(q) \in Nat
  BY <1>2, <1>4, AppendProperties, LenProperties DEF CommandsInv, CmdTypeOK
<1>6. /\ DOMAIN uvmc_phase_events' = {n} \cup DOMAIN uvmc_phase_events
      /\ uvmc_phase_events'[n] = c
      /\ \A m \in DOMAIN uvmc_phase_events \ {n} : uvmc_phase_events'[m] = uvmc_phase_events[m]
  <2>1. number'[c] = n
    BY <1>2 DEF CommandsInv, CmdTypeOK
  <2> QED  BY <1>2, <2>1 DEF With
<1> HIDE DEF q, r
<1>7. CmdTypeOK'
  <2>1. Met(c, m_state) \in BOOLEAN
    BY DEF Met, Related
  <2>2. met' \in [Clients -> BOOLEAN]
    BY <1>2, <2>1 DEF CommandsInv, CmdTypeOK
  <2>3. number' \in [Clients -> -1 .. MaxRequests] /\ id' \in 0 .. MaxRequests
    BY <1>2, <1>3 DEF CommandsInv, CmdTypeOK
  <2>4. /\ DOMAIN uvmc_phase_events' \subseteq {UnknownId} \cup 1 .. MaxRequests
        /\ \A m \in DOMAIN uvmc_phase_events' : uvmc_phase_events'[m] \in Clients
    BY <1>3, <1>6 DEF CommandsInv, CmdTypeOK
  <2>5. uvmc_wait_for_phase_q' \in Seq(Requests)
    BY <1>5 DEF q
  <2>6. pc' \in [Clients -> {"idle", "not_ready", "go", "wait", "notified"}]
    BY <1>2 DEF CommandsInv, CmdTypeOK
  <2>7. watchers' \subseteq Requests /\ raised' \subseteq Clients
    BY <1>2 DEF CommandsInv, CmdTypeOK
  <2> QED  BY <1>1, <1>2, <2>2, <2>3, <2>4, <2>5, <2>6, <2>7 DEF CommandsInv, CmdTypeOK
<1>8. Pending' = Pending \cup {r}
  BY <1>2, <1>5 DEF Pending, q
<1>9. \A s \in Pending : s.id \in 1 .. id /\ s.id # n
  <2> TAKE s \in Pending
  <2>1. s.id \in 1 .. id
    BY DEF CommandsInv, RequestsHaveWaiters, NumberHolds
  <2> QED  BY <2>1 DEF CommandsInv, CmdTypeOK
<1>10. /\ Waits(c)' /\ number'[c] = n /\ want'[c] = want[c] /\ ~Waits(c) /\ pc[c] # "notified"
       /\ pc'[c] # "notified"
  BY <1>1, <1>2 DEF Waits, CommandsInv, CmdTypeOK
<1>11. \A d \in Clients \ {c} :
         /\ Waits(d)' <=> Waits(d)
         /\ pc'[d] = pc[d] /\ want'[d] = want[d] /\ number'[d] = number[d] /\ met'[d] = met[d]
  BY <1>2 DEF Waits, CommandsInv, CmdTypeOK
<1>12. r.id = n /\ r.want = want[c]
  BY DEF r
<1>13. RequestsHaveWaiters'
  <2>1. ~stopped'
    BY <1>1 DEF CommandsInv, RequestsHaveWaiters
  <2>2. ASSUME NEW s \in Pending \cup {r}
        PROVE  /\ s.id \in DOMAIN uvmc_phase_events'
               /\ \E d \in Clients : /\ uvmc_phase_events'[s.id] = d /\ Waits(d)'
                                     /\ want'[d] = s.want /\ number'[d] = s.id
    <3>1. CASE s = r
      BY <1>6, <1>10, <1>12, <3>1
    <3>2. CASE s \in Pending
      <4>1. s.id \in DOMAIN uvmc_phase_events' /\ uvmc_phase_events'[s.id] = uvmc_phase_events[s.id]
        BY <1>6, <1>9, <3>2 DEF CommandsInv, RequestsHaveWaiters
      <4>2. PICK d \in Clients : /\ uvmc_phase_events[s.id] = d /\ Waits(d)
                                 /\ want[d] = s.want /\ number[d] = s.id
        BY <3>2 DEF CommandsInv, RequestsHaveWaiters
      <4> QED  BY <1>10, <1>11, <4>1, <4>2
    <3> QED  BY <3>1, <3>2
  <2>3. \A d \in Clients : Waits(d)' => \E s \in Pending \cup {r} : s.id = number'[d]
    BY <1>10, <1>11, <1>12 DEF CommandsInv, RequestsHaveWaiters
  <2>4. \A s, t \in Pending \cup {r} : s.id = t.id => s = t
    BY <1>9, <1>12 DEF CommandsInv, RequestsHaveWaiters
  <2> QED  BY <1>8, <2>1, <2>2, <2>3, <2>4 DEF RequestsHaveWaiters
<1>14. NumberHolds'
  <2> SUFFICES ASSUME NEW d \in Clients
               PROVE  /\ (Waits(d) \/ pc[d] = "notified")' =>
                           /\ number'[d] \in 1 .. n
                           /\ number'[d] \in DOMAIN uvmc_phase_events'
                           /\ uvmc_phase_events'[number'[d]] = d
                      /\ pc'[d] = "notified" => want'[d] # Unknown
    BY <1>2 DEF NumberHolds
  <2>1. CASE d = c
    BY <1>3, <1>6, <1>10, <2>1
  <2>2. CASE d # c
    <3>1. number[d] \in 1 .. id => number[d] \in 1 .. n /\ number[d] # n
      BY DEF CommandsInv, CmdTypeOK
    <3> QED  BY <1>6, <1>11, <2>2, <3>1 DEF CommandsInv, NumberHolds
  <2> QED  BY <2>1, <2>2
<1>15. QueuedOnce'
  <2>1. \A i \in DOMAIN q : q[i] \in Pending
    BY DEF Pending, q
  <2>2. \A i, j \in 1 .. Len(q) + 1 : q'[i].id = q'[j].id => i = j
    BY <1>5, <1>9, <1>12, <2>1 DEF CommandsInv, QueuedOnce, q
  <2>3. \A i \in 1 .. Len(q) + 1 : \A w \in watchers : q'[i].id # w.id
    <3>1. \A w \in watchers : w \in Pending
      BY DEF Pending
    <3>2. ASSUME NEW i \in 1 .. Len(q), NEW w \in watchers
          PROVE  q'[i].id # w.id
      BY <1>5 DEF CommandsInv, QueuedOnce, q
    <3>3. ASSUME NEW w \in watchers
          PROVE  q'[Len(q) + 1].id # w.id
      BY <1>5, <1>9, <1>12, <3>1
    <3>4. \A i \in 1 .. Len(q) + 1 : i \in 1 .. Len(q) \/ i = Len(q) + 1
      BY <1>5
    <3> QED  BY <3>2, <3>3, <3>4
  <2> QED  BY <1>2, <1>5, <2>2, <2>3 DEF QueuedOnce, q
<1>16. WokenWhenMet'
  BY <1>10, <1>11 DEF CommandsInv, WokenWhenMet
<1>17. MetIsNoted'
  <2>1. Related(m_state, want[c]) => met'[c]
    BY <1>2 DEF Met, CommandsInv, CmdTypeOK
  <2> QED  BY <1>1, <1>10, <1>11, <2>1 DEF CommandsInv, MetIsNoted, Related
<1> QED  BY <1>3, <1>7, <1>13, <1>14, <1>15, <1>16, <1>17 DEF CommandsInv

LEMMA ReturnInv ==
  ASSUME CommandsInv, NEW c \in Clients, Return(c)
  PROVE  CommandsInv'
<1> USE DEF Return, queueVars
<1>1. /\ DOMAIN uvmc_phase_events' = DOMAIN uvmc_phase_events \ {number[c]}
      /\ \A n \in DOMAIN uvmc_phase_events' : uvmc_phase_events'[n] = uvmc_phase_events[n]
  BY DEF Without, Restrict
<1>2. CmdTypeOK'
  <2>1. number' \in [Clients -> -1 .. MaxRequests]
    BY MaxRequestsAssumption DEF CommandsInv, CmdTypeOK
  <2> QED  BY <1>1, <2>1 DEF CommandsInv, CmdTypeOK
<1>3. Asking' = Asking
  BY DEF Asking, CommandsInv, CmdTypeOK
<1>4. NumbersLeft'
  BY <1>3 DEF CommandsInv, NumbersLeft
<1>5. Pending' = Pending
  BY DEF Pending
<1>6. \A d \in Clients : Waits(d)' <=> Waits(d)
  BY DEF Waits, CommandsInv, CmdTypeOK
<1>7. ~Waits(c) /\ pc'[c] = "idle"
  BY DEF Waits, CommandsInv, CmdTypeOK
<1>8. \A d \in Clients \ {c} :
        pc'[d] = pc[d] /\ want'[d] = want[d] /\ number'[d] = number[d] /\ met'[d] = met[d]
  BY DEF CommandsInv, CmdTypeOK
<1>9. number[c] \in DOMAIN uvmc_phase_events /\ uvmc_phase_events[number[c]] = c
  BY DEF CommandsInv, NumberHolds
<1>10. RequestsHaveWaiters'
  <2>1. \A r \in Pending : r.id # number[c]
    BY <1>7, <1>9 DEF CommandsInv, RequestsHaveWaiters
  <2> QED  BY <1>1, <1>5, <1>6, <1>7, <1>8, <2>1 DEF CommandsInv, RequestsHaveWaiters
<1>11. NumberHolds'
  <2> SUFFICES ASSUME NEW d \in Clients
               PROVE  /\ (Waits(d) \/ pc[d] = "notified")' =>
                           /\ number'[d] \in 1 .. id
                           /\ number'[d] \in DOMAIN uvmc_phase_events'
                           /\ uvmc_phase_events'[number'[d]] = d
                      /\ pc'[d] = "notified" => want'[d] # Unknown
    BY DEF NumberHolds
  <2>1. CASE d = c
    BY <1>6, <1>7, <2>1
  <2>2. CASE d # c
    BY <1>1, <1>6, <1>8, <1>9, <2>2 DEF CommandsInv, NumberHolds
  <2> QED  BY <2>1, <2>2
<1>12. QueuedOnce'
  BY <1>6, <1>7, <1>8 DEF CommandsInv, QueuedOnce
<1>13. WokenWhenMet'
  BY <1>6, <1>7, <1>8 DEF CommandsInv, WokenWhenMet, Related
<1>14. MetIsNoted'
  BY <1>6, <1>7, <1>8 DEF CommandsInv, MetIsNoted, Related
<1> QED  BY <1>2, <1>4, <1>10, <1>11, <1>12, <1>13, <1>14 DEF CommandsInv

\* Taking a request from the queue moves it to those that are looked after.
LEMMA TakeRequestInv ==
  ASSUME CommandsInv, TakeRequest
  PROVE  CommandsInv'
<1> DEFINE q == uvmc_wait_for_phase_q
           r == Head(q)
<1>1. /\ q # <<>> /\ watchers' = watchers \cup {r} /\ q' = Tail(q)
      /\ UNCHANGED <<sv_is_ready, running, m_state, raised, clientVars, id, stopped>>
  BY DEF TakeRequest
<1>2. q \in Seq(Requests)
  BY DEF CommandsInv, CmdTypeOK
<1>3. /\ r \in Requests /\ r = q[1] /\ q' \in Seq(Requests)
      /\ Len(q) \in Nat \ {0} /\ DOMAIN q = 1 .. Len(q)
      /\ DOMAIN q' = 1 .. Len(q) - 1
      /\ \A i \in 1 .. Len(q) - 1 : q'[i] = q[i + 1]
  <2>1. q' \in Seq(Requests) /\ Len(q') = Len(q) - 1 /\ r \in Requests
        /\ \A i \in 1 .. Len(q') : q'[i] = q[i + 1]
    BY <1>1, <1>2, HeadTailProperties
  <2>2. Len(q) \in Nat \ {0} /\ DOMAIN q = 1 .. Len(q) /\ r = q[1]
    BY <1>1, <1>2, EmptySeq, LenProperties
  <2>3. DOMAIN q' = 1 .. Len(q')
    BY <2>1, LenProperties
  <2> QED  BY <2>1, <2>2, <2>3
<1> HIDE DEF q, r
<1>4. CmdTypeOK'
  <2>1. uvmc_wait_for_phase_q' \in Seq(Requests) /\ watchers' \subseteq Requests
    BY <1>1, <1>3 DEF q, CommandsInv, CmdTypeOK
  <2> QED  BY <1>1, <2>1 DEF CommandsInv, CmdTypeOK, clientVars
<1>5. NumbersLeft'
  BY <1>1 DEF CommandsInv, NumbersLeft, Asking, clientVars
<1>6. \A i \in 1 .. Len(q) : i = 1 \/ (i - 1 \in 1 .. Len(q) - 1 /\ (i - 1) + 1 = i)
  BY <1>3
<1>7. Pending' = Pending
  <2> DEFINE range == {q[i] : i \in DOMAIN q}
             rest == {q'[i] : i \in DOMAIN q'}
  <2>1. Pending = watchers \cup range /\ Pending' = watchers' \cup rest
    BY DEF Pending, q
  <2>2. ASSUME NEW s \in rest
        PROVE  s \in range
    <3>1. PICK i \in 1 .. Len(q) - 1 : s = q[i + 1]
      BY <1>3
    <3>2. i + 1 \in 1 .. Len(q)
      BY <1>3
    <3> QED  BY <1>3, <3>1, <3>2
  <2>3. ASSUME NEW s \in range
        PROVE  s = r \/ s \in rest
    <3>1. PICK i \in 1 .. Len(q) : s = q[i]
      BY <1>3
    <3>2. CASE i = 1
      BY <1>3, <3>1, <3>2
    <3>3. CASE i # 1
      <4>1. i - 1 \in DOMAIN q' /\ q'[i - 1] = s
        BY <1>3, <1>6, <3>1, <3>3
      <4> QED  BY <4>1
    <3> QED  BY <3>2, <3>3
  <2>4. r \in range
    BY <1>3
  <2> HIDE DEF range, rest
  <2> QED  BY <1>1, <2>1, <2>2, <2>3, <2>4
<1>8. RequestsHaveWaiters' /\ NumberHolds' /\ WokenWhenMet' /\ MetIsNoted'
  BY <1>1, <1>7 DEF CommandsInv, RequestsHaveWaiters, NumberHolds, WokenWhenMet, MetIsNoted, Waits,
                    Related, clientVars
<1>9. QueuedOnce'
  <2>1. \A i, j \in 1 .. Len(q) : q[i].id = q[j].id => i = j
    BY <1>3 DEF CommandsInv, QueuedOnce, q
  <2>2. \A i \in 1 .. Len(q) : \A w \in watchers : q[i].id # w.id
    BY <1>3 DEF CommandsInv, QueuedOnce, q
  <2>3. \A i \in 1 .. Len(q) - 1 : i + 1 \in 1 .. Len(q) /\ i + 1 # 1
    BY <1>3
  <2>4. \A i, j \in 1 .. Len(q) - 1 : q'[i].id = q'[j].id => i = j
    <3> TAKE i, j \in 1 .. Len(q) - 1
    <3>1. q'[i] = q[i + 1] /\ q'[j] = q[j + 1] /\ (i + 1 = j + 1 => i = j)
      BY <1>3
    <3> QED  BY <2>1, <2>3, <3>1
  <2>5. \A i \in 1 .. Len(q) - 1 : \A w \in watchers' : q'[i].id # w.id
    <3> TAKE i \in 1 .. Len(q) - 1
    <3>1. q'[i] = q[i + 1] /\ i + 1 \in 1 .. Len(q) /\ i + 1 # 1 /\ 1 \in 1 .. Len(q)
      BY <1>3
    <3>2. q[i + 1].id # r.id
      BY <1>3, <2>1, <3>1
    <3> QED  BY <1>1, <2>2, <3>1, <3>2
  <2> QED  BY <1>3, <2>4, <2>5 DEF QueuedOnce, q
<1> QED  BY <1>4, <1>5, <1>8, <1>9 DEF CommandsInv

\* The notification finds the process that asked, which still waits, and no other.
LEMMA NotifyInv ==
  ASSUME CommandsInv, NEW w \in watchers, Notify(w)
  PROVE  CommandsInv'
<1>1. w \in Pending
  BY DEF Pending
<1>2. PICK c \in Clients : /\ uvmc_phase_events[w.id] = c /\ Waits(c)
                           /\ want[c] = w.want /\ number[c] = w.id
  BY <1>1 DEF CommandsInv, RequestsHaveWaiters
<1>3. w.id \in DOMAIN uvmc_phase_events
  BY <1>1 DEF CommandsInv, RequestsHaveWaiters
<1>4. /\ Related(m_state, w.want) /\ watchers' = watchers \ {w}
      /\ pc' = [d \in Clients |-> IF uvmc_phase_events[w.id] = d /\ pc[d] = "wait"
                                 THEN "notified" ELSE pc[d]]
      /\ UNCHANGED <<sv_is_ready, running, m_state, raised, cmd, want, met, number,
                     uvmc_phase_events, id, uvmc_wait_for_phase_q, stopped>>
  BY <1>3 DEF Notify
<1>5. pc'[c] = "notified" /\ ~Waits(c)' /\ want[c] # Unknown /\ pc[c] = "wait"
  BY <1>2, <1>4 DEF Waits
<1>6. \A d \in Clients \ {c} : pc'[d] = pc[d] /\ (Waits(d)' <=> Waits(d))
  BY <1>2, <1>4 DEF Waits
<1>7. CmdTypeOK'
  BY <1>4 DEF CommandsInv, CmdTypeOK
<1>8. NumbersLeft'
  <2>1. Asking' = Asking
    BY <1>4, <1>5, <1>6 DEF Asking, CommandsInv, CmdTypeOK
  <2> QED  BY <1>4, <2>1 DEF CommandsInv, NumbersLeft
<1>9. Pending' = Pending \ {w}
  <2>1. \A i \in DOMAIN uvmc_wait_for_phase_q : uvmc_wait_for_phase_q[i] # w
    BY DEF CommandsInv, QueuedOnce
  <2> QED  BY <1>4, <2>1 DEF Pending
<1>10. \A r \in Pending \ {w} : r.id # w.id
  BY <1>1 DEF CommandsInv, RequestsHaveWaiters
<1>11. RequestsHaveWaiters'
  <2>1. ASSUME NEW r \in Pending \ {w}
        PROVE  /\ r.id \in DOMAIN uvmc_phase_events'
               /\ \E d \in Clients : /\ uvmc_phase_events'[r.id] = d /\ Waits(d)'
                                     /\ want'[d] = r.want /\ number'[d] = r.id
    <3>1. PICK d \in Clients : /\ uvmc_phase_events[r.id] = d /\ Waits(d)
                               /\ want[d] = r.want /\ number[d] = r.id
      BY DEF CommandsInv, RequestsHaveWaiters
    <3>2. d # c
      BY <1>2, <1>10, <3>1
    <3> QED  BY <1>4, <1>6, <3>1, <3>2 DEF CommandsInv, RequestsHaveWaiters
  <2>2. ASSUME NEW d \in Clients, Waits(d)'
        PROVE  \E r \in Pending \ {w} : r.id = number'[d]
    <3>1. d # c /\ Waits(d)
      BY <1>5, <1>6, <2>2
    <3>2. PICK r \in Pending : r.id = number[d]
      BY <3>1 DEF CommandsInv, RequestsHaveWaiters
    <3>3. uvmc_phase_events[number[d]] = d
      BY <3>1 DEF CommandsInv, NumberHolds
    <3>4. r # w
      BY <1>2, <3>1, <3>2, <3>3
    <3> QED  BY <1>4, <3>2, <3>4
  <2>3. ~stopped' /\ \A r, s \in Pending \ {w} : r.id = s.id => r = s
    BY <1>4 DEF CommandsInv, RequestsHaveWaiters
  <2> QED  BY <1>9, <2>1, <2>2, <2>3 DEF RequestsHaveWaiters
<1>12. NumberHolds'
  <2> SUFFICES ASSUME NEW d \in Clients
               PROVE  /\ (Waits(d) \/ pc[d] = "notified")' =>
                           /\ number'[d] \in 1 .. id'
                           /\ number'[d] \in DOMAIN uvmc_phase_events'
                           /\ uvmc_phase_events'[number'[d]] = d
                      /\ pc'[d] = "notified" => want'[d] # Unknown
    BY DEF NumberHolds
  <2>1. CASE d = c
    BY <1>2, <1>4, <1>5, <2>1 DEF CommandsInv, NumberHolds
  <2>2. CASE d # c
    BY <1>4, <1>6, <2>2 DEF CommandsInv, NumberHolds
  <2> QED  BY <2>1, <2>2
<1>13. QueuedOnce'
  BY <1>4 DEF CommandsInv, QueuedOnce
<1>14. WokenWhenMet'
  <2>1. met'[c]
    BY <1>2, <1>4 DEF CommandsInv, MetIsNoted
  <2> QED  BY <1>4, <1>6, <2>1 DEF CommandsInv, WokenWhenMet
<1>15. MetIsNoted'
  BY <1>4, <1>5, <1>6 DEF CommandsInv, MetIsNoted, Related
<1> QED  BY <1>7, <1>8, <1>11, <1>12, <1>13, <1>14, <1>15 DEF CommandsInv

LEMMA CommandsNextInv ==
  ASSUME CommandsInv, [CmdNext]_cmdVars
  PROVE  CommandsInv'
<1>1. CASE SvReady  BY <1>1, SvReadyInv
<1>2. CASE UvmcInit  BY <1>2, UvmcInitInv
<1>3. CASE PhaseStep  BY <1>3, PhaseStepInv
<1>4. CASE TakeRequest  BY <1>4, TakeRequestInv
<1>5. CASE \E w \in watchers : Notify(w)  BY <1>5, NotifyInv
<1>6. CASE \E c \in Clients, w \in Wanted \cup {Unknown} : Command(c, "wait", w)
  BY <1>6, CommandInv
<1>7. CASE \E c \in Clients, what \in {"raise", "drop"} : Command(c, what, Unknown)
  BY <1>7, CommandInv
<1>8. CASE \E c \in Clients : Proceed(c)  BY <1>8, AtOnceInv, AskUnknownInv, AskInv
<1>9. CASE \E c \in Clients : Return(c)  BY <1>9, ReturnInv
<1>10. CASE UNCHANGED cmdVars
  <2> USE <1>10 DEF cmdVars, clientVars, queueVars
  <2>1. CmdTypeOK' /\ NumbersLeft' /\ WaitersSame
    BY DEF CommandsInv, CmdTypeOK, NumbersLeft, Asking, WaitersSame, Waits
  <2> QED  BY <2>1, FrameInv, FrameMet DEF CommandsInv
<1> QED  BY <1>1, <1>2, <1>3, <1>4, <1>5, <1>6, <1>7, <1>8, <1>9, <1>10 DEF CmdNext

-----------------------------------------------------------------------------
(***************************************************************************)
(* Theorems                                                                *)
(***************************************************************************)

\* Whatever commands the processes give and however the phase goes on, the invariant holds.
THEOREM CommandsInvariance == CmdSpec => []CommandsInv
<1>1. CmdInit => CommandsInv  BY CommandsInitInv
<1>2. CommandsInv /\ [CmdNext]_cmdVars => CommandsInv'  BY CommandsNextInv
<1> QED  BY <1>1, <1>2, PTL DEF CmdSpec

\* The variables of both sides stay of their types, the number of requests within its bound.
THEOREM CommandsTypeCorrect == CmdSpec => []CmdTypeOK
<1>1. CommandsInv => CmdTypeOK  BY DEF CommandsInv
<1> QED  BY <1>1, CommandsInvariance, PTL

\* Every request SystemVerilog has belongs to one process that waits for just that, every
\* process that waits has its request there, and no notification stops the simulation.
THEOREM RequestsMatch == CmdSpec => []RequestsHaveWaiters
<1>1. CommandsInv => RequestsHaveWaiters  BY DEF CommandsInv
<1> QED  BY <1>1, CommandsInvariance, PTL

\* A process that uvmc_wait_for_phase wakes has asked before, and the phase has been as it
\* wanted since.
THEOREM WokenInTime == CmdSpec => []WokenWhenMet
<1>1. CommandsInv => WokenWhenMet  BY DEF CommandsInv
<1> QED  BY <1>1, CommandsInvariance, PTL

-----------------------------------------------------------------------------
(***************************************************************************)
(* Loops: induction over numbers, and functions that a loop computes       *)
(***************************************************************************)

\* Every set of numbers has a least one.
LEMMA LeastNumber ==
  ASSUME NEW T, T \subseteq Nat, T # {}
  PROVE  \E m \in T : \A k \in T : m <= k
<1>1. PICK m \in T : \A k \in T : <<k, m>> \notin OpToRel(<, Nat)
  BY NatLessThanWellFounded, WFMin
<1>2. ASSUME NEW k \in T
      PROVE  m <= k
  <2>1. k \in Nat /\ m \in Nat
    OBVIOUS
  <2>2. ~(k < m)
    BY <1>1, <2>1, Zenon DEF OpToRel
  <2> QED  BY <2>1, <2>2
<1> QED  BY <1>2

\* What holds at 0 and from each number up to n to the next holds of all of them: the
\* numbers it holds of are given as a set.
LEMMA InductionTo ==
  ASSUME NEW n \in Nat, NEW S, 0 \in S, \A k \in 1 .. n : k - 1 \in S => k \in S
  PROVE  0 .. n \subseteq S
<1> DEFINE T == (0 .. n) \ S
<1>1. SUFFICES ASSUME T # {} PROVE FALSE
  OBVIOUS
<1>2. PICK m \in T : \A k \in T : m <= k
  <2>1. T \subseteq Nat
    OBVIOUS
  <2> HIDE DEF T
  <2> QED  BY <1>1, <2>1, LeastNumber
<1>3. m \in 1 .. n
  OBVIOUS
<1>4. m - 1 \in 0 .. n /\ m - 1 \notin T
  BY <1>2, <1>3
<1> QED  BY <1>3, <1>4

\* f holds what a loop has computed after each of its n steps, G[k] being the k-th.
Computes(f, S, a, n, G) ==
  /\ f \in [0 .. n -> S]
  /\ f[0] = a
  /\ \A k \in 1 .. n : f[k] = G[k][f[k - 1]]

LEMMA LoopExists ==
  ASSUME NEW S, NEW a \in S, NEW n \in Nat, NEW G \in [1 .. n -> [S -> S]]
  PROVE  \E f : Computes(f, S, a, n, G)
<1> DEFINE R == {m \in 0 .. n : \E f : Computes(f, S, a, m, G)}
<1>1. 0 \in R
  <2>1. Computes([k \in 0 .. 0 |-> a], S, a, 0, G)
    BY DEF Computes
  <2> QED  BY <2>1
<1>2. ASSUME NEW m \in 1 .. n, m - 1 \in R
      PROVE  m \in R
  <2>1. PICK f : Computes(f, S, a, m - 1, G)
    BY <1>2
  <2> DEFINE g == [k \in 0 .. m |-> IF k = m THEN G[m][f[m - 1]] ELSE f[k]]
  <2>2. m - 1 \in 0 .. m - 1 /\ f[m - 1] \in S
    BY <2>1 DEF Computes
  <2>3. G[m][f[m - 1]] \in S
    BY <2>2
  <2>4. g \in [0 .. m -> S] /\ g[0] = a
    BY <2>1, <2>3 DEF Computes
  <2>5. ASSUME NEW k \in 1 .. m
        PROVE  g[k] = G[k][g[k - 1]]
    <3>1. CASE k = m
      BY <3>1
    <3>2. CASE k # m
      <4>1. k \in 1 .. m - 1 /\ k - 1 \in 0 .. m - 1 /\ k - 1 # m
        BY <3>2
      <4> QED  BY <2>1, <4>1 DEF Computes
    <3> QED  BY <3>1, <3>2
  <2> HIDE DEF g
  <2>6. Computes(g, S, a, m, G)
    BY <2>4, <2>5 DEF Computes
  <2> QED  BY <2>6
<1> HIDE DEF R
<1>3. 0 .. n \subseteq R
  BY <1>1, <1>2, InductionTo
<1> QED  BY <1>3 DEF R

-----------------------------------------------------------------------------
(***************************************************************************)
(* Joining pieces                                                          *)
(***************************************************************************)

BitSeq == Seq(Bit)

\* The bits of the first pieces, for any number of them.
Join(q, j) ==
  /\ j \in [0 .. Len(q) -> BitSeq]
  /\ j[0] = <<>>
  /\ \A k \in 1 .. Len(q) : j[k] = j[k - 1] \o q[k]

Joins(q) == CHOOSE j : Join(q, j)

LEMMA BitSeqConcat ==
  ASSUME NEW u \in BitSeq, NEW v \in BitSeq
  PROVE  /\ u \o v \in BitSeq
         /\ Len(u) \in Nat /\ Len(v) \in Nat
         /\ Len(u \o v) = Len(u) + Len(v)
         /\ \A i \in 1 .. Len(u) + Len(v) :
              (u \o v)[i] = IF i <= Len(u) THEN u[i] ELSE v[i - Len(u)]
BY ConcatProperties, LenProperties DEF BitSeq

\* The places of the two parts.
LEMMA ConcatPlaces ==
  ASSUME NEW u \in BitSeq, NEW v \in BitSeq
  PROVE  /\ \A i \in 1 .. Len(u) : (u \o v)[i] = u[i]
         /\ \A i \in 1 .. Len(v) : (u \o v)[Len(u) + i] = v[i]
<1> DEFINE w == u \o v
<1>1. /\ Len(u) \in Nat /\ Len(v) \in Nat
      /\ \A i \in 1 .. Len(u) + Len(v) : w[i] = IF i <= Len(u) THEN u[i] ELSE v[i - Len(u)]
  BY BitSeqConcat
<1> HIDE DEF w
<1>2. ASSUME NEW i \in 1 .. Len(u)
      PROVE  w[i] = u[i]
  BY <1>1
<1>3. ASSUME NEW i \in 1 .. Len(v)
      PROVE  w[Len(u) + i] = v[i]
  <2>1. /\ Len(u) + i \in 1 .. Len(u) + Len(v) /\ ~(Len(u) + i <= Len(u))
        /\ (Len(u) + i) - Len(u) = i
    BY <1>1
  <2> QED  BY <1>1, <2>1
<1> QED  BY <1>2, <1>3 DEF w

LEMMA JoinsRight ==
  ASSUME NEW q \in Seq(BitSeq)
  PROVE  Join(q, Joins(q))
<1> DEFINE G == [k \in 1 .. Len(q) |-> [v \in BitSeq |-> v \o q[k]]]
<1>1. Len(q) \in Nat /\ \A k \in 1 .. Len(q) : q[k] \in BitSeq
  BY LenProperties, ElementOfSeq
<1>2. <<>> \in BitSeq
  BY EmptySeq DEF BitSeq
<1>3. G \in [1 .. Len(q) -> [BitSeq -> BitSeq]]
  BY <1>1, BitSeqConcat
<1> HIDE DEF G
<1>4. PICK j : Computes(j, BitSeq, <<>>, Len(q), G)
  BY <1>1, <1>2, <1>3, LoopExists
<1>5. ASSUME NEW k \in 1 .. Len(q)
      PROVE  j[k] = j[k - 1] \o q[k]
  <2>1. j[k - 1] \in BitSeq
    BY <1>1, <1>4 DEF Computes
  <2> QED  BY <1>4, <2>1 DEF Computes, G
<1>6. Join(q, j)
  BY <1>4, <1>5 DEF Computes, Join
<1> QED  BY <1>6 DEF Joins

\* FlattenSeq joins all of them.
LEMMA FlattenJoins ==
  ASSUME NEW q \in Seq(BitSeq)
  PROVE  FlattenSeq(q) = Joins(q)[Len(q)] /\ FlattenSeq(q) \in BitSeq
<1> DEFINE j == Joins(q)
           Flat(f) == f = [i \in 1 .. Len(q) |-> IF i = 1 THEN q[i] ELSE f[i - 1] \o q[i]]
           g == CHOOSE f : Flat(f)
<1>1. Join(q, j)
  BY JoinsRight
<1> HIDE DEF j
<1>n. Len(q) \in Nat
  BY LenProperties
<1>2. CASE Len(q) = 0
  <2>1. q = <<>>
    BY <1>2, EmptySeq
  <2>2. j[0] = <<>> /\ j[0] \in BitSeq
    BY <1>1, <1>2 DEF Join
  <2> QED  BY <1>2, <2>1, <2>2 DEF FlattenSeq, j
<1>3. CASE Len(q) # 0
  <2>1. q[1] \in BitSeq
    BY <1>n, <1>3, ElementOfSeq
  <2>2. j[1] = q[1]
    <3>1. 1 \in 1 .. Len(q)
      BY <1>n, <1>3
    <3>2. j[1] = j[1 - 1] \o q[1]
      BY <1>1, <3>1 DEF Join
    <3>3. 1 - 1 = 0 /\ j[0] = <<>>
      BY <1>1 DEF Join
    <3> QED  BY <2>1, <3>2, <3>3, ConcatEmptySeq DEF BitSeq
  <2> DEFINE h == [i \in 1 .. Len(q) |-> j[i]]
  <2>3. ASSUME NEW i \in 1 .. Len(q)
        PROVE  h[i] = IF i = 1 THEN q[i] ELSE h[i - 1] \o q[i]
    BY <1>1, <1>n, <2>2 DEF Join
  <2>4. Flat(h)
    BY <2>3
  <2>5. Flat(g)
    <3> HIDE DEF Flat, h
    <3> QED  BY <2>4
  <2> HIDE DEF g
  <2>g. \A i \in 1 .. Len(q) : g[i] = IF i = 1 THEN q[i] ELSE g[i - 1] \o q[i]
    BY <2>5
  <2> DEFINE S == {k \in 0 .. Len(q) : k = 0 \/ g[k] = j[k]}
  <2>6. 0 \in S
    BY <1>n
  <2>7. ASSUME NEW k \in 1 .. Len(q), k - 1 \in S
        PROVE  k \in S
    <3>1. CASE k = 1
      BY <2>2, <2>g, <3>1, <1>n
    <3>2. CASE k # 1
      <4>1. g[k] = g[k - 1] \o q[k]
        BY <2>g, <3>2
      <4>3. g[k - 1] = j[k - 1]
        BY <2>7, <3>2
      <4>2. j[k] = j[k - 1] \o q[k]
        BY <1>1 DEF Join
      <4>4. g[k] = j[k]
        BY <4>1, <4>2, <4>3, Zenon
      <4> QED  BY <4>4, <1>n
    <3> QED  BY <3>1, <3>2
  <2> HIDE DEF S
  <2>8. Len(q) \in S
    <3>1. 0 .. Len(q) \subseteq S
      BY <1>n, <2>6, <2>7, InductionTo
    <3> QED  BY <1>n, <3>1
  <2>9. g[Len(q)] = j[Len(q)]
    BY <1>3, <2>8 DEF S
  <2>10. FlattenSeq(q) = g[Len(q)]
    BY <1>3 DEF FlattenSeq, g
  <2>11. j[Len(q)] \in BitSeq
    BY <1>1 DEF Join
  <2> QED  BY <2>9, <2>10, <2>11 DEF j
<1> QED  BY <1>2, <1>3

LEMMA JoinsFacts ==
  ASSUME NEW q \in Seq(BitSeq)
  PROVE  /\ Len(q) \in Nat
         /\ \A k \in 1 .. Len(q) : q[k] \in BitSeq /\ Len(q[k]) \in Nat
         /\ \A k \in 0 .. Len(q) : Joins(q)[k] \in BitSeq /\ Len(Joins(q)[k]) \in Nat
         /\ Joins(q)[0] = <<>> /\ Len(Joins(q)[0]) = 0
         /\ \A k \in 1 .. Len(q) :
              /\ Joins(q)[k] = Joins(q)[k - 1] \o q[k]
              /\ Len(Joins(q)[k]) = Len(Joins(q)[k - 1]) + Len(q[k])
<1>1. Len(q) \in Nat
  BY LenProperties
<1>2. \A k \in 1 .. Len(q) : q[k] \in BitSeq /\ Len(q[k]) \in Nat
  BY ElementOfSeq, LenProperties DEF BitSeq
<1>3. Join(q, Joins(q))
  BY JoinsRight
<1> DEFINE j == Joins(q)
<1> HIDE DEF j
<1>4. Join(q, j)
  BY <1>3 DEF j
<1>5. \A k \in 0 .. Len(q) : j[k] \in BitSeq /\ Len(j[k]) \in Nat
  <2>1. \A k \in 0 .. Len(q) : j[k] \in BitSeq
    BY <1>4 DEF Join
  <2> QED  BY <2>1, LenProperties DEF BitSeq
<1>6. j[0] = <<>> /\ Len(j[0]) = 0
  BY <1>4, EmptySeq DEF Join
<1>7. ASSUME NEW k \in 1 .. Len(q)
      PROVE  j[k] = j[k - 1] \o q[k] /\ Len(j[k]) = Len(j[k - 1]) + Len(q[k])
  <2>1. j[k] = j[k - 1] \o q[k]
    BY <1>4 DEF Join
  <2>2. k - 1 \in 0 .. Len(q)
    BY <1>1
  <2>3. j[k - 1] \in BitSeq /\ q[k] \in BitSeq
    BY <1>2, <1>5, <2>2
  <2> QED  BY <2>1, <2>3, BitSeqConcat
<1> QED  BY <1>1, <1>2, <1>5, <1>6, <1>7 DEF j

LEMMA JoinStep ==
  ASSUME NEW q \in Seq(BitSeq), NEW k \in 1 .. Len(q)
  PROVE  /\ k - 1 \in 0 .. Len(q) /\ k \in 0 .. Len(q)
         /\ \A i \in 1 .. Len(Joins(q)[k - 1]) : Joins(q)[k][i] = Joins(q)[k - 1][i]
         /\ \A i \in 1 .. Len(q[k]) : Joins(q)[k][Len(Joins(q)[k - 1]) + i] = q[k][i]
<1> DEFINE u == Joins(q)[k - 1]
           v == q[k]
           w == Joins(q)[k]
<1>1. k - 1 \in 0 .. Len(q) /\ k \in 0 .. Len(q)
  BY JoinsFacts
<1>2. u \in BitSeq /\ v \in BitSeq
  BY <1>1, JoinsFacts
<1>3. w = u \o v
  BY JoinsFacts
<1> HIDE DEF u, v, w
<1>4. /\ \A i \in 1 .. Len(u) : w[i] = u[i]
      /\ \A i \in 1 .. Len(v) : w[Len(u) + i] = v[i]
  BY <1>2, <1>3, ConcatPlaces
<1> QED  BY <1>1, <1>4 DEF u, v, w

\* What is joined of the first pieces depends on those only.
LEMMA JoinsSame ==
  ASSUME NEW q \in Seq(BitSeq), NEW r \in Seq(BitSeq), NEW n \in Nat,
         n <= Len(q), n <= Len(r), \A i \in 1 .. n : q[i] = r[i]
  PROVE  \A k \in 0 .. n : Joins(q)[k] = Joins(r)[k]
<1> DEFINE S == {k \in 0 .. n : Joins(q)[k] = Joins(r)[k]}
<1>1. 0 \in S
  <2>1. Joins(q)[0] = <<>> /\ Joins(r)[0] = <<>>
    BY JoinsFacts
  <2>2. Joins(q)[0] = Joins(r)[0]
    BY <2>1, Zenon
  <2> QED  BY <2>2
<1>2. ASSUME NEW k \in 1 .. n, k - 1 \in S
      PROVE  k \in S
  <2>1. k \in 1 .. Len(q) /\ k \in 1 .. Len(r)
    BY JoinsFacts
  <2>2. /\ Joins(q)[k] = Joins(q)[k - 1] \o q[k]
        /\ Joins(r)[k] = Joins(r)[k - 1] \o r[k]
    BY <2>1, JoinsFacts
  <2>3. Joins(q)[k - 1] = Joins(r)[k - 1] /\ q[k] = r[k]
    BY <1>2
  <2>4. Joins(q)[k] = Joins(r)[k]
    BY <2>2, <2>3, Zenon
  <2> QED  BY <2>4
<1> HIDE DEF S
<1>3. 0 .. n \subseteq S
  BY <1>1, <1>2, InductionTo
<1> QED  BY <1>3 DEF S

\* What is joined of the first pieces is the beginning of what is joined of more.
LEMMA JoinsGrow ==
  ASSUME NEW q \in Seq(BitSeq), NEW n \in 0 .. Len(q)
  PROVE  \A m \in n .. Len(q) :
           /\ Len(Joins(q)[n]) <= Len(Joins(q)[m])
           /\ \A i \in 1 .. Len(Joins(q)[n]) : Joins(q)[m][i] = Joins(q)[n][i]
<1> DEFINE j == Joins(q)
           Longer(m) == /\ Len(j[n]) <= Len(j[m])
                       /\ \A i \in 1 .. Len(j[n]) : j[m][i] = j[n][i]
           S == {m \in 0 .. Len(q) : m >= n => Longer(m)}
<1> HIDE DEF j
<1>n. Len(q) \in Nat
  BY JoinsFacts
<1>1. \A k \in 0 .. Len(q) : j[k] \in BitSeq /\ Len(j[k]) \in Nat
  BY JoinsFacts DEF j
<1>2. Longer(n)
  BY <1>1
<1>3. 0 \in S
  <2>1. CASE n = 0
    BY <1>2, <1>n, <2>1
  <2>2. CASE n # 0
    BY <1>n, <2>2
  <2> QED  BY <2>1, <2>2
<1>4. ASSUME NEW m \in 1 .. Len(q), m - 1 \in S
      PROVE  m \in S
  <2>1. CASE m = n
    BY <1>2, <2>1, <1>n
  <2>2. CASE m < n
    BY <2>2, <1>n
  <2>3. CASE m > n
    <3>1. Longer(m - 1)
      BY <1>4, <2>3
    <3>2. m - 1 \in 0 .. Len(q) /\ m \in 0 .. Len(q)
      BY <1>n
    <3>3. /\ Len(j[m]) = Len(j[m - 1]) + Len(q[m]) /\ Len(q[m]) \in Nat
          /\ Len(j[m - 1]) \in Nat /\ Len(j[n]) \in Nat
      BY <1>1, <3>2, JoinsFacts DEF j
    <3>4. \A i \in 1 .. Len(j[m - 1]) : j[m][i] = j[m - 1][i]
      BY JoinStep DEF j
    <3>5. \A i \in 1 .. Len(j[n]) : j[m][i] = j[n][i]
      <4> TAKE i \in 1 .. Len(j[n])
      <4>1. i \in 1 .. Len(j[m - 1])
        BY <3>1, <3>3
      <4>2. j[m][i] = j[m - 1][i]
        BY <3>4, <4>1
      <4>3. j[m - 1][i] = j[n][i]
        BY <3>1
      <4> QED  BY <4>2, <4>3
    <3>6. Len(j[n]) <= Len(j[m])
      <4> DEFINE a == Len(j[n])
                 b == Len(j[m - 1])
                 c == Len(q[m])
                 d == Len(j[m])
      <4>1. a \in Nat /\ b \in Nat /\ c \in Nat /\ d = b + c /\ a <= b
        BY <3>1, <3>3
      <4> HIDE DEF a, b, c, d
      <4>2. a <= d
        BY <4>1
      <4> QED  BY <4>2 DEF a, d
    <3>7. Longer(m)
      BY <3>5, <3>6
    <3> QED  BY <3>7, <1>n
  <2> QED  BY <2>1, <2>2, <2>3, <1>n
<1> HIDE DEF S
<1>5. 0 .. Len(q) \subseteq S
  BY <1>n, <1>3, <1>4, InductionTo
<1>6. ASSUME NEW m \in n .. Len(q)
      PROVE  Longer(m)
  BY <1>5, <1>n DEF S
<1> QED  BY <1>6 DEF j

\* Where a piece is in what is joined.
LEMMA PieceAt ==
  ASSUME NEW q \in Seq(BitSeq), NEW k \in 1 .. Len(q)
  PROVE  /\ Len(Joins(q)[k - 1]) + Len(q[k]) <= Len(FlattenSeq(q))
         /\ \A i \in 1 .. Len(q[k]) : FlattenSeq(q)[Len(Joins(q)[k - 1]) + i] = q[k][i]
<1> DEFINE j == Joins(q)
           n == Len(q)
<1> HIDE DEF j
<1>1. n \in Nat /\ k \in 0 .. n /\ k - 1 \in 0 .. n /\ n \in k .. n
  BY JoinsFacts
<1>2. /\ Len(j[k - 1]) \in Nat /\ Len(q[k]) \in Nat
      /\ Len(j[k]) = Len(j[k - 1]) + Len(q[k])
  BY <1>1, JoinsFacts DEF j
<1>3. \A i \in 1 .. Len(q[k]) : j[k][Len(j[k - 1]) + i] = q[k][i]
  BY JoinStep DEF j
<1>4. Len(j[k]) <= Len(j[n]) /\ \A i \in 1 .. Len(j[k]) : j[n][i] = j[k][i]
  BY <1>1, JoinsGrow DEF j
<1>5. FlattenSeq(q) = j[n]
  BY FlattenJoins DEF j
<1>6. Len(j[k - 1]) + Len(q[k]) <= Len(j[n])
  BY <1>2, <1>4
<1>7. ASSUME NEW i \in 1 .. Len(q[k])
      PROVE  j[n][Len(j[k - 1]) + i] = q[k][i]
  <2>1. Len(j[k - 1]) + i \in 1 .. Len(j[k])
    <3> DEFINE a == Len(j[k - 1])
               b == Len(q[k])
               c == Len(j[k])
    <3>1. a \in Nat /\ b \in Nat /\ c = a + b /\ i \in 1 .. b
      BY <1>2
    <3> HIDE DEF a, b, c
    <3>2. a + i \in 1 .. c
      BY <3>1
    <3> QED  BY <3>2 DEF a, c
  <2>2. j[n][Len(j[k - 1]) + i] = j[k][Len(j[k - 1]) + i]
    BY <1>4, <2>1
  <2> QED  BY <1>3, <2>2
<1> QED  BY <1>5, <1>6, <1>7 DEF j

\* One piece more, behind the others or before them.
LEMMA JoinsAppend ==
  ASSUME NEW q \in Seq(BitSeq), NEW x \in BitSeq
  PROVE  FlattenSeq(Append(q, x)) = FlattenSeq(q) \o x
<1> DEFINE r == Append(q, x)
<1>1. /\ r \in Seq(BitSeq) /\ Len(r) = Len(q) + 1
      /\ \A i \in 1 .. Len(q) : r[i] = q[i]
      /\ r[Len(q) + 1] = x
  BY AppendProperties
<1> HIDE DEF r
<1>2. Len(q) \in Nat
  BY JoinsFacts
<1>3. \A k \in 0 .. Len(q) : Joins(q)[k] = Joins(r)[k]
  BY <1>1, <1>2, JoinsSame
<1> DEFINE n == Len(q)
<1>n. n \in Nat /\ n + 1 \in 1 .. Len(r) /\ (n + 1) - 1 = n /\ n \in 0 .. n
  BY <1>1, <1>2
<1>4. Joins(r)[n + 1] = Joins(r)[(n + 1) - 1] \o r[n + 1]
  BY <1>1, <1>n, JoinsFacts
<1>m. Joins(r)[n] = Joins(q)[n]
  BY <1>3, <1>n
<1>5. Joins(r)[Len(r)] = Joins(q)[Len(q)] \o x
  BY <1>1, <1>n, <1>m, <1>4
<1>6. FlattenSeq(r) = Joins(r)[Len(r)] /\ FlattenSeq(q) = Joins(q)[Len(q)]
  BY <1>1, FlattenJoins
<1> QED  BY <1>5, <1>6 DEF r

LEMMA JoinsPrepend ==
  ASSUME NEW q \in Seq(BitSeq), NEW x \in BitSeq
  PROVE  /\ <<x>> \o q \in Seq(BitSeq)
         /\ FlattenSeq(<<x>> \o q) = x \o FlattenSeq(q)
<1> DEFINE r == <<x>> \o q
<1>1. <<x>> \in Seq(BitSeq) /\ Len(<<x>>) = 1 /\ <<x>>[1] = x
  OBVIOUS
<1>2. Len(q) \in Nat
  BY JoinsFacts
<1>3. /\ r \in Seq(BitSeq) /\ Len(r) = 1 + Len(q)
      /\ \A i \in 1 .. 1 + Len(q) : r[i] = IF i <= 1 THEN <<x>>[i] ELSE q[i - 1]
  BY <1>1, ConcatProperties
<1> HIDE DEF r
<1> DEFINE S == {k \in 0 .. Len(q) : Joins(r)[k + 1] = x \o Joins(q)[k]}
<1>4. 0 \in S
  <2>1. 1 \in 1 .. Len(r) /\ r[1] = x
    BY <1>1, <1>2, <1>3
  <2>2. Joins(r)[1] = Joins(r)[1 - 1] \o r[1]
    BY <1>3, <2>1, JoinsFacts
  <2>7. Joins(r)[0] = <<>>
    BY <1>3, JoinsFacts
  <2>8. Joins(q)[0] = <<>>
    BY JoinsFacts
  <2>3. Joins(r)[0] = <<>> /\ Joins(q)[0] = <<>> /\ 1 - 1 = 0
    BY <2>7, <2>8
  <2>4. Joins(r)[1] = <<>> \o x
    BY <2>1, <2>2, <2>3, Zenon
  <2>5. <<>> \o x = x /\ x \o <<>> = x
    BY ConcatEmptySeq DEF BitSeq
  <2>6. Joins(r)[0 + 1] = x \o Joins(q)[0]
    BY <2>3, <2>4, <2>5
  <2> QED  BY <1>2, <2>6
<1>5. ASSUME NEW k \in 1 .. Len(q), k - 1 \in S
      PROVE  k \in S
  <2>1. k + 1 \in 1 .. Len(r) /\ r[k + 1] = q[k] /\ (k + 1) - 1 = (k - 1) + 1
    BY <1>2, <1>3
  <2>2. Joins(r)[k + 1] = Joins(r)[(k + 1) - 1] \o r[k + 1]
    BY <1>3, <2>1, JoinsFacts
  <2>3. Joins(r)[(k - 1) + 1] = x \o Joins(q)[k - 1]
    BY <1>5
  <2>4. Joins(r)[k + 1] = (x \o Joins(q)[k - 1]) \o q[k]
    BY <2>1, <2>2, <2>3
  <2>5. k - 1 \in 0 .. Len(q)
    BY <1>2
  <2>6. Joins(q)[k - 1] \in BitSeq /\ q[k] \in BitSeq
    BY <2>5, JoinsFacts
  <2>7. Joins(r)[k + 1] = x \o (Joins(q)[k - 1] \o q[k])
    <3> DEFINE u == Joins(q)[k - 1]
               v == q[k]
    <3>2. u \in Seq(Bit) /\ v \in Seq(Bit) /\ x \in Seq(Bit)
      BY <2>6 DEF BitSeq
    <3> HIDE DEF u, v
    <3>3. (x \o u) \o v = x \o (u \o v)
      BY <3>2, ConcatAssociative
    <3>1. (x \o Joins(q)[k - 1]) \o q[k] = x \o (Joins(q)[k - 1] \o q[k])
      BY <3>3 DEF u, v
    <3> QED  BY <2>4, <3>1, Zenon
  <2>8. Joins(q)[k] = Joins(q)[k - 1] \o q[k]
    BY JoinsFacts
  <2>9. Joins(r)[k + 1] = x \o Joins(q)[k]
    BY <2>7, <2>8
  <2> QED  BY <2>9
<1> HIDE DEF S
<1>6. 0 .. Len(q) \subseteq S
  BY <1>2, <1>4, <1>5, InductionTo
<1>7. Joins(r)[Len(q) + 1] = x \o Joins(q)[Len(q)]
  BY <1>2, <1>6 DEF S
<1>8. FlattenSeq(r) = Joins(r)[Len(r)] /\ FlattenSeq(q) = Joins(q)[Len(q)]
  BY <1>3, FlattenJoins
<1>9. Len(r) = Len(q) + 1
  BY <1>2, <1>3
<1> QED  BY <1>3, <1>7, <1>8, <1>9 DEF r

-----------------------------------------------------------------------------
(***************************************************************************)
(* Places and indexes                                                      *)
(***************************************************************************)

Buffers == [Words -> [Places -> Bit]]
Indexes == [ptr : Nat, bit_index : Places, bits_size : Nat]

\* The three indexes name one place.
OnePlace(r) == r \in Indexes /\ r.bits_size = r.ptr * WordBits + r.bit_index

\* The words come one behind the other.
LEMMA WordsInOrder ==
  ASSUME NEW a \in Nat, NEW b \in Nat, a < b
  PROVE  a * WordBits + WordBits <= b * WordBits
<1>1. WordBits \in Nat
  BY WordBitsAssumption
<1>2. PICK d \in Nat : b = a + 1 + d
  <2>1. b - a - 1 \in Nat /\ b = a + 1 + (b - a - 1)
    OBVIOUS
  <2> QED  BY <2>1
<1>3. (a + 1 + d) * WordBits = a * WordBits + WordBits + d * WordBits
  BY <1>1
<1>4. d * WordBits \in Nat /\ a * WordBits \in Nat
  BY <1>1
<1> DEFINE x == a * WordBits
           y == d * WordBits
<1> HIDE DEF x, y
<1>5. x + WordBits <= x + WordBits + y
  BY <1>1, <1>4 DEF x, y
<1> QED  BY <1>2, <1>3, <1>5 DEF x, y

LEMMA PlaceIsNat ==
  ASSUME NEW w \in Nat, NEW p \in Places
  PROVE  w * WordBits \in Nat /\ p \in Nat /\ p < WordBits /\ w * WordBits + p \in Nat
BY WordBitsAssumption DEF Places

LEMMA UpdateIndexesRight ==
  ASSUME NEW r, OnePlace(r), NEW n \in Nat, n <= WordBits - r.bit_index
  PROVE  /\ OnePlace(UpdateIndexes(r, n))
         /\ UpdateIndexes(r, n).bits_size = r.bits_size + n
         /\ n = WordBits - r.bit_index => UpdateIndexes(r, n).bit_index = 0
         /\ n = 0 => UpdateIndexes(r, n).bit_index = r.bit_index
<1> DEFINE b == r.bit_index
           a == r.ptr
           x == a * WordBits
           u == UpdateIndexes(r, n)
<1>1. /\ WordBits \in Nat /\ WordBits > 0 /\ b \in 0 .. WordBits - 1 /\ a \in Nat
      /\ r.bits_size \in Nat /\ r.bits_size = x + b
  BY WordBitsAssumption DEF OnePlace, Indexes, Places
<1>2. x \in Nat /\ (a + 1) * WordBits = x + WordBits
  BY <1>1
<1>3. CASE b + n >= WordBits
  <2>1. u = [ptr |-> a + 1, bit_index |-> 0, bits_size |-> r.bits_size + n]
    BY <1>3 DEF UpdateIndexes
  <2>2. u.ptr = a + 1 /\ u.bit_index = 0 /\ u.bits_size = r.bits_size + n
    BY <2>1
  <2>3. n = WordBits - b
    BY <1>1, <1>3
  <2>4. u \in Indexes
    BY <1>1, <2>1 DEF Indexes, Places
  <2>5. u.bits_size = u.ptr * WordBits + u.bit_index
    <3> HIDE DEF x
    <3>1. r.bits_size + n = x + WordBits
      BY <1>1, <1>2, <2>3
    <3>2. u.ptr * WordBits = x + WordBits
      BY <1>2, <2>2
    <3> HIDE DEF u
    <3> QED  BY <1>1, <1>2, <2>2, <3>1, <3>2
  <2>6. n # 0
    BY <1>1, <2>3
  <2> QED  BY <2>2, <2>4, <2>5, <2>6 DEF OnePlace
<1>4. CASE b + n < WordBits
  <2>1. u = [ptr |-> a, bit_index |-> b + n, bits_size |-> r.bits_size + n]
    BY <1>1, <1>4 DEF UpdateIndexes
  <2>2. u.ptr = a /\ u.bit_index = b + n /\ u.bits_size = r.bits_size + n
    BY <2>1
  <2>4. u \in Indexes
    BY <1>1, <1>4, <2>1 DEF Indexes, Places
  <2>5. u.bits_size = u.ptr * WordBits + u.bit_index
    <3>1. r.bits_size + n = x + (b + n)
      <4> HIDE DEF x
      <4> QED  BY <1>1, <1>2
    <3> QED  BY <2>2, <3>1
  <2>6. n # WordBits - b /\ (n = 0 => b + n = b)
    BY <1>1, <1>4
  <2> QED  BY <2>2, <2>4, <2>5, <2>6 DEF OnePlace
<1> QED  BY <1>1, <1>3, <1>4

-----------------------------------------------------------------------------
(***************************************************************************)
(* Writing                                                                 *)
(***************************************************************************)

PackStates == [bits : Buffers, rep : Indexes]

\* t is what s becomes when v is written at its place, and nothing else.
Written(s, t, v) ==
  /\ t \in PackStates /\ OnePlace(t.rep)
  /\ t.rep.bits_size = s.rep.bits_size + Len(v)
  /\ \A w \in Words, p \in Places :
       t.bits[w][p] = IF (w * WordBits + p) - s.rep.bits_size \in 0 .. Len(v) - 1
                      THEN v[(w * WordBits + p) - s.rep.bits_size + 1] ELSE s.bits[w][p]

LEMMA PutBitsRight ==
  ASSUME NEW s \in PackStates, OnePlace(s.rep), NEW v \in BitSeq,
         Len(v) <= WordBits - s.rep.bit_index
  PROVE  /\ Written(s, PutBits(s, v), v)
         /\ Len(v) = WordBits - s.rep.bit_index => PutBits(s, v).rep.bit_index = 0
         /\ Len(v) = 0 => PutBits(s, v).rep.bit_index = s.rep.bit_index
<1> DEFINE b == s.rep.bit_index
           a == s.rep.ptr
           z == s.rep.bits_size
           n == Len(v)
           t == PutBits(s, v)
<1>1. /\ WordBits \in Nat /\ WordBits > 0 /\ b \in 0 .. WordBits - 1 /\ a \in Nat
      /\ z \in Nat /\ z = a * WordBits + b /\ n \in Nat /\ a * WordBits \in Nat
  BY WordBitsAssumption, LenProperties DEF OnePlace, Indexes, Places, BitSeq
<1>2. /\ OnePlace(t.rep) /\ t.rep.bits_size = z + n
      /\ n = WordBits - b => t.rep.bit_index = 0
      /\ n = 0 => t.rep.bit_index = b
  BY <1>1, UpdateIndexesRight DEF PutBits
<1>3. s.bits \in Buffers
  BY DEF PackStates
<1>4. \A i \in 1 .. n : v[i] \in Bit
  BY ElementOfSeq DEF BitSeq
<1> DEFINE put == [p \in Places |-> IF p \in b .. b + n - 1 THEN v[p - b + 1] ELSE s.bits[a][p]]
<1>5. t.bits = [s.bits EXCEPT ![a] = put]
  BY DEF PutBits
<1>6. ASSUME a \in Words
      PROVE  put \in [Places -> Bit]
  <2>1. s.bits[a] \in [Places -> Bit]
    BY <1>3, <1>6 DEF Buffers
  <2>2. ASSUME NEW p \in Places, p \in b .. b + n - 1
        PROVE  v[p - b + 1] \in Bit
    <3>1. p - b + 1 \in 1 .. n
      <4>1. b \in Nat /\ n \in Nat /\ p \in b .. b + n - 1
        BY <1>1, <2>2
      <4> HIDE DEF b, n
      <4> QED  BY <4>1
    <3> QED  BY <1>4, <3>1
  <2> QED  BY <2>1, <2>2
<1>7. t.bits \in Buffers
  <2> HIDE DEF put
  <2> QED  BY <1>3, <1>5, <1>6 DEF Buffers
<1>8. t \in PackStates
  <2>1. t = [bits |-> t.bits, rep |-> t.rep]
    BY DEF PutBits
  <2> QED  BY <1>2, <1>7, <2>1 DEF PackStates, OnePlace
<1>9. ASSUME NEW w \in Words, NEW p \in Places
      PROVE  t.bits[w][p] = IF (w * WordBits + p) - z \in 0 .. n - 1
                            THEN v[(w * WordBits + p) - z + 1] ELSE s.bits[w][p]
  <2>0. w \in Nat
    BY MaxWordsAssumption DEF Words
  <2>1. w \in Nat /\ p \in Nat /\ p < WordBits /\ w * WordBits \in Nat
    BY <2>0, PlaceIsNat
  <2> DEFINE x == w * WordBits
             y == a * WordBits
  <2>2. x \in Nat /\ y \in Nat /\ z = y + b /\ n <= WordBits - b
    BY <1>1, <2>1
  <2>3. CASE w = a
    <3>1. x = y
      BY <2>3
    <3>2. t.bits[w] = put
      BY <1>3, <1>5, <2>3 DEF Buffers
    <3>3. t.bits[w][p] = IF p \in b .. b + n - 1 THEN v[p - b + 1] ELSE s.bits[w][p]
      BY <2>3, <3>2
    <3> HIDE DEF x, y, b, z, n, t
    <3>4. (x + p) - z = p - b
      BY <1>1, <2>1, <2>2, <3>1
    <3>5. p \in b .. b + n - 1 <=> p - b \in 0 .. n - 1
      BY <1>1, <2>1
    <3>6. t.bits[w][p] = IF (x + p) - z \in 0 .. n - 1 THEN v[(x + p) - z + 1] ELSE s.bits[w][p]
      BY <3>3, <3>4, <3>5
    <3> QED  BY <3>6 DEF x
  <2>4. CASE w # a
    <3>1. t.bits[w] = s.bits[w]
      BY <1>3, <1>5, <2>4 DEF Buffers
    <3>2. (x + p) - z \notin 0 .. n - 1
      <4>1. CASE w < a
        <5>1. x + WordBits <= y
          BY <1>1, <2>1, <4>1, WordsInOrder
        <5>2. /\ x \in Nat /\ y \in Nat /\ z = y + b /\ n \in Nat /\ n <= WordBits - b
              /\ b \in Nat /\ p \in Nat /\ p < WordBits /\ WordBits \in Nat
          BY <1>1, <2>1, <2>2
        <5> HIDE DEF x, y, b, z, n
        <5> QED  BY <5>1, <5>2
      <4>2. CASE a < w
        <5>1. y + WordBits <= x
          BY <1>1, <2>1, <4>2, WordsInOrder
        <5>2. /\ x \in Nat /\ y \in Nat /\ z = y + b /\ n \in Nat /\ n <= WordBits - b
              /\ b \in Nat /\ p \in Nat /\ p < WordBits /\ WordBits \in Nat
          BY <1>1, <2>1, <2>2
        <5>3. (x + p) - z >= WordBits - b
          <6> HIDE DEF x, y, b, z, n
          <6> QED  BY <5>1, <5>2
        <5> HIDE DEF x, y, b, z, n
        <5> QED  BY <5>2, <5>3
      <4>3. w < a \/ a < w
        BY <1>1, <2>1, <2>4
      <4> QED  BY <4>1, <4>2, <4>3, Zenon
    <3> QED  BY <3>1, <3>2
  <2> QED  BY <2>3, <2>4
<1> HIDE DEF t
<1>10. Written(s, t, v)
  BY <1>2, <1>8, <1>9 DEF Written
<1> QED  BY <1>2, <1>10 DEF t

\* One value behind the other.
LEMMA WrittenThen ==
  ASSUME NEW s \in PackStates, NEW t, NEW u, NEW v \in BitSeq, NEW x \in BitSeq,
         Written(s, t, v), Written(t, u, x)
  PROVE  Written(s, u, v \o x)
<1> DEFINE z == s.rep.bits_size
           n == Len(v)
           m == Len(x)
<1>1. z \in Nat /\ n \in Nat /\ m \in Nat /\ Len(v \o x) = n + m
  BY BitSeqConcat DEF PackStates, Indexes
<1>2. \A i \in 1 .. n + m : (v \o x)[i] = IF i <= n THEN v[i] ELSE x[i - n]
  BY BitSeqConcat
<1>3. t.rep.bits_size = z + n /\ u.rep.bits_size = z + n + m
  BY DEF Written
<1>4. ASSUME NEW w \in Words, NEW p \in Places
      PROVE  u.bits[w][p] = IF (w * WordBits + p) - z \in 0 .. n + m - 1
                            THEN (v \o x)[(w * WordBits + p) - z + 1] ELSE s.bits[w][p]
  <2> DEFINE y == w * WordBits + p
  <2>1. y \in Nat
    BY PlaceIsNat, MaxWordsAssumption DEF Words
  <2>2. t.bits[w][p] = IF y - z \in 0 .. n - 1 THEN v[y - z + 1] ELSE s.bits[w][p]
    BY Zenon DEF Written
  <2>3. u.bits[w][p] = IF y - (z + n) \in 0 .. m - 1 THEN x[y - (z + n) + 1] ELSE t.bits[w][p]
    <3>1. u.bits[w][p] = IF y - t.rep.bits_size \in 0 .. m - 1
                         THEN x[y - t.rep.bits_size + 1] ELSE t.bits[w][p]
      BY Zenon DEF Written
    <3>2. t.rep.bits_size = z + n
      BY <1>3
    <3> QED  BY <3>1, <3>2, Zenon
  <2> DEFINE vx == v \o x
             new == u.bits[w][p]
             mid == t.bits[w][p]
             old == s.bits[w][p]
  <2>4. \A i \in 1 .. n + m : vx[i] = IF i <= n THEN v[i] ELSE x[i - n]
    BY <1>2
  <2>5. mid = IF y - z \in 0 .. n - 1 THEN v[y - z + 1] ELSE old
    BY <2>2
  <2>6. new = IF y - (z + n) \in 0 .. m - 1 THEN x[y - (z + n) + 1] ELSE mid
    BY <2>3
  <2> HIDE DEF y, z, n, m, vx, new, mid, old
  <2>7. new = IF y - z \in 0 .. n + m - 1 THEN vx[y - z + 1] ELSE old
    <3>1. CASE y - z \in 0 .. n - 1
      <4>1. y - (z + n) \notin 0 .. m - 1 /\ y - z + 1 \in 1 .. n + m /\ y - z + 1 <= n
            /\ y - z \in 0 .. n + m - 1
        BY <1>1, <2>1, <3>1
      <4>2. new = v[y - z + 1]
        BY <2>5, <2>6, <3>1, <4>1
      <4>3. vx[y - z + 1] = v[y - z + 1]
        BY <2>4, <4>1
      <4> QED  BY <4>1, <4>2, <4>3
    <3>2. CASE y - z \in n .. n + m - 1
      <4>1. y - (z + n) \in 0 .. m - 1 /\ y - z + 1 \in 1 .. n + m /\ ~(y - z + 1 <= n)
            /\ y - z \in 0 .. n + m - 1 /\ y - (z + n) + 1 = (y - z + 1) - n
        BY <1>1, <2>1, <3>2
      <4>2. new = x[(y - z + 1) - n]
        BY <2>6, <4>1
      <4>3. vx[y - z + 1] = x[(y - z + 1) - n]
        <5> DEFINE i == y - z + 1
        <5>1. i \in 1 .. n + m /\ ~(i <= n)
          BY <4>1
        <5> HIDE DEF i
        <5>2. vx[i] = x[i - n]
          BY <2>4, <5>1
        <5> QED  BY <5>2, Zenon DEF i
      <4> QED  BY <4>1, <4>2, <4>3
    <3>3. CASE y - z \notin 0 .. n + m - 1
      <4>1. y - (z + n) \notin 0 .. m - 1 /\ y - z \notin 0 .. n - 1
        BY <1>1, <2>1, <3>3
      <4> QED  BY <2>5, <2>6, <3>3, <4>1
    <3> QED  BY <1>1, <2>1, <3>1, <3>2, <3>3
  <2> QED  BY <2>7, Zenon DEF new, old, vx, y, z, n, m
<1>5. u \in PackStates /\ OnePlace(u.rep) /\ u.rep.bits_size = z + Len(v \o x)
  <2>1. z + n + m = z + Len(v \o x)
    <3> HIDE DEF z, n, m
    <3> QED  BY <1>1
  <2> QED  BY <1>3, <2>1 DEF Written
<1> QED  BY <1>1, <1>4, <1>5 DEF Written

-----------------------------------------------------------------------------
(***************************************************************************)
(* pack_int_n: a value in three parts                                      *)
(***************************************************************************)

RightOf(v, b) == SubSeq(v, 1, Stages(b, Len(v)).right)
MidOf(v, b) == SubSeq(v, Stages(b, Len(v)).right + 1,
                         Stages(b, Len(v)).right + Stages(b, Len(v)).mid)
LeftOf(v, b) == SubSeq(v, Stages(b, Len(v)).right + Stages(b, Len(v)).mid + 1, Len(v))

\* How long they are: each fits where it begins, in the present word or a whole one.
LEMMA StagesFit ==
  ASSUME NEW b \in Places, NEW n \in Nat, n <= MaxWidth
  PROVE  LET k == Stages(b, n)
         IN /\ k.right \in Nat /\ k.mid \in Nat /\ k.left \in Nat
            /\ n = k.right + k.mid + k.left
            /\ k.right <= WordBits - b
            /\ k.mid \in {0, WordBits}
            /\ k.left <= WordBits
            /\ k.mid # 0 \/ k.left # 0 => k.right = WordBits - b
<1> DEFINE k == Stages(b, n)
<1>1. WordBits \in Nat /\ b \in Nat /\ b < WordBits /\ n <= 2 * WordBits
  BY WordBitsAssumption DEF Places, MaxWidth
<1>2. k.right = IF n <= WordBits - b THEN n ELSE WordBits - b
  BY DEF Stages
<1>3. k.mid = IF n - k.right >= WordBits THEN WordBits ELSE 0
  BY <1>2 DEF Stages, Middle
<1>4. k.left = (n - k.right) - k.mid
  BY <1>2, <1>3 DEF Stages, Middle
<1> HIDE DEF k
<1>5. /\ k.right \in Nat /\ k.mid \in Nat /\ k.left \in Nat
      /\ n = k.right + k.mid + k.left
      /\ k.right <= WordBits - b
      /\ k.mid \in {0, WordBits}
      /\ k.left <= WordBits
      /\ k.mid # 0 \/ k.left # 0 => k.right = WordBits - b
  <2>1. CASE n <= WordBits - b
    <3>1. k.right = n /\ k.mid = 0 /\ k.left = 0
      BY <1>1, <1>2, <1>3, <1>4, <2>1
    <3> QED  BY <1>1, <2>1, <3>1
  <2>2. CASE ~(n <= WordBits - b) /\ n - k.right >= WordBits
    BY <1>1, <1>2, <1>3, <1>4, <2>2
  <2>3. CASE ~(n <= WordBits - b) /\ ~(n - k.right >= WordBits)
    BY <1>1, <1>2, <1>3, <1>4, <2>3
  <2> QED  BY <2>1, <2>2, <2>3
<1> QED  BY <1>5 DEF k

\* They make up the value.
LEMMA ThreeParts ==
  ASSUME NEW v \in BitSeq, NEW b \in Places, Len(v) <= MaxWidth
  PROVE  /\ RightOf(v, b) \in BitSeq /\ Len(RightOf(v, b)) = Stages(b, Len(v)).right
         /\ MidOf(v, b) \in BitSeq /\ Len(MidOf(v, b)) = Stages(b, Len(v)).mid
         /\ LeftOf(v, b) \in BitSeq /\ Len(LeftOf(v, b)) = Stages(b, Len(v)).left
         /\ v = (RightOf(v, b) \o MidOf(v, b)) \o LeftOf(v, b)
<1> DEFINE n == Len(v)
           x == Stages(b, n).right
           y == Stages(b, n).mid
           z == Stages(b, n).left
<1>1. n \in Nat /\ \A i \in 1 .. n : v[i] \in Bit
  BY LenProperties, ElementOfSeq DEF BitSeq
<1>2. x \in Nat /\ y \in Nat /\ z \in Nat /\ n = x + y + z
  BY <1>1, StagesFit
<1> DEFINE u1 == SubSeq(v, 1, x)
           u2 == SubSeq(v, x + 1, x + y)
           u3 == SubSeq(v, x + y + 1, n)
<1> HIDE DEF n, x, y, z
<1>3. /\ 1 \in Int /\ x \in Int /\ x + 1 \in Int /\ x + y \in Int /\ x + y + 1 \in Int /\ n \in Int
      /\ 1 .. x \subseteq 1 .. n /\ (x + 1) .. (x + y) \subseteq 1 .. n
      /\ (x + y + 1) .. n \subseteq 1 .. n
  BY <1>1, <1>2
<1>4. u1 \in Seq(Bit) /\ Len(u1) = IF 1 <= x THEN x - 1 + 1 ELSE 0
  BY <1>1, <1>3, SubSeqProperties
<1>5. u2 \in Seq(Bit) /\ Len(u2) = IF x + 1 <= x + y THEN (x + y) - (x + 1) + 1 ELSE 0
  BY <1>1, <1>3, SubSeqProperties
<1>6. u3 \in Seq(Bit) /\ Len(u3) = IF x + y + 1 <= n THEN n - (x + y + 1) + 1 ELSE 0
  BY <1>1, <1>3, SubSeqProperties
<1>7. u1 \o u2 = SubSeq(v, 1, x + y)
  <2>1. v \in Seq(Bit) /\ 1 \in 1 .. n + 1 /\ x \in 1 - 1 .. n /\ x + y \in x .. n
    BY <1>1, <1>2 DEF BitSeq
  <2> QED  BY <2>1, ConcatAdjacentSubSeq DEF n
<1>8. SubSeq(v, 1, x + y) \o u3 = SubSeq(v, 1, n)
  <2>1. v \in Seq(Bit) /\ 1 \in 1 .. n + 1 /\ x + y \in 1 - 1 .. n /\ n \in x + y .. n
    BY <1>1, <1>2 DEF BitSeq
  <2> QED  BY <2>1, ConcatAdjacentSubSeq DEF n
<1>9. SubSeq(v, 1, n) = v
  BY SubSeqFull DEF n, BitSeq
<1>10. v = (u1 \o u2) \o u3
  BY <1>7, <1>8, <1>9
<1>11. Len(u1) = x /\ Len(u2) = y /\ Len(u3) = z
  <2> HIDE DEF u1, u2, u3
  <2> QED  BY <1>1, <1>2, <1>4, <1>5, <1>6
<1>12. u1 = RightOf(v, b) /\ u2 = MidOf(v, b) /\ u3 = LeftOf(v, b)
  BY DEF RightOf, MidOf, LeftOf, n, x, y
<1> QED  BY <1>4, <1>5, <1>6, <1>10, <1>11, <1>12 DEF BitSeq, n, x, y, z

LEMMA PackIntNRight ==
  ASSUME NEW s \in PackStates, OnePlace(s.rep), NEW v \in BitSeq, Len(v) <= MaxWidth
  PROVE  Written(s, PackIntN(s, v), v)
<1> DEFINE b == s.rep.bit_index
           k == Stages(b, Len(v))
           u1 == RightOf(v, b)
           u2 == MidOf(v, b)
           u3 == LeftOf(v, b)
           s1 == PutBits(s, u1)
           s2 == PutBits(s1, u2)
           s3 == PutBits(s2, u3)
<1>1. b \in Places /\ Len(v) \in Nat
  BY LenProperties DEF PackStates, Indexes, BitSeq
<1>2. /\ u1 \in BitSeq /\ Len(u1) = k.right
      /\ u2 \in BitSeq /\ Len(u2) = k.mid
      /\ u3 \in BitSeq /\ Len(u3) = k.left
      /\ v = (u1 \o u2) \o u3
  BY <1>1, ThreeParts
<1>3. /\ k.right \in Nat /\ k.mid \in Nat /\ k.left \in Nat
      /\ k.right <= WordBits - b /\ k.mid \in {0, WordBits} /\ k.left <= WordBits
      /\ k.mid # 0 \/ k.left # 0 => k.right = WordBits - b
  BY <1>1, StagesFit
<1>4. PackIntN(s, v) = s3
  BY DEF PackIntN, RightOf, MidOf, LeftOf
<1>w. WordBits \in Nat /\ WordBits > 0 /\ b \in 0 .. WordBits - 1
  BY WordBitsAssumption, <1>1 DEF Places
<1> HIDE DEF k, u1, u2, u3, s1, s2, s3
<1>5. /\ Written(s, s1, u1)
      /\ Len(u1) = WordBits - b => s1.rep.bit_index = 0
  BY <1>2, <1>3, PutBitsRight DEF s1
<1>6. s1 \in PackStates /\ OnePlace(s1.rep) /\ s1.rep.bit_index \in 0 .. WordBits - 1
  BY <1>5 DEF Written, OnePlace, Indexes, Places
<1>7. Len(u2) <= WordBits - s1.rep.bit_index
  BY <1>2, <1>3, <1>5, <1>6, <1>w
<1>8. /\ Written(s1, s2, u2)
      /\ Len(u2) = WordBits - s1.rep.bit_index => s2.rep.bit_index = 0
      /\ Len(u2) = 0 => s2.rep.bit_index = s1.rep.bit_index
  BY <1>2, <1>6, <1>7, PutBitsRight DEF s2
<1>9. s2 \in PackStates /\ OnePlace(s2.rep) /\ s2.rep.bit_index \in 0 .. WordBits - 1
  BY <1>8 DEF Written, OnePlace, Indexes, Places
<1>10. Len(u3) <= WordBits - s2.rep.bit_index
  <2>1. CASE k.left = 0
    BY <1>2, <1>9, <1>w, <2>1
  <2>2. CASE k.left # 0
    <3>1. s1.rep.bit_index = 0
      BY <1>2, <1>3, <1>5, <2>2
    <3>2. s2.rep.bit_index = 0
      BY <1>2, <1>3, <1>8, <1>w, <3>1
    <3> QED  BY <1>2, <1>3, <1>w, <3>2
  <2> QED  BY <2>1, <2>2
<1>11. Written(s2, s3, u3)
  BY <1>2, <1>9, <1>10, PutBitsRight DEF s3
<1>12. Written(s, s2, u1 \o u2)
  BY <1>2, <1>5, <1>8, WrittenThen
<1>13. u1 \o u2 \in BitSeq
  BY <1>2, BitSeqConcat
<1>14. Written(s, s3, (u1 \o u2) \o u3)
  BY <1>2, <1>11, <1>12, <1>13, WrittenThen
<1> QED  BY <1>2, <1>4, <1>14

\* Pieces that pack_int_n can pack.
PiecesOK(q) == q \in Seq(BitSeq) /\ \A k \in 1 .. Len(q) : Len(q[k]) \in 1 .. MaxWidth

\* They follow each other in the buffer.
LEMMA PackAllRight ==
  ASSUME NEW s \in PackStates, OnePlace(s.rep), NEW q, PiecesOK(q)
  PROVE  Written(s, PackAll(s, q), FlattenSeq(q))
<1> DEFINE n == Len(q)
           S == {t \in PackStates : OnePlace(t.rep)}
           G == [k \in 1 .. n |-> [t \in S |-> PackIntN(t, q[k])]]
           Is(f) == f = [k \in 0 .. n |-> IF k = 0 THEN s ELSE PackIntN(f[k - 1], q[k])]
           after == CHOOSE f : Is(f)
<1>1. /\ q \in Seq(BitSeq) /\ n \in Nat
      /\ \A k \in 1 .. n : q[k] \in BitSeq /\ Len(q[k]) <= MaxWidth
  <2>1. q \in Seq(BitSeq) /\ n \in Nat
    BY JoinsFacts DEF PiecesOK
  <2>2. ASSUME NEW k \in 1 .. n
        PROVE  q[k] \in BitSeq /\ Len(q[k]) <= MaxWidth
    <3>1. Len(q[k]) \in 1 .. MaxWidth
      BY DEF PiecesOK
    <3>2. Len(q[k]) <= MaxWidth
      BY <3>1, WordBitsAssumption DEF MaxWidth
    <3> QED  BY <2>1, <3>2, JoinsFacts
  <2> QED  BY <2>1, <2>2
<1>2. PackAll(s, q) = after[n]
  BY DEF PackAll
<1>3. ASSUME NEW k \in 1 .. n, NEW t \in S
      PROVE  PackIntN(t, q[k]) \in S /\ Written(t, PackIntN(t, q[k]), q[k])
  <2>1. Written(t, PackIntN(t, q[k]), q[k])
    BY <1>1, PackIntNRight
  <2> QED  BY <2>1 DEF Written
<1>4. G \in [1 .. n -> [S -> S]]
  BY <1>3
<1>s. s \in S
  OBVIOUS
<1> HIDE DEF n, S
<1>5. \E f : Computes(f, S, s, n, G)
  <2> HIDE DEF G
  <2> QED  BY <1>1, <1>4, <1>s, LoopExists
<1>6. PICK f : Computes(f, S, s, n, G)
  BY <1>5
<1>7. Is(f)
  <2>1. ASSUME NEW k \in 1 .. n
        PROVE  f[k] = PackIntN(f[k - 1], q[k])
    <3>1. f[k - 1] \in S
      BY <1>1, <1>6 DEF Computes
    <3>2. f[k] = G[k][f[k - 1]]
      BY <1>6 DEF Computes
    <3> QED  BY <3>1, <3>2
  <2>2. f \in [0 .. n -> S] /\ f[0] = s
    BY <1>6 DEF Computes
  <2>3. \A k \in 0 .. n : f[k] = IF k = 0 THEN s ELSE PackIntN(f[k - 1], q[k])
    BY <1>1, <2>1, <2>2
  <2> QED  BY <2>2, <2>3
<1>8. Is(after)
  <2> HIDE DEF Is
  <2> QED  BY <1>7
<1> HIDE DEF after
<1>9. after[0] = s /\ \A k \in 1 .. n : after[k] = PackIntN(after[k - 1], q[k])
  BY <1>1, <1>8
<1> DEFINE j == Joins(q)
           T == {k \in 0 .. n : Written(s, after[k], j[k])}
<1>10. 0 \in T
  <2>1. Written(s, s, <<>>)
    <3>1. s.rep.bits_size \in Nat /\ Len(<<>>) = 0
      BY DEF PackStates, Indexes
    <3>2. ASSUME NEW w \in Words, NEW p \in Places
          PROVE  (w * WordBits + p) - s.rep.bits_size \notin 0 .. Len(<<>>) - 1
      BY <3>1
    <3>3. s.rep.bits_size = s.rep.bits_size + Len(<<>>)
      BY <3>1
    <3> QED  BY <3>2, <3>3 DEF Written
  <2>2. j[0] = <<>>
    BY <1>1, JoinsFacts
  <2> QED  BY <1>1, <1>9, <2>1, <2>2
<1>11. ASSUME NEW k \in 1 .. n, k - 1 \in T
       PROVE  k \in T
  <2>1. Written(s, after[k - 1], j[k - 1])
    BY <1>11
  <2>2. after[k - 1] \in S
    BY <2>1 DEF Written, S
  <2>3. Written(after[k - 1], after[k], q[k])
    BY <1>3, <1>9, <2>2
  <2>4. j[k - 1] \in BitSeq /\ q[k] \in BitSeq /\ j[k] = j[k - 1] \o q[k]
    <3>1. k - 1 \in 0 .. n
      BY <1>1
    <3> QED  BY <1>1, <3>1, JoinsFacts DEF n
  <2>5. Written(s, after[k], j[k - 1] \o q[k])
    BY <2>1, <2>3, <2>4, WrittenThen
  <2>6. Written(s, after[k], j[k])
    BY <2>4, <2>5
  <2> QED  BY <1>1, <2>6
<1> HIDE DEF T
<1>12. 0 .. n \subseteq T
  BY <1>1, <1>10, <1>11, InductionTo
<1>13. Written(s, after[n], j[n])
  BY <1>1, <1>12 DEF T
<1> QED  BY <1>1, <1>2, <1>13, FlattenJoins DEF n

-----------------------------------------------------------------------------
(***************************************************************************)
(* Reading: unpack_int_n and the loops around it                           *)
(***************************************************************************)

\* The words hold the bits of z from the first place on.
Holds(c, z) ==
  /\ z \in BitSeq /\ Len(z) <= MaxWords * WordBits
  /\ \A w \in Words, p \in Places :
       w * WordBits + p < Len(z) => c[w][p] = z[w * WordBits + p + 1]

\* v comes in z behind a bits.
Behind(z, a, v) ==
  /\ a + Len(v) <= Len(z)
  /\ \A i \in 1 .. Len(v) : z[a + i] = v[i]

\* What t has read from s is v, and t stands behind it.
HasRead(s, t, v) ==
  /\ t.value = v
  /\ t.bits = s.bits
  /\ OnePlace(t.rep)
  /\ t.rep.bits_size = s.rep.bits_size + Len(v)

LEMMA BehindParts ==
  ASSUME NEW z \in BitSeq, NEW a \in Nat, NEW u \in BitSeq, NEW v \in BitSeq,
         Behind(z, a, u \o v)
  PROVE  Behind(z, a, u) /\ Behind(z, a + Len(u), v)
<1> DEFINE m == Len(u)
           n == Len(v)
           x == u \o v
           l == Len(z)
<1>1. m \in Nat /\ n \in Nat /\ Len(x) = m + n /\ l \in Nat
  BY BitSeqConcat, LenProperties DEF BitSeq
<1>2. /\ \A i \in 1 .. m : x[i] = u[i]
      /\ \A i \in 1 .. n : x[m + i] = v[i]
  BY ConcatPlaces
<1>3. a + (m + n) <= l /\ \A i \in 1 .. m + n : z[a + i] = x[i]
  BY <1>1 DEF Behind
<1> HIDE DEF m, n, x, l
<1>4. a + m <= l /\ (a + m) + n <= l
  BY <1>1, <1>3
<1>5. ASSUME NEW i \in 1 .. m
      PROVE  z[a + i] = u[i]
  <2>1. i \in 1 .. m + n
    BY <1>1
  <2> QED  BY <1>2, <1>3, <2>1
<1>6. ASSUME NEW i \in 1 .. n
      PROVE  z[(a + m) + i] = v[i]
  <2>1. m + i \in 1 .. m + n /\ (a + m) + i = a + (m + i)
    BY <1>1
  <2> QED  BY <1>2, <1>3, <2>1
<1> QED  BY <1>4, <1>5, <1>6 DEF Behind, m, n, l

LEMMA TakeBitsRight ==
  ASSUME NEW s, OnePlace(s.rep), NEW z, Holds(s.bits, z), NEW v \in BitSeq,
         Behind(z, s.rep.bits_size, v), Len(v) <= WordBits - s.rep.bit_index
  PROVE  LET t == TakeBits(s, Len(v))
         IN /\ HasRead(s, t, v)
            /\ Len(v) = WordBits - s.rep.bit_index => t.rep.bit_index = 0
            /\ Len(v) = 0 => t.rep.bit_index = s.rep.bit_index
<1> DEFINE b == s.rep.bit_index
           w == s.rep.ptr
           a == s.rep.bits_size
           n == Len(v)
           l == Len(z)
           t == TakeBits(s, n)
           x == w * WordBits
<1>1. /\ WordBits \in Nat /\ WordBits > 0 /\ b \in Places /\ b \in 0 .. WordBits - 1 /\ w \in Nat
      /\ a \in Nat /\ a = x + b /\ n \in Nat /\ x \in Nat /\ n <= WordBits - b
  BY WordBitsAssumption, LenProperties DEF OnePlace, Indexes, Places, BitSeq
<1>2. /\ OnePlace(t.rep) /\ t.rep.bits_size = a + n
      /\ n = WordBits - b => t.rep.bit_index = 0
      /\ n = 0 => t.rep.bit_index = b
  BY <1>1, UpdateIndexesRight DEF TakeBits
<1>3. /\ l \in Nat /\ l <= MaxWords * WordBits
      /\ a + n <= l /\ \A i \in 1 .. n : z[a + i] = v[i]
  BY LenProperties DEF Holds, Behind, BitSeq
<1>4. ASSUME NEW i \in 1 .. n
      PROVE  s.bits[w][b + i - 1] = v[i]
  <2>1. w \in Words
    <3>1. SUFFICES ASSUME ~(w < MaxWords) PROVE FALSE
      BY <1>1, MaxWordsAssumption DEF Words
    <3>2. MaxWords * WordBits \in Nat /\ MaxWords * WordBits <= x
      <4>1. CASE MaxWords = w
        BY <1>1, <4>1
      <4>2. CASE MaxWords < w
        <5>1. MaxWords * WordBits + WordBits <= x
          BY <1>1, <4>2, MaxWordsAssumption, WordsInOrder
        <5>2. MaxWords * WordBits \in Nat
          BY <1>1, MaxWordsAssumption
        <5> HIDE DEF x
        <5> QED  BY <1>1, <5>1, <5>2
      <4> QED  BY <1>1, <3>1, <4>1, <4>2, MaxWordsAssumption
    <3> DEFINE y == MaxWords * WordBits
    <3>3. y \in Nat /\ y <= x /\ a = x + b /\ n >= 1 /\ a + n <= l /\ l <= y /\ b \in Nat
          /\ x \in Nat /\ n \in Nat /\ l \in Nat
      BY <1>1, <1>3, <3>2
    <3> HIDE DEF x, y, a, b, n, l
    <3> QED  BY <3>3
  <2>2. b + i - 1 \in Places
    <3>1. b \in Nat /\ n \in Nat /\ n <= WordBits - b /\ WordBits \in Nat /\ i \in 1 .. n
      BY <1>1
    <3> HIDE DEF b, n
    <3> QED  BY <3>1 DEF Places
  <2> DEFINE p == b + i - 1
  <2>3. x + p + 1 = a + i /\ x + p < l
    <3>1. /\ b \in Nat /\ a = x + b /\ a + n <= l
          /\ n \in Nat /\ x \in Nat /\ l \in Nat /\ i \in 1 .. n
      BY <1>1, <1>3
    <3> HIDE DEF x, a, b, n, l
    <3> QED  BY <3>1
  <2>4. p \in Places /\ w * WordBits + p < Len(z)
    BY <2>2, <2>3
  <2> HIDE DEF p
  <2>5. s.bits[w][p] = z[w * WordBits + p + 1]
    BY <2>1, <2>4 DEF Holds
  <2>6. s.bits[w][p] = z[a + i]
    BY <2>3, <2>5
  <2> QED  BY <1>3, <2>6 DEF p
<1>5. t.value = v /\ t.bits = s.bits
  <2>1. t.value = [i \in 1 .. n |-> s.bits[w][b + i - 1]]
    BY DEF TakeBits
  <2>2. v = [i \in 1 .. n |-> v[i]]
    BY LenProperties DEF BitSeq
  <2> HIDE DEF n, b, w, t
  <2>3. t.value = v
    BY <1>4, <2>1, <2>2
  <2> QED  BY <2>3 DEF t, TakeBits
<1> HIDE DEF t
<1>6. HasRead(s, t, v)
  BY <1>2, <1>5 DEF HasRead
<1> QED  BY <1>2, <1>6 DEF t

LEMMA UnpackIntNRight ==
  ASSUME NEW s, OnePlace(s.rep), NEW z, Holds(s.bits, z), NEW v \in BitSeq,
         Behind(z, s.rep.bits_size, v), Len(v) <= MaxWidth
  PROVE  HasRead(s, UnpackIntN(s, Len(v)), v)
<1> DEFINE a == s.rep.bits_size
           b == s.rep.bit_index
           k == Stages(b, Len(v))
           u1 == RightOf(v, b)
           u2 == MidOf(v, b)
           u3 == LeftOf(v, b)
           s1 == TakeBits(s, k.right)
           s2 == TakeBits(s1, k.mid)
           s3 == TakeBits(s2, k.left)
           t == UnpackIntN(s, Len(v))
<1>1. b \in Places /\ Len(v) \in Nat /\ a \in Nat
  BY LenProperties DEF OnePlace, Indexes, BitSeq
<1>2. /\ u1 \in BitSeq /\ Len(u1) = k.right
      /\ u2 \in BitSeq /\ Len(u2) = k.mid
      /\ u3 \in BitSeq /\ Len(u3) = k.left
      /\ v = (u1 \o u2) \o u3
  BY <1>1, ThreeParts
<1>3. /\ k.right \in Nat /\ k.mid \in Nat /\ k.left \in Nat
      /\ k.right <= WordBits - b /\ k.mid \in {0, WordBits} /\ k.left <= WordBits
      /\ k.mid # 0 \/ k.left # 0 => k.right = WordBits - b
      /\ Len(v) = k.right + k.mid + k.left
  BY <1>1, StagesFit
<1>4. /\ t.value = s1.value \o s2.value \o s3.value
      /\ t.bits = s3.bits /\ t.rep = s3.rep
  BY DEF UnpackIntN, TakeBits
<1>w. WordBits \in Nat /\ WordBits > 0 /\ b \in 0 .. WordBits - 1
  BY WordBitsAssumption, <1>1 DEF Places
<1>z. z \in BitSeq
  BY DEF Holds
<1> HIDE DEF k, u1, u2, u3, s1, s2, s3, t, a
<1>5. /\ Behind(z, a, u1) /\ Behind(z, a + Len(u1), u2)
      /\ Behind(z, a + Len(u1 \o u2), u3)
      /\ Len(u1 \o u2) = Len(u1) + Len(u2)
  <2>1. u1 \o u2 \in BitSeq /\ Len(u1 \o u2) = Len(u1) + Len(u2)
    BY <1>2, BitSeqConcat
  <2>2. Behind(z, a, (u1 \o u2) \o u3)
    BY <1>2 DEF a
  <2>3. Behind(z, a, u1 \o u2) /\ Behind(z, a + Len(u1 \o u2), u3)
    BY <1>1, <1>2, <1>z, <2>1, <2>2, BehindParts
  <2> QED  BY <1>1, <1>2, <1>z, <2>1, <2>3, BehindParts
<1>6. /\ HasRead(s, s1, u1)
      /\ Len(u1) = WordBits - b => s1.rep.bit_index = 0
  BY <1>2, <1>3, <1>5, TakeBitsRight DEF s1, a
<1>7. /\ OnePlace(s1.rep) /\ s1.rep.bit_index \in 0 .. WordBits - 1
      /\ s1.bits = s.bits /\ s1.rep.bits_size = a + Len(u1)
  BY <1>6 DEF HasRead, OnePlace, Indexes, Places, a
<1>8. Len(u2) <= WordBits - s1.rep.bit_index
  <2>1. CASE k.mid = 0
    BY <1>2, <1>7, <1>w, <2>1
  <2>2. CASE k.mid # 0
    <3>1. s1.rep.bit_index = 0
      BY <1>2, <1>3, <1>6, <2>2
    <3> QED  BY <1>2, <1>3, <1>w, <3>1
  <2> QED  BY <2>1, <2>2
<1>9. /\ HasRead(s1, s2, u2)
      /\ Len(u2) = WordBits - s1.rep.bit_index => s2.rep.bit_index = 0
      /\ Len(u2) = 0 => s2.rep.bit_index = s1.rep.bit_index
  <2>1. Holds(s1.bits, z) /\ Behind(z, s1.rep.bits_size, u2) /\ k.mid = Len(u2)
    BY <1>2, <1>5, <1>7
  <2>2. u2 \in BitSeq /\ OnePlace(s1.rep) /\ s2 = TakeBits(s1, Len(u2))
    BY <1>2, <1>7, <2>1 DEF s2
  <2> QED  BY <1>8, <2>1, <2>2, TakeBitsRight
<1>10. /\ OnePlace(s2.rep) /\ s2.rep.bit_index \in 0 .. WordBits - 1
       /\ s2.bits = s.bits /\ s2.rep.bits_size = a + Len(u1) + Len(u2)
  BY <1>7, <1>9 DEF HasRead, OnePlace, Indexes, Places
<1>11. Len(u3) <= WordBits - s2.rep.bit_index
  <2>1. CASE k.left = 0
    BY <1>2, <1>10, <1>w, <2>1
  <2>2. CASE k.left # 0
    <3>1. s1.rep.bit_index = 0
      BY <1>2, <1>3, <1>6, <2>2
    <3>2. s2.rep.bit_index = 0
      BY <1>2, <1>3, <1>9, <1>w, <3>1
    <3> QED  BY <1>2, <1>3, <1>w, <3>2
  <2> QED  BY <2>1, <2>2
<1>12. s2.rep.bits_size = a + Len(u1 \o u2)
  <2>1. Len(u1) \in Nat /\ Len(u2) \in Nat
    BY <1>2, <1>3, WordBitsAssumption
  <2> QED  BY <1>1, <1>5, <1>10, <2>1
<1>13. HasRead(s2, s3, u3)
  BY <1>2, <1>5, <1>10, <1>11, <1>12, TakeBitsRight DEF s3
<1>14. t.value = v
  <2>1. s1.value = u1 /\ s2.value = u2 /\ s3.value = u3
    BY <1>6, <1>9, <1>13 DEF HasRead
  <2> QED  BY <1>2, <1>4, <2>1
<1>15. t.bits = s.bits /\ OnePlace(t.rep)
  BY <1>4, <1>10, <1>13 DEF HasRead
<1>16. t.rep.bits_size = a + Len(v)
  <2>1. t.rep.bits_size = s2.rep.bits_size + Len(u3)
    BY <1>4, <1>13 DEF HasRead
  <2> QED  BY <1>1, <1>2, <1>3, <1>10, <2>1
<1> QED  BY <1>14, <1>15, <1>16 DEF HasRead, t, a

\* The next in the buffer of s are the pieces q.
NextAre(s, z, q) ==
  /\ OnePlace(s.rep) /\ Holds(s.bits, z) /\ PiecesOK(q)
  /\ Behind(z, s.rep.bits_size, FlattenSeq(q))

\* The widths are theirs, and perhaps some more.
WidthsOf(widths, q) ==
  /\ widths \in Seq(Nat) /\ Len(q) <= Len(widths)
  /\ \A k \in 1 .. Len(widths) : widths[k] <= MaxWidth
  /\ \A k \in 1 .. Len(q) : widths[k] = Len(q[k])

\* They are read one after the other.
AreRead(s, read, q) ==
  /\ \A k \in 1 .. Len(q) : read[k].value = q[k]
  /\ \A k \in 0 .. Len(q) :
       /\ OnePlace(read[k].rep)
       /\ read[k].rep.bits_size = s.rep.bits_size + Len(Joins(q)[k])

\* Pieces that come in z one behind the other are read, whatever is read after them.
LEMMA ReadsRight ==
  ASSUME NEW s, NEW z, NEW q, NextAre(s, z, q), NEW widths, WidthsOf(widths, q)
  PROVE  AreRead(s, Reads(s, widths), q)
<1> DEFINE n == Len(q)
           m == Len(widths)
           c == s.bits
           a == s.rep.bits_size
           start == [value |-> <<>>, bits |-> c, rep |-> s.rep]
           U == {c[w][p] : w \in Nat, p \in Nat}
           S == [value : Seq(U), bits : {c}, rep : Indexes]
           G == [k \in 1 .. m |-> [t \in S |-> UnpackIntN(t, widths[k])]]
           Is(f) == f = [k \in 0 .. m |-> IF k = 0 THEN start ELSE UnpackIntN(f[k - 1], widths[k])]
           read == CHOOSE f : Is(f)
<1>0. /\ OnePlace(s.rep) /\ Holds(s.bits, z) /\ PiecesOK(q)
      /\ Behind(z, s.rep.bits_size, FlattenSeq(q))
      /\ widths \in Seq(Nat) /\ Len(q) <= Len(widths)
      /\ \A k \in 1 .. Len(widths) : widths[k] <= MaxWidth
      /\ \A k \in 1 .. Len(q) : widths[k] = Len(q[k])
  BY DEF NextAre, WidthsOf
<1> USE <1>0
<1>1. n \in Nat /\ m \in Nat /\ n <= m /\ q \in Seq(BitSeq)
  BY JoinsFacts, LenProperties DEF PiecesOK
<1>2. \A k \in 1 .. m : widths[k] \in Nat
  BY ElementOfSeq
<1>3. Reads(s, widths) = read
  BY DEF Reads
<1>4. start \in S
  <2>1. <<>> \in Seq(U)
    <3> HIDE DEF U
    <3> QED  BY EmptySeq
  <2> HIDE DEF U
  <2> QED  BY <2>1 DEF OnePlace
<1>5. ASSUME NEW t \in S, NEW r \in Nat
      PROVE  TakeBits(t, r) \in S
  <2>1. t.bits = c /\ t.rep \in Indexes
    OBVIOUS
  <2>2. t.rep.ptr \in Nat /\ t.rep.bit_index \in Nat /\ t.rep.bit_index < WordBits
        /\ t.rep.bits_size \in Nat /\ WordBits \in Nat
    BY <2>1, WordBitsAssumption DEF Indexes, Places
  <2> DEFINE v == [i \in 1 .. r |-> c[t.rep.ptr][t.rep.bit_index + i - 1]]
  <2>3. ASSUME NEW i \in 1 .. r
        PROVE  c[t.rep.ptr][t.rep.bit_index + i - 1] \in U
    <3>1. t.rep.bit_index + i - 1 \in Nat
      BY <2>2
    <3> QED  BY <2>2, <3>1
  <2>4. v \in Seq(U)
    <3> HIDE DEF U
    <3> QED  BY <2>3
  <2>5. UpdateIndexes(t.rep, r) \in Indexes
    <3>1. CASE t.rep.bit_index + r >= WordBits
      BY <2>2, <3>1 DEF UpdateIndexes, Indexes, Places
    <3>2. CASE t.rep.bit_index + r < WordBits
      BY <2>2, <3>2 DEF UpdateIndexes, Indexes, Places
    <3> QED  BY <2>2, <3>1, <3>2
  <2> HIDE DEF U
  <2> QED  BY <2>1, <2>4, <2>5 DEF TakeBits
<1>6. ASSUME NEW k \in 1 .. m, NEW t \in S
      PROVE  UnpackIntN(t, widths[k]) \in S
  <2> DEFINE r == widths[k]
             b == t.rep.bit_index
             st == Stages(b, r)
             t1 == TakeBits(t, st.right)
             t2 == TakeBits(t1, st.mid)
             t3 == TakeBits(t2, st.left)
  <2>1. b \in Places /\ r \in Nat /\ r <= MaxWidth
    BY <1>2 DEF Indexes
  <2>2. st.right \in Nat /\ st.mid \in Nat /\ st.left \in Nat
    BY <2>1, StagesFit
  <2>3. t1 \in S /\ t2 \in S /\ t3 \in S
    <3> HIDE DEF S, st
    <3> QED  BY <1>5, <2>2
  <2>4. UnpackIntN(t, r) = [t3 EXCEPT !.value = t1.value \o t2.value \o t3.value]
    BY DEF UnpackIntN
  <2> HIDE DEF U, t1, t2, t3, r
  <2>5. t1.value \in Seq(U) /\ t2.value \in Seq(U) /\ t3.value \in Seq(U)
    BY <2>3
  <2>6. t1.value \o t2.value \o t3.value \in Seq(U)
    BY <2>5, ConcatProperties
  <2>7. UnpackIntN(t, r) \in S
    BY <2>3, <2>4, <2>6
  <2> QED  BY <2>7 DEF r
<1>7. G \in [1 .. m -> [S -> S]]
  <2> HIDE DEF S
  <2> QED  BY <1>6
<1>8. PICK f : Computes(f, S, start, m, G)
  <2> HIDE DEF G, S, start
  <2> QED  BY <1>1, <1>4, <1>7, LoopExists
<1> HIDE DEF S
<1>9. Is(f)
  <2>1. ASSUME NEW k \in 1 .. m
        PROVE  f[k] = UnpackIntN(f[k - 1], widths[k])
    <3>1. f[k - 1] \in S /\ f[k] = G[k][f[k - 1]]
      <4> HIDE DEF G
      <4>1. f \in [0 .. m -> S] /\ k - 1 \in 0 .. m
        BY <1>1, <1>8 DEF Computes
      <4>2. f[k] = G[k][f[k - 1]]
        BY <1>8 DEF Computes
      <4> QED  BY <4>1, <4>2
    <3> QED  BY <3>1
  <2>2. f \in [0 .. m -> S] /\ f[0] = start
    BY <1>8 DEF Computes
  <2> HIDE DEF start
  <2>3. \A k \in 0 .. m : f[k] = IF k = 0 THEN start ELSE UnpackIntN(f[k - 1], widths[k])
    BY <1>1, <2>1, <2>2
  <2> QED  BY <2>2, <2>3
<1>10. Is(read)
  <2> HIDE DEF Is
  <2> QED  BY <1>9
<1> HIDE DEF read, start
<1>11. /\ read[0] = start
       /\ \A k \in 1 .. m : read[k] = UnpackIntN(read[k - 1], widths[k])
  <2>1. \A k \in 0 .. m :
          read[k] = IF k = 0 THEN start ELSE UnpackIntN(read[k - 1], widths[k])
    BY <1>10
  <2>2. 0 \in 0 .. m /\ \A k \in 1 .. m : k \in 0 .. m /\ k # 0
    BY <1>1
  <2> HIDE DEF m
  <2> QED  BY <2>1, <2>2
<1> DEFINE j == Joins(q)
           T == {k \in 0 .. n : /\ read[k].bits = c
                                /\ OnePlace(read[k].rep)
                                /\ read[k].rep.bits_size = a + Len(j[k])}
<1>12. 0 \in T
  <2>1. read[0].bits = c /\ read[0].rep = s.rep
    BY <1>11 DEF start
  <2>2. Len(j[0]) = 0
    BY <1>1, JoinsFacts
  <2>3. a = a + 0
    BY DEF OnePlace, Indexes
  <2> QED  BY <1>1, <2>1, <2>2, <2>3
<1>13. ASSUME NEW k \in 1 .. n, k - 1 \in T
       PROVE  k \in T /\ read[k].value = q[k]
  <2> DEFINE t == read[k - 1]
             v == q[k]
  <2>1. t.bits = c /\ OnePlace(t.rep) /\ t.rep.bits_size = a + Len(j[k - 1])
    BY <1>13
  <2>2. k \in 1 .. m /\ widths[k] = Len(v) /\ widths[k] <= MaxWidth
    BY <1>1
  <2>3. read[k] = UnpackIntN(t, Len(v))
    BY <1>11, <2>2
  <2>4. /\ k - 1 \in 0 .. n /\ v \in BitSeq /\ Len(v) \in Nat /\ Len(j[k - 1]) \in Nat
        /\ Len(j[k]) = Len(j[k - 1]) + Len(v)
    <3>1. k - 1 \in 0 .. n
      BY <1>1
    <3> QED  BY <1>1, <3>1, JoinsFacts
  <2>5. Behind(z, a + Len(j[k - 1]), v)
    <3> DEFINE x == FlattenSeq(q)
               h == Len(j[k - 1])
    <3>1. /\ h + Len(v) <= Len(x)
          /\ \A i \in 1 .. Len(v) : x[h + i] = v[i]
      BY <1>1, PieceAt
    <3>2. a + Len(x) <= Len(z) /\ \A i \in 1 .. Len(x) : z[a + i] = x[i]
      BY DEF Behind
    <3>3. a \in Nat /\ h \in Nat /\ Len(x) \in Nat /\ Len(z) \in Nat /\ Len(v) \in Nat
      BY <1>1, <2>4, FlattenJoins, LenProperties DEF OnePlace, Indexes, Holds, BitSeq
    <3> HIDE DEF x, h, a, v
    <3>4. (a + h) + Len(v) <= Len(z)
      BY <3>1, <3>2, <3>3
    <3>5. ASSUME NEW i \in 1 .. Len(v)
          PROVE  z[(a + h) + i] = v[i]
      <4>1. h + i \in 1 .. Len(x) /\ (a + h) + i = a + (h + i)
        BY <3>1, <3>3
      <4> QED  BY <3>1, <3>2, <4>1
    <3> QED  BY <3>4, <3>5 DEF Behind, h
  <2>6. HasRead(t, read[k], v)
    <3> HIDE DEF t, v
    <3>1. Holds(t.bits, z) /\ Len(v) <= MaxWidth
      BY <2>1, <2>2
    <3>2. Behind(z, t.rep.bits_size, v)
      BY <2>1, <2>5
    <3>3. HasRead(t, UnpackIntN(t, Len(v)), v)
      BY <2>1, <2>4, <3>1, <3>2, UnpackIntNRight
    <3> QED  BY <2>3, <3>3
  <2>7. read[k].value = v /\ read[k].bits = c /\ OnePlace(read[k].rep)
        /\ read[k].rep.bits_size = t.rep.bits_size + Len(v)
    BY <2>1, <2>6 DEF HasRead
  <2>8. read[k].rep.bits_size = a + Len(j[k])
    <3>1. a \in Nat
      BY DEF OnePlace, Indexes
    <3> HIDE DEF a, t, v
    <3> QED  BY <2>1, <2>4, <2>7, <3>1
  <2> QED  BY <1>1, <2>7, <2>8
<1> HIDE DEF T
<1>14. 0 .. n \subseteq T
  BY <1>1, <1>12, <1>13, InductionTo
<1>15. ASSUME NEW k \in 1 .. n
       PROVE  read[k].value = q[k]
  <2>1. k - 1 \in T
    <3>1. k - 1 \in 0 .. n
      BY <1>1
    <3> HIDE DEF n
    <3> QED  BY <1>14, <3>1
  <2> QED  BY <1>13, <2>1
<1>16. ASSUME NEW k \in 0 .. n
       PROVE  /\ OnePlace(read[k].rep)
              /\ read[k].rep.bits_size = a + Len(j[k])
  BY <1>14 DEF T
<1> QED  BY <1>3, <1>15, <1>16 DEF AreRead

\* As many values as there are pieces: they arrive.
LEMMA UnpackAllRight ==
  ASSUME NEW s, NEW z, NEW q, NextAre(s, z, q),
         NEW widths, WidthsOf(widths, q), Len(widths) = Len(q)
  PROVE  /\ UnpackAll(s, widths).value = q
         /\ OnePlace(UnpackAll(s, widths).rep)
         /\ UnpackAll(s, widths).rep.bits_size = s.rep.bits_size + Len(FlattenSeq(q))
<1> DEFINE n == Len(q)
           read == Reads(s, widths)
<1>1. n \in Nat /\ q \in Seq(BitSeq) /\ DOMAIN widths = 1 .. n /\ q = [k \in 1 .. n |-> q[k]]
  <2>1. q \in Seq(BitSeq) /\ widths \in Seq(Nat)
    BY DEF NextAre, PiecesOK, WidthsOf
  <2> QED  BY <2>1, LenProperties
<1>4. /\ \A k \in 1 .. n : read[k].value = q[k]
      /\ \A k \in 0 .. n : /\ OnePlace(read[k].rep)
                           /\ read[k].rep.bits_size = s.rep.bits_size + Len(Joins(q)[k])
  <2>1. AreRead(s, Reads(s, widths), q)
    BY ReadsRight
  <2> HIDE DEF n, read
  <2>2. \A k \in 0 .. Len(q) :
          /\ OnePlace(Reads(s, widths)[k].rep)
          /\ Reads(s, widths)[k].rep.bits_size = s.rep.bits_size + Len(Joins(q)[k])
    BY <2>1, Zenon DEF AreRead
  <2>3. \A k \in 1 .. Len(q) : Reads(s, widths)[k].value = q[k]
    BY <2>1, Zenon DEF AreRead
  <2> QED  BY <2>2, <2>3, Zenon DEF n, read
<1>5. UnpackAll(s, widths) = [value |-> [k \in 1 .. n |-> read[k].value], rep |-> read[n].rep]
  BY <1>1 DEF UnpackAll
<1> HIDE DEF read, n
<1>6. [k \in 1 .. n |-> read[k].value] = q
  BY <1>1, <1>4
<1>7. n \in 0 .. n
  BY <1>1
<1>8. FlattenSeq(q) = Joins(q)[n]
  BY <1>1, FlattenJoins DEF n
<1> QED  BY <1>4, <1>5, <1>6, <1>7, <1>8

-----------------------------------------------------------------------------
(***************************************************************************)
(* Numbers: their bits                                                     *)
(***************************************************************************)

LEMMA PowerFacts ==
  /\ \A n \in 0 .. WordBits : PowerOfTwo[n] \in Nat
  /\ PowerOfTwo[0] = 1
  /\ \A n \in 1 .. WordBits : PowerOfTwo[n] = 2 * PowerOfTwo[n - 1]
<1> DEFINE m == WordBits
           G == [k \in 1 .. m |-> [x \in Nat |-> 2 * x]]
           Is(f) == f = [n \in 0 .. m |-> IF n = 0 THEN 1 ELSE 2 * f[n - 1]]
           p == CHOOSE f : Is(f)
<1>1. m \in Nat
  BY WordBitsAssumption
<1> HIDE DEF m
<1>2. G \in [1 .. m -> [Nat -> Nat]]
  OBVIOUS
<1>3. PICK f : Computes(f, Nat, 1, m, G)
  <2> HIDE DEF G
  <2> QED  BY <1>1, <1>2, LoopExists
<1>4. f \in [0 .. m -> Nat] /\ f[0] = 1
  BY <1>3 DEF Computes
<1>5. ASSUME NEW k \in 1 .. m
      PROVE  f[k] = 2 * f[k - 1]
  <2>1. f[k] = G[k][f[k - 1]]
    BY <1>3 DEF Computes
  <2>2. f[k - 1] \in Nat
    BY <1>1, <1>4
  <2> QED  BY <2>1, <2>2
<1>6. Is(f)
  BY <1>1, <1>4, <1>5
<1>7. Is(p)
  <2> HIDE DEF Is
  <2> QED  BY <1>6
<1>8. p = PowerOfTwo
  BY DEF p, PowerOfTwo, m
<1> HIDE DEF p
<1>9. p[0] = 1 /\ \A k \in 1 .. m : p[k] = 2 * p[k - 1]
  BY <1>1, <1>7
<1> DEFINE T == {n \in 0 .. m : p[n] \in Nat}
<1>10. 0 .. m \subseteq T
  <2>1. 0 \in T
    BY <1>1, <1>9
  <2>2. ASSUME NEW k \in 1 .. m, k - 1 \in T
        PROVE  k \in T
    BY <1>1, <1>9, <2>2
  <2> HIDE DEF T
  <2> QED  BY <1>1, <2>1, <2>2, InductionTo
<1> QED  BY <1>8, <1>9, <1>10 DEF m

LEMMA ShiftedFacts ==
  ASSUME NEW k \in Nat, NEW n \in Nat
  PROVE  /\ \A i \in 0 .. n : Shifted(k, n)[i] \in Nat
         /\ Shifted(k, n)[0] = k
         /\ \A i \in 1 .. n : Shifted(k, n)[i] = Shifted(k, n)[i - 1] \div 2
<1> DEFINE G == [i \in 1 .. n |-> [x \in Nat |-> x \div 2]]
           Is(f) == f = [i \in 0 .. n |-> IF i = 0 THEN k ELSE f[i - 1] \div 2]
           p == CHOOSE f : Is(f)
<1>2. G \in [1 .. n -> [Nat -> Nat]]
  OBVIOUS
<1>3. PICK f : Computes(f, Nat, k, n, G)
  <2> HIDE DEF G
  <2> QED  BY <1>2, LoopExists
<1>4. f \in [0 .. n -> Nat] /\ f[0] = k
  BY <1>3 DEF Computes
<1>5. ASSUME NEW i \in 1 .. n
      PROVE  f[i] = f[i - 1] \div 2
  <2>1. f[i] = G[i][f[i - 1]]
    BY <1>3 DEF Computes
  <2>2. f[i - 1] \in Nat
    BY <1>4
  <2> QED  BY <2>1, <2>2
<1>6. Is(f)
  BY <1>4, <1>5
<1>7. Is(p)
  <2> HIDE DEF Is
  <2> QED  BY <1>6
<1>8. p = Shifted(k, n)
  BY DEF p, Shifted
<1> HIDE DEF p
<1>9. p[0] = k /\ \A i \in 1 .. n : p[i] = p[i - 1] \div 2
  BY <1>7
<1> DEFINE T == {i \in 0 .. n : p[i] \in Nat}
<1>10. 0 .. n \subseteq T
  <2>1. 0 \in T
    BY <1>9
  <2>2. ASSUME NEW i \in 1 .. n, i - 1 \in T
        PROVE  i \in T
    BY <1>9, <2>2
  <2> HIDE DEF T
  <2> QED  BY <2>1, <2>2, InductionTo
<1> QED  BY <1>8, <1>9, <1>10

LEMMA NumberIsBits ==
  ASSUME NEW k \in Nat, NEW n \in Nat
  PROVE  /\ Number(k, n) \in BitSeq /\ Len(Number(k, n)) = n
         /\ \A i \in 1 .. n : Number(k, n)[i] = Shifted(k, n)[i - 1] % 2
<1> DEFINE p == Shifted(k, n)
<1>1. ASSUME NEW i \in 1 .. n
      PROVE  p[i - 1] % 2 \in Bit
  <2>1. p[i - 1] \in Nat
    BY ShiftedFacts
  <2> QED  BY <2>1 DEF Bit
<1> HIDE DEF p
<1>2. Number(k, n) = [i \in 1 .. n |-> p[i - 1] % 2]
  BY DEF Number, p
<1>3. [i \in 1 .. n |-> p[i - 1] % 2] \in Seq(Bit)
  BY <1>1
<1>4. Len(Number(k, n)) = n
  BY <1>2
<1> QED  BY <1>2, <1>3, <1>4 DEF BitSeq, p

\* The bits of a number that a word can hold give the number back.
LEMMA NumberOfNumber ==
  ASSUME NEW k \in Nat, k < PowerOfTwo[WordBits]
  PROVE  NumberOf(Number(k, WordBits)) = k
<1> DEFINE n == WordBits
           v == Number(k, n)
           p == Shifted(k, n)
           Is(f) == f = [i \in 0 .. Len(v) |->
                           IF i = 0 THEN 0 ELSE 2 * f[i - 1] + v[Len(v) - i + 1]]
           h == CHOOSE f : Is(f)
           g == [i \in 0 .. n |-> p[n - i]]
<1>1. n \in Nat
  BY WordBitsAssumption
<1>2. /\ \A i \in 0 .. n : p[i] \in Nat
      /\ p[0] = k
      /\ \A i \in 1 .. n : p[i] = p[i - 1] \div 2
  BY <1>1, ShiftedFacts
<1>3. /\ Len(v) = n
      /\ \A i \in 1 .. n : v[i] = p[i - 1] % 2
  BY <1>1, NumberIsBits
<1>4. NumberOf(v) = h[Len(v)]
  BY DEF NumberOf
<1>p. /\ \A i \in 0 .. n : PowerOfTwo[i] \in Nat
      /\ PowerOfTwo[0] = 1
      /\ \A i \in 1 .. n : PowerOfTwo[i] = 2 * PowerOfTwo[i - 1]
      /\ k < PowerOfTwo[n]
  BY PowerFacts
<1> HIDE DEF n, v, p
<1> DEFINE T == {i \in 0 .. n : p[i] < PowerOfTwo[n - i]}
<1>5. 0 .. n \subseteq T
  <2>1. 0 \in T
    BY <1>1, <1>2, <1>p
  <2>2. ASSUME NEW i \in 1 .. n, i - 1 \in T
        PROVE  i \in T
    <3> DEFINE a == p[i - 1]
               b == PowerOfTwo[n - i]
    <3>1. /\ i - 1 \in 0 .. n /\ n - i \in 0 .. n /\ (n - (i - 1)) \in 1 .. n
          /\ (n - (i - 1)) - 1 = n - i
      BY <1>1
    <3>2. a \in Nat /\ b \in Nat
      BY <1>2, <1>p, <3>1
    <3>3. a < PowerOfTwo[n - (i - 1)]
      BY <2>2
    <3>4. PowerOfTwo[n - (i - 1)] = 2 * b
      BY <1>p, <3>1
    <3> HIDE DEF a, b
    <3>5. a \div 2 < b
      BY <3>2, <3>3, <3>4
    <3>6. p[i] = a \div 2
      BY <1>2 DEF a
    <3>7. p[i] < b
      BY <3>5, <3>6
    <3> QED  BY <1>1, <3>7 DEF b
  <2> HIDE DEF T
  <2> QED  BY <1>1, <2>1, <2>2, InductionTo
<1>6. p[n] = 0
  <2>1. n \in T
    BY <1>1, <1>5
  <2>2. n - n = 0 /\ p[n] \in Nat
    BY <1>1, <1>2
  <2> QED  BY <1>p, <2>1, <2>2
<1>7. Is(g)
  <2>1. \A i \in 0 .. n : g[i] = p[n - i]
    OBVIOUS
  <2>2. g[0] = 0
    BY <1>1, <1>6
  <2>3. ASSUME NEW i \in 1 .. n
        PROVE  g[i] = 2 * g[i - 1] + v[n - i + 1]
    <3> DEFINE a == p[n - i]
               m == n - i + 1
    <3>1. i - 1 \in 0 .. n /\ i \in 0 .. n /\ n - (i - 1) = m /\ m \in 1 .. n /\ m - 1 = n - i
          /\ n - i \in 0 .. n
      BY <1>1
    <3>2. g[i] = a /\ g[i - 1] = p[m]
      BY <3>1
    <3>3. a \in Nat
      BY <1>2, <3>1
    <3>4. p[m] = p[m - 1] \div 2
      BY <1>2, <3>1
    <3>5. p[m] = a \div 2 /\ v[m] = a % 2
      BY <1>3, <3>1, <3>4
    <3>6. a = 2 * (a \div 2) + (a % 2)
      <4> HIDE DEF a
      <4> QED  BY <3>3
    <3>7. g[i] = 2 * p[m] + v[m]
      BY <3>2, <3>5, <3>6
    <3> QED  BY <3>2, <3>7
  <2>4. g = [i \in 0 .. n |-> IF i = 0 THEN 0 ELSE 2 * g[i - 1] + v[n - i + 1]]
    <3>1. g = [i \in 0 .. n |-> g[i]]
      OBVIOUS
    <3> HIDE DEF g
    <3>2. \A i \in 0 .. n : g[i] = IF i = 0 THEN 0 ELSE 2 * g[i - 1] + v[n - i + 1]
      <4> TAKE i \in 0 .. n
      <4>1. CASE i = 0
        BY <2>2, <4>1
      <4>2. CASE i # 0
        <5>1. i \in 1 .. n
          BY <1>1, <4>2
        <5> QED  BY <2>3, <4>2, <5>1
      <4> QED  BY <4>1, <4>2
    <3> QED  BY <3>1, <3>2
  <2> HIDE DEF g
  <2> QED  BY <1>3, <2>4
<1>8. Is(h)
  <2> HIDE DEF Is, g
  <2> QED  BY <1>7
<1> HIDE DEF h
<1>9. /\ h[0] = 0
      /\ \A i \in 1 .. n : h[i] = 2 * h[i - 1] + v[n - i + 1]
  BY <1>1, <1>3, <1>8
<1>10. /\ g[0] = 0
       /\ \A i \in 1 .. n : g[i] = 2 * g[i - 1] + v[n - i + 1]
  <2> HIDE DEF g
  <2> QED  BY <1>1, <1>3, <1>7
<1> HIDE DEF g
<1> DEFINE E == {i \in 0 .. n : h[i] = g[i]}
<1>11. 0 .. n \subseteq E
  <2>1. 0 \in E
    BY <1>1, <1>9, <1>10
  <2>2. ASSUME NEW i \in 1 .. n, i - 1 \in E
        PROVE  i \in E
    <3>1. h[i - 1] = g[i - 1]
      BY <2>2
    <3>2. h[i] = 2 * h[i - 1] + v[n - i + 1] /\ g[i] = 2 * g[i - 1] + v[n - i + 1]
      BY <1>9, <1>10
    <3>3. h[i] = g[i]
      BY <3>1, <3>2, Zenon
    <3> QED  BY <1>1, <3>3
  <2> HIDE DEF E
  <2> QED  BY <1>1, <2>1, <2>2, InductionTo
<1>12. h[n] = g[n]
  BY <1>1, <1>11
<1>13. g[n] = k
  BY <1>1, <1>2 DEF g
<1> QED  BY <1>3, <1>4, <1>12, <1>13 DEF v, n

-----------------------------------------------------------------------------
(***************************************************************************)
(* The pieces of a field: what they are for each type                      *)
(***************************************************************************)

\* Pieces cut out of x one behind the other, at the places c, make up x.
LEMMA CutPieces ==
  ASSUME NEW x \in BitSeq, NEW q \in Seq(BitSeq), NEW c \in [0 .. Len(q) -> 0 .. Len(x)],
         c[0] = 0, c[Len(q)] = Len(x),
         \A k \in 1 .. Len(q) : c[k - 1] <= c[k] /\ q[k] = SubSeq(x, c[k - 1] + 1, c[k])
  PROVE  FlattenSeq(q) = x
<1> DEFINE n == Len(q)
           j == Joins(q)
           T == {k \in 0 .. n : j[k] = SubSeq(x, 1, c[k])}
<1>1. n \in Nat /\ Len(x) \in Nat /\ j[0] = <<>>
  BY JoinsFacts, LenProperties DEF BitSeq
<1>2. \A k \in 1 .. n : j[k] = j[k - 1] \o q[k]
  BY JoinsFacts
<1> HIDE DEF j, n
<1>3. 0 \in T
  <2>1. SubSeq(x, 1, 0) = <<>>
    BY SubSeqEmpty
  <2>2. j[0] = SubSeq(x, 1, c[0])
    BY <1>1, <2>1, Zenon
  <2> QED  BY <1>1, <2>2
<1>4. ASSUME NEW k \in 1 .. n, k - 1 \in T
      PROVE  k \in T
  <2> DEFINE a == c[k - 1]
             b == c[k]
  <2>1. a \in 0 .. Len(x) /\ b \in 0 .. Len(x) /\ a <= b /\ q[k] = SubSeq(x, a + 1, b)
    <3>1. k - 1 \in 0 .. n /\ k \in 0 .. n
      BY <1>1
    <3> QED  BY <3>1 DEF n
  <2>2. j[k - 1] = SubSeq(x, 1, a)
    BY <1>4
  <2> HIDE DEF a, b
  <2>3. SubSeq(x, 1, a) \o SubSeq(x, a + 1, b) = SubSeq(x, 1, b)
    <3>1. x \in Seq(Bit) /\ 1 \in 1 .. Len(x) + 1 /\ a \in 1 - 1 .. Len(x) /\ b \in a .. Len(x)
      BY <1>1, <2>1 DEF BitSeq
    <3> QED  BY <3>1, ConcatAdjacentSubSeq
  <2>4. j[k] = SubSeq(x, 1, b)
    BY <1>2, <2>1, <2>2, <2>3
  <2> QED  BY <1>1, <2>4 DEF b
<1> HIDE DEF T
<1>5. 0 .. n \subseteq T
  BY <1>1, <1>3, <1>4, InductionTo
<1>6. j[n] = SubSeq(x, 1, Len(x))
  <2>1. n \in T
    BY <1>1, <1>5
  <2> QED  BY <2>1 DEF T, n
<1>7. SubSeq(x, 1, Len(x)) = x
  BY SubSeqFull DEF BitSeq
<1> QED  BY <1>6, <1>7, FlattenJoins DEF j, n

\* The words of n bits: the last begins before their end.
LEMMA WordsOfBounds ==
  ASSUME NEW n \in Nat
  PROVE  /\ WordsOf(n) \in Nat
         /\ n <= WordsOf(n) * WordBits
         /\ WordsOf(n) * WordBits < n + WordBits
<1> DEFINE a == n + WordBits - 1
           q == a \div WordBits
           r == a % WordBits
<1>1. WordBits \in Nat /\ WordBits > 0 /\ a \in Nat
  BY WordBitsAssumption
<1>2. a = WordBits * q + r /\ r \in 0 .. WordBits - 1 /\ q \in Nat
  <2> HIDE DEF a
  <2> QED  BY <1>1
<1>3. WordBits * q = q * WordBits
  BY <1>1, <1>2
<1> DEFINE x == q * WordBits
<1>4. x \in Nat
  BY <1>1, <1>2
<1>5. n <= x /\ x < n + WordBits
  <2>1. n + WordBits - 1 = x + r
    BY <1>2, <1>3
  <2> HIDE DEF x, r
  <2> QED  BY <1>1, <1>2, <1>4, <2>1
<1> QED  BY <1>2, <1>5 DEF WordsOf

\* Where word k of n bits ends.
WordEnd(k, n) == IF k * WordBits <= n THEN k * WordBits ELSE n

LEMMA WordEndFacts ==
  ASSUME NEW n \in Nat
  PROVE  /\ \A k \in 0 .. WordsOf(n) : WordEnd(k, n) \in 0 .. n
         /\ WordEnd(0, n) = 0 /\ WordEnd(WordsOf(n), n) = n
         /\ \A k \in 1 .. WordsOf(n) :
              /\ WordEnd(k - 1, n) = (k - 1) * WordBits
              /\ WordPart(k - 1, n) \in 1 .. WordBits
              /\ WordEnd(k, n) = WordEnd(k - 1, n) + WordPart(k - 1, n)
<1> DEFINE m == WordsOf(n)
<1>1. WordBits \in Nat /\ WordBits > 0 /\ m \in Nat
  BY WordBitsAssumption, WordsOfBounds
<1>2. n <= m * WordBits /\ m * WordBits < n + WordBits
  BY WordsOfBounds
<1> HIDE DEF m
<1>3. ASSUME NEW k \in 0 .. m
      PROVE  WordEnd(k, n) \in 0 .. n
  <2>1. k * WordBits \in Nat
    BY <1>1
  <2> QED  BY <2>1 DEF WordEnd
<1>4. WordEnd(0, n) = 0
  <2>1. 0 * WordBits = 0
    BY <1>1
  <2> QED  BY <2>1 DEF WordEnd
<1>5. WordEnd(m, n) = n
  <2>1. m * WordBits \in Nat
    BY <1>1
  <2> QED  BY <1>2, <2>1 DEF WordEnd
<1>6. ASSUME NEW k \in 1 .. m
      PROVE  /\ WordEnd(k - 1, n) = (k - 1) * WordBits
             /\ WordPart(k - 1, n) \in 1 .. WordBits
             /\ WordEnd(k, n) = WordEnd(k - 1, n) + WordPart(k - 1, n)
  <2> DEFINE x == (k - 1) * WordBits
             y == k * WordBits
             z == m * WordBits
  <2>1. x \in Nat /\ y = x + WordBits /\ z \in Nat
    BY <1>1
  <2>2. y <= z
    <3>1. CASE k = m
      BY <2>1, <3>1
    <3>2. CASE k < m
      <4>1. y + WordBits <= z
        BY <1>1, <3>2, WordsInOrder
      <4> HIDE DEF x, y, z
      <4> QED  BY <1>1, <2>1, <4>1
    <3> QED  BY <1>1, <3>1, <3>2
  <2>3. /\ WordEnd(k - 1, n) = IF x <= n THEN x ELSE n
        /\ WordEnd(k, n) = IF y <= n THEN y ELSE n
        /\ WordPart(k - 1, n) = IF n - x >= WordBits THEN WordBits ELSE n - x
    BY DEF WordEnd, WordPart
  <2> HIDE DEF x, y
  <2>4. z < n + WordBits
    BY <1>2
  <2> HIDE DEF z
  <2>5. x < n
    BY <1>1, <2>1, <2>2, <2>4
  <2>6. WordEnd(k - 1, n) = x
    BY <2>1, <2>3, <2>5
  <2>7. CASE n - x >= WordBits
    BY <1>1, <2>1, <2>3, <2>5, <2>6, <2>7 DEF x
  <2>8. CASE ~(n - x >= WordBits)
    <3>1. WordPart(k - 1, n) = n - x /\ n - x \in 1 .. WordBits
      BY <1>1, <2>1, <2>3, <2>5, <2>8
    <3>2. WordEnd(k, n) = n
      BY <1>1, <2>1, <2>3, <2>8
    <3> QED  BY <2>1, <2>6, <3>1, <3>2 DEF x
  <2> QED  BY <2>7, <2>8
<1> QED  BY <1>3, <1>4, <1>5, <1>6 DEF m

\* The words of a value, each to its end.
WordPieces(v) == [k \in 1 .. WordsOf(Len(v)) |-> WordAt(v, k - 1, WordPart(k - 1, Len(v)))]

LEMMA WordPiecesRight ==
  ASSUME NEW v \in BitSeq
  PROVE  /\ PiecesOK(WordPieces(v))
         /\ Len(WordPieces(v)) = WordsOf(Len(v))
         /\ \A k \in 1 .. WordsOf(Len(v)) : Len(WordPieces(v)[k]) = WordPart(k - 1, Len(v))
         /\ FlattenSeq(WordPieces(v)) = v
<1> DEFINE n == Len(v)
           m == WordsOf(n)
           q == WordPieces(v)
           c == [k \in 0 .. m |-> WordEnd(k, n)]
<1>1. n \in Nat /\ m \in Nat /\ \A i \in 1 .. n : v[i] \in Bit
  BY LenProperties, ElementOfSeq, WordsOfBounds DEF BitSeq
<1>2. /\ \A k \in 0 .. m : WordEnd(k, n) \in 0 .. n
      /\ WordEnd(0, n) = 0 /\ WordEnd(m, n) = n
      /\ \A k \in 1 .. m :
           /\ WordEnd(k - 1, n) = (k - 1) * WordBits
           /\ WordPart(k - 1, n) \in 1 .. WordBits
           /\ WordEnd(k, n) = WordEnd(k - 1, n) + WordPart(k - 1, n)
  BY <1>1, WordEndFacts
<1>3. q = [k \in 1 .. m |-> WordAt(v, k - 1, WordPart(k - 1, n))]
  BY DEF WordPieces
<1>w. WordBits \in Nat /\ WordBits > 0
  BY WordBitsAssumption
<1> HIDE DEF q, m, n
<1>4. ASSUME NEW k \in 1 .. m
      PROVE  /\ WordEnd(k - 1, n) <= WordEnd(k, n)
             /\ q[k] \in BitSeq /\ Len(q[k]) = WordPart(k - 1, n)
             /\ q[k] = SubSeq(v, WordEnd(k - 1, n) + 1, WordEnd(k, n))
  <2> DEFINE a == WordEnd(k - 1, n)
             b == WordEnd(k, n)
             p == WordPart(k - 1, n)
             u == SubSeq(v, a + 1, b)
  <2>1. k - 1 \in 0 .. m /\ k \in 0 .. m
    BY <1>1
  <2>2. /\ a \in 0 .. n /\ b \in 0 .. n /\ p \in 1 .. WordBits /\ b = a + p
        /\ a = (k - 1) * WordBits
    BY <1>2, <2>1
  <2>3. q[k] = [i \in 1 .. p |-> IF (k - 1) * WordBits + i <= n
                                THEN v[(k - 1) * WordBits + i] ELSE 0]
    BY <1>3 DEF WordAt, n
  <2>4. q[k] = [i \in 1 .. p |-> IF a + i <= n THEN v[a + i] ELSE 0]
    BY <2>2, <2>3
  <2> HIDE DEF a, b, p
  <2>5. q[k] = [i \in 1 .. p |-> v[a + i]]
    <3>1. \A i \in 1 .. p : a + i <= n
      BY <1>1, <1>w, <2>2
    <3> QED  BY <2>4, <3>1
  <2>6. p \in Nat /\ \A i \in 1 .. p : v[a + i] \in Bit
    <3>1. p \in Nat /\ \A i \in 1 .. p : a + i \in 1 .. n
      BY <1>1, <1>w, <2>2
    <3> QED  BY <1>1, <3>1
  <2>7. q[k] \in Seq(Bit) /\ Len(q[k]) = p
    BY <2>5, <2>6
  <2>8. u \in Seq(Bit) /\ Len(u) = p /\ \A i \in 1 .. p : u[i] = v[a + i]
    <3>1. a + 1 \in Int /\ b \in Int /\ \A i \in (a + 1) .. b : v[i] \in Bit
      <4>1. \A i \in (a + 1) .. b : i \in 1 .. n
        BY <1>1, <2>2
      <4> QED  BY <1>1, <2>2, <4>1
    <3> DEFINE s == a + 1
    <3>2. s <= b /\ b - s + 1 = p /\ \A i \in 1 .. p : s + i - 1 = a + i
      BY <1>1, <1>w, <2>2
    <3> HIDE DEF s
    <3>3. /\ SubSeq(v, s, b) \in Seq(Bit)
          /\ Len(SubSeq(v, s, b)) = IF s <= b THEN b - s + 1 ELSE 0
          /\ \A i \in 1 .. b - s + 1 : SubSeq(v, s, b)[i] = v[s + i - 1]
      BY <3>1, SubSeqProperties DEF s
    <3>4. Len(SubSeq(v, s, b)) = p /\ \A i \in 1 .. p : SubSeq(v, s, b)[i] = v[a + i]
      BY <3>2, <3>3
    <3> QED  BY <3>3, <3>4 DEF s
  <2>9. q[k] = u
    <3> HIDE DEF u
    <3>1. \A i \in 1 .. p : q[k][i] = v[a + i]
      BY <2>5
    <3> QED  BY <2>7, <2>8, <3>1, SeqEqual
  <2>10. a <= b
    BY <1>1, <1>w, <2>2
  <2> QED  BY <2>7, <2>9, <2>10 DEF a, b, p, BitSeq
<1>5. Len(q) = m /\ q \in Seq(BitSeq)
  <2>1. q \in [1 .. m -> BitSeq]
    BY <1>3, <1>4
  <2> QED  BY <1>1, <2>1
<1>6. PiecesOK(q)
  <2>1. ASSUME NEW k \in 1 .. m
        PROVE  Len(q[k]) \in 1 .. MaxWidth
    BY <1>2, <1>4, <1>w DEF MaxWidth
  <2> QED  BY <1>5, <2>1 DEF PiecesOK
<1>7. FlattenSeq(q) = v
  <2>1. c \in [0 .. Len(q) -> 0 .. Len(v)] /\ c[0] = 0 /\ c[Len(q)] = Len(v)
    BY <1>1, <1>2, <1>5 DEF n
  <2>2. ASSUME NEW k \in 1 .. Len(q)
        PROVE  c[k - 1] <= c[k] /\ q[k] = SubSeq(v, c[k - 1] + 1, c[k])
    <3>1. k \in 1 .. m /\ c[k - 1] = WordEnd(k - 1, n) /\ c[k] = WordEnd(k, n)
      BY <1>1, <1>5
    <3> QED  BY <1>4, <3>1
  <2> HIDE DEF c
  <2> QED  BY <1>5, <2>1, <2>2, CutPieces
<1> QED  BY <1>4, <1>5, <1>6, <1>7 DEF q, m, n

LEMMA SingleBitsRight ==
  ASSUME NEW v \in BitSeq
  PROVE  /\ PiecesOK(SingleBits(v))
         /\ Len(SingleBits(v)) = Len(v)
         /\ \A k \in 1 .. Len(v) : Len(SingleBits(v)[k]) = 1
         /\ FlattenSeq(SingleBits(v)) = v
<1> DEFINE n == Len(v)
           q == SingleBits(v)
           c == [k \in 0 .. n |-> k]
<1>1. n \in Nat /\ DOMAIN v = 1 .. n /\ \A i \in 1 .. n : v[i] \in Bit
  BY LenProperties, ElementOfSeq DEF BitSeq
<1>2. q = [k \in 1 .. n |-> <<v[k]>>]
  BY <1>1 DEF SingleBits
<1> HIDE DEF q, n
<1>3. ASSUME NEW k \in 1 .. n
      PROVE  q[k] \in BitSeq /\ Len(q[k]) = 1 /\ q[k] = SubSeq(v, (k - 1) + 1, k)
  <2>1. v[k] \in Bit
    BY <1>1
  <2>2. q[k] = <<v[k]>>
    BY <1>2
  <2>3. q[k] \in Seq(Bit) /\ Len(q[k]) = 1 /\ q[k][1] = v[k]
    BY <2>1, <2>2
  <2>4. /\ SubSeq(v, k, k) \in Seq(Bit)
        /\ Len(SubSeq(v, k, k)) = IF k <= k THEN k - k + 1 ELSE 0
        /\ \A i \in 1 .. k - k + 1 : SubSeq(v, k, k)[i] = v[k + i - 1]
    <3>1. k \in Int /\ \A i \in k .. k : v[i] \in Bit
      BY <1>1
    <3> QED  BY <3>1, SubSeqProperties
  <2> DEFINE u == SubSeq(v, k, k)
  <2>5. Len(u) = 1 /\ u[1] = v[k]
    <3> HIDE DEF u
    <3>1. k <= k /\ k - k + 1 = 1 /\ k + 1 - 1 = k
      BY <1>1
    <3> QED  BY <2>4, <3>1 DEF u
  <2>6. q[k] = u
    <3> HIDE DEF u
    <3>1. \A i \in 1 .. 1 : i = 1
      OBVIOUS
    <3>2. u \in Seq(Bit)
      BY <2>4 DEF u
    <3> QED  BY <2>3, <2>5, <3>1, <3>2, SeqEqual
  <2>7. (k - 1) + 1 = k
    BY <1>1
  <2> QED  BY <2>3, <2>6, <2>7 DEF BitSeq
<1>4. Len(q) = n /\ q \in Seq(BitSeq)
  <2>1. q \in [1 .. n -> BitSeq]
    BY <1>2, <1>3
  <2> QED  BY <1>1, <2>1
<1>5. PiecesOK(q)
  <2>1. 1 \in 1 .. MaxWidth
    BY WordBitsAssumption DEF MaxWidth
  <2> QED  BY <1>3, <1>4, <2>1 DEF PiecesOK
<1>6. FlattenSeq(q) = v
  <2>1. c \in [0 .. Len(q) -> 0 .. Len(v)] /\ c[0] = 0 /\ c[Len(q)] = Len(v)
    BY <1>1, <1>4 DEF n
  <2>2. ASSUME NEW k \in 1 .. Len(q)
        PROVE  c[k - 1] <= c[k] /\ q[k] = SubSeq(v, c[k - 1] + 1, c[k])
    <3>1. k \in 1 .. n /\ c[k - 1] = k - 1 /\ c[k] = k /\ k - 1 <= k
      BY <1>1, <1>4
    <3> QED  BY <1>3, <3>1
  <2> HIDE DEF c
  <2> QED  BY <1>4, <2>1, <2>2, CutPieces
<1> QED  BY <1>3, <1>4, <1>5, <1>6 DEF q, n

\* A bit vector of a word at most: a wider one is not sent as it is.
NarrowField(f) == f.type = "bv" => Len(f.value) <= WordBits

LEMMA ValuePlaneRight ==
  ASSUME NEW v \in Seq(0 .. 3)
  PROVE  ValuePlane(v) \in BitSeq /\ Len(ValuePlane(v)) = Len(v)
<1> DEFINE n == Len(v)
<1>1. n \in Nat /\ DOMAIN v = 1 .. n /\ \A i \in 1 .. n : v[i] \in 0 .. 3
  BY LenProperties, ElementOfSeq
<1>2. ValuePlane(v) = [i \in 1 .. n |-> v[i] % 2]
  BY <1>1 DEF ValuePlane
<1> HIDE DEF n
<1>3. ASSUME NEW i \in 1 .. n
      PROVE  v[i] % 2 \in Bit
  <2>1. v[i] \in 0 .. 3
    BY <1>1
  <2> QED  BY <2>1 DEF Bit
<1>4. [i \in 1 .. n |-> v[i] % 2] \in Seq(Bit) /\ Len([i \in 1 .. n |-> v[i] % 2]) = n
  BY <1>1, <1>3
<1> QED  BY <1>2, <1>4 DEF BitSeq, n

\* The zero behind a string, and nothing else of a character's bits is zero.
LEMMA ZeroIsZero ==
  /\ Number(0, CharBits) \in BitSeq
  /\ Len(Number(0, CharBits)) = CharBits
  /\ IsZero(Number(0, CharBits))
<1> DEFINE n == CharBits
           p == Shifted(0, n)
           v == Number(0, n)
           T == {i \in 0 .. n : p[i] = 0}
<1>1. n \in Nat
  BY WordBitsAssumption, CharBitsAssumption
<1>2. p[0] = 0 /\ \A i \in 1 .. n : p[i] = p[i - 1] \div 2
  BY <1>1, ShiftedFacts
<1>3. v \in BitSeq /\ Len(v) = n /\ \A i \in 1 .. n : v[i] = p[i - 1] % 2
  BY <1>1, NumberIsBits
<1> HIDE DEF n, p, v
<1>4. 0 .. n \subseteq T
  <2>1. 0 \in T
    BY <1>1, <1>2
  <2>2. ASSUME NEW i \in 1 .. n, i - 1 \in T
        PROVE  i \in T
    <3>1. p[i - 1] = 0 /\ 0 \div 2 = 0
      BY <2>2
    <3> QED  BY <1>1, <1>2, <3>1
  <2> HIDE DEF T
  <2> QED  BY <1>1, <2>1, <2>2, InductionTo
<1>5. ASSUME NEW i \in 1 .. n
      PROVE  v[i] = 0
  <2>1. i - 1 \in 0 .. n
    BY <1>1
  <2>2. p[i - 1] = 0 /\ 0 % 2 = 0
    BY <1>4, <2>1
  <2> QED  BY <1>3, <2>2
<1>6. DOMAIN v = 1 .. n
  BY <1>3, LenProperties DEF BitSeq
<1> QED  BY <1>3, <1>5, <1>6 DEF IsZero, n, v

\* A character that may be in a string.
Chars == {c \in Seq(Bit) : Len(c) = CharBits /\ ~IsZero(c)}

LEMMA StringPiecesRight ==
  ASSUME NEW chars \in Seq(Chars)
  PROVE  /\ PiecesOK(StringPieces(chars))
         /\ Len(StringPieces(chars)) = Len(chars) + 1
         /\ \A k \in 1 .. Len(chars) + 1 : Len(StringPieces(chars)[k]) = CharBits
         /\ \A k \in 1 .. Len(chars) : StringPieces(chars)[k] = chars[k]
         /\ StringPieces(chars)[Len(chars) + 1] = Number(0, CharBits)
         /\ FlattenSeq(StringPieces(chars)) = FlattenSeq(chars) \o Number(0, CharBits)
<1> DEFINE n == Len(chars)
           q == StringPieces(chars)
           z == Number(0, CharBits)
<1>1. n \in Nat /\ \A k \in 1 .. n : chars[k] \in Chars
  BY LenProperties, ElementOfSeq
<1>2. chars \in Seq(BitSeq)
  <2>1. Chars \subseteq BitSeq
    BY DEF Chars, BitSeq
  <2> QED  BY <2>1, SeqMonotonic
<1>3. z \in BitSeq /\ Len(z) = CharBits
  BY ZeroIsZero
<1>4. q = Append(chars, z)
  BY DEF StringPieces
<1>5. /\ q \in Seq(BitSeq) /\ Len(q) = n + 1
      /\ \A k \in 1 .. n : q[k] = chars[k]
      /\ q[n + 1] = z
  BY <1>2, <1>3, <1>4, AppendProperties
<1>6. FlattenSeq(q) = FlattenSeq(chars) \o z
  BY <1>2, <1>3, <1>4, JoinsAppend
<1> HIDE DEF q, z, n
<1>7. ASSUME NEW k \in 1 .. n + 1
      PROVE  Len(q[k]) = CharBits
  <2>1. CASE k = n + 1
    BY <1>3, <1>5, <2>1
  <2>2. CASE k # n + 1
    <3>1. k \in 1 .. n
      BY <1>1, <2>2
    <3>2. q[k] = chars[k] /\ chars[k] \in Chars
      BY <1>1, <1>5, <3>1
    <3> QED  BY <3>2 DEF Chars
  <2> QED  BY <2>1, <2>2
<1>8. PiecesOK(q)
  <2>1. CharBits \in 1 .. MaxWidth
    BY WordBitsAssumption, CharBitsAssumption DEF MaxWidth
  <2>2. \A k \in 1 .. Len(q) : Len(q[k]) = CharBits
    BY <1>5, <1>7
  <2> QED  BY <1>5, <2>1, <2>2 DEF PiecesOK
<1> QED  BY <1>5, <1>6, <1>7, <1>8 DEF q, z, n

LEMMA VectorPiecesRight ==
  ASSUME NEW width \in 1 .. MaxWidth, NEW elems \in Seq({e \in Seq(Bit) : Len(e) = width}),
         Len(elems) < PowerOfTwo[WordBits - 1]
  PROVE  /\ PiecesOK(VectorPieces(elems)) /\ PiecesOK(elems)
         /\ \A k \in 1 .. Len(elems) : Len(elems[k]) = width
         /\ Number(Len(elems), WordBits) \in BitSeq
         /\ Len(Number(Len(elems), WordBits)) = WordBits
         /\ NumberOf(Number(Len(elems), WordBits)) = Len(elems)
         /\ FlattenSeq(VectorPieces(elems)) = Number(Len(elems), WordBits) \o FlattenSeq(elems)
<1> DEFINE n == Len(elems)
           q == VectorPieces(elems)
           z == Number(n, WordBits)
           E == {e \in Seq(Bit) : Len(e) = width}
<1>1. n \in Nat /\ \A k \in 1 .. n : elems[k] \in E
  BY LenProperties, ElementOfSeq
<1>w. WordBits \in Nat /\ WordBits > 0 /\ WordBits \in 1 .. MaxWidth
  BY WordBitsAssumption DEF MaxWidth
<1>2. elems \in Seq(BitSeq)
  <2>1. E \subseteq BitSeq
    BY DEF BitSeq
  <2> HIDE DEF E
  <2>2. elems \in Seq(E)
    BY DEF E
  <2> QED  BY <2>1, <2>2, SeqMonotonic
<1>3. z \in BitSeq /\ Len(z) = WordBits
  BY <1>1, <1>w, NumberIsBits
<1>4. NumberOf(z) = n
  <2>1. /\ WordBits - 1 \in 0 .. WordBits /\ WordBits \in 1 .. WordBits
        /\ PowerOfTwo[WordBits - 1] \in Nat
        /\ PowerOfTwo[WordBits] = 2 * PowerOfTwo[WordBits - 1]
    BY <1>w, PowerFacts
  <2>2. n < PowerOfTwo[WordBits]
    BY <1>1, <2>1
  <2> QED  BY <1>1, <2>2, NumberOfNumber
<1>5. \A k \in 1 .. n : Len(elems[k]) = width
  BY <1>1
<1>6. PiecesOK(elems)
  BY <1>2, <1>5 DEF PiecesOK
<1>7. q = <<z>> \o elems
  BY DEF VectorPieces
<1>8. q \in Seq(BitSeq) /\ FlattenSeq(q) = z \o FlattenSeq(elems)
  BY <1>2, <1>3, <1>7, JoinsPrepend
<1> HIDE DEF q, z, n, E
<1>9. Len(q) = 1 + n /\ \A k \in 1 .. 1 + n : q[k] = IF k <= 1 THEN <<z>>[k] ELSE elems[k - 1]
  <2>1. <<z>> \in Seq(BitSeq) /\ Len(<<z>>) = 1
    BY <1>3
  <2> QED  BY <1>2, <1>7, <2>1, ConcatProperties DEF n
<1>10. ASSUME NEW k \in 1 .. 1 + n
       PROVE  Len(q[k]) \in 1 .. MaxWidth
  <2>1. CASE k = 1
    <3>1. q[k] = z
      BY <1>1, <1>9, <2>1
    <3> QED  BY <1>3, <1>w, <3>1
  <2>2. CASE k # 1
    <3>1. k - 1 \in 1 .. n /\ ~(k <= 1)
      BY <1>1, <2>2
    <3>2. q[k] = elems[k - 1]
      BY <1>9, <3>1
    <3> QED  BY <1>5, <3>1, <3>2
  <2> QED  BY <2>1, <2>2
<1>11. PiecesOK(q)
  BY <1>8, <1>9, <1>10 DEF PiecesOK
<1> QED  BY <1>3, <1>4, <1>5, <1>6, <1>8, <1>11 DEF q, z, n

LEMMA BvPiecesRight ==
  ASSUME NEW v \in BitSeq, Len(v) <= WordBits
  PROVE  BvPieces(v) = WordPieces(v)
<1> DEFINE n == Len(v)
           m == WordsOf(n)
           width == IF n >= WordBits THEN WordBits ELSE n
<1>1. n \in Nat /\ m \in Nat /\ WordBits \in Nat /\ WordBits > 0 /\ n <= WordBits
  BY LenProperties, WordsOfBounds, WordBitsAssumption DEF BitSeq
<1>2. ASSUME NEW k \in 1 .. m
      PROVE  WordPart(k - 1, n) = width
  <2>1. /\ WordEnd(k - 1, n) = (k - 1) * WordBits
        /\ WordEnd(k - 1, n) \in 0 .. n
        /\ WordPart(k - 1, n) \in 1 .. WordBits
        /\ WordEnd(k, n) = WordEnd(k - 1, n) + WordPart(k - 1, n)
        /\ WordEnd(k, n) \in 0 .. n
    <3>1. k - 1 \in 0 .. m /\ k \in 0 .. m
      BY <1>1
    <3> QED  BY <1>1, <3>1, WordEndFacts
  <2> DEFINE a == WordEnd(k - 1, n)
  <2>2. k - 1 = 0
    <3>1. SUFFICES ASSUME 0 < k - 1 PROVE FALSE
      BY <1>1
    <3>2. 0 * WordBits + WordBits <= (k - 1) * WordBits
      BY <3>1, WordsInOrder
    <3>3. 0 * WordBits = 0
      BY <1>1
    <3>4. WordBits <= a /\ a \in Nat
      BY <1>1, <2>1, <3>2, <3>3
    <3> HIDE DEF a
    <3> QED  BY <1>1, <2>1, <3>4 DEF a
  <2>3. WordPart(0, n) = IF n - 0 * WordBits >= WordBits THEN WordBits ELSE n - 0 * WordBits
    BY DEF WordPart
  <2>4. n - 0 * WordBits = n
    BY <1>1
  <2> QED  BY <2>2, <2>3, <2>4
<1>3. BvPieces(v) = [k \in 1 .. m |-> WordAt(v, k - 1, width)]
  BY DEF BvPieces
<1>4. WordPieces(v) = [k \in 1 .. m |-> WordAt(v, k - 1, WordPart(k - 1, n))]
  BY DEF WordPieces
<1> HIDE DEF width, m, n
<1> QED  BY <1>2, <1>3, <1>4

\* Whatever the type: the pieces make up what the two sides agree upon.
LEMMA PiecesRight ==
  ASSUME NEW f, FieldOfType(f), NarrowField(f)
  PROVE  PiecesOK(Pieces(f)) /\ FlattenSeq(Pieces(f)) = Stream(f)
<1>1. CASE f.type = "int" /\ Integral(f.value)
  <2>1. f.value \in BitSeq /\ Len(f.value) \in 1 .. MaxWidth
    BY <1>1 DEF Integral, BitSeq
  <2>2. Pieces(f) = <<f.value>> /\ Stream(f) = f.value
    BY <1>1 DEF Pieces, Stream
  <2> DEFINE v == f.value
             q == <<v>>
  <2>3. q \in Seq(BitSeq) /\ Len(q) = 1 /\ \A k \in 1 .. 1 : q[k] = v
    BY <2>1
  <2>4. PiecesOK(q)
    BY <2>1, <2>3 DEF PiecesOK
  <2>5. <<>> \in Seq(BitSeq) /\ <<>> \o v = v /\ v \o <<>> = v /\ FlattenSeq(<<>>) = <<>>
    BY <2>1, ConcatEmptySeq, EmptySeq DEF FlattenSeq, BitSeq
  <2>6. q \o <<>> = q
    BY <2>3, ConcatEmptySeq
  <2>7. FlattenSeq(q) = v
    BY <2>1, <2>5, <2>6, JoinsPrepend
  <2> QED  BY <2>2, <2>4, <2>7
<1>2. CASE f.type = "lv" /\ f.value \in Seq(0 .. 3)
  <2>1. ValuePlane(f.value) \in BitSeq /\ Len(ValuePlane(f.value)) = Len(f.value)
    BY <1>2, ValuePlaneRight
  <2>2. Pieces(f) = LvPieces(f.value) /\ Stream(f) = ValuePlane(f.value)
    BY <1>2 DEF Pieces, Stream
  <2>3. LvPieces(f.value) = WordPieces(ValuePlane(f.value))
    BY <2>1 DEF LvPieces, WordPieces
  <2> QED  BY <2>1, <2>2, <2>3, WordPiecesRight
<1>3. CASE f.type = "bv" /\ f.value \in Seq(Bit)
  <2>1. f.value \in BitSeq /\ Len(f.value) <= WordBits
    BY <1>3 DEF BitSeq, NarrowField
  <2>2. Pieces(f) = BvPieces(f.value) /\ Stream(f) = f.value
    BY <1>3 DEF Pieces, Stream
  <2> QED  BY <2>1, <2>2, BvPiecesRight, WordPiecesRight
<1>4. CASE f.type = "bits" /\ f.value \in Seq(Bit)
  <2>1. Pieces(f) = SingleBits(f.value) /\ Stream(f) = f.value
    BY <1>4 DEF Pieces, Stream
  <2> QED  BY <1>4, <2>1, SingleBitsRight DEF BitSeq
<1>5. CASE f.type = "string" /\ f.value \in Seq(Chars)
  <2>1. /\ Pieces(f) = StringPieces(f.value)
        /\ Stream(f) = FlattenSeq(f.value) \o Number(0, CharBits)
    BY <1>5 DEF Pieces, Stream
  <2> QED  BY <1>5, <2>1, StringPiecesRight
<1>6. CASE /\ f.type = "vector"
           /\ f.width \in 1 .. MaxWidth
           /\ f.value \in Seq({e \in Seq(Bit) : Len(e) = f.width})
           /\ Len(f.value) < PowerOfTwo[WordBits - 1]
  <2>1. /\ Pieces(f) = VectorPieces(f.value)
        /\ Stream(f) = Number(Len(f.value), WordBits) \o FlattenSeq(f.value)
    BY <1>6 DEF Pieces, Stream
  <2> QED  BY <1>6, <2>1, VectorPiecesRight
<1> QED  BY <1>1, <1>2, <1>3, <1>4, <1>5, <1>6 DEF FieldOfType, Chars

-----------------------------------------------------------------------------
(***************************************************************************)
(* Unpacking a field                                                       *)
(***************************************************************************)

\* The field comes next in the buffer of s.
FieldIsNext(s, z, f) ==
  /\ OnePlace(s.rep) /\ Holds(s.bits, z)
  /\ FieldOfType(f) /\ NarrowField(f)
  /\ Behind(z, s.rep.bits_size, Stream(f))

\* What t has read from s is the field.
FieldIsRead(s, t, f) ==
  /\ t.value = Arrived(f)
  /\ OnePlace(t.rep)
  /\ t.rep.bits_size = s.rep.bits_size + Len(Stream(f))

\* Pieces are as many as their bits, at most.
LEMMA PiecesHaveBits ==
  ASSUME NEW q, PiecesOK(q)
  PROVE  Len(q) <= Len(FlattenSeq(q))
<1> DEFINE n == Len(q)
           j == Joins(q)
           T == {k \in 0 .. n : k <= Len(j[k])}
<1>1. q \in Seq(BitSeq) /\ \A k \in 1 .. n : Len(q[k]) \in 1 .. MaxWidth
  BY DEF PiecesOK
<1>2. /\ n \in Nat
      /\ \A k \in 0 .. n : Len(j[k]) \in Nat
      /\ Len(j[0]) = 0
      /\ \A k \in 1 .. n : Len(j[k]) = Len(j[k - 1]) + Len(q[k])
  BY <1>1, JoinsFacts
<1> HIDE DEF j
<1>3. 0 .. n \subseteq T
  <2>1. 0 \in T
    BY <1>2
  <2>2. ASSUME NEW k \in 1 .. n, k - 1 \in T
        PROVE  k \in T
    <3> DEFINE a == Len(j[k - 1])
               b == Len(q[k])
               c == Len(j[k])
    <3>1. b >= 1 /\ b \in Nat
      BY <1>1, WordBitsAssumption DEF MaxWidth
    <3>2. a \in Nat /\ c = a + b /\ k - 1 <= a
      <4>1. k - 1 \in 0 .. n
        BY <1>2
      <4> QED  BY <1>2, <2>2, <4>1
    <3> HIDE DEF a, b, c
    <3>3. k <= c
      BY <1>2, <3>1, <3>2
    <3> QED  BY <1>2, <3>3 DEF c
  <2> HIDE DEF T
  <2> QED  BY <1>2, <2>1, <2>2, InductionTo
<1>4. n <= Len(j[n])
  <2>1. n \in T
    BY <1>2, <1>3
  <2> QED  BY <2>1
<1>5. FlattenSeq(q) = j[n]
  BY <1>1, FlattenJoins DEF j
<1> QED  BY <1>4, <1>5

\* The characters up to the first zero are the string.
LEMMA UnpackStringRight ==
  ASSUME NEW s, NEW z, NEW f, FieldIsNext(s, z, f),
         f.type = "string", f.value \in Seq(Chars)
  PROVE  FieldIsRead(s, UnpackString(s), f)
<1> DEFINE chars == f.value
           n == Len(chars)
           q == StringPieces(chars)
           m == MaxWords * WordBits
           widths == [i \in 1 .. m |-> CharBits]
           read == Characters(s)
           F == FlattenSeq(q)
<1>1. n \in Nat /\ \A k \in 1 .. n : chars[k] \in Chars
  BY LenProperties, ElementOfSeq
<1>2. /\ PiecesOK(q) /\ Len(q) = n + 1
      /\ \A k \in 1 .. n + 1 : Len(q[k]) = CharBits
      /\ \A k \in 1 .. n : q[k] = chars[k]
      /\ q[n + 1] = Number(0, CharBits)
      /\ F = FlattenSeq(chars) \o Number(0, CharBits)
  BY StringPiecesRight
<1>3. Stream(f) = F
  BY <1>2 DEF Stream
<1>4. /\ OnePlace(s.rep) /\ Holds(s.bits, z) /\ Behind(z, s.rep.bits_size, F)
  BY <1>3 DEF FieldIsNext
<1>5. NextAre(s, z, q)
  BY <1>2, <1>4 DEF NextAre
<1>m. m \in Nat /\ CharBits \in Nat /\ CharBits <= MaxWidth
  BY WordBitsAssumption, MaxWordsAssumption, CharBitsAssumption DEF MaxWidth
<1> HIDE DEF q, m
<1>6. n + 1 <= m
  <2>1. n + 1 <= Len(F)
    BY <1>2, PiecesHaveBits
  <2>2. s.rep.bits_size + Len(F) <= Len(z) /\ Len(z) <= m
    BY <1>4 DEF Behind, Holds, m
  <2>3. Len(F) \in Nat /\ Len(z) \in Nat /\ s.rep.bits_size \in Nat
    BY <1>2, <1>4, FlattenJoins, LenProperties DEF OnePlace, Indexes, Holds, BitSeq, PiecesOK
  <2> HIDE DEF F, n
  <2> QED  BY <1>1, <1>m, <2>1, <2>2, <2>3
<1>7. WidthsOf(widths, q)
  <2>1. widths \in Seq(Nat) /\ Len(widths) = m
    BY <1>m
  <2>2. \A k \in 1 .. Len(widths) : widths[k] <= MaxWidth
    BY <1>m, <2>1
  <2>3. \A k \in 1 .. Len(q) : widths[k] = Len(q[k])
    BY <1>1, <1>2, <1>6, <1>m
  <2> HIDE DEF widths
  <2> QED  BY <1>2, <1>6, <2>1, <2>2, <2>3 DEF WidthsOf
<1>8. read = Reads(s, widths)
  BY DEF Characters, m
<1>9. AreRead(s, read, q)
  BY <1>5, <1>7, <1>8, ReadsRight
<1> HIDE DEF read
<1>10. \A k \in 1 .. n + 1 : read[k].value = q[k]
  BY <1>2, <1>9, Zenon DEF AreRead
<1> DEFINE Zero(i) == /\ IsZero(read[i + 1].value)
                      /\ \A k \in 1 .. i : ~IsZero(read[k].value)
<1>11. n \in 0 .. m - 1 /\ Zero(n)
  <2>1. n \in 0 .. m - 1
    BY <1>1, <1>6, <1>m
  <2>2. IsZero(read[n + 1].value)
    <3>1. n + 1 \in 1 .. n + 1
      BY <1>1
    <3> QED  BY <1>2, <1>10, <3>1, ZeroIsZero
  <2>3. ASSUME NEW k \in 1 .. n
        PROVE  ~IsZero(read[k].value)
    <3>1. k \in 1 .. n + 1
      BY <1>1
    <3>2. read[k].value = chars[k] /\ chars[k] \in Chars
      BY <1>1, <1>2, <1>10, <3>1
    <3> QED  BY <3>2 DEF Chars
  <2> QED  BY <2>1, <2>2, <2>3
<1>12. ASSUME NEW i \in 0 .. m - 1, Zero(i)
       PROVE  i = n
  <2>1. SUFFICES ASSUME i # n PROVE FALSE
    OBVIOUS
  <2>2. CASE i < n
    <3>1. i + 1 \in 1 .. n
      BY <1>1, <1>m, <2>2
    <3> QED  BY <1>11, <1>12, <3>1
  <2>3. CASE n < i
    <3>1. n + 1 \in 1 .. i
      BY <1>1, <1>m, <2>3
    <3> QED  BY <1>11, <1>12, <3>1
  <2> QED  BY <1>1, <1>m, <2>1, <2>2, <2>3
<1>13. BeforeZero(read) = n
  <2>1. BeforeZero(read) = CHOOSE i \in 0 .. m - 1 : Zero(i)
    BY DEF BeforeZero, m
  <2> HIDE DEF Zero, n
  <2> QED  BY <1>11, <1>12, <2>1
<1>14. UnpackString(s) = [value |-> [i \in 1 .. n |-> read[i].value], rep |-> read[n + 1].rep]
  BY <1>13 DEF UnpackString, read
<1>15. UnpackString(s).value = chars
  <2>1. \A i \in 1 .. n : read[i].value = chars[i]
    BY <1>1, <1>2, <1>10
  <2>2. chars = [i \in 1 .. n |-> chars[i]]
    BY LenProperties
  <2> HIDE DEF n, chars
  <2> QED  BY <1>14, <2>1, <2>2
<1>16. /\ OnePlace(read[n + 1].rep)
       /\ read[n + 1].rep.bits_size = s.rep.bits_size + Len(Joins(q)[n + 1])
  <2>1. n + 1 \in 0 .. Len(q)
    BY <1>1, <1>2
  <2> QED  BY <1>9, <2>1, Zenon DEF AreRead
<1>17. F = Joins(q)[n + 1]
  BY <1>2, FlattenJoins DEF PiecesOK
<1>18. Arrived(f) = chars
  BY DEF Arrived
<1> QED  BY <1>3, <1>14, <1>15, <1>16, <1>17, <1>18 DEF FieldIsRead

\* The count, then the elements.
LEMMA UnpackVectorRight ==
  ASSUME NEW s, NEW z, NEW f, FieldIsNext(s, z, f),
         f.type = "vector", f.width \in 1 .. MaxWidth,
         f.value \in Seq({e \in Seq(Bit) : Len(e) = f.width}),
         Len(f.value) < PowerOfTwo[WordBits - 1]
  PROVE  FieldIsRead(s, UnpackVector(s, f.width), f)
<1> DEFINE elems == f.value
           n == Len(elems)
           head == Number(n, WordBits)
           rest == FlattenSeq(elems)
           a == s.rep.bits_size
           count == UnpackIntN(s, WordBits)
           widths == [i \in 1 .. n |-> f.width]
           t == UnpackAll(count, widths)
<1>1. /\ PiecesOK(elems)
      /\ \A k \in 1 .. n : Len(elems[k]) = f.width
      /\ head \in BitSeq /\ Len(head) = WordBits /\ NumberOf(head) = n
  BY VectorPiecesRight
<1>2. Stream(f) = head \o rest
  BY DEF Stream
<1>3. rest \in BitSeq
  BY <1>1, FlattenJoins DEF PiecesOK
<1>n. n \in Nat /\ f.width \in Nat /\ f.width <= MaxWidth
  BY LenProperties, WordBitsAssumption DEF MaxWidth
<1>4. /\ OnePlace(s.rep) /\ Holds(s.bits, z) /\ Behind(z, a, head \o rest)
      /\ z \in BitSeq /\ a \in Nat
  BY <1>2 DEF FieldIsNext, OnePlace, Indexes, Holds
<1> HIDE DEF n, head, rest, a
<1>5. Behind(z, a, head) /\ Behind(z, a + WordBits, rest)
  BY <1>1, <1>3, <1>4, BehindParts
<1>6. HasRead(s, count, head)
  <2>1. WordBits <= MaxWidth
    BY WordBitsAssumption DEF MaxWidth
  <2> QED  BY <1>1, <1>4, <1>5, <2>1, UnpackIntNRight DEF a
<1>7. /\ count.value = head /\ count.bits = s.bits
      /\ OnePlace(count.rep) /\ count.rep.bits_size = a + WordBits
  BY <1>1, <1>6 DEF HasRead, a
<1> HIDE DEF count
<1>8. NextAre(count, z, elems)
  BY <1>1, <1>4, <1>5, <1>7 DEF NextAre, rest
<1>9. WidthsOf(widths, elems) /\ Len(widths) = n
  <2>1. widths \in Seq(Nat) /\ Len(widths) = n
    BY <1>n
  <2>2. \A k \in 1 .. n : widths[k] <= MaxWidth /\ widths[k] = Len(elems[k])
    BY <1>1, <1>n
  <2> HIDE DEF widths
  <2> QED  BY <1>n, <2>1, <2>2 DEF WidthsOf, n
<1> HIDE DEF widths
<1>10. /\ t.value = elems /\ OnePlace(t.rep)
       /\ t.rep.bits_size = count.rep.bits_size + Len(rest)
  BY <1>8, <1>9, UnpackAllRight DEF n, rest
<1>11. UnpackVector(s, f.width) = t
  BY <1>1, <1>7 DEF UnpackVector, count, widths
<1> HIDE DEF t
<1>12. t.rep.bits_size = a + Len(Stream(f))
  <2>1. Len(Stream(f)) = WordBits + Len(rest) /\ Len(rest) \in Nat
    <3>1. Len(head \o rest) = Len(head) + Len(rest) /\ Len(rest) \in Nat
      BY <1>1, <1>3, BitSeqConcat
    <3> QED  BY <1>1, <1>2, <3>1
  <2>2. /\ t.rep.bits_size = (a + WordBits) + Len(rest)
        /\ a \in Nat /\ WordBits \in Nat
    BY <1>4, <1>7, <1>10, WordBitsAssumption
  <2> HIDE DEF a
  <2> QED  BY <2>1, <2>2
<1>13. Arrived(f) = elems
  BY DEF Arrived
<1> QED  BY <1>10, <1>11, <1>12, <1>13 DEF FieldIsRead, a

\* One value in pieces.
LEMMA UnpackPiecesRight ==
  ASSUME NEW s, NEW z, NEW f, FieldIsNext(s, z, f), NEW q, PiecesOK(q),
         FlattenSeq(q) = Stream(f), Arrived(f) = Stream(f),
         NEW widths, WidthsOf(widths, q), Len(widths) = Len(q)
  PROVE  FieldIsRead(s, UnpackPieces(s, widths), f)
<1>1. NextAre(s, z, q)
  BY DEF FieldIsNext, NextAre
<1> DEFINE t == UnpackAll(s, widths)
<1>2. /\ t.value = q /\ OnePlace(t.rep)
      /\ t.rep.bits_size = s.rep.bits_size + Len(FlattenSeq(q))
  BY <1>1, UnpackAllRight
<1>3. UnpackPieces(s, widths) = [value |-> FlattenSeq(t.value), rep |-> t.rep]
  BY DEF UnpackPieces
<1> HIDE DEF t
<1> QED  BY <1>2, <1>3 DEF FieldIsRead

\* The words of a value.
LEMMA UnpackWordsRight ==
  ASSUME NEW s, NEW z, NEW f, FieldIsNext(s, z, f),
         Stream(f) \in BitSeq, Arrived(f) = Stream(f), Len(f.value) = Len(Stream(f))
  PROVE  FieldIsRead(s, UnpackWords(s, Len(f.value)), f)
<1> DEFINE v == Stream(f)
           n == Len(v)
           m == WordsOf(n)
           q == WordPieces(v)
           widths == [k \in 1 .. m |-> WordPart(k - 1, n)]
<1>1. n \in Nat /\ m \in Nat /\ WordBits \in Nat /\ WordBits <= MaxWidth
  BY LenProperties, WordsOfBounds, WordBitsAssumption DEF BitSeq, MaxWidth
<1>2. /\ PiecesOK(q) /\ Len(q) = m
      /\ \A k \in 1 .. m : Len(q[k]) = WordPart(k - 1, n)
      /\ FlattenSeq(q) = v
  BY WordPiecesRight
<1>3. \A k \in 1 .. m : WordPart(k - 1, n) \in 1 .. WordBits
  BY <1>1, WordEndFacts
<1>4. UnpackWords(s, Len(f.value)) = UnpackPieces(s, widths)
  BY DEF UnpackWords
<1> HIDE DEF q, m, n
<1>5. WidthsOf(widths, q) /\ Len(widths) = m
  <2>1. widths \in Seq(Nat) /\ Len(widths) = m
    BY <1>1, <1>3
  <2>2. \A k \in 1 .. m : widths[k] <= MaxWidth /\ widths[k] = Len(q[k])
    BY <1>1, <1>2, <1>3, WordBitsAssumption DEF MaxWidth
  <2> HIDE DEF widths
  <2> QED  BY <1>1, <1>2, <2>1, <2>2 DEF WidthsOf
<1> HIDE DEF widths
<1> QED  BY <1>2, <1>4, <1>5, UnpackPiecesRight

\* The bits of a value.
LEMMA UnpackBitsRight ==
  ASSUME NEW s, NEW z, NEW f, FieldIsNext(s, z, f),
         Stream(f) \in BitSeq, Arrived(f) = Stream(f), Len(f.value) = Len(Stream(f))
  PROVE  FieldIsRead(s, UnpackBits(s, Len(f.value)), f)
<1> DEFINE v == Stream(f)
           n == Len(v)
           q == SingleBits(v)
           widths == [i \in 1 .. n |-> 1]
<1>1. n \in Nat /\ 1 <= MaxWidth
  BY LenProperties, WordBitsAssumption DEF BitSeq, MaxWidth
<1>2. /\ PiecesOK(q) /\ Len(q) = n
      /\ \A k \in 1 .. n : Len(q[k]) = 1
      /\ FlattenSeq(q) = v
  BY SingleBitsRight
<1>4. UnpackBits(s, Len(f.value)) = UnpackPieces(s, widths)
  BY DEF UnpackBits
<1> HIDE DEF q, n
<1>5. WidthsOf(widths, q) /\ Len(widths) = n
  <2>1. widths \in Seq(Nat) /\ Len(widths) = n
    BY <1>1
  <2>2. \A k \in 1 .. n : widths[k] <= MaxWidth /\ widths[k] = Len(q[k])
    BY <1>1, <1>2
  <2> HIDE DEF widths
  <2> QED  BY <1>1, <1>2, <2>1, <2>2 DEF WidthsOf
<1> HIDE DEF widths
<1> QED  BY <1>2, <1>4, <1>5, UnpackPiecesRight

\* A field of any type arrives, and what comes behind it is next.
LEMMA UnpackFieldRight ==
  ASSUME NEW s, NEW z, NEW f, FieldIsNext(s, z, f)
  PROVE  FieldIsRead(s, UnpackField(s, f), f)
<1>0. FieldOfType(f) /\ NarrowField(f)
  BY DEF FieldIsNext
<1>1. CASE f.type = "int" /\ Integral(f.value)
  <2>1. f.value \in BitSeq /\ Len(f.value) <= MaxWidth
    BY <1>1, WordBitsAssumption DEF Integral, BitSeq, MaxWidth
  <2>2. /\ Stream(f) = f.value /\ Arrived(f) = f.value
        /\ UnpackField(s, f) = UnpackIntN(s, Len(f.value))
    BY <1>1 DEF Stream, Arrived, UnpackField
  <2>3. OnePlace(s.rep) /\ Holds(s.bits, z) /\ Behind(z, s.rep.bits_size, f.value)
    BY <2>2 DEF FieldIsNext
  <2>4. HasRead(s, UnpackField(s, f), f.value)
    BY <2>1, <2>2, <2>3, UnpackIntNRight
  <2> QED  BY <2>2, <2>4 DEF HasRead, FieldIsRead
<1>2. CASE f.type = "lv" /\ f.value \in Seq(0 .. 3)
  <2>1. Stream(f) = ValuePlane(f.value) /\ Arrived(f) = ValuePlane(f.value)
        /\ UnpackField(s, f) = UnpackWords(s, Len(f.value))
    BY <1>2 DEF Stream, Arrived, UnpackField
  <2> QED  BY <1>2, <2>1, ValuePlaneRight, UnpackWordsRight
<1>3. CASE f.type = "bv" /\ f.value \in Seq(Bit)
  <2>1. Stream(f) = f.value /\ Arrived(f) = f.value
        /\ UnpackField(s, f) = UnpackWords(s, Len(f.value))
    BY <1>3 DEF Stream, Arrived, UnpackField
  <2> QED  BY <1>3, <2>1, UnpackWordsRight DEF BitSeq
<1>4. CASE f.type = "bits" /\ f.value \in Seq(Bit)
  <2>1. Stream(f) = f.value /\ Arrived(f) = f.value
        /\ UnpackField(s, f) = UnpackBits(s, Len(f.value))
    BY <1>4 DEF Stream, Arrived, UnpackField
  <2> QED  BY <1>4, <2>1, UnpackBitsRight DEF BitSeq
<1>5. CASE f.type = "string" /\ f.value \in Seq(Chars)
  <2>1. UnpackField(s, f) = UnpackString(s)
    BY <1>5 DEF UnpackField
  <2> QED  BY <1>5, <2>1, UnpackStringRight
<1>6. CASE /\ f.type = "vector"
           /\ f.width \in 1 .. MaxWidth
           /\ f.value \in Seq({e \in Seq(Bit) : Len(e) = f.width})
           /\ Len(f.value) < PowerOfTwo[WordBits - 1]
  <2>1. UnpackField(s, f) = UnpackVector(s, f.width)
    BY <1>6 DEF UnpackField
  <2> QED  BY <1>6, <2>1, UnpackVectorRight
<1> QED  BY <1>0, <1>1, <1>2, <1>3, <1>4, <1>5, <1>6 DEF FieldOfType, Chars

-----------------------------------------------------------------------------
(***************************************************************************)
(* The invariant                                                           *)
(***************************************************************************)

\* Every bit vector fits a word.
NarrowVectors == \A f \in Fields : NarrowField(f)

Streams(fields) == [i \in DOMAIN fields |-> Stream(fields[i])]

\* A transaction in the buffer, and how much of it has been read: the other side stands
\* where the next field begins, and has the fields before it.
StreamHeld == Holds(bits, StreamOf(sent))
PackedSoFar == mode = "pack" => rep.bits_size = Len(StreamOf(sent)) /\ got = <<>>
UnpackedSoFar ==
  mode = "unpack" =>
    Len(got) <= Len(sent) /\ rep.bits_size = Len(Joins(Streams(sent))[Len(got)])
ArrivedSoFar ==
  /\ got \in Seq({Arrived(f) : f \in Fields})
  /\ \A i \in 1 .. Len(got) : got[i] = Arrived(sent[i])

PkInv == PkTypeOK /\ StreamHeld /\ PackedSoFar /\ UnpackedSoFar /\ ArrivedSoFar

LEMMA StreamIsBits ==
  ASSUME NarrowVectors, NEW f \in Fields
  PROVE  /\ FieldOfType(f) /\ NarrowField(f)
         /\ PiecesOK(Pieces(f)) /\ FlattenSeq(Pieces(f)) = Stream(f)
         /\ Stream(f) \in BitSeq
<1>1. FieldOfType(f) /\ NarrowField(f)
  BY FieldsAssumption DEF NarrowVectors
<1>2. PiecesOK(Pieces(f)) /\ FlattenSeq(Pieces(f)) = Stream(f)
  BY <1>1, PiecesRight
<1>3. FlattenSeq(Pieces(f)) \in BitSeq
  BY <1>2, FlattenJoins DEF PiecesOK
<1> QED  BY <1>1, <1>2, <1>3

LEMMA StreamsRight ==
  ASSUME NarrowVectors, NEW fields \in Seq(Fields)
  PROVE  /\ Len(fields) \in Nat
         /\ Streams(fields) \in Seq(BitSeq) /\ Len(Streams(fields)) = Len(fields)
         /\ \A i \in 1 .. Len(fields) : Streams(fields)[i] = Stream(fields[i])
         /\ StreamOf(fields) = FlattenSeq(Streams(fields))
         /\ StreamOf(fields) \in BitSeq /\ Len(StreamOf(fields)) \in Nat
<1> DEFINE n == Len(fields)
<1>1. n \in Nat /\ DOMAIN fields = 1 .. n /\ \A i \in 1 .. n : fields[i] \in Fields
  BY LenProperties, ElementOfSeq
<1>2. \A i \in 1 .. n : Stream(fields[i]) \in BitSeq
  BY <1>1, StreamIsBits
<1>3. Streams(fields) = [i \in 1 .. n |-> Stream(fields[i])]
  BY <1>1 DEF Streams
<1> HIDE DEF n
<1>4. Streams(fields) \in Seq(BitSeq) /\ Len(Streams(fields)) = n
  BY <1>1, <1>2, <1>3
<1>5. StreamOf(fields) = FlattenSeq(Streams(fields))
  BY DEF StreamOf, Streams
<1>6. StreamOf(fields) \in BitSeq /\ Len(StreamOf(fields)) \in Nat
  BY <1>4, <1>5, FlattenJoins, LenProperties DEF BitSeq
<1> QED  BY <1>1, <1>3, <1>4, <1>5, <1>6 DEF n

\* One field more.
LEMMA StreamOfAppend ==
  ASSUME NarrowVectors, NEW fields \in Seq(Fields), NEW f \in Fields
  PROVE  StreamOf(Append(fields, f)) = StreamOf(fields) \o Stream(f)
<1> DEFINE more == Append(fields, f)
           n == Len(fields)
<1>1. /\ more \in Seq(Fields) /\ Len(more) = n + 1
      /\ \A i \in 1 .. n : more[i] = fields[i]
      /\ more[n + 1] = f
  BY AppendProperties
<1>2. /\ n \in Nat
      /\ Streams(fields) \in Seq(BitSeq) /\ Len(Streams(fields)) = n
      /\ \A i \in 1 .. n : Streams(fields)[i] = Stream(fields[i])
      /\ StreamOf(fields) = FlattenSeq(Streams(fields))
  BY StreamsRight
<1>3. /\ Streams(more) \in Seq(BitSeq) /\ Len(Streams(more)) = n + 1
      /\ \A i \in 1 .. n + 1 : Streams(more)[i] = Stream(more[i])
      /\ StreamOf(more) = FlattenSeq(Streams(more))
  <2> HIDE DEF more
  <2> QED  BY <1>1, StreamsRight
<1>4. Stream(f) \in BitSeq
  BY StreamIsBits
<1> DEFINE a == Append(Streams(fields), Stream(f))
<1>5. /\ a \in Seq(BitSeq) /\ Len(a) = n + 1
      /\ \A i \in 1 .. n : a[i] = Streams(fields)[i]
      /\ a[n + 1] = Stream(f)
  BY <1>2, <1>4, AppendProperties
<1> HIDE DEF a, more, n
<1>6. ASSUME NEW i \in 1 .. n + 1
      PROVE  Streams(more)[i] = a[i]
  <2>1. CASE i = n + 1
    BY <1>1, <1>3, <1>5, <2>1
  <2>2. CASE i # n + 1
    <3>1. i \in 1 .. n
      BY <1>2, <2>2
    <3> QED  BY <1>1, <1>2, <1>3, <1>5, <3>1
  <2> QED  BY <2>1, <2>2
<1>7. Streams(more) = a
  BY <1>3, <1>5, <1>6, SeqEqual
<1>8. FlattenSeq(a) = FlattenSeq(Streams(fields)) \o Stream(f)
  BY <1>2, <1>4, JoinsAppend DEF a
<1> QED  BY <1>2, <1>3, <1>7, <1>8 DEF more

LEMMA EmptyStream ==
  /\ <<>> \in Seq(Fields) /\ StreamOf(<<>>) = <<>> /\ Len(StreamOf(<<>>)) = 0
  /\ \A c : Holds(c, StreamOf(<<>>))
<1>1. StreamOf(<<>>) = <<>>
  <2>1. DOMAIN <<>> = {}
    OBVIOUS
  <2> DEFINE q == [i \in DOMAIN <<>> |-> Stream(<<>>[i])]
  <2>2. q = <<>>
    BY <2>1
  <2>3. FlattenSeq(<<>>) = <<>>
    BY DEF FlattenSeq
  <2> HIDE DEF q
  <2>4. FlattenSeq(q) = <<>>
    BY <2>2, <2>3
  <2> QED  BY <2>4 DEF StreamOf, q
<1>2. <<>> \in Seq(Fields) /\ <<>> \in BitSeq /\ Len(<<>>) = 0
  BY EmptySeq DEF BitSeq
<1>3. ASSUME NEW c
      PROVE  Holds(c, <<>>)
  <2>1. MaxWords * WordBits \in Nat
    BY WordBitsAssumption, MaxWordsAssumption
  <2>2. ASSUME NEW w \in Words, NEW p \in Places
        PROVE  ~(w * WordBits + p < 0)
    <3>1. w \in Nat
      BY MaxWordsAssumption DEF Words
    <3>2. w * WordBits + p \in Nat
      BY <3>1, PlaceIsNat
    <3> QED  BY <3>2
  <2> QED  BY <1>2, <2>1, <2>2 DEF Holds
<1> QED  BY <1>1, <1>2, <1>3

\* A value behind the stream.
LEMMA HoldsMore ==
  ASSUME NEW s \in PackStates, NEW t, NEW z, Holds(s.bits, z), s.rep.bits_size = Len(z),
         NEW v \in BitSeq, Written(s, t, v), Len(z) + Len(v) <= MaxWords * WordBits
  PROVE  Holds(t.bits, z \o v)
<1> DEFINE l == Len(z)
           n == Len(v)
           x == z \o v
<1>1. z \in BitSeq
  BY DEF Holds
<1>2. /\ x \in BitSeq /\ l \in Nat /\ n \in Nat /\ Len(x) = l + n
  BY <1>1, BitSeqConcat
<1>3. /\ \A i \in 1 .. l : x[i] = z[i]
      /\ \A i \in 1 .. n : x[l + i] = v[i]
  BY <1>1, ConcatPlaces
<1> HIDE DEF x
<1>4. ASSUME NEW w \in Words, NEW p \in Places, w * WordBits + p < Len(x)
      PROVE  t.bits[w][p] = x[w * WordBits + p + 1]
  <2> DEFINE y == w * WordBits + p
  <2>0. w \in Nat
    BY MaxWordsAssumption DEF Words
  <2>1. y \in Nat
    BY <2>0, PlaceIsNat
  <2>2. t.bits[w][p] = IF y - s.rep.bits_size \in 0 .. n - 1
                       THEN v[y - s.rep.bits_size + 1] ELSE s.bits[w][p]
    BY DEF Written
  <2>3. t.bits[w][p] = IF y - l \in 0 .. n - 1 THEN v[y - l + 1] ELSE s.bits[w][p]
    BY <2>2
  <2>4. y < l => s.bits[w][p] = z[y + 1]
    BY DEF Holds
  <2>5. y < l + n
    BY <1>2, <1>4
  <2> HIDE DEF y, l, n
  <2>6. CASE y < l
    <3>1. y - l \notin 0 .. n - 1 /\ y + 1 \in 1 .. l
      BY <1>2, <2>1, <2>6
    <3>2. t.bits[w][p] = x[y + 1]
      BY <1>3, <2>3, <2>4, <2>6, <3>1
    <3> QED  BY <3>2 DEF y
  <2>7. CASE ~(y < l)
    <3>1. y - l \in 0 .. n - 1 /\ y - l + 1 \in 1 .. n /\ l + (y - l + 1) = y + 1
      BY <1>2, <2>1, <2>5, <2>7
    <3>2. t.bits[w][p] = x[y + 1]
      BY <1>3, <2>3, <3>1
    <3> QED  BY <3>2 DEF y
  <2> QED  BY <2>6, <2>7
<1>5. Len(x) <= MaxWords * WordBits
  BY <1>2
<1> QED  BY <1>2, <1>4, <1>5 DEF Holds, x

\* The pointer is in the buffer or behind it.
LEMMA PointerBounded ==
  ASSUME NEW r, OnePlace(r), r.bits_size <= MaxWords * WordBits
  PROVE  r.ptr \in 0 .. MaxWords
<1> DEFINE x == r.ptr * WordBits
           y == MaxWords * WordBits
           b == r.bit_index
<1>1. /\ WordBits \in Nat /\ WordBits > 0 /\ MaxWords \in Nat /\ r.ptr \in Nat /\ b \in Nat
      /\ r.bits_size = x + b /\ x \in Nat /\ y \in Nat
  BY WordBitsAssumption, MaxWordsAssumption DEF OnePlace, Indexes, Places
<1>2. SUFFICES ASSUME MaxWords < r.ptr PROVE FALSE
  BY <1>1
<1>3. y + WordBits <= x
  BY <1>1, <1>2, WordsInOrder
<1>4. x + b <= y
  BY <1>1
<1> HIDE DEF x, y, b
<1> QED  BY <1>1, <1>3, <1>4

LEMMA PkStart ==
  ASSUME NarrowVectors, PkInit
  PROVE  PkInv
<1> USE DEF PkInit, InitIndexes
<1>1. bits \in Buffers
  BY DEF Buffers, Bit
<1>2. rep \in [ptr : 0 .. MaxWords, bit_index : Places, bits_size : Nat]
      /\ rep.bits_size = rep.ptr * WordBits + rep.bit_index
  <2>1. 0 * WordBits + 0 = 0 /\ 0 \in Places /\ 0 \in 0 .. MaxWords
    BY WordBitsAssumption, MaxWordsAssumption DEF Places
  <2> QED  BY <2>1
<1>3. /\ sent \in Seq(Fields) /\ Len(sent) = 0
      /\ Len(StreamOf(sent)) = 0 /\ Holds(bits, StreamOf(sent))
  BY EmptyStream
<1>4. got \in Seq({Arrived(f) : f \in Fields}) /\ Len(got) = 0
  BY EmptySeq
<1>5. PkTypeOK
  BY <1>1, <1>2, <1>3, BoundsAssumption DEF PkTypeOK, Buffers
<1>6. StreamHeld /\ PackedSoFar /\ UnpackedSoFar
  BY <1>3 DEF StreamHeld, PackedSoFar, UnpackedSoFar
<1>7. ArrivedSoFar
  BY <1>4 DEF ArrivedSoFar
<1> QED  BY <1>5, <1>6, <1>7 DEF PkInv

\* The indexes at the beginning of the buffer.
LEMMA IndexesAtStart ==
  /\ InitIndexes \in [ptr : 0 .. MaxWords, bit_index : Places, bits_size : Nat]
  /\ InitIndexes.bits_size = InitIndexes.ptr * WordBits + InitIndexes.bit_index
  /\ InitIndexes.bits_size = 0
<1>1. 0 * WordBits + 0 = 0 /\ 0 \in Places /\ 0 \in 0 .. MaxWords
  BY WordBitsAssumption, MaxWordsAssumption DEF Places
<1> QED  BY <1>1 DEF InitIndexes

LEMMA PackKeeps ==
  ASSUME NarrowVectors, PkInv, NEW f \in Fields, Pack(f)
  PROVE  PkInv'
<1> DEFINE s == [bits |-> bits, rep |-> rep]
           t == PackAll(s, Pieces(f))
           v == Stream(f)
           z == StreamOf(sent)
           m == MaxWords * WordBits
<1>1. /\ PkTypeOK /\ StreamHeld /\ ArrivedSoFar
      /\ rep.bits_size = Len(z) /\ got = <<>>
  BY DEF PkInv, PackedSoFar, Pack
<1>2. /\ PiecesOK(Pieces(f)) /\ FlattenSeq(Pieces(f)) = v /\ v \in BitSeq
  BY StreamIsBits
<1>3. s \in PackStates /\ OnePlace(s.rep) /\ s.bits = bits /\ s.rep = rep
  <2>1. rep \in Indexes
    BY <1>1 DEF PkTypeOK, Indexes
  <2> QED  BY <1>1, <2>1 DEF PkTypeOK, PackStates, Buffers, OnePlace
<1> HIDE DEF s
<1>4. Written(s, t, v)
  BY <1>2, <1>3, PackAllRight
<1>5. /\ bits' = t.bits /\ rep' = t.rep
      /\ sent' = Append(sent, f) /\ mode' = mode /\ got' = got /\ round' = round
      /\ mode = "pack" /\ Len(sent) < MaxFields /\ FitsBuffer(f)
  BY DEF Pack, PackField, s
<1>6. t \in PackStates /\ OnePlace(t.rep) /\ t.rep.bits_size = Len(z) + Len(v)
  BY <1>1, <1>3, <1>4 DEF Written
<1>7. Len(z) \in Nat /\ Len(v) \in Nat /\ m \in Nat
  BY <1>1, <1>2, StreamsRight, LenProperties, WordBitsAssumption, MaxWordsAssumption
     DEF PkTypeOK, BitSeq
<1>8. Len(z) + Len(v) <= m
  <2> DEFINE x == WordsOf(Len(v)) * WordBits
  <2>1. Len(v) <= x /\ x \in Nat
    <3>1. WordsOf(Len(v)) \in Nat /\ Len(v) <= x
      BY <1>7, WordsOfBounds
    <3> QED  BY <3>1, WordBitsAssumption
  <2>2. Len(z) + x <= m
    BY <1>1, <1>5 DEF FitsBuffer
  <2> HIDE DEF x, v, z, m
  <2> QED  BY <1>7, <2>1, <2>2
<1>9. sent \in Seq(Fields) /\ Len(sent) \in Nat
  BY <1>1, LenProperties DEF PkTypeOK
<1>10. /\ sent' \in Seq(Fields) /\ Len(sent') = Len(sent) + 1
       /\ StreamOf(sent') = z \o v
  BY <1>5, <1>9, AppendProperties, StreamOfAppend
<1>11. Holds(t.bits, z \o v)
  BY <1>1, <1>2, <1>3, <1>4, <1>8, HoldsMore DEF StreamHeld
<1>12. Len(z \o v) = Len(z) + Len(v)
  <2>1. z \in BitSeq
    BY <1>9, StreamsRight
  <2> QED  BY <1>2, <2>1, BitSeqConcat
<1> HIDE DEF t, v, z, m
<1>13. StreamHeld'
  BY <1>5, <1>10, <1>11 DEF StreamHeld
<1>14. PackedSoFar' /\ UnpackedSoFar'
  BY <1>1, <1>5, <1>6, <1>10, <1>12 DEF PackedSoFar, UnpackedSoFar
<1>15. ArrivedSoFar'
  <2>1. got' = <<>> /\ Len(got') = 0
    BY <1>1, <1>5, EmptySeq
  <2> QED  BY <2>1, EmptySeq DEF ArrivedSoFar
<1>16. PkTypeOK'
  <2>1. t.rep.ptr \in 0 .. MaxWords
    BY <1>6, <1>8, PointerBounded DEF m
  <2>2. /\ t.rep \in [ptr : 0 .. MaxWords, bit_index : Places, bits_size : Nat]
        /\ t.rep.bits_size = t.rep.ptr * WordBits + t.rep.bit_index
    BY <1>6, <2>1 DEF OnePlace, Indexes
  <2>3. t.bits \in [Words -> [Places -> Bit]]
    BY <1>6 DEF PackStates, Buffers
  <2>4. Len(sent') <= MaxFields
    BY <1>5, <1>9, <1>10, BoundsAssumption
  <2> QED  BY <1>1, <1>5, <1>10, <2>2, <2>3, <2>4 DEF PkTypeOK
<1> QED  BY <1>13, <1>14, <1>15, <1>16 DEF PkInv

LEMMA InitUnpackKeeps ==
  ASSUME NarrowVectors, PkInv, InitUnpack
  PROVE  PkInv'
<1>1. /\ PkTypeOK /\ StreamHeld /\ ArrivedSoFar /\ got = <<>>
      /\ mode' = "unpack" /\ rep' = InitIndexes
      /\ bits' = bits /\ sent' = sent /\ got' = got /\ round' = round
  BY DEF PkInv, PackedSoFar, InitUnpack
<1>2. sent \in Seq(Fields)
  BY <1>1 DEF PkTypeOK
<1>3. Len(got') = 0 /\ Len(sent) \in Nat /\ Len(Joins(Streams(sent))[0]) = 0
  BY <1>1, <1>2, EmptySeq, StreamsRight, JoinsFacts
<1>4. UnpackedSoFar' /\ PackedSoFar'
  BY <1>1, <1>3, IndexesAtStart DEF UnpackedSoFar, PackedSoFar
<1>5. PkTypeOK'
  BY <1>1, IndexesAtStart DEF PkTypeOK
<1>6. StreamHeld' /\ ArrivedSoFar'
  BY <1>1 DEF StreamHeld, ArrivedSoFar
<1> QED  BY <1>4, <1>5, <1>6 DEF PkInv

LEMMA UnpackKeeps ==
  ASSUME NarrowVectors, PkInv, Unpack
  PROVE  PkInv'
<1> DEFINE s == [bits |-> bits, rep |-> rep]
           n == Len(got)
           k == n + 1
           f == sent[k]
           z == StreamOf(sent)
           q == Streams(sent)
           t == UnpackField(s, f)
           A == {Arrived(g) : g \in Fields}
<1>1. /\ PkTypeOK /\ StreamHeld /\ ArrivedSoFar /\ mode = "unpack"
      /\ n <= Len(sent) /\ rep.bits_size = Len(Joins(q)[n])
  BY DEF PkInv, UnpackedSoFar, Unpack
<1>2. sent \in Seq(Fields) /\ Len(sent) \in Nat /\ got \in Seq(A) /\ n \in Nat
  BY <1>1, LenProperties DEF PkTypeOK, ArrivedSoFar
<1> HIDE DEF A
<1>3. k \in 1 .. Len(sent) /\ Head(Unread) = f
  <2>1. k \in 1 .. Len(sent)
    <3>1. SUFFICES ASSUME Len(sent) < k PROVE FALSE
      BY <1>2
    <3>2. SubSeq(sent, k, Len(sent)) = <<>>
      BY <1>2, <3>1, SubSeqEmpty
    <3> QED  BY <3>2 DEF Unpack, Unread
  <2>2. Len(sent) \in k .. Len(sent)
    BY <1>2, <2>1
  <2>3. Head(SubSeq(sent, k, Len(sent))) = sent[k]
    BY <1>2, <2>1, <2>2, HeadTailOfSubSeq
  <2> QED  BY <2>1, <2>3 DEF Unread
<1>4. f \in Fields
  BY <1>2, <1>3, ElementOfSeq
<1>5. /\ q \in Seq(BitSeq) /\ Len(q) = Len(sent) /\ q[k] = Stream(f)
      /\ z = FlattenSeq(q)
  BY <1>2, <1>3, StreamsRight
<1>6. s.bits = bits /\ s.rep = rep /\ OnePlace(s.rep)
  <2>1. rep \in Indexes
    BY <1>1 DEF PkTypeOK, Indexes
  <2> QED  BY <1>1, <2>1 DEF PkTypeOK, OnePlace
<1>7. k - 1 = n /\ k \in 1 .. Len(q)
  BY <1>2, <1>3, <1>5
<1>8. FieldIsNext(s, z, f)
  <2>1. FieldOfType(f) /\ NarrowField(f)
    BY <1>4, StreamIsBits
  <2>2. /\ Len(Joins(q)[k - 1]) + Len(q[k]) <= Len(FlattenSeq(q))
        /\ \A i \in 1 .. Len(q[k]) : FlattenSeq(q)[Len(Joins(q)[k - 1]) + i] = q[k][i]
    BY <1>5, <1>7, PieceAt
  <2> HIDE DEF s, n, k, f, z, q
  <2>3. Behind(z, s.rep.bits_size, Stream(f))
    BY <1>1, <1>5, <1>6, <1>7, <2>2 DEF Behind
  <2> QED  BY <1>1, <1>6, <2>1, <2>3 DEF FieldIsNext, StreamHeld, z
<1>9. t.value = Arrived(f) /\ OnePlace(t.rep) /\ t.rep.bits_size = rep.bits_size + Len(Stream(f))
  <2>1. FieldIsRead(s, t, f)
    BY <1>8, UnpackFieldRight
  <2> HIDE DEF t, s
  <2> QED  BY <1>6, <2>1 DEF FieldIsRead
<1>10. /\ got' = Append(got, t.value) /\ rep' = t.rep
       /\ bits' = bits /\ mode' = mode /\ sent' = sent /\ round' = round
  BY <1>3 DEF Unpack
<1> HIDE DEF t
<1>11. Arrived(f) \in A
  BY <1>4 DEF A
<1>12. /\ got' \in Seq(A) /\ Len(got') = k
       /\ \A i \in 1 .. n : got'[i] = got[i]
       /\ got'[k] = Arrived(f)
  BY <1>2, <1>9, <1>10, <1>11, AppendProperties
<1>13. ArrivedSoFar'
  <2>1. ASSUME NEW i \in 1 .. k
        PROVE  got'[i] = Arrived(sent[i])
    <3>1. CASE i = k
      BY <1>12, <3>1
    <3>2. CASE i # k
      <4>1. i \in 1 .. n
        BY <1>2, <3>2
      <4> QED  BY <1>1, <1>12, <4>1 DEF ArrivedSoFar
    <3> QED  BY <3>1, <3>2
  <2> HIDE DEF k
  <2> QED  BY <1>10, <1>12, <2>1 DEF ArrivedSoFar, A
<1>14. /\ Len(Joins(q)[k]) = Len(Joins(q)[n]) + Len(q[k])
       /\ t.rep.bits_size = Len(Joins(q)[k])
  <2>1. Len(Joins(q)[k]) = Len(Joins(q)[k - 1]) + Len(q[k])
    BY <1>5, <1>7, JoinsFacts
  <2> HIDE DEF n, k, q, f
  <2> QED  BY <1>1, <1>5, <1>7, <1>9, <2>1
<1>15. UnpackedSoFar' /\ PackedSoFar'
  <2>1. k <= Len(sent)
    BY <1>2, <1>3
  <2> HIDE DEF k
  <2> QED  BY <1>1, <1>10, <1>12, <1>14, <2>1 DEF UnpackedSoFar, PackedSoFar
<1>16. t.rep.ptr \in 0 .. MaxWords
  <2>1. Len(Joins(q)[k - 1]) + Len(q[k]) <= Len(FlattenSeq(q))
    BY <1>5, <1>7, PieceAt
  <2>2. Len(z) <= MaxWords * WordBits
    BY <1>1 DEF StreamHeld, Holds
  <2>3. t.rep.bits_size <= Len(z)
    <3> HIDE DEF n, k, q, f, z
    <3> QED  BY <1>5, <1>7, <1>14, <2>1
  <2>4. t.rep.bits_size <= MaxWords * WordBits
    <3>1. t.rep.bits_size \in Nat /\ Len(z) \in Nat /\ MaxWords * WordBits \in Nat
      BY <1>2, <1>9, StreamsRight, WordBitsAssumption, MaxWordsAssumption DEF OnePlace, Indexes
    <3> DEFINE m == MaxWords * WordBits
    <3> HIDE DEF z, m
    <3>2. t.rep.bits_size <= m
      BY <2>2, <2>3, <3>1 DEF m
    <3> QED  BY <3>2 DEF m
  <2> QED  BY <1>9, <2>4, PointerBounded
<1>17. PkTypeOK'
  <2>1. /\ t.rep \in [ptr : 0 .. MaxWords, bit_index : Places, bits_size : Nat]
        /\ t.rep.bits_size = t.rep.ptr * WordBits + t.rep.bit_index
    BY <1>9, <1>16 DEF OnePlace, Indexes
  <2> QED  BY <1>1, <1>10, <2>1 DEF PkTypeOK
<1>18. StreamHeld'
  BY <1>1, <1>10 DEF StreamHeld
<1> QED  BY <1>13, <1>15, <1>17, <1>18 DEF PkInv

LEMMA InitPackKeeps ==
  ASSUME NarrowVectors, PkInv, InitPack
  PROVE  PkInv'
<1>1. /\ PkTypeOK /\ round < MaxRounds
      /\ mode' = "pack" /\ rep' = InitIndexes /\ round' = round + 1
      /\ bits' = bits /\ sent' = <<>> /\ got' = <<>>
  BY DEF PkInv, InitPack
<1>2. /\ sent' \in Seq(Fields) /\ Len(sent') = 0
      /\ Len(StreamOf(sent')) = 0 /\ Holds(bits', StreamOf(sent'))
  BY <1>1, EmptyStream
<1>3. got' \in Seq({Arrived(f) : f \in Fields}) /\ Len(got') = 0
  BY <1>1, EmptySeq
<1>4. PkTypeOK'
  BY <1>1, <1>2, IndexesAtStart, BoundsAssumption DEF PkTypeOK
<1>5. StreamHeld' /\ PackedSoFar' /\ UnpackedSoFar'
  BY <1>1, <1>2, IndexesAtStart DEF StreamHeld, PackedSoFar, UnpackedSoFar
<1>6. ArrivedSoFar'
  BY <1>3 DEF ArrivedSoFar
<1> QED  BY <1>4, <1>5, <1>6 DEF PkInv

LEMMA PkInvariance ==
  ASSUME NarrowVectors
  PROVE  PkSpec => []PkInv
<1>1. PkInit => PkInv
  BY PkStart
<1>2. PkInv /\ [PkNext]_pkVars => PkInv'
  <2> SUFFICES ASSUME PkInv, [PkNext]_pkVars PROVE PkInv'
    OBVIOUS
  <2>1. ASSUME NEW f \in Fields, Pack(f) PROVE PkInv'
    BY <2>1, PackKeeps
  <2>2. CASE InitUnpack
    BY <2>2, InitUnpackKeeps
  <2>3. CASE Unpack
    BY <2>3, UnpackKeeps
  <2>4. CASE InitPack
    BY <2>4, InitPackKeeps
  <2>5. CASE UNCHANGED pkVars
    BY <2>5 DEF pkVars, PkInv, PkTypeOK, StreamHeld, PackedSoFar, UnpackedSoFar, ArrivedSoFar
  <2> QED  BY <2>1, <2>2, <2>3, <2>4, <2>5 DEF PkNext
<1> QED  BY <1>1, <1>2, PTL DEF PkSpec

\* uvmc_packer: the buffer holds bits, the pointer stays in it, and the three indexes that
\* update_indexes keeps apart name one place.
THEOREM PackerTypeCorrect ==
  ASSUME NarrowVectors
  PROVE  PkSpec => []PkTypeOK
<1>1. PkInv => PkTypeOK
  BY DEF PkInv
<1> QED  BY <1>1, PkInvariance, PTL

\* uvmc_packer.cpp, pack_*: whatever the fields, the width of the words and what the buffer
\* held before, it holds the bits of the fields, one behind the other and without a gap.
THEOREM BufferHoldsStream ==
  ASSUME NarrowVectors
  PROVE  PkSpec => []BufferIsStream
<1>1. PkInv => BufferIsStream
  BY DEF PkInv, PackedSoFar, StreamHeld, Holds, BufferIsStream
<1> QED  BY <1>1, PkInvariance, PTL

\* uvmc_packer.cpp, unpack_*: every field that is unpacked is the one that was packed, a
\* string and a vector, whose length nobody told, among them.
THEOREM RoundTripHolds ==
  ASSUME NarrowVectors
  PROVE  PkSpec => []RoundTrip
<1>1. PkInv => RoundTrip
  <2> SUFFICES ASSUME PkInv PROVE RoundTrip
    OBVIOUS
  <2>1. /\ got \in Seq({Arrived(f) : f \in Fields})
        /\ \A i \in 1 .. Len(got) : got[i] = Arrived(sent[i])
    BY DEF PkInv, ArrivedSoFar
  <2>2. DOMAIN got = 1 .. Len(got) /\ got = [i \in 1 .. Len(got) |-> got[i]]
    BY <2>1, LenProperties
  <2> QED  BY <2>1, <2>2 DEF RoundTrip
<1> QED  BY <1>1, PkInvariance, PTL

=============================================================================
