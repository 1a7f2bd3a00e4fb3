--------------------------- MODULE FltCompileProofs ---------------------------
(***************************************************************************)
(* Theorems about FltCompile, for every set of libraries and of arguments, *)
(* all file lists and every command that may fail.                         *)
(*                                                                         *)
(* A file of the list has a slot: the number of its library in the order   *)
(* and its number in that library.  Under a conforming list the slots of   *)
(* the files parsed are in the order of their lines, and the files visited *)
(* are those of the slots before the batching loops' own, <<cur, n>>.      *)
(***************************************************************************)
EXTENDS FltCompile, FiniteSetTheorems, TLAPS

-----------------------------------------------------------------------------
(* The inductive invariant.                                                  *)

\* Nothing is compiled before the whole list is parsed.
Phases ==
  /\ phase \in {"start", "parse"} =>
       cur = 1 /\ n = 1 /\ compiled = <<>> /\ commandFiles = <<>> /\ prevLib = NoLib
  /\ phase = "start" => pos = 0
  /\ phase \in {"batch", "done"} => pos = Len(flt)
  /\ compiled # <<>> \/ commandFiles # <<>> => pos = Len(flt)
  /\ phase = "done" => ~InLibrary /\ commandFiles = <<>>

\* What a compiled file's entry may hold.
Compilations ==
  [file : Nat, lib : Lib \cup {NoLib}, type : Type \cup {"unknown"}, args : Args \cup {NoArgs},
   generic : SUBSET Nat, first : Nat]

\* Every file is filed under the library of its line.
Filed ==
  /\ lib = LibraryOf(flt, pos)
  /\ \A key \in DOMAIN db :
       /\ db[key] <= pos
       /\ flt[db[key]].type \in Type
       /\ key[1] = LibraryOf(flt, db[key])

\* The files of a batch are of its library and type and have its arguments.
Fits(list, f, l, type, args) ==
  LibraryOf(list, f) = l /\ list[f].type = type /\ list[f].args = args
BatchFits ==
  /\ \A k \in 1..Len(commandFiles) : Fits(flt, commandFiles[k], prevLib, prevType, prevArgs)
  /\ prevType = "c" => Len(commandFiles) <= 1

IInv ==
  /\ TypeOK /\ Phases /\ compiled \in Seq(Compilations)
  /\ Filed /\ BatchFits
  /\ CommandsFitFiles /\ LiborderTxtMatches

-----------------------------------------------------------------------------
(* Slots.                                                                    *)

File(a, k) == db[<<liborder[a], k>>]
IsSlot(a, k) == a \in 1..Len(liborder) /\ k \in 1..NoOfFiles(liborder[a])
Before(a, k, b, m) == a < b \/ (a = b /\ k < m)

\* A library is created once, and the last one is the current one.
OrderIsOfLines ==
  /\ \A a \in 1..Len(liborder) : \E j \in LibraryLines(flt, pos) : flt[j].lib = liborder[a]
  /\ \A a, b \in 1..Len(liborder) : liborder[a] = liborder[b] => a = b
  /\ LibraryLines(flt, pos) # {} =>
       liborder # <<>> /\ lib = liborder[Len(liborder)] /\ i = NoOfFiles(lib)
  /\ \A l \in DOMAIN noOfFiles : \E a \in 1..Len(liborder) : liborder[a] = l

\* The slots are the files parsed, in the order of their lines.
SlotsInOrder ==
  /\ \A a, k \in Nat : IsSlot(a, k) => <<liborder[a], k>> \in DOMAIN db
  /\ \A f \in FileLines(flt) : f <= pos => \E a, k \in Nat : IsSlot(a, k) /\ File(a, k) = f
  /\ \A a, k, b, m \in Nat :
       IsSlot(a, k) /\ IsSlot(b, m) /\ Before(a, k, b, m) => File(a, k) < File(b, m)

\* The files visited are those of the slots before the loops' own.
Compiled == [k \in 1..Len(compiled) |-> compiled[k].file]
VisitedInOrder ==
  /\ \A j, k \in 1..Len(Visited) : j < k => Visited[j] < Visited[k]
  /\ \A j \in 1..Len(Visited) :
       \E a, k \in Nat : IsSlot(a, k) /\ Before(a, k, cur, n) /\ Visited[j] = File(a, k)
  /\ \A a, k \in Nat :
       IsSlot(a, k) /\ Before(a, k, cur, n) => \E j \in 1..Len(Visited) : Visited[j] = File(a, k)

OrderInv == Conforming(flt) => OrderIsOfLines /\ SlotsInOrder /\ VisitedInOrder

-----------------------------------------------------------------------------
(* Sequences.                                                                *)

LEMMA NonEmpty == ASSUME NEW S, NEW s \in Seq(S) PROVE Len(s) # 0 <=> s # <<>>
  OBVIOUS

LEMMA ConcatFacts ==
  ASSUME NEW S, NEW s \in Seq(S), NEW t \in Seq(S)
  PROVE  /\ s \o t \in Seq(S)
         /\ Len(s \o t) = Len(s) + Len(t)
         /\ \A k \in 1..Len(s) : (s \o t)[k] = s[k]
         /\ \A k \in 1..Len(t) : (s \o t)[Len(s) + k] = t[k]
         /\ \A k \in 1..Len(s \o t) : k > Len(s) => (s \o t)[k] = t[k - Len(s)]
  OBVIOUS

LEMMA AppendFacts ==
  ASSUME NEW S, NEW s \in Seq(S), NEW x \in S
  PROVE  /\ Append(s, x) \in Seq(S)
         /\ Len(Append(s, x)) = Len(s) + 1
         /\ \A k \in 1..Len(s) : Append(s, x)[k] = s[k]
         /\ Append(s, x)[Len(s) + 1] = x
  OBVIOUS

LEMMA SameSequence ==
  ASSUME NEW S, NEW s \in Seq(S), NEW t \in Seq(S), Len(s) = Len(t),
         \A k \in 1..Len(s) : s[k] = t[k]
  PROVE  s = t
  OBVIOUS

-----------------------------------------------------------------------------
(* The list and its lines.                                                   *)

LEMMA LineFacts ==
  ASSUME NEW x \in Line
  PROVE  /\ x.kind \in {"library", "vlogargs", "vcomargs", "file"}
         /\ x.kind = "library" => x.lib \in Lib /\ x = [kind |-> "library", lib |-> x.lib]
         /\ x.kind = "file" => x.type \in Type \cup {"unknown"} /\ x.args \in Args
  BY DEF Line

LEMMA ListFacts ==
  ASSUME TypeOK
  PROVE  /\ flt \in Seq(Line) /\ Len(flt) \in Nat
         /\ pos \in Nat /\ pos <= Len(flt)
         /\ \A k \in 1..Len(flt) : flt[k] \in Line
         /\ \A k \in FileLines(flt) : k \in 1..Len(flt) /\ flt[k].kind = "file"
  BY FltListsAssumption DEF TypeOK, FileLines

\* The line a step of the parser reads.
LEMMA LineRead ==
  ASSUME TypeOK, NEW kinds, Parse(kinds)
  PROVE  /\ pos + 1 \in 1..Len(flt) /\ pos + 1 \in Nat /\ flt[pos + 1] \in Line
         /\ flt[pos + 1].kind \in kinds
  BY ListFacts DEF Parse

LEMMA LibraryLinesNext ==
  ASSUME NEW list, NEW p \in Nat
  PROVE  /\ LibraryLines(list, p + 1) =
              IF list[p + 1].kind = "library" THEN LibraryLines(list, p) \cup {p + 1}
                                              ELSE LibraryLines(list, p)
         /\ p + 1 \notin LibraryLines(list, p)
         /\ LibraryLines(list, p) \subseteq 1..p
         /\ LibraryLines(list, 0) = {}
  BY DEF LibraryLines

LEMMA LibraryLinesFinite ==
  ASSUME NEW list, NEW p \in Nat
  PROVE  IsFiniteSet(LibraryLines(list, p)) /\ Cardinality(LibraryLines(list, p)) \in Nat
<1>1. IsFiniteSet(1..p)
  BY FS_Interval
<1>2. IsFiniteSet(LibraryLines(list, p))
  BY <1>1, FS_Subset DEF LibraryLines
<1> QED
  BY <1>2, FS_CardinalityType

\* A library line begins its library; after any other the library is the same.
LEMMA LibraryOfNext ==
  ASSUME NEW list, NEW p \in Nat
  PROVE  /\ LibraryOf(list, p + 1) = IF list[p + 1].kind = "library" THEN list[p + 1].lib
                                                                    ELSE LibraryOf(list, p)
         /\ LibraryOf(list, 0) = DefaultLib
<1>1. LibraryOf(list, 0) = DefaultLib
  BY LibraryLinesNext DEF LibraryOf
<1>2. CASE list[p + 1].kind # "library"
  <2>1. LibraryLines(list, p + 1) = LibraryLines(list, p)
    BY <1>2, LibraryLinesNext
  <2>2. LibraryOf(list, p + 1) = LibraryOf(list, p)
    <3> DEFINE Latest(before) ==
          IF before = {} THEN DefaultLib
          ELSE list[CHOOSE k \in before : \A j \in before : j <= k].lib
    <3>1. LibraryOf(list, p + 1) = Latest(LibraryLines(list, p + 1))
          /\ LibraryOf(list, p) = Latest(LibraryLines(list, p))
      BY DEF LibraryOf
    <3> HIDE DEF Latest
    <3> QED
      BY <2>1, <3>1
  <2> QED
    BY <1>1, <1>2, <2>2
<1>3. CASE list[p + 1].kind = "library"
  <2> DEFINE before == LibraryLines(list, p + 1)
  <2>1. p + 1 \in before /\ \A k \in before : k \in Nat /\ k <= p + 1
    <3>1. before = LibraryLines(list, p) \cup {p + 1} /\ LibraryLines(list, p) \subseteq 1..p
      BY <1>3, LibraryLinesNext
    <3> HIDE DEF before
    <3> QED
      BY <3>1
  <2>2. (CHOOSE k \in before : \A j \in before : j <= k) = p + 1
    <3> HIDE DEF before
    <3>1. \E k \in before : \A j \in before : j <= k
      BY <2>1
    <3>2. PICK c : c = CHOOSE k \in before : \A j \in before : j <= k
      OBVIOUS
    <3>3. c \in before /\ \A j \in before : j <= c
      BY <3>1, <3>2
    <3>4. c = p + 1
      BY <3>3, <2>1
    <3> QED
      BY <3>2, <3>4
  <2>3. LibraryOf(list, p + 1) = list[p + 1].lib
    BY <2>1, <2>2 DEF LibraryOf
  <2> QED
    BY <1>1, <1>3, <2>3
<1> QED
  BY <1>2, <1>3

-----------------------------------------------------------------------------
(* What a command is given, and what compiling a batch does.                 *)

LEMMA CommandFacts ==
  ASSUME IInv
  PROVE  /\ Command(commandFiles) \in Seq(Compilations)
         /\ Len(Command(commandFiles)) = Len(commandFiles)
         /\ commandFiles \in Seq(Nat)
         /\ \A k \in 1..Len(commandFiles) :
              LET c == Command(commandFiles)[k]
              IN  /\ c.file = commandFiles[k] /\ c.lib = prevLib /\ c.type = prevType
                  /\ c.args = prevArgs /\ c.first = commandFiles[1]
                  /\ c.file \in FileLines(flt)
<1> DEFINE g == CASE prevType = "verilog" -> generic.vlog
                  [] prevType = "vhdl" -> generic.vcom
                  [] OTHER -> {}
    c(k) == [file |-> commandFiles[k], lib |-> prevLib, type |-> prevType, args |-> prevArgs,
             generic |-> g, first |-> commandFiles[1]]
<1>1. commandFiles \in Seq(FileLines(flt)) /\ FileLines(flt) \subseteq Nat
  BY DEF IInv, TypeOK, FileLines
<1>2. g \in SUBSET Nat
  <2>1. generic.vlog \in SUBSET Nat /\ generic.vcom \in SUBSET Nat
    BY DEF IInv, TypeOK
  <2> QED
    BY <2>1
<1>3. Command(commandFiles) = [k \in 1..Len(commandFiles) |-> c(k)]
  BY DEF Command
<1>4. \A k \in 1..Len(commandFiles) : commandFiles[k] \in FileLines(flt)
  BY <1>1
<1>5. \A k \in 1..Len(commandFiles) : c(k) \in Compilations
  <2> SUFFICES ASSUME NEW k \in 1..Len(commandFiles) PROVE c(k) \in Compilations
    OBVIOUS
  <2>1. commandFiles[k] \in Nat /\ commandFiles[1] \in Nat
    BY <1>1
  <2>2. prevLib \in Lib \cup {NoLib} /\ prevType \in Type \cup {"unknown"}
        /\ prevArgs \in Args \cup {NoArgs}
    BY DEF IInv, TypeOK
  <2> HIDE DEF g
  <2> QED
    BY <1>2, <2>1, <2>2 DEF Compilations
<1>6. \A k \in 1..Len(commandFiles) :
        /\ c(k).file = commandFiles[k] /\ c(k).lib = prevLib /\ c(k).type = prevType
        /\ c(k).args = prevArgs /\ c(k).first = commandFiles[1]
  OBVIOUS
<1>7. Len(commandFiles) \in Nat
  BY <1>1
<1> HIDE DEF c
<1>8. Command(commandFiles) \in Seq(Compilations) /\ Len(Command(commandFiles)) = Len(commandFiles)
  BY <1>3, <1>5, <1>7
<1>9. commandFiles \in Seq(Nat)
  BY <1>1
<1> QED
  BY <1>3, <1>4, <1>6, <1>8, <1>9

\* The batch is appended to what is compiled, and its files fit their commands.
LEMMA BatchCompiled ==
  ASSUME IInv, UNCHANGED flt, compiled' = compiled \o Command(commandFiles)
  PROVE  /\ compiled' \in Seq(Compilations)
         /\ \A k \in 1..Len(compiled') : compiled'[k].file \in FileLines(flt)
         /\ CommandsFitFiles'
         /\ Compiled \in Seq(Nat)
         /\ Compiled' = Compiled \o commandFiles
<1> DEFINE cs == Command(commandFiles)
<1>1. cs \in Seq(Compilations) /\ Len(cs) = Len(commandFiles) /\ compiled \in Seq(Compilations)
      /\ commandFiles \in Seq(Nat)
  BY CommandFacts DEF IInv
<1>2. /\ compiled' \in Seq(Compilations)
      /\ Len(compiled') = Len(compiled) + Len(commandFiles)
      /\ \A k \in 1..Len(compiled) : compiled'[k] = compiled[k]
      /\ \A k \in 1..Len(cs) : compiled'[Len(compiled) + k] = cs[k]
      /\ \A k \in 1..Len(compiled') : k > Len(compiled) => compiled'[k] = cs[k - Len(compiled)]
  <2> HIDE DEF cs
  <2>1. compiled' = compiled \o cs
    BY DEF cs
  <2> QED
    <3>1. PICK d \in Seq(Compilations) : d = compiled
      BY <1>1
    <3>2. PICK e \in Seq(Compilations) : e = cs
      BY <1>1
    <3>3. Len(e) = Len(commandFiles) /\ compiled' = d \o e
      BY <1>1, <2>1, <3>1, <3>2
    <3>4. /\ d \o e \in Seq(Compilations)
          /\ Len(d \o e) = Len(d) + Len(e)
          /\ \A k \in 1..Len(d) : (d \o e)[k] = d[k]
          /\ \A k \in 1..Len(e) : (d \o e)[Len(d) + k] = e[k]
          /\ \A k \in 1..Len(d \o e) : k > Len(d) => (d \o e)[k] = e[k - Len(d)]
      BY ConcatFacts
    <3> QED
      BY <3>1, <3>2, <3>3, <3>4
<1>3. Len(compiled) \in Nat /\ Len(commandFiles) \in Nat
  BY <1>1
<1>4. \A k \in 1..Len(compiled') :
        \/ k \in 1..Len(compiled) /\ compiled'[k] = compiled[k]
        \/ k - Len(compiled) \in 1..Len(commandFiles) /\ compiled'[k] = cs[k - Len(compiled)]
  <2> HIDE DEF cs
  <2> SUFFICES ASSUME NEW k \in 1..Len(compiled')
               PROVE  \/ k \in 1..Len(compiled) /\ compiled'[k] = compiled[k]
                      \/ /\ k - Len(compiled) \in 1..Len(commandFiles)
                         /\ compiled'[k] = cs[k - Len(compiled)]
    OBVIOUS
  <2>1. CASE k <= Len(compiled)
    BY <1>2, <1>3, <2>1
  <2>2. CASE k > Len(compiled)
    <3>1. k - Len(compiled) \in 1..Len(commandFiles)
      BY <1>2, <1>3, <2>2
    <3>2. compiled'[k] = cs[k - Len(compiled)]
      BY <1>2, <2>2
    <3> QED
      BY <3>1, <3>2
  <2> QED
    BY <1>2, <1>3, <2>1, <2>2
<1>5. \A k \in 1..Len(compiled) : compiled[k].file \in FileLines(flt)
  BY DEF IInv, TypeOK
<1>6. \A k \in 1..Len(commandFiles) :
        /\ cs[k].file = commandFiles[k] /\ cs[k].lib = prevLib /\ cs[k].type = prevType
        /\ cs[k].args = prevArgs /\ cs[k].first = commandFiles[1]
        /\ cs[k].file \in FileLines(flt)
  BY CommandFacts
<1>7. ASSUME NEW k \in 1..Len(compiled')
      PROVE  /\ compiled'[k].file \in FileLines(flt)
             /\ compiled'[k].lib = LibraryOf(flt, compiled'[k].file)
             /\ compiled'[k].type = flt[compiled'[k].file].type
             /\ compiled'[k].args = flt[compiled'[k].file].args
             /\ compiled'[k].type = "c" => compiled'[k].first = compiled'[k].file
  <2> HIDE DEF cs
  <2>1. CASE k \in 1..Len(compiled) /\ compiled'[k] = compiled[k]
    <3>1. /\ compiled[k].lib = LibraryOf(flt, compiled[k].file)
          /\ compiled[k].type = flt[compiled[k].file].type
          /\ compiled[k].args = flt[compiled[k].file].args
          /\ compiled[k].type = "c" => compiled[k].first = compiled[k].file
      BY <2>1 DEF IInv, CommandsFitFiles
    <3> QED
      BY <2>1, <3>1, <1>5
  <2>2. CASE k - Len(compiled) \in 1..Len(commandFiles) /\ compiled'[k] = cs[k - Len(compiled)]
    <3>1. PICK j \in 1..Len(commandFiles) : j = k - Len(compiled)
      BY <2>2
    <3>2. compiled'[k] = cs[j]
      BY <2>2, <3>1
    <3>3. Fits(flt, commandFiles[j], prevLib, prevType, prevArgs)
      BY DEF IInv, BatchFits
    <3>4. prevType = "c" => j = 1
      BY <1>3, <3>1 DEF IInv, BatchFits
    <3> QED
      BY <1>6, <3>2, <3>3, <3>4 DEF Fits
  <2> QED
    BY <1>4, <2>1, <2>2
<1>8. CommandsFitFiles'
  <2> SUFFICES ASSUME NEW k \in 1..Len(compiled')
               PROVE  /\ compiled'[k].lib = LibraryOf(flt', compiled'[k].file)
                      /\ compiled'[k].type = flt'[compiled'[k].file].type
                      /\ compiled'[k].args = flt'[compiled'[k].file].args
                      /\ compiled'[k].type = "c" => compiled'[k].first = compiled'[k].file
    BY DEF CommandsFitFiles
  <2> QED
    BY <1>7
<1>9. Compiled \in Seq(Nat) /\ Compiled' = Compiled \o commandFiles
  <2>1. \A k \in 1..Len(compiled) : compiled[k].file \in Nat
    BY <1>5 DEF FileLines
  <2>2. Compiled \in Seq(Nat) /\ Len(Compiled) = Len(compiled)
    BY <2>1, <1>3 DEF Compiled
  <2>3. \A k \in 1..Len(compiled') : compiled'[k].file \in Nat
    BY <1>7 DEF FileLines
  <2>4. Compiled' \in Seq(Nat) /\ Len(Compiled') = Len(compiled')
    BY <2>3, <1>2 DEF Compiled
  <2>5. PICK s \in Seq(Nat) : s = Compiled
    BY <2>2
  <2>6. PICK t \in Seq(Nat) : t = Compiled'
    BY <2>4
  <2>7. ASSUME NEW k \in 1..Len(compiled') PROVE t[k] = (s \o commandFiles)[k]
    <3>1. t[k] = compiled'[k].file
      BY <2>6 DEF Compiled
    <3>2. CASE k \in 1..Len(compiled) /\ compiled'[k] = compiled[k]
      <4>1. s[k] = compiled[k].file
        BY <2>5, <3>2 DEF Compiled
      <4>2. (s \o commandFiles)[k] = s[k]
        BY <1>1, <2>5, <2>2, <3>2, ConcatFacts
      <4> QED
        BY <3>1, <3>2, <4>1, <4>2
    <3>3. CASE k - Len(compiled) \in 1..Len(commandFiles) /\ compiled'[k] = cs[k - Len(compiled)]
      <4> HIDE DEF cs
      <4>1. PICK j \in 1..Len(commandFiles) : j = k - Len(compiled)
        BY <3>3
      <4>2. k = Len(s) + j
        BY <4>1, <2>5, <2>2, <1>3
      <4>3. (s \o commandFiles)[k] = commandFiles[j]
        BY <4>2, <1>1, <2>5, ConcatFacts
      <4>4. t[k] = commandFiles[j]
        BY <1>6, <3>1, <3>3, <4>1
      <4> QED
        BY <4>3, <4>4
    <3> HIDE DEF cs
    <3> QED
      BY <1>4, <3>2, <3>3
  <2>8. s \o commandFiles \in Seq(Nat) /\ Len(s \o commandFiles) = Len(s) + Len(commandFiles)
    BY <1>1, ConcatFacts
  <2>9. Len(t) = Len(s \o commandFiles)
    BY <2>2, <2>4, <2>5, <2>6, <2>8, <1>2
  <2>10. t = s \o commandFiles
    <3>1. PICK u \in Seq(Nat) : u = s \o commandFiles
      BY <2>8
    <3>2. Len(t) = Len(u) /\ \A k \in 1..Len(t) : t[k] = u[k]
      BY <2>4, <2>6, <2>7, <2>9, <3>1
    <3>3. t = u
      BY <3>2, SameSequence
    <3> QED
      BY <3>1, <3>3
  <2> QED
    BY <2>2, <2>5, <2>6, <2>10
<1> QED
  BY <1>2, <1>7, <1>8, <1>9

-----------------------------------------------------------------------------
(* The order that is written.                                                *)

LEMMA OrderAppended ==
  ASSUME TypeOK, LiborderTxtMatches, phase # "start", pos + 1 \in 1..Len(flt),
         flt[pos + 1].kind = "library", flt[pos + 1].lib \in Lib,
         UNCHANGED flt, pos' = pos + 1, liborderTxt' = Append(liborderTxt, flt[pos + 1].lib)
  PROVE  LiborderTxtMatches'
<1> DEFINE before == LibraryLines(flt, pos)
    after == LibraryLines(flt, pos + 1)
    UpTo(S, k) == {j \in S : j <= k}
<1>1. pos \in Nat /\ pos + 1 \in Nat
  BY ListFacts
<1>2. /\ after = before \cup {pos + 1} /\ pos + 1 \notin before
      /\ \A k \in before : k \in Nat /\ k <= pos
  <2>1. after = before \cup {pos + 1} /\ pos + 1 \notin before /\ before \subseteq 1..pos
    BY <1>1, LibraryLinesNext
  <2> HIDE DEF before, after
  <2> QED
    BY <1>1, <2>1
<1>3. IsFiniteSet(before) /\ Cardinality(before) \in Nat
  BY <1>1, LibraryLinesFinite
<1> HIDE DEF before, after
<1>4. Cardinality(after) = Cardinality(before) + 1
  BY <1>2, <1>3, FS_AddElement
<1>5. /\ liborderTxt \in Seq(Lib) /\ Len(liborderTxt) = Cardinality(before)
      /\ \A k \in before : liborderTxt[Cardinality(UpTo(before, k))] = flt[k].lib
  BY DEF TypeOK, LiborderTxtMatches, before
<1>6. /\ Len(liborderTxt') = Len(liborderTxt) + 1
      /\ \A k \in 1..Len(liborderTxt) : liborderTxt'[k] = liborderTxt[k]
      /\ liborderTxt'[Len(liborderTxt) + 1] = flt[pos + 1].lib
  BY <1>5, AppendFacts
<1>7. ASSUME NEW k \in after PROVE liborderTxt'[Cardinality(UpTo(after, k))] = flt[k].lib
  <2>1. CASE k = pos + 1
    <3>1. UpTo(after, k) = after
      <4>1. \A j \in after : j <= pos + 1
        BY <1>1, <1>2
      <4> QED
        BY <2>1, <4>1
    <3> QED
      BY <2>1, <3>1, <1>4, <1>5, <1>6
  <2>2. CASE k \in before
    <3>1. UpTo(after, k) = UpTo(before, k)
      BY <2>2, <1>1, <1>2
    <3>2. UpTo(before, k) \subseteq before /\ k \in UpTo(before, k)
      BY <2>2, <1>2
    <3>3. /\ IsFiniteSet(UpTo(before, k)) /\ Cardinality(UpTo(before, k)) \in Nat
          /\ Cardinality(UpTo(before, k)) <= Cardinality(before)
      BY <1>3, <3>2, FS_Subset, FS_CardinalityType
    <3>4. Cardinality(UpTo(before, k)) # 0
      BY <3>2, <3>3, FS_EmptySet
    <3> HIDE DEF UpTo
    <3>5. Cardinality(UpTo(before, k)) \in 1..Len(liborderTxt)
      BY <1>3, <1>5, <3>3, <3>4
    <3> QED
      BY <2>2, <3>1, <3>5, <1>5, <1>6
  <2> QED
    BY <2>1, <2>2, <1>2
<1>8. Len(liborderTxt') = Cardinality(after)
  BY <1>4, <1>5, <1>6
<1>9. LibraryLines(flt', pos') = after
  BY DEF after
<1> QED
  BY <1>7, <1>8, <1>9 DEF LiborderTxtMatches

\* Lines that are not libraries leave the libraries as they are.
LEMMA OrderStays ==
  ASSUME TypeOK, LiborderTxtMatches, phase # "start", UNCHANGED <<flt, liborderTxt>>,
         pos' = pos \/ (pos' = pos + 1 /\ flt[pos + 1].kind # "library")
  PROVE  LiborderTxtMatches'
<1>1. LibraryLines(flt, pos') = LibraryLines(flt, pos)
  BY LibraryLinesNext, ListFacts
<1>2. PICK created : created = LibraryLines(flt, pos) /\ created = LibraryLines(flt', pos')
  BY <1>1
<1>3. /\ Len(liborderTxt) = Cardinality(created)
      /\ \A k \in created : liborderTxt[Cardinality({j \in created : j <= k})] = flt[k].lib
  BY <1>2 DEF LiborderTxtMatches
<1>4. /\ Len(liborderTxt') = Cardinality(created)
      /\ \A k \in created : liborderTxt'[Cardinality({j \in created : j <= k})] = flt'[k].lib
  BY <1>3
<1> QED
  BY <1>2, <1>4 DEF LiborderTxtMatches

-----------------------------------------------------------------------------
(* Every step of the parser preserves the invariant.                         *)

LEMMA InitStep == ASSUME Init PROVE IInv
<1>1. flt \in Seq(Line) /\ Len(flt) \in Nat /\ pos \in 0..Len(flt)
  BY FltListsAssumption DEF Init
<1>2. liborderTxt \in Seq(Lib)
  BY StaleOrdersAssumption DEF Init
<1>3. ~InLibrary
  BY DEF Init, InLibrary
<1>4. TypeOK
  BY <1>1, <1>2, <1>3 DEF Init, TypeOK, Type
<1>5. Phases /\ compiled \in Seq(Compilations)
  BY DEF Init, Phases
<1>6. Filed
  BY LibraryOfNext DEF Init, Filed
<1>7. BatchFits /\ CommandsFitFiles /\ LiborderTxtMatches
  BY DEF Init, BatchFits, CommandsFitFiles, LiborderTxtMatches
<1> QED
  BY <1>4, <1>5, <1>6, <1>7 DEF IInv

LEMMA RemoveLiborderStep == ASSUME IInv, RemoveLiborder PROVE IInv'
<1> USE DEF RemoveLiborder, parseVars, batchVars
<1>1. liborderTxt' = <<>>
  BY DEF InitialOrder
<1>2. TypeOK'
  BY <1>1 DEF IInv, TypeOK, InLibrary, NoOfFiles
<1>3. Phases' /\ (compiled \in Seq(Compilations))'
  BY DEF IInv, Phases, InLibrary
<1>4. Filed' /\ BatchFits' /\ CommandsFitFiles'
  BY DEF IInv, Filed, BatchFits, CommandsFitFiles, Fits
<1>5. LiborderTxtMatches'
  <2>1. pos' = 0
    BY DEF IInv, Phases
  <2>2. LibraryLines(flt', pos') = {}
    BY <2>1, LibraryLinesNext
  <2> QED
    BY <1>1, <2>2, FS_EmptySet DEF LiborderTxtMatches
<1> QED
  BY <1>2, <1>3, <1>4, <1>5 DEF IInv

\* A step that only ends the parser or the script.
LEMMA EndStep ==
  ASSUME IInv, UNCHANGED <<flt, parseVars, batchVars>>, phase # "start",
         phase' = "died" \/ (phase' = "batch" /\ pos = Len(flt))
  PROVE  IInv'
<1> USE DEF parseVars, batchVars
<1>1. TypeOK'
  BY DEF IInv, TypeOK, InLibrary, NoOfFiles
<1>2. Phases' /\ (compiled \in Seq(Compilations))'
  BY DEF IInv, Phases, InLibrary
<1>3. Filed' /\ BatchFits' /\ CommandsFitFiles'
  BY DEF IInv, Filed, BatchFits, CommandsFitFiles, Fits
<1>4. LiborderTxtMatches'
  BY OrderStays DEF IInv
<1> QED
  BY <1>1, <1>2, <1>3, <1>4 DEF IInv

LEMMA ParseLibraryStep == ASSUME IInv, ParseLibrary PROVE IInv'
<1>1. /\ pos + 1 \in 1..Len(flt) /\ pos \in Nat /\ pos + 1 \in Nat
      /\ flt[pos + 1].kind = "library" /\ flt[pos + 1].lib \in Lib
  BY LineRead, LineFacts, ListFacts DEF ParseLibrary, IInv
<1>2. phase = "parse"
  BY DEF ParseLibrary, Parse
<1>3. CASE phase' = "died" /\ UNCHANGED parseVars
  BY <1>2, <1>3, EndStep DEF ParseLibrary
<1>4. CASE /\ pos' = pos + 1
           /\ generic' = [vlog |-> {}, vcom |-> {}]
           /\ lib' = flt[pos + 1].lib
           /\ liborder' = Append(liborder, lib')
           /\ i' = 0
           /\ liborderTxt' = Append(liborderTxt, lib')
           /\ UNCHANGED phase
  <2>1. UNCHANGED <<flt, db, noOfFiles, batchVars>>
    BY DEF ParseLibrary
  <2> USE DEF batchVars
  <2>2. cur = 1 /\ n = 1
    BY <1>2 DEF IInv, Phases
  <2>3. /\ flt' \in FltLists /\ phase' \in {"start", "parse", "batch", "done", "died"}
        /\ pos' \in 0..Len(flt') /\ lib' \in Lib \cup {DefaultLib} /\ i' \in Nat
        /\ generic' \in [{"vlog", "vcom"} -> SUBSET (1..pos')]
    BY <1>1, <1>4, <2>1 DEF IInv, TypeOK
  <2>4. liborder' \in Seq(Lib) /\ liborderTxt' \in Seq(Lib)
    BY <1>1, <1>4 DEF IInv, TypeOK
  <2>5. \A l \in DOMAIN noOfFiles : noOfFiles[l] \in Nat
    BY DEF IInv, TypeOK
  <2>6. n' <= NoOfFiles(liborder[cur])' + 1
    BY <2>1, <2>2, <2>5 DEF NoOfFiles
  <2>7. TypeOK'
    BY <2>1, <2>3, <2>4, <2>6 DEF IInv, TypeOK
  <2>8. Phases' /\ (compiled \in Seq(Compilations))'
    BY <1>2, <1>4, <2>1 DEF IInv, Phases
  <2>9. Filed'
    <3>1. lib' = LibraryOf(flt, pos + 1)
      BY <1>1, <1>4, LibraryOfNext
    <3>2. \A key \in DOMAIN db : db[key] \in Nat
      BY DEF IInv, TypeOK, FileLines
    <3> QED
      BY <1>1, <1>4, <2>1, <3>1, <3>2 DEF IInv, Filed
  <2>10. BatchFits' /\ CommandsFitFiles'
    BY <2>1 DEF IInv, BatchFits, CommandsFitFiles, Fits
  <2>11. LiborderTxtMatches'
    BY <1>1, <1>2, <1>4, <2>1, OrderAppended DEF IInv
  <2> QED
    BY <2>7, <2>8, <2>9, <2>10, <2>11 DEF IInv
<1> QED
  BY <1>3, <1>4 DEF ParseLibrary

LEMMA ParseGenericStep == ASSUME IInv, ParseGeneric PROVE IInv'
<1>1. /\ pos + 1 \in 1..Len(flt) /\ pos \in Nat /\ pos + 1 \in Nat
      /\ flt[pos + 1].kind \in {"vlogargs", "vcomargs"}
  BY LineRead, ListFacts DEF ParseGeneric, IInv
<1>2. /\ phase = "parse" /\ pos' = pos + 1
      /\ UNCHANGED <<flt, phase, lib, i, liborder, db, noOfFiles, liborderTxt>>
      /\ UNCHANGED batchVars
  BY DEF ParseGeneric, Parse
<1> USE DEF batchVars
<1>3. generic' \in [{"vlog", "vcom"} -> SUBSET (1..pos')]
  <2>1. generic \in [{"vlog", "vcom"} -> SUBSET (1..pos')]
    <3>1. generic \in [{"vlog", "vcom"} -> SUBSET (1..pos)]
      BY DEF IInv, TypeOK
    <3>2. 1..pos \subseteq 1..pos'
      BY <1>1, <1>2
    <3> QED
      BY <3>1, <3>2
  <2>2. pos' \in 1..pos'
    BY <1>1, <1>2
  <2> QED
    BY <2>1, <2>2 DEF ParseGeneric
<1>4. TypeOK'
  BY <1>1, <1>2, <1>3 DEF IInv, TypeOK, InLibrary, NoOfFiles
<1>5. Phases' /\ (compiled \in Seq(Compilations))'
  BY <1>2 DEF IInv, Phases
<1>6. Filed'
  <2>1. lib' = LibraryOf(flt, pos + 1)
    BY <1>1, <1>2, LibraryOfNext DEF IInv, Filed
  <2>2. \A key \in DOMAIN db : db[key] \in Nat
    BY DEF IInv, TypeOK, FileLines
  <2> QED
    BY <1>1, <1>2, <2>1, <2>2 DEF IInv, Filed
<1>7. BatchFits' /\ CommandsFitFiles'
  BY <1>2 DEF IInv, BatchFits, CommandsFitFiles, Fits
<1>8. LiborderTxtMatches'
  BY <1>1, <1>2, OrderStays DEF IInv
<1> QED
  BY <1>4, <1>5, <1>6, <1>7, <1>8 DEF IInv

LEMMA ParseFileStep == ASSUME IInv, ParseFile PROVE IInv'
<1>1. /\ pos + 1 \in 1..Len(flt) /\ pos \in Nat /\ pos + 1 \in Nat
      /\ flt[pos + 1].kind = "file" /\ flt[pos + 1].type \in Type
  BY LineRead, ListFacts DEF ParseFile, IInv
<1>2. /\ phase = "parse" /\ pos' = pos + 1 /\ i' = i + 1
      /\ db' = Put(db, <<lib, i + 1>>, pos + 1) /\ noOfFiles' = Put(noOfFiles, lib, i + 1)
      /\ UNCHANGED <<flt, phase, lib, generic, liborder, liborderTxt>>
      /\ UNCHANGED batchVars
  BY DEF ParseFile, Parse
<1> USE DEF batchVars
<1>3. pos + 1 \in FileLines(flt)
  BY <1>1 DEF FileLines
<1>4. /\ DOMAIN db' = DOMAIN db \cup {<<lib, i + 1>>} /\ db'[<<lib, i + 1>>] = pos + 1
      /\ \A key \in DOMAIN db : key # <<lib, i + 1>> => db'[key] = db[key]
  BY <1>2 DEF Put
<1>5. /\ DOMAIN noOfFiles' = DOMAIN noOfFiles \cup {lib} /\ noOfFiles'[lib] = i + 1
      /\ \A l \in DOMAIN noOfFiles : l # lib => noOfFiles'[l] = noOfFiles[l]
  BY <1>2 DEF Put
<1>6. /\ DOMAIN db' \subseteq (Lib \cup {DefaultLib}) \X (Nat \ {0})
      /\ \A k \in DOMAIN db' : db'[k] \in FileLines(flt)
  <2>1. <<lib, i + 1>> \in (Lib \cup {DefaultLib}) \X (Nat \ {0})
    BY DEF IInv, TypeOK
  <2>2. /\ DOMAIN db \subseteq (Lib \cup {DefaultLib}) \X (Nat \ {0})
        /\ \A k \in DOMAIN db : db[k] \in FileLines(flt)
    BY DEF IInv, TypeOK
  <2> QED
    BY <1>3, <1>4, <2>1, <2>2
<1>7. \A l \in DOMAIN noOfFiles' : <<l, noOfFiles'[l]>> \in DOMAIN db'
  BY <1>4, <1>5 DEF IInv, TypeOK
<1>8. \A l \in DOMAIN noOfFiles' : noOfFiles'[l] \in Nat
  BY <1>6, <1>7
<1>9. n' <= NoOfFiles(liborder[cur])' + 1
  <2>1. n' = 1
    BY <1>2 DEF IInv, Phases
  <2> QED
    BY <2>1, <1>8 DEF NoOfFiles
<1>10. generic' \in [{"vlog", "vcom"} -> SUBSET (1..pos')]
  <2>1. generic \in [{"vlog", "vcom"} -> SUBSET (1..pos)]
    BY DEF IInv, TypeOK
  <2>2. 1..pos \subseteq 1..pos'
    BY <1>1, <1>2
  <2> QED
    BY <1>2, <2>1, <2>2
<1>11. TypeOK'
  <2>1. /\ flt' \in FltLists /\ phase' \in {"start", "parse", "batch", "done", "died"}
        /\ pos' \in 0..Len(flt') /\ lib' \in Lib \cup {DefaultLib} /\ i' \in Nat
        /\ liborder' \in Seq(Lib) /\ liborderTxt' \in Seq(Lib)
    BY <1>1, <1>2 DEF IInv, TypeOK
  <2>2. /\ cur' \in Nat \ {0} /\ n' \in Nat \ {0}
        /\ prevLib' \in Lib \cup {NoLib} /\ prevType' \in Type \cup {"unknown"}
        /\ prevArgs' \in Args \cup {NoArgs}
        /\ commandFiles' \in Seq(FileLines(flt'))
        /\ \A k \in 1..Len(compiled') : compiled'[k].file \in FileLines(flt')
    BY <1>2 DEF IInv, TypeOK
  <2>3. \A k \in DOMAIN db' : db'[k] \in FileLines(flt')
    BY <1>2, <1>6
  <2> QED
    BY <2>1, <2>2, <2>3, <1>6, <1>7, <1>9, <1>10 DEF TypeOK
<1>12. Phases' /\ (compiled \in Seq(Compilations))'
  BY <1>2 DEF IInv, Phases
<1>13. Filed'
  <2>1. lib' = LibraryOf(flt, pos + 1)
    BY <1>1, <1>2, LibraryOfNext DEF IInv, Filed
  <2>2. \A key \in DOMAIN db : db[key] \in Nat
    BY DEF IInv, TypeOK, FileLines
  <2>3. ASSUME NEW key \in DOMAIN db'
        PROVE  db'[key] <= pos + 1 /\ flt[db'[key]].type \in Type
               /\ key[1] = LibraryOf(flt, db'[key])
    <3>1. CASE key = <<lib, i + 1>>
      <4>1. db'[key] = pos + 1
        BY <1>4, <3>1
      <4>2. key[1] = LibraryOf(flt, pos + 1)
        BY <1>2, <2>1, <3>1
      <4> QED
        BY <1>1, <4>1, <4>2
    <3>2. CASE key # <<lib, i + 1>>
      BY <1>1, <1>4, <2>2, <3>2 DEF IInv, Filed
    <3> QED
      BY <3>1, <3>2
  <2> QED
    BY <1>2, <2>1, <2>3 DEF Filed
<1>14. BatchFits' /\ CommandsFitFiles'
  BY <1>2 DEF IInv, BatchFits, CommandsFitFiles, Fits
<1>15. LiborderTxtMatches'
  BY <1>1, <1>2, OrderStays DEF IInv
<1> QED
  BY <1>11, <1>12, <1>13, <1>14, <1>15 DEF IInv

-----------------------------------------------------------------------------
(* Every step of the batching loops preserves the invariant.                 *)

\* A step of the loops leaves the list and what was parsed.
LEMMA ParsedStays ==
  ASSUME IInv, UNCHANGED <<flt, parseVars>>, phase # "start"
  PROVE  Filed' /\ LiborderTxtMatches'
<1> USE DEF parseVars
<1>1. LiborderTxtMatches'
  BY OrderStays DEF IInv
<1>2. Filed'
  BY DEF IInv, Filed
<1> QED
  BY <1>1, <1>2

\* The type invariant, from the variables of the loops.
LEMMA BatchTypes ==
  ASSUME IInv, UNCHANGED <<flt, parseVars>>,
         phase' \in {"batch", "done", "died"},
         cur' \in Nat \ {0}, n' \in Nat \ {0},
         cur' <= Len(liborder) => n' <= NoOfFiles(liborder[cur']) + 1,
         prevLib' \in Lib \cup {NoLib}, prevType' \in Type \cup {"unknown"},
         prevArgs' \in Args \cup {NoArgs}, commandFiles' \in Seq(FileLines(flt)),
         \A k \in 1..Len(compiled') : compiled'[k].file \in FileLines(flt)
  PROVE  TypeOK'
<1> USE DEF parseVars
<1>1. /\ flt' \in FltLists /\ pos' \in 0..Len(flt') /\ lib' \in Lib \cup {DefaultLib}
      /\ i' \in Nat /\ generic' \in [{"vlog", "vcom"} -> SUBSET (1..pos')]
      /\ liborder' \in Seq(Lib) /\ liborderTxt' \in Seq(Lib)
  BY DEF IInv, TypeOK
<1>2. /\ DOMAIN db' \subseteq (Lib \cup {DefaultLib}) \X (Nat \ {0})
      /\ \A k \in DOMAIN db' : db'[k] \in FileLines(flt')
      /\ \A l \in DOMAIN noOfFiles' : <<l, noOfFiles'[l]>> \in DOMAIN db'
  BY DEF IInv, TypeOK
<1>3. (InLibrary => n <= NoOfFiles(liborder[cur]) + 1)'
  BY DEF InLibrary, NoOfFiles
<1> QED
  BY <1>1, <1>2, <1>3 DEF TypeOK

LEMMA NoOfFilesType == ASSUME TypeOK, NEW l PROVE NoOfFiles(l) \in Nat
  BY DEF TypeOK, NoOfFiles

\* A file visited is of the current library; an entry that is missing has no file.
LEMMA EntryFacts ==
  ASSUME IInv
  PROVE  /\ Entry.type \in Type \cup {"unknown"} /\ Entry.args \in Args \cup {NoArgs}
         /\ \/ Entry.files = <<>>
            \/ \E f \in FileLines(flt) :
                 /\ Entry.files = <<f>> /\ Entry.type = flt[f].type /\ Entry.args = flt[f].args
                 /\ LibraryOf(flt, f) = liborder[cur]
<1> DEFINE key == <<liborder[cur], n>>
<1>1. CASE key \in DOMAIN db
  <2>1. Entry = [files |-> <<db[key]>>, type |-> flt[db[key]].type, args |-> flt[db[key]].args]
    BY <1>1 DEF Entry
  <2>2. db[key] \in FileLines(flt) /\ flt[db[key]].type \in Type
        /\ key[1] = LibraryOf(flt, db[key])
    BY <1>1 DEF IInv, TypeOK, Filed
  <2>3. PICK f \in FileLines(flt) : f = db[key]
    BY <2>2
  <2>4. flt[f].args \in Args
    BY <2>3, ListFacts, LineFacts DEF IInv
  <2>5. Entry.files = <<f>> /\ Entry.type = flt[f].type /\ Entry.args = flt[f].args
    BY <2>1, <2>3
  <2>6. LibraryOf(flt, f) = liborder[cur]
    BY <2>2, <2>3
  <2> QED
    BY <2>2, <2>3, <2>4, <2>5, <2>6
<1>2. CASE key \notin DOMAIN db
  BY <1>2 DEF Entry
<1> QED
  BY <1>1, <1>2

LEMMA EntryFiles ==
  ASSUME IInv
  PROVE  Entry.files \in Seq(FileLines(flt)) /\ Len(Entry.files) <= 1
<1>1. Entry.files = <<>> \/ \E f \in FileLines(flt) : Entry.files = <<f>>
  BY EntryFacts
<1>2. CASE Entry.files = <<>>
  BY <1>2
<1>3. ASSUME NEW f \in FileLines(flt), Entry.files = <<f>>
      PROVE  Entry.files \in Seq(FileLines(flt)) /\ Len(Entry.files) <= 1
  <2>1. <<f>> \in Seq(FileLines(flt)) /\ Len(<<f>>) = 1
    OBVIOUS
  <2> QED
    BY <1>3, <2>1
<1> QED
  BY <1>1, <1>2, <1>3

LEMMA JoinBatchStep == ASSUME IInv, JoinBatch PROVE IInv'
<1> DEFINE e == Entry
<1>1. /\ phase = "batch" /\ InLibrary /\ n <= NoOfFiles(liborder[cur])
      /\ liborder[cur] = prevLib /\ e.type = prevType /\ e.type # "c" /\ e.args = prevArgs
      /\ commandFiles' = commandFiles \o e.files /\ n' = n + 1
      /\ UNCHANGED <<flt, phase, parseVars, cur, prevLib, prevType, prevArgs, compiled>>
  BY DEF JoinBatch, Joins, Visiting
<1>2. commandFiles \in Seq(FileLines(flt)) /\ n \in Nat \ {0} /\ NoOfFiles(liborder[cur]) \in Nat
  BY NoOfFilesType DEF IInv, TypeOK
<1>3. e.files \in Seq(FileLines(flt))
  BY EntryFiles
<1>4. ASSUME NEW f \in FileLines(flt), LibraryOf(flt, f) = prevLib, flt[f].type = prevType,
             flt[f].args = prevArgs
      PROVE  Fits(flt, f, prevLib', prevType', prevArgs')
  BY <1>1, <1>4 DEF Fits
<1>5. \A f \in FileLines(flt) : e.files = <<f>> => Fits(flt, f, prevLib', prevType', prevArgs')
  <2> SUFFICES ASSUME NEW f \in FileLines(flt), e.files = <<f>>
               PROVE  Fits(flt, f, prevLib', prevType', prevArgs')
    OBVIOUS
  <2>1. PICK g \in FileLines(flt) :
          /\ e.files = <<g>> /\ e.type = flt[g].type /\ e.args = flt[g].args
          /\ LibraryOf(flt, g) = liborder[cur]
    BY EntryFacts
  <2>2. f = g
    BY <2>1
  <2> QED
    BY <1>1, <1>4, <2>1, <2>2
<1>6. e.files = <<>> \/ \E f \in FileLines(flt) : e.files = <<f>>
  BY EntryFacts
<1> HIDE DEF e
<1>7. PICK s \in Seq(FileLines(flt)) : s = commandFiles
  BY <1>2
<1>8. \A k \in 1..Len(s) : Fits(flt, s[k], prevLib', prevType', prevArgs')
  <2>1. \A k \in 1..Len(commandFiles) : Fits(flt, commandFiles[k], prevLib, prevType, prevArgs)
    BY DEF IInv, BatchFits
  <2> QED
    BY <1>1, <1>7, <2>1 DEF Fits
<1>9. /\ commandFiles' \in Seq(FileLines(flt))
      /\ \A k \in 1..Len(commandFiles') :
           Fits(flt, commandFiles'[k], prevLib', prevType', prevArgs')
  <2>1. CASE e.files = <<>>
    BY <1>1, <1>7, <1>8, <2>1
  <2>2. ASSUME NEW f \in FileLines(flt), e.files = <<f>>
        PROVE  /\ commandFiles' \in Seq(FileLines(flt))
               /\ \A k \in 1..Len(commandFiles') :
                    Fits(flt, commandFiles'[k], prevLib', prevType', prevArgs')
    <3>1. commandFiles' = Append(s, f)
      BY <1>1, <1>7, <2>2
    <3>2. PICK t \in Seq(FileLines(flt)) : t = Append(s, f)
      BY <2>2, AppendFacts
    <3>3. Len(t) = Len(s) + 1 /\ (\A k \in 1..Len(s) : t[k] = s[k]) /\ t[Len(s) + 1] = f
      BY <3>2
    <3>4. Fits(flt, f, prevLib', prevType', prevArgs')
      BY <1>5, <2>2
    <3>5. \A k \in 1..Len(t) : Fits(flt, t[k], prevLib', prevType', prevArgs')
      <4> SUFFICES ASSUME NEW k \in 1..Len(t) PROVE Fits(flt, t[k], prevLib', prevType', prevArgs')
        OBVIOUS
      <4>1. k \in 1..Len(s) \/ k = Len(s) + 1
        BY <3>3
      <4> QED
        BY <4>1, <3>3, <3>4, <1>8
    <3> QED
      BY <3>1, <3>2, <3>3, <3>5
  <2> QED
    BY <1>6, <2>1, <2>2
<1>10. BatchFits'
  <2>1. prevType' # "c"
    BY <1>1
  <2> QED
    BY <1>1, <1>9, <2>1 DEF BatchFits
<1>11. TypeOK'
  <2>1. /\ cur' \in Nat \ {0} /\ n' \in Nat \ {0}
        /\ cur' <= Len(liborder) => n' <= NoOfFiles(liborder[cur']) + 1
    BY <1>1, <1>2 DEF IInv, TypeOK
  <2>2. /\ prevLib' \in Lib \cup {NoLib} /\ prevType' \in Type \cup {"unknown"}
        /\ prevArgs' \in Args \cup {NoArgs}
        /\ \A k \in 1..Len(compiled') : compiled'[k].file \in FileLines(flt)
    BY <1>1 DEF IInv, TypeOK
  <2> QED
    BY <1>1, <1>9, <2>1, <2>2, BatchTypes
<1>12. Phases' /\ (compiled \in Seq(Compilations))' /\ CommandsFitFiles'
  <2>1. pos' = Len(flt')
    BY <1>1 DEF IInv, Phases, parseVars
  <2> QED
    BY <1>1, <2>1 DEF IInv, Phases, CommandsFitFiles
<1>13. Filed' /\ LiborderTxtMatches'
  BY <1>1, ParsedStays
<1> QED
  BY <1>10, <1>11, <1>12, <1>13 DEF IInv

LEMMA StartBatchStep == ASSUME IInv, StartBatch PROVE IInv'
<1> DEFINE e == Entry
<1>1. /\ phase = "batch" /\ InLibrary /\ n <= NoOfFiles(liborder[cur])
      /\ UNCHANGED <<flt, parseVars>>
  BY DEF StartBatch, Visiting
<1>2. CASE /\ compiled' = compiled \o Command(commandFiles)
           /\ prevLib' = liborder[cur]
           /\ prevType' = Entry.type
           /\ prevArgs' = ArgsOf(Entry)
           /\ commandFiles' = BatchOf(Entry)
           /\ n' = n + 1
           /\ UNCHANGED <<phase, cur>>
  <2>1. prevArgs' = e.args /\ commandFiles' = e.files /\ prevType' = e.type
    BY <1>2 DEF ArgsOf, BatchOf
  <2>2. e.files \in Seq(FileLines(flt)) /\ Len(e.files) <= 1
    BY EntryFiles
  <2>3. /\ compiled' \in Seq(Compilations) /\ CommandsFitFiles'
        /\ \A k \in 1..Len(compiled') : compiled'[k].file \in FileLines(flt)
    BY <1>1, <1>2, BatchCompiled
  <2>4. liborder[cur] \in Lib /\ n \in Nat \ {0} /\ cur \in Nat \ {0}
        /\ NoOfFiles(liborder[cur]) \in Nat
    BY <1>1, NoOfFilesType DEF IInv, TypeOK, InLibrary
  <2>5. TypeOK'
    <3>1. /\ cur' \in Nat \ {0} /\ n' \in Nat \ {0}
          /\ cur' <= Len(liborder) => n' <= NoOfFiles(liborder[cur']) + 1
      BY <1>1, <1>2, <2>4
    <3>2. /\ prevLib' \in Lib \cup {NoLib} /\ prevType' \in Type \cup {"unknown"}
          /\ prevArgs' \in Args \cup {NoArgs}
      BY <1>2, <2>1, <2>4, EntryFacts
    <3>3. phase' = "batch"
      BY <1>1, <1>2
    <3> QED
      BY <1>1, <2>1, <2>2, <2>3, <3>1, <3>2, <3>3, BatchTypes
  <2>6. Phases'
    <3>1. pos' = Len(flt') /\ phase' = "batch"
      BY <1>1, <1>2 DEF IInv, Phases, parseVars
    <3> QED
      BY <3>1 DEF Phases
  <2>7. BatchFits'
    <3>1. \A f \in FileLines(flt) : e.files = <<f>> => Fits(flt, f, prevLib', prevType', prevArgs')
      <4> SUFFICES ASSUME NEW f \in FileLines(flt), e.files = <<f>>
                   PROVE  Fits(flt, f, prevLib', prevType', prevArgs')
        OBVIOUS
      <4>1. PICK g \in FileLines(flt) :
              /\ e.files = <<g>> /\ e.type = flt[g].type /\ e.args = flt[g].args
              /\ LibraryOf(flt, g) = liborder[cur]
        BY EntryFacts
      <4>2. f = g
        BY <4>1
      <4> QED
        BY <1>1, <1>2, <2>1, <4>1, <4>2 DEF Fits
    <3>2. e.files = <<>> \/ \E f \in FileLines(flt) : e.files = <<f>>
      BY EntryFacts
    <3> HIDE DEF e
    <3>3. \A k \in 1..Len(e.files) : Fits(flt, e.files[k], prevLib', prevType', prevArgs')
      BY <3>1, <3>2
    <3>4. \A k \in 1..Len(commandFiles') :
            Fits(flt, commandFiles'[k], prevLib', prevType', prevArgs')
      BY <2>1, <3>3
    <3> QED
      BY <1>1, <2>1, <2>2, <3>4 DEF BatchFits
  <2> QED
    BY <1>1, <2>3, <2>5, <2>6, <2>7, ParsedStays DEF IInv
<1>3. CASE phase' = "died" /\ UNCHANGED batchVars
  BY <1>1, <1>3, EndStep
<1> QED
  BY <1>2, <1>3 DEF StartBatch

LEMMA NextLibraryStep == ASSUME IInv, NextLibrary PROVE IInv'
<1>1. /\ phase = "batch" /\ cur' = cur + 1 /\ n' = 1
      /\ UNCHANGED <<flt, phase, parseVars, prevLib, prevType, prevArgs, commandFiles, compiled>>
  BY DEF NextLibrary, FirstNumber
<1>2. TypeOK'
  <2>1. /\ cur' \in Nat \ {0} /\ n' \in Nat \ {0}
        /\ n' <= NoOfFiles(liborder[cur']) + 1
    BY <1>1, NoOfFilesType DEF IInv, TypeOK
  <2>2. /\ prevLib' \in Lib \cup {NoLib} /\ prevType' \in Type \cup {"unknown"}
        /\ prevArgs' \in Args \cup {NoArgs} /\ commandFiles' \in Seq(FileLines(flt))
        /\ \A k \in 1..Len(compiled') : compiled'[k].file \in FileLines(flt)
    BY <1>1 DEF IInv, TypeOK
  <2> QED
    BY <1>1, <2>1, <2>2, BatchTypes
<1>3. Phases' /\ (compiled \in Seq(Compilations))'
  BY <1>1 DEF IInv, Phases, parseVars
<1>4. BatchFits' /\ CommandsFitFiles'
  BY <1>1 DEF IInv, BatchFits, CommandsFitFiles, Fits
<1> QED
  BY <1>1, <1>2, <1>3, <1>4, ParsedStays DEF IInv

LEMMA CompileOutstandingStep == ASSUME IInv, CompileOutstanding PROVE IInv'
<1>1. /\ phase = "batch" /\ ~InLibrary
      /\ UNCHANGED <<flt, parseVars, cur, n, prevLib, prevType, prevArgs>>
  BY DEF CompileOutstanding
<1>2. CASE /\ compiled' = compiled \o Command(commandFiles)
           /\ commandFiles' = <<>>
           /\ phase' = "done"
  <2>1. /\ compiled' \in Seq(Compilations) /\ CommandsFitFiles'
        /\ \A k \in 1..Len(compiled') : compiled'[k].file \in FileLines(flt)
    BY <1>1, <1>2, BatchCompiled
  <2>2. TypeOK'
    <3>1. /\ cur' \in Nat \ {0} /\ n' \in Nat \ {0}
          /\ ~(cur' <= Len(liborder))
          /\ prevLib' \in Lib \cup {NoLib} /\ prevType' \in Type \cup {"unknown"}
          /\ prevArgs' \in Args \cup {NoArgs}
      BY <1>1 DEF IInv, TypeOK, InLibrary
    <3>2. commandFiles' \in Seq(FileLines(flt)) /\ phase' = "done"
      BY <1>2
    <3> QED
      BY <1>1, <2>1, <3>1, <3>2, BatchTypes
  <2>3. Phases'
    <3>1. pos' = Len(flt') /\ phase' = "done" /\ commandFiles' = <<>>
      BY <1>1, <1>2 DEF IInv, Phases, parseVars
    <3>2. ~InLibrary'
      BY <1>1 DEF InLibrary, parseVars
    <3> QED
      BY <3>1, <3>2 DEF Phases
  <2>4. BatchFits'
    BY <1>2 DEF BatchFits
  <2> QED
    BY <1>1, <2>1, <2>2, <2>3, <2>4, ParsedStays DEF IInv
<1>3. CASE phase' = "died" /\ UNCHANGED <<compiled, commandFiles>>
  <2>1. UNCHANGED batchVars
    BY <1>1, <1>3 DEF batchVars
  <2> QED
    BY <1>1, <1>3, <2>1, EndStep
<1> QED
  BY <1>2, <1>3 DEF CompileOutstanding

LEMMA NextStep == ASSUME IInv, [Next]_vars PROVE IInv'
<1>1. CASE ParseUnknown
  <2>1. phase # "start" /\ phase' = "died" /\ UNCHANGED <<flt, parseVars, batchVars>>
    BY <1>1 DEF ParseUnknown, Parse
  <2> QED
    BY <2>1, EndStep
<1>2. CASE ParseEnd
  <2>1. phase # "start" /\ phase' = "batch" /\ pos = Len(flt)
        /\ UNCHANGED <<flt, parseVars, batchVars>>
    BY <1>2 DEF ParseEnd
  <2> QED
    BY <2>1, EndStep
<1>3. CASE UNCHANGED vars
  BY <1>3 DEF vars, parseVars, batchVars, IInv, TypeOK, Phases, Filed, BatchFits, Fits,
              CommandsFitFiles, LiborderTxtMatches, InLibrary, NoOfFiles
<1>4. \/ RemoveLiborder \/ ParseLibrary \/ ParseGeneric \/ ParseFile \/ ParseUnknown
      \/ ParseEnd \/ JoinBatch \/ StartBatch \/ NextLibrary \/ CompileOutstanding
      \/ UNCHANGED vars
  BY DEF Next, Step, Terminated
<1> QED
  BY <1>1, <1>2, <1>3, <1>4, RemoveLiborderStep, ParseLibraryStep, ParseGenericStep,
     ParseFileStep, JoinBatchStep, StartBatchStep, NextLibraryStep, CompileOutstandingStep

\* The inductive invariant holds in every state of the program.
THEOREM Invariance == Spec => []IInv
<1>1. Init => IInv
  BY InitStep
<1>2. IInv /\ [Next]_vars => IInv'
  BY NextStep
<1> QED
  BY <1>1, <1>2, PTL DEF Spec

\* The types of the script's variables: every hash entry is a file of the list, the
\* counts are those of entries there are, and only files of the list are compiled.
THEOREM TypeCorrect == Spec => []TypeOK
<1>1. IInv => TypeOK
  BY DEF IInv
<1> QED
  BY <1>1, Invariance, PTL

\* Whatever files are joined, for every list, conforming or not: each is compiled
\* into the library of its line, by the tool of its type and with its own arguments.
THEOREM CommandsFit == Spec => []CommandsFitFiles
<1>1. IInv => CommandsFitFiles
  BY DEF IInv
<1> QED
  BY <1>1, Invariance, PTL

\* liborder.txt holds the libraries created by this run in order, whatever an
\* earlier run left in it and wherever a command fails.
THEOREM OrderIsOfThisRun == Spec => []LiborderTxtMatches
<1>1. IInv => LiborderTxtMatches
  BY DEF IInv
<1> QED
  BY <1>1, Invariance, PTL

-----------------------------------------------------------------------------
(* The parser keeps the slots in the order of the lines.                     *)

LEMMA VisitedIs ==
  ASSUME IInv
  PROVE  /\ Visited = Compiled \o commandFiles /\ Visited \in Seq(Nat)
         /\ Compiled \in Seq(Nat) /\ commandFiles \in Seq(Nat)
<1>1. commandFiles \in Seq(Nat)
  BY CommandFacts
<1>2. Compiled \in Seq(Nat)
  <2>1. Len(compiled) \in Nat
    BY DEF IInv
  <2>2. \A k \in 1..Len(compiled) : compiled[k].file \in Nat
    BY DEF IInv, TypeOK, FileLines
  <2> QED
    BY <2>1, <2>2 DEF Compiled
<1>3. Visited = Compiled \o commandFiles
  BY DEF Visited, Compiled
<1> QED
  BY <1>1, <1>2, <1>3, ConcatFacts

LEMMA NothingVisited ==
  ASSUME IInv, compiled = <<>>, commandFiles = <<>>, cur = 1, n = 1
  PROVE  VisitedInOrder
<1>1. Len(compiled) = 0 /\ Len(commandFiles) = 0
  OBVIOUS
<1>2. Len(Compiled) = 0
  BY <1>1 DEF Compiled
<1>3. PICK s \in Seq(Nat) : s = Compiled
  BY VisitedIs
<1>4. PICK t \in Seq(Nat) : t = commandFiles
  BY VisitedIs
<1>5. Len(Visited) = 0
  BY <1>1, <1>2, <1>3, <1>4, VisitedIs, ConcatFacts
<1>6. \A a, k \in Nat : IsSlot(a, k) => ~Before(a, k, cur, n)
  BY DEF IsSlot, Before
<1> QED
  BY <1>5, <1>6 DEF VisitedInOrder

\* While the list is parsed nothing is visited.
LEMMA ParserVisitsNothing ==
  ASSUME IInv', phase \in {"start", "parse"}, UNCHANGED batchVars, IInv
  PROVE  VisitedInOrder'
<1>1. compiled = <<>> /\ commandFiles = <<>> /\ cur = 1 /\ n = 1
  BY DEF IInv, Phases
<1>2. compiled' = <<>> /\ commandFiles' = <<>> /\ cur' = 1 /\ n' = 1
  BY <1>1 DEF batchVars
<1>3. Len(compiled') = 0 /\ Len(commandFiles') = 0
  BY <1>2
<1>4. Len(Visited') = 0
  BY <1>2 DEF Visited
<1>5. \A a, k \in Nat : IsSlot(a, k)' => ~Before(a, k, cur', n')
  BY <1>2 DEF IsSlot, Before
<1> QED
  BY <1>4, <1>5 DEF VisitedInOrder, Before

LEMMA InitOrder == ASSUME Init PROVE OrderInv
<1>1. IInv
  BY InitStep
<1>2. VisitedInOrder
  BY <1>1, NothingVisited DEF Init
<1>3. LibraryLines(flt, pos) = {} /\ pos = 0 /\ liborder = <<>> /\ noOfFiles = <<>>
  BY LibraryLinesNext DEF Init
<1>4. Len(liborder) = 0
  BY <1>3
<1>5. OrderIsOfLines
  BY <1>3, <1>4 DEF OrderIsOfLines
<1>6. SlotsInOrder
  BY <1>3, <1>4 DEF SlotsInOrder, IsSlot, FileLines
<1> QED
  BY <1>2, <1>5, <1>6 DEF OrderInv

\* The slots of files already parsed stay when a line that is not a file is read.
LEMMA SlotsUnchanged ==
  ASSUME SlotsInOrder, UNCHANGED flt,
         \A a, k \in Nat : IsSlot(a, k)' <=> IsSlot(a, k),
         \A a, k \in Nat :
           IsSlot(a, k) => File(a, k)' = File(a, k) /\ <<liborder'[a], k>> \in DOMAIN db',
         \A f \in FileLines(flt) : f <= pos' => f <= pos
  PROVE  SlotsInOrder'
<1>1. \A a, k \in Nat : IsSlot(a, k)' => <<liborder'[a], k>> \in DOMAIN db'
  OBVIOUS
<1>2. ASSUME NEW f \in FileLines(flt), f <= pos'
      PROVE  \E a, k \in Nat : IsSlot(a, k)' /\ File(a, k)' = f
  <2>1. PICK a, k \in Nat : IsSlot(a, k) /\ File(a, k) = f
    BY <1>2 DEF SlotsInOrder
  <2>2. IsSlot(a, k)' /\ File(a, k)' = f
    BY <2>1 DEF IsSlot, File, NoOfFiles
  <2> QED
    BY <2>2
<1>3. ASSUME NEW a \in Nat, NEW k \in Nat, NEW b \in Nat, NEW m \in Nat,
             IsSlot(a, k)', IsSlot(b, m)', Before(a, k, b, m)
      PROVE  File(a, k)' < File(b, m)'
  <2>1. IsSlot(a, k) /\ IsSlot(b, m)
    BY <1>3 DEF IsSlot, NoOfFiles
  <2>2. File(a, k)' = File(a, k) /\ File(b, m)' = File(b, m)
    BY <2>1 DEF IsSlot, File, NoOfFiles
  <2>3. File(a, k) < File(b, m)
    BY <1>3, <2>1 DEF SlotsInOrder
  <2> QED
    BY <2>2, <2>3
<1>4. FileLines(flt') = FileLines(flt)
  OBVIOUS
<1>5. \A f \in FileLines(flt') : f <= pos' => \E a, k \in Nat : IsSlot(a, k)' /\ File(a, k)' = f
  BY <1>2, <1>4
<1>6. \A a, k, b, m \in Nat :
        IsSlot(a, k)' /\ IsSlot(b, m)' /\ Before(a, k, b, m) => File(a, k)' < File(b, m)'
  BY <1>3
<1> QED
  BY <1>1, <1>5, <1>6 DEF SlotsInOrder, Before

\* A step that leaves what was parsed leaves the order.
LEMMA OrderUnchanged ==
  ASSUME OrderIsOfLines, SlotsInOrder, UNCHANGED <<flt, pos, lib, i, liborder, db, noOfFiles>>
  PROVE  OrderIsOfLines' /\ SlotsInOrder'
<1>1. OrderIsOfLines'
  BY DEF OrderIsOfLines, NoOfFiles
<1>2. SlotsInOrder'
  <2>1. \A a, k \in Nat : IsSlot(a, k)' <=> IsSlot(a, k)
    BY DEF IsSlot, NoOfFiles
  <2>2. \A a, k \in Nat :
          IsSlot(a, k) => File(a, k)' = File(a, k) /\ <<liborder'[a], k>> \in DOMAIN db'
    BY DEF File, SlotsInOrder
  <2> QED
    BY <2>1, <2>2, SlotsUnchanged
<1> QED
  BY <1>1, <1>2

LEMMA ParseLibraryOrder ==
  ASSUME IInv, IInv', Conforming(flt), OrderIsOfLines, SlotsInOrder, ParseLibrary
  PROVE  OrderIsOfLines' /\ SlotsInOrder'
<1>1. /\ pos + 1 \in 1..Len(flt) /\ pos \in Nat /\ pos + 1 \in Nat
      /\ flt[pos + 1] \in Line /\ flt[pos + 1].kind = "library" /\ flt[pos + 1].lib \in Lib
  BY LineRead, LineFacts, ListFacts DEF ParseLibrary, IInv
<1>2. UNCHANGED <<flt, db, noOfFiles>>
  BY DEF ParseLibrary
<1>3. CASE UNCHANGED parseVars
  BY <1>2, <1>3, OrderUnchanged DEF parseVars
<1>4. CASE /\ pos' = pos + 1 /\ lib' = flt[pos + 1].lib
           /\ liborder' = Append(liborder, lib') /\ i' = 0
  <2> DEFINE l == flt[pos + 1].lib
      before == LibraryLines(flt, pos)
  <2>1. LibraryLines(flt, pos + 1) = before \cup {pos + 1} /\ before \subseteq 1..pos
    BY <1>1, LibraryLinesNext
  <2>2. /\ liborder \in Seq(Lib) /\ Len(liborder) \in Nat /\ liborder' \in Seq(Lib)
        /\ Len(liborder') = Len(liborder) + 1
        /\ \A a \in 1..Len(liborder) : liborder'[a] = liborder[a]
        /\ liborder'[Len(liborder) + 1] = l
    BY <1>1, <1>4 DEF IInv, TypeOK
  <2>3. \A j \in before : flt[j].lib # l
    <3> SUFFICES ASSUME NEW j \in before, flt[j].lib = l PROVE FALSE
      OBVIOUS
    <3>1. j \in 1..pos /\ flt[j].kind = "library" /\ j \in 1..Len(flt)
      BY <1>1, <2>1 DEF LibraryLines
    <3>2. flt[j] \in Line
      BY <3>1, ListFacts DEF IInv
    <3>3. flt[j] = [kind |-> "library", lib |-> flt[j].lib]
          /\ flt[pos + 1] = [kind |-> "library", lib |-> flt[pos + 1].lib]
      BY <1>1, <3>1, <3>2, LineFacts
    <3>4. flt[j] = flt[pos + 1]
      BY <3>3
    <3>5. j = pos + 1
      BY <1>1, <3>1, <3>4 DEF Conforming
    <3> QED
      BY <1>1, <3>1, <3>5
  <2>4. \A a \in 1..Len(liborder) : liborder[a] # l
    BY <2>3 DEF OrderIsOfLines
  <2>5. l \notin DOMAIN noOfFiles
    BY <2>4 DEF OrderIsOfLines
  <2>6. \A x : NoOfFiles(x)' = NoOfFiles(x)
    BY <1>2 DEF NoOfFiles
  <2>7. NoOfFiles(l) = 0
    BY <2>5 DEF NoOfFiles
  <2>8. pos + 1 \in LibraryLines(flt, pos + 1) /\ before \subseteq LibraryLines(flt, pos + 1)
    BY <2>1
  <2>9. OrderIsOfLines'
    <3>1. ASSUME NEW a \in 1..Len(liborder')
          PROVE  \E j \in LibraryLines(flt, pos + 1) : flt[j].lib = liborder'[a]
      <4>1. CASE a \in 1..Len(liborder)
        BY <2>2, <2>8, <4>1 DEF OrderIsOfLines
      <4>2. CASE a = Len(liborder) + 1
        BY <2>2, <2>8, <4>2
      <4> QED
        BY <2>2, <4>1, <4>2
    <3>2. ASSUME NEW a \in 1..Len(liborder'), NEW b \in 1..Len(liborder'),
                 liborder'[a] = liborder'[b]
          PROVE  a = b
      <4> HIDE DEF l
      <4>1. a \in 1..Len(liborder) \/ a = Len(liborder) + 1
        BY <2>2
      <4>2. b \in 1..Len(liborder) \/ b = Len(liborder) + 1
        BY <2>2
      <4>3. CASE a \in 1..Len(liborder) /\ b \in 1..Len(liborder)
        BY <2>2, <3>2, <4>3 DEF OrderIsOfLines
      <4> QED
        BY <2>2, <2>4, <3>2, <4>1, <4>2, <4>3
    <3>3. liborder' # <<>> /\ lib' = liborder'[Len(liborder')] /\ i' = NoOfFiles(lib)'
      <4>1. Len(liborder') # 0
        BY <2>2
      <4>2. lib' = l /\ i' = 0
        BY <1>4
      <4>3. NoOfFiles(lib)' = 0
        BY <4>2, <2>5, <1>2 DEF NoOfFiles
      <4> QED
        BY <2>2, <4>1, <4>2, <4>3
    <3>4. \A x \in DOMAIN noOfFiles' : \E a \in 1..Len(liborder') : liborder'[a] = x
      <4> SUFFICES ASSUME NEW x \in DOMAIN noOfFiles
                   PROVE  \E a \in 1..Len(liborder') : liborder'[a] = x
        BY <1>2
      <4>1. PICK a \in 1..Len(liborder) : liborder[a] = x
        BY DEF OrderIsOfLines
      <4>2. a \in 1..Len(liborder') /\ liborder'[a] = x
        BY <2>2, <4>1
      <4> QED
        BY <4>2
    <3> QED
      BY <1>2, <1>4, <3>1, <3>2, <3>3, <3>4 DEF OrderIsOfLines
  <2>10. SlotsInOrder'
    <3>1. ASSUME NEW a \in Nat, NEW k \in Nat
          PROVE  IsSlot(a, k)' <=> IsSlot(a, k)
      <4>1. CASE a \in 1..Len(liborder)
        <5>1. a \in 1..Len(liborder') /\ liborder'[a] = liborder[a]
          BY <2>2, <4>1
        <5> QED
          BY <4>1, <5>1, <1>2 DEF IsSlot, NoOfFiles
      <4>2. CASE a = Len(liborder) + 1
        <5>1. NoOfFiles(liborder[a])' = 0
          BY <1>2, <2>2, <2>5, <4>2 DEF NoOfFiles
        <5> QED
          BY <2>2, <4>2, <5>1 DEF IsSlot
      <4>3. CASE a \notin 1..(Len(liborder) + 1)
        BY <2>2, <4>3 DEF IsSlot
      <4> QED
        BY <2>2, <4>1, <4>2, <4>3
    <3>2. ASSUME NEW a \in Nat, NEW k \in Nat, IsSlot(a, k)
          PROVE  File(a, k)' = File(a, k) /\ <<liborder'[a], k>> \in DOMAIN db'
      <4>1. liborder'[a] = liborder[a]
        BY <2>2, <3>2 DEF IsSlot
      <4> QED
        BY <1>2, <3>2, <4>1 DEF File, SlotsInOrder
    <3>3. \A f \in FileLines(flt) : f <= pos' => f <= pos
      BY <1>1, <1>4 DEF FileLines
    <3> QED
      BY <1>2, <3>1, <3>2, <3>3, SlotsUnchanged
  <2> QED
    BY <2>9, <2>10
<1> QED
  BY <1>3, <1>4 DEF ParseLibrary

LEMMA ParseGenericOrder ==
  ASSUME IInv, OrderIsOfLines, SlotsInOrder, ParseGeneric
  PROVE  OrderIsOfLines' /\ SlotsInOrder'
<1>1. /\ pos + 1 \in 1..Len(flt) /\ pos \in Nat /\ pos + 1 \in Nat
      /\ flt[pos + 1].kind \in {"vlogargs", "vcomargs"}
  BY LineRead, ListFacts DEF ParseGeneric, IInv
<1>2. pos' = pos + 1 /\ UNCHANGED <<flt, lib, i, liborder, db, noOfFiles>>
  BY DEF ParseGeneric
<1>3. LibraryLines(flt, pos + 1) = LibraryLines(flt, pos)
  BY <1>1, LibraryLinesNext
<1>4. OrderIsOfLines'
  <2>1. LibraryLines(flt', pos') = LibraryLines(flt, pos)
    BY <1>2, <1>3
  <2> QED
    BY <1>2, <2>1 DEF OrderIsOfLines, NoOfFiles
<1>5. SlotsInOrder'
  <2>1. \A a, k \in Nat : IsSlot(a, k)' <=> IsSlot(a, k)
    BY <1>2 DEF IsSlot, NoOfFiles
  <2>2. \A a, k \in Nat :
          IsSlot(a, k) => File(a, k)' = File(a, k) /\ <<liborder'[a], k>> \in DOMAIN db'
    BY <1>2 DEF File, SlotsInOrder
  <2>3. \A f \in FileLines(flt) : f <= pos' => f <= pos
    BY <1>1, <1>2 DEF FileLines
  <2> QED
    BY <1>2, <2>1, <2>2, <2>3, SlotsUnchanged
<1> QED
  BY <1>4, <1>5

\* A file gets the slot after the last.
LEMMA ParseFileOrder ==
  ASSUME IInv, IInv', Conforming(flt), OrderIsOfLines, SlotsInOrder, ParseFile
  PROVE  OrderIsOfLines' /\ SlotsInOrder'
<1>1. /\ pos + 1 \in 1..Len(flt) /\ pos \in Nat /\ pos + 1 \in Nat /\ Len(flt) \in Nat
      /\ flt[pos + 1].kind = "file"
  BY LineRead, ListFacts DEF ParseFile, IInv
<1>i. i \in Nat /\ Len(liborder) \in Nat
  BY DEF IInv, TypeOK
<1>I. PICK I \in Nat : I = i + 1
  BY <1>i
<1>A. PICK A \in Nat : A = Len(liborder)
  BY <1>i
<1>2. /\ pos' = pos + 1 /\ i' = I /\ UNCHANGED <<flt, lib, liborder>>
      /\ db' = Put(db, <<lib, I>>, pos + 1) /\ noOfFiles' = Put(noOfFiles, lib, I)
  BY <1>I DEF ParseFile
<1>3. LibraryLines(flt, pos) # {}
  <2>1. flt # <<>>
    BY <1>1, ListFacts DEF IInv
  <2>2. flt[1].kind = "library"
    BY <2>1 DEF Conforming
  <2>3. pos # 0
    BY <1>1, <2>2
  <2>4. 1 \in LibraryLines(flt, pos)
    BY <1>1, <2>2, <2>3 DEF LibraryLines
  <2> QED
    BY <2>4
<1>4. /\ A \in Nat \ {0} /\ lib = liborder[A] /\ i = NoOfFiles(lib) /\ i \in Nat
      /\ liborder \in Seq(Lib)
  <2>1. liborder # <<>> /\ lib = liborder[Len(liborder)] /\ i = NoOfFiles(lib)
    BY <1>3 DEF OrderIsOfLines
  <2>2. liborder \in Seq(Lib) /\ i \in Nat
    BY DEF IInv, TypeOK
  <2>3. Len(liborder) # 0
    BY <2>1, <2>2
  <2> QED
    BY <1>A, <2>1, <2>2, <2>3
<1>5. /\ DOMAIN db' = DOMAIN db \cup {<<lib, I>>} /\ db'[<<lib, I>>] = pos + 1
      /\ \A key \in DOMAIN db : key # <<lib, I>> => db'[key] = db[key]
  BY <1>2 DEF Put
<1>6. /\ DOMAIN noOfFiles' = DOMAIN noOfFiles \cup {lib} /\ noOfFiles'[lib] = I
      /\ \A l \in DOMAIN noOfFiles : l # lib => noOfFiles'[l] = noOfFiles[l]
  BY <1>2 DEF Put
<1>7. ASSUME NEW a \in 1..A PROVE liborder[a] = lib <=> a = A
  BY <1>4, <1>A DEF OrderIsOfLines
<1>8. ASSUME NEW a \in 1..A
      PROVE  NoOfFiles(liborder[a])' = IF a = A THEN I ELSE NoOfFiles(liborder[a])
  <2>1. liborder'[a] = liborder[a]
    BY <1>2
  <2>2. CASE a = A
    BY <1>4, <1>6, <2>1, <2>2 DEF NoOfFiles
  <2>3. CASE a # A
    <3>1. liborder[a] # lib
      BY <1>7, <2>3
    <3> QED
      BY <1>6, <2>1, <2>3, <3>1 DEF NoOfFiles
  <2> QED
    BY <2>2, <2>3
<1>9. ASSUME NEW a \in Nat, NEW k \in Nat
      PROVE  IsSlot(a, k)' <=> IsSlot(a, k) \/ (a = A /\ k = I)
  <2>1. IsSlot(a, k)' <=> a \in 1..A /\ k \in 1..NoOfFiles(liborder[a])'
    BY <1>2, <1>A DEF IsSlot
  <2>2. CASE a \notin 1..A
    BY <2>1, <2>2, <1>4, <1>I, <1>A DEF IsSlot
  <2>3. CASE a \in 1..A /\ a # A
    BY <2>1, <2>3, <1>8, <1>I, <1>A DEF IsSlot
  <2>4. CASE a = A
    <3>1. NoOfFiles(liborder[a])' = I /\ NoOfFiles(liborder[a]) = i /\ a \in 1..A
      BY <1>4, <1>8, <1>I, <1>A, <2>4
    <3> QED
      BY <1>4, <2>1, <2>4, <3>1, <1>I, <1>A DEF IsSlot
  <2> QED
    BY <2>2, <2>3, <2>4
<1>10. ASSUME NEW a \in Nat, NEW k \in Nat, IsSlot(a, k)
       PROVE  /\ <<liborder[a], k>> # <<lib, I>>
              /\ <<liborder[a], k>> \in DOMAIN db' /\ File(a, k)' = File(a, k)
              /\ File(a, k) < pos + 1
              /\ ~Before(A, I, a, k)
  <2>1. a \in 1..A /\ k \in 1..NoOfFiles(liborder[a])
    BY <1>10, <1>I, <1>A DEF IsSlot
  <2>2. a = A => k <= i
    BY <1>4, <1>A, <2>1
  <2>3. <<liborder[a], k>> # <<lib, I>>
    <3> SUFFICES ASSUME liborder[a] = lib, k = I PROVE FALSE
      OBVIOUS
    <3>1. a = A
      BY <1>7, <2>1
    <3> QED
      BY <1>4, <1>I, <2>2, <3>1
  <2>4. <<liborder[a], k>> \in DOMAIN db
    BY <1>10 DEF SlotsInOrder
  <2>5. db'[<<liborder[a], k>>] = db[<<liborder[a], k>>]
    BY <1>5, <2>3, <2>4
  <2>6. File(a, k)' = File(a, k)
    BY <1>2, <2>5 DEF File
  <2>7. File(a, k) < pos + 1
    <3>1. db[<<liborder[a], k>>] \in Nat /\ db[<<liborder[a], k>>] <= pos
      <4>1. db[<<liborder[a], k>>] \in FileLines(flt)
        BY <2>4 DEF IInv, TypeOK
      <4>2. db[<<liborder[a], k>>] <= pos
        BY <2>4 DEF IInv, Filed
      <4> QED
        BY <4>1, <4>2 DEF FileLines
    <3> QED
      BY <1>1, <3>1 DEF File
  <2>8. ~Before(A, I, a, k)
    BY <1>4, <1>I, <1>A, <2>1, <2>2 DEF Before
  <2> QED
    BY <1>5, <2>3, <2>4, <2>6, <2>7, <2>8
<1>11. File(A, I)' = pos + 1 /\ <<liborder'[A], I>> \in DOMAIN db'
  BY <1>2, <1>4, <1>5 DEF File
<1>12. OrderIsOfLines'
  <2>1. LibraryLines(flt', pos') = LibraryLines(flt, pos)
    BY <1>1, <1>2, LibraryLinesNext
  <2>2. lib' = liborder'[Len(liborder')] /\ i' = NoOfFiles(lib)' /\ liborder' # <<>>
    <3>1. NoOfFiles(lib)' = I
      BY <1>2, <1>6 DEF NoOfFiles
    <3>2. liborder # <<>>
      BY <1>3 DEF OrderIsOfLines
    <3> QED
      BY <1>2, <1>4, <1>A, <3>1, <3>2
  <2>3. \A l \in DOMAIN noOfFiles' : \E a \in 1..Len(liborder') : liborder'[a] = l
    <3> SUFFICES ASSUME NEW l \in DOMAIN noOfFiles \cup {lib}
                 PROVE  \E a \in 1..Len(liborder) : liborder[a] = l
      BY <1>2, <1>6
    <3>1. A \in 1..Len(liborder) /\ liborder[A] = lib
      BY <1>4, <1>A
    <3> QED
      BY <3>1 DEF OrderIsOfLines
  <2>4. /\ \A a \in 1..Len(liborder) : \E j \in LibraryLines(flt, pos) : flt[j].lib = liborder[a]
        /\ \A a, b \in 1..Len(liborder) : liborder[a] = liborder[b] => a = b
    BY DEF OrderIsOfLines
  <2>5. /\ \A a \in 1..Len(liborder') :
             \E j \in LibraryLines(flt', pos') : flt'[j].lib = liborder'[a]
        /\ \A a, b \in 1..Len(liborder') : liborder'[a] = liborder'[b] => a = b
    BY <1>2, <2>1, <2>4
  <2> QED
    BY <2>2, <2>3, <2>5 DEF OrderIsOfLines
<1>13. SlotsInOrder'
  <2>1. ASSUME NEW a \in Nat, NEW k \in Nat, IsSlot(a, k)'
        PROVE  <<liborder'[a], k>> \in DOMAIN db'
    BY <1>2, <1>9, <1>10, <1>11, <2>1
  <2>2. ASSUME NEW f \in FileLines(flt), f <= pos'
        PROVE  \E a, k \in Nat : IsSlot(a, k)' /\ File(a, k)' = f
    <3>1. CASE f = pos + 1
      <4>1. A \in Nat /\ I \in Nat
        OBVIOUS
      <4>2. IsSlot(A, I)'
        BY <1>9, <4>1
      <4> QED
        BY <1>11, <3>1, <4>1, <4>2
    <3>2. CASE f # pos + 1
      <4>1. f <= pos
        BY <1>1, <1>2, <2>2, <3>2 DEF FileLines
      <4>2. PICK a, k \in Nat : IsSlot(a, k) /\ File(a, k) = f
        BY <4>1 DEF SlotsInOrder
      <4>3. IsSlot(a, k)' /\ File(a, k)' = f
        BY <1>9, <1>10, <4>2
      <4> QED
        BY <4>3
    <3> QED
      BY <3>1, <3>2
  <2>3. ASSUME NEW a \in Nat, NEW k \in Nat, NEW b \in Nat, NEW m \in Nat,
               IsSlot(a, k)', IsSlot(b, m)', Before(a, k, b, m)
        PROVE  File(a, k)' < File(b, m)'
    <3>1. IsSlot(a, k) \/ (a = A /\ k = I)
      BY <1>9, <2>3
    <3>2. IsSlot(b, m) \/ (b = A /\ m = I)
      BY <1>9, <2>3
    <3>3. CASE IsSlot(a, k) /\ IsSlot(b, m)
      <4>1. File(a, k) < File(b, m)
        BY <2>3, <3>3 DEF SlotsInOrder
      <4> QED
        BY <1>10, <3>3, <4>1
    <3>4. CASE IsSlot(a, k) /\ b = A /\ m = I
      BY <1>10, <1>11, <3>4
    <3>5. CASE a = A /\ k = I
      <4>1. ~IsSlot(b, m)
        BY <1>10, <2>3, <3>5
      <4>2. b = A /\ m = I
        BY <3>2, <4>1
      <4> QED
        BY <1>4, <2>3, <3>5, <4>2 DEF Before
    <3> QED
      BY <3>1, <3>2, <3>3, <3>4, <3>5
  <2>4. FileLines(flt') = FileLines(flt)
    BY <1>2
  <2>5. \A a, k \in Nat : IsSlot(a, k)' => <<liborder'[a], k>> \in DOMAIN db'
    BY <2>1
  <2>6. \A f \in FileLines(flt') : f <= pos' => \E a, k \in Nat : IsSlot(a, k)' /\ File(a, k)' = f
    BY <2>2, <2>4
  <2>7. \A a, k, b, m \in Nat :
          IsSlot(a, k)' /\ IsSlot(b, m)' /\ Before(a, k, b, m) => File(a, k)' < File(b, m)'
    BY <2>3
  <2> QED
    BY <2>5, <2>6, <2>7 DEF SlotsInOrder, Before
<1> QED
  BY <1>12, <1>13

-----------------------------------------------------------------------------
(* The loops visit the slots in their order.                                 *)

\* Visiting the file of the loops' own slot keeps the order: its line is after
\* those visited.
LEMMA SlotVisited ==
  ASSUME IInv, SlotsInOrder, VisitedInOrder, IsSlot(cur, n),
         UNCHANGED <<liborder, db, noOfFiles, cur>>, n' = n + 1,
         Visited' = Append(Visited, File(cur, n))
  PROVE  VisitedInOrder'
<1>1. cur \in Nat /\ n \in Nat
  BY DEF IInv, TypeOK
<1>2. PICK f \in Nat : f = File(cur, n)
  BY <1>1 DEF SlotsInOrder, File, IInv, TypeOK, FileLines
<1>3. PICK s \in Seq(Nat) : s = Visited
  BY VisitedIs
<1>4. PICK t \in Seq(Nat) : t = Append(s, f)
  BY AppendFacts
<1>5. Visited' = t
  BY <1>2, <1>3, <1>4
<1>6. /\ Len(t) = Len(s) + 1 /\ Len(s) \in Nat
      /\ \A k \in 1..Len(s) : t[k] = s[k]
      /\ t[Len(s) + 1] = f
  BY <1>4, AppendFacts
<1>7. /\ \A j, k \in 1..Len(s) : j < k => s[j] < s[k]
      /\ \A j \in 1..Len(s) :
           \E a, k \in Nat : IsSlot(a, k) /\ Before(a, k, cur, n) /\ s[j] = File(a, k)
      /\ \A a, k \in Nat :
           IsSlot(a, k) /\ Before(a, k, cur, n) => \E j \in 1..Len(s) : s[j] = File(a, k)
  BY <1>3 DEF VisitedInOrder
<1>8. \A j \in 1..Len(s) : s[j] < f
  BY <1>1, <1>2, <1>7 DEF SlotsInOrder
<1>9. ASSUME NEW j \in 1..Len(t), NEW k \in 1..Len(t), j < k PROVE t[j] < t[k]
  <2>1. j \in 1..Len(s)
    BY <1>6, <1>9
  <2>2. k \in 1..Len(s) \/ k = Len(s) + 1
    BY <1>6
  <2> QED
    BY <1>6, <1>7, <1>8, <1>9, <2>1, <2>2
<1>10. PICK c \in Nat : c = cur
  BY <1>1
<1>11. PICK m \in Nat : m = n
  BY <1>1
<1>12. ASSUME NEW a \in Nat, NEW k \in Nat
       PROVE  Before(a, k, cur', n') <=> Before(a, k, c, m) \/ (a = c /\ k = m)
  BY <1>10, <1>11 DEF Before
<1>13. ASSUME NEW a \in Nat, NEW k \in Nat
       PROVE  (IsSlot(a, k)' <=> IsSlot(a, k)) /\ File(a, k)' = File(a, k)
  BY DEF IsSlot, File, NoOfFiles
<1>14. IsSlot(c, m) /\ File(c, m) = f
  BY <1>2, <1>10, <1>11
<1>15. ASSUME NEW j \in 1..Len(t)
       PROVE  \E a, k \in Nat : IsSlot(a, k)' /\ Before(a, k, cur', n') /\ t[j] = File(a, k)'
  <2>1. CASE j \in 1..Len(s)
    <3>1. PICK a, k \in Nat : IsSlot(a, k) /\ Before(a, k, c, m) /\ s[j] = File(a, k)
      BY <1>7, <1>10, <1>11, <2>1
    <3>2. IsSlot(a, k)' /\ Before(a, k, cur', n') /\ t[j] = File(a, k)'
      BY <1>6, <1>12, <1>13, <2>1, <3>1
    <3> QED
      BY <3>2
  <2>2. CASE j = Len(s) + 1
    <3>1. IsSlot(c, m)' /\ Before(c, m, cur', n') /\ t[j] = File(c, m)'
      BY <1>6, <1>12, <1>13, <1>14, <2>2
    <3> QED
      BY <3>1
  <2> QED
    BY <1>6, <2>1, <2>2
<1>16. ASSUME NEW a \in Nat, NEW k \in Nat, IsSlot(a, k)', Before(a, k, cur', n')
       PROVE  \E j \in 1..Len(t) : t[j] = File(a, k)'
  <2>1. CASE Before(a, k, c, m)
    <3>1. PICK j \in 1..Len(s) : s[j] = File(a, k)
      BY <1>7, <1>10, <1>11, <1>13, <1>16, <2>1
    <3>2. j \in 1..Len(t) /\ t[j] = File(a, k)'
      BY <1>6, <1>13, <3>1
    <3> QED
      BY <3>2
  <2>2. CASE a = c /\ k = m
    <3>1. Len(s) + 1 \in 1..Len(t) /\ t[Len(s) + 1] = File(a, k)'
      BY <1>6, <1>13, <1>14, <2>2
    <3> QED
      BY <3>1
  <2> QED
    BY <1>12, <1>16, <2>1, <2>2
<1>17. /\ \A j, k \in 1..Len(Visited') : j < k => Visited'[j] < Visited'[k]
       /\ \A j \in 1..Len(Visited') :
            \E a, k \in Nat : IsSlot(a, k)' /\ Before(a, k, cur', n') /\ Visited'[j] = File(a, k)'
       /\ \A a, k \in Nat :
            IsSlot(a, k)' /\ Before(a, k, cur', n') =>
              \E j \in 1..Len(Visited') : Visited'[j] = File(a, k)'
  BY <1>5, <1>9, <1>15, <1>16
<1> QED
  BY <1>17 DEF VisitedInOrder, Before

\* The entry visited is there, and holds the file of the slot.
LEMMA SlotEntry ==
  ASSUME IInv, SlotsInOrder, Visiting
  PROVE  IsSlot(cur, n) /\ Entry.files = <<File(cur, n)>> /\ File(cur, n) \in Nat
<1>1. cur \in Nat \ {0} /\ n \in Nat \ {0} /\ NoOfFiles(liborder[cur]) \in Nat
      /\ Len(liborder) \in Nat
  BY NoOfFilesType DEF IInv, TypeOK
<1>2. IsSlot(cur, n)
  BY <1>1 DEF Visiting, InLibrary, IsSlot
<1>3. <<liborder[cur], n>> \in DOMAIN db
  BY <1>1, <1>2 DEF SlotsInOrder
<1>4. Entry.files = <<File(cur, n)>>
  BY <1>3 DEF Entry, File
<1>5. File(cur, n) \in Nat
  BY <1>3 DEF File, IInv, TypeOK, FileLines
<1> QED
  BY <1>2, <1>4, <1>5

\* Files visited that are compiled, or kept for a command, stay visited.
LEMMA VisitedUnchanged ==
  ASSUME VisitedInOrder, UNCHANGED <<liborder, db, noOfFiles, cur, n>>, Visited' = Visited
  PROVE  VisitedInOrder'
<1>1. PICK v : v = Visited
  OBVIOUS
<1>2. Visited' = v
  BY <1>1
<1>3. ASSUME NEW a, NEW k
      PROVE  (IsSlot(a, k)' <=> IsSlot(a, k)) /\ File(a, k)' = File(a, k)
             /\ (Before(a, k, cur', n') <=> Before(a, k, cur, n))
  BY DEF IsSlot, File, NoOfFiles
<1>4. \A j, k \in 1..Len(v) : j < k => v[j] < v[k]
  BY <1>1 DEF VisitedInOrder
<1>5. ASSUME NEW j \in 1..Len(v)
      PROVE  \E a, k \in Nat : IsSlot(a, k)' /\ Before(a, k, cur', n') /\ v[j] = File(a, k)'
  <2>1. PICK a, k \in Nat : IsSlot(a, k) /\ Before(a, k, cur, n) /\ v[j] = File(a, k)
    BY <1>1 DEF VisitedInOrder
  <2>2. IsSlot(a, k)' /\ Before(a, k, cur', n') /\ v[j] = File(a, k)'
    BY <1>3, <2>1
  <2> QED
    BY <2>2
<1>6. ASSUME NEW a \in Nat, NEW k \in Nat, IsSlot(a, k)', Before(a, k, cur', n')
      PROVE  \E j \in 1..Len(v) : v[j] = File(a, k)'
  <2>1. IsSlot(a, k) /\ Before(a, k, cur, n)
    BY <1>3, <1>6
  <2>2. PICK j \in 1..Len(v) : v[j] = File(a, k)
    BY <1>1, <2>1 DEF VisitedInOrder
  <2> QED
    BY <1>3, <2>2
<1>7. /\ \A j, k \in 1..Len(Visited') : j < k => Visited'[j] < Visited'[k]
      /\ \A j \in 1..Len(Visited') :
           \E a, k \in Nat : IsSlot(a, k)' /\ Before(a, k, cur', n') /\ Visited'[j] = File(a, k)'
      /\ \A a, k \in Nat :
           IsSlot(a, k)' /\ Before(a, k, cur', n') =>
             \E j \in 1..Len(Visited') : Visited'[j] = File(a, k)'
  BY <1>2, <1>4, <1>5, <1>6
<1> QED
  BY <1>7 DEF VisitedInOrder, Before

LEMMA JoinBatchOrder ==
  ASSUME IInv, SlotsInOrder, VisitedInOrder, JoinBatch
  PROVE  VisitedInOrder'
<1>1. /\ Visiting /\ commandFiles' = commandFiles \o Entry.files /\ n' = n + 1
      /\ UNCHANGED <<parseVars, cur, compiled>>
  BY DEF JoinBatch
<1>2. PICK f \in Nat : f = File(cur, n)
  BY <1>1, SlotEntry
<1>3. PICK s \in Seq(Nat) : s = Compiled
  BY VisitedIs
<1>4. PICK t \in Seq(Nat) : t = commandFiles
  BY VisitedIs
<1>5. commandFiles' = t \o <<f>>
  BY <1>1, <1>2, <1>4, SlotEntry
<1>6. Visited' = s \o (t \o <<f>>)
  BY <1>1, <1>3, <1>5 DEF Visited, Compiled
<1>7. s \o (t \o <<f>>) = Append(s \o t, f)
  OBVIOUS
<1>8. Visited' = Append(Visited, f)
  BY <1>3, <1>4, <1>6, <1>7, VisitedIs
<1> QED
  BY <1>1, <1>2, <1>8, SlotEntry, SlotVisited DEF parseVars

LEMMA StartBatchOrder ==
  ASSUME IInv, SlotsInOrder, VisitedInOrder, StartBatch
  PROVE  VisitedInOrder'
<1>1. Visiting /\ UNCHANGED <<flt, parseVars>>
  BY DEF StartBatch
<1>2. CASE /\ compiled' = compiled \o Command(commandFiles)
           /\ commandFiles' = BatchOf(Entry)
           /\ n' = n + 1
           /\ UNCHANGED cur
  <2>1. PICK f \in Nat : f = File(cur, n)
    BY <1>1, SlotEntry
  <2>2. commandFiles' = <<f>>
    BY <1>1, <1>2, <2>1, SlotEntry DEF BatchOf
  <2>3. PICK s \in Seq(Nat) : s = Visited
    BY VisitedIs
  <2>4. Compiled' = s
    BY <1>1, <1>2, <2>3, BatchCompiled, VisitedIs
  <2>5. Visited' = s \o <<f>>
    BY <2>2, <2>4 DEF Visited, Compiled
  <2>6. s \o <<f>> = Append(s, f)
    OBVIOUS
  <2>7. Visited' = Append(Visited, f)
    BY <2>3, <2>5, <2>6
  <2> QED
    BY <1>1, <1>2, <2>1, <2>7, SlotEntry, SlotVisited DEF parseVars
<1>3. CASE UNCHANGED batchVars
  <2>1. Visited' = Visited
    BY <1>3 DEF Visited, batchVars
  <2> QED
    BY <1>1, <1>3, <2>1, VisitedUnchanged DEF parseVars, batchVars
<1> QED
  BY <1>2, <1>3 DEF StartBatch

\* A library without files left has no slot between the loops' own and the next.
LEMMA NextLibraryOrder ==
  ASSUME IInv, VisitedInOrder, NextLibrary
  PROVE  VisitedInOrder'
<1>1. /\ n > NoOfFiles(liborder[cur]) /\ cur' = cur + 1 /\ n' = 1
      /\ UNCHANGED <<liborder, db, noOfFiles, commandFiles, compiled>>
  BY DEF NextLibrary, FirstNumber, parseVars
<1>2. cur \in Nat /\ n \in Nat /\ NoOfFiles(liborder[cur]) \in Nat
  BY NoOfFilesType DEF IInv, TypeOK
<1>3. PICK v : v = Visited
  OBVIOUS
<1>4. Visited' = v
  BY <1>1, <1>3 DEF Visited
<1>5. ASSUME NEW a \in Nat, NEW k \in Nat
      PROVE  /\ IsSlot(a, k)' <=> IsSlot(a, k)
             /\ File(a, k)' = File(a, k)
  BY <1>1 DEF IsSlot, File, NoOfFiles
<1>6. ASSUME NEW a \in Nat, NEW k \in Nat, IsSlot(a, k)
      PROVE  Before(a, k, cur', n') <=> Before(a, k, cur, n)
  <2>1. CASE a = cur
    <3>1. k \in 1..NoOfFiles(liborder[cur])
      BY <1>6, <2>1 DEF IsSlot
    <3> QED
      BY <1>1, <1>2, <2>1, <3>1 DEF Before
  <2>2. CASE a # cur
    <3>1. k >= 1
      BY <1>6 DEF IsSlot
    <3> QED
      BY <1>1, <1>2, <2>2, <3>1 DEF Before
  <2> QED
    BY <2>1, <2>2
<1>7. \A j, k \in 1..Len(v) : j < k => v[j] < v[k]
  BY <1>3 DEF VisitedInOrder
<1>8. ASSUME NEW j \in 1..Len(v)
      PROVE  \E a, k \in Nat : IsSlot(a, k)' /\ Before(a, k, cur', n') /\ v[j] = File(a, k)'
  <2>1. PICK a, k \in Nat : IsSlot(a, k) /\ Before(a, k, cur, n) /\ v[j] = File(a, k)
    BY <1>3 DEF VisitedInOrder
  <2>2. IsSlot(a, k)' /\ Before(a, k, cur', n') /\ v[j] = File(a, k)'
    BY <1>5, <1>6, <2>1
  <2> QED
    BY <2>2
<1>9. ASSUME NEW a \in Nat, NEW k \in Nat, IsSlot(a, k)', Before(a, k, cur', n')
      PROVE  \E j \in 1..Len(v) : v[j] = File(a, k)'
  <2>1. IsSlot(a, k) /\ Before(a, k, cur, n)
    BY <1>5, <1>6, <1>9
  <2>2. PICK j \in 1..Len(v) : v[j] = File(a, k)
    BY <1>3, <2>1 DEF VisitedInOrder
  <2> QED
    BY <1>5, <2>2
<1>10. /\ \A j, k \in 1..Len(Visited') : j < k => Visited'[j] < Visited'[k]
       /\ \A j \in 1..Len(Visited') :
            \E a, k \in Nat : IsSlot(a, k)' /\ Before(a, k, cur', n') /\ Visited'[j] = File(a, k)'
       /\ \A a, k \in Nat :
            IsSlot(a, k)' /\ Before(a, k, cur', n') =>
              \E j \in 1..Len(Visited') : Visited'[j] = File(a, k)'
  BY <1>4, <1>7, <1>8, <1>9
<1> QED
  BY <1>10 DEF VisitedInOrder, Before

LEMMA CompileOutstandingOrder ==
  ASSUME IInv, VisitedInOrder, CompileOutstanding
  PROVE  VisitedInOrder'
<1>1. UNCHANGED <<flt, parseVars, cur, n>>
  BY DEF CompileOutstanding
<1>2. Visited' = Visited
  <2>1. CASE compiled' = compiled \o Command(commandFiles) /\ commandFiles' = <<>>
    <3>1. PICK s \in Seq(Nat) : s = Visited
      BY VisitedIs
    <3>2. Compiled' = s
      BY <1>1, <2>1, <3>1, BatchCompiled, VisitedIs
    <3>3. Visited' = s \o <<>>
      BY <2>1, <3>2 DEF Visited, Compiled
    <3> QED
      BY <3>1, <3>3
  <2>2. CASE UNCHANGED <<compiled, commandFiles>>
    BY <2>2 DEF Visited
  <2> QED
    BY <2>1, <2>2 DEF CompileOutstanding
<1> QED
  BY <1>1, <1>2, VisitedUnchanged DEF parseVars

LEMMA NextOrder ==
  ASSUME IInv, IInv', OrderInv, [Next]_vars
  PROVE  OrderInv'
<1> SUFFICES ASSUME Conforming(flt') PROVE (OrderIsOfLines /\ SlotsInOrder /\ VisitedInOrder)'
  BY DEF OrderInv
<1>1. flt' = flt
  BY DEF Next, Step, Terminated, RemoveLiborder, ParseLibrary, ParseGeneric, ParseFile,
         ParseUnknown, ParseEnd, JoinBatch, StartBatch, NextLibrary, CompileOutstanding, vars
<1>2. Conforming(flt) /\ OrderIsOfLines /\ SlotsInOrder /\ VisitedInOrder
  BY <1>1 DEF OrderInv
<1>3. CASE ParseLibrary
  BY <1>2, <1>3, ParseLibraryOrder, ParserVisitsNothing DEF ParseLibrary, Parse
<1>4. CASE ParseGeneric
  BY <1>2, <1>4, ParseGenericOrder, ParserVisitsNothing DEF ParseGeneric, Parse
<1>5. CASE ParseFile
  BY <1>2, <1>5, ParseFileOrder, ParserVisitsNothing DEF ParseFile, Parse
<1>6. CASE RemoveLiborder \/ ParseUnknown \/ ParseEnd \/ UNCHANGED vars
  <2>1. UNCHANGED <<flt, pos, lib, i, liborder, db, noOfFiles, batchVars>>
    BY <1>6 DEF RemoveLiborder, ParseUnknown, ParseEnd, vars, parseVars
  <2>2. OrderIsOfLines' /\ SlotsInOrder'
    BY <1>2, <2>1, OrderUnchanged
  <2>3. Visited' = Visited
    BY <2>1 DEF Visited, batchVars
  <2>4. VisitedInOrder'
    BY <1>2, <2>1, <2>3, VisitedUnchanged DEF batchVars
  <2> QED
    BY <2>2, <2>4
<1>7. CASE JoinBatch \/ StartBatch \/ NextLibrary \/ CompileOutstanding
  <2>1. UNCHANGED <<flt, parseVars>>
    BY <1>7 DEF JoinBatch, StartBatch, NextLibrary, CompileOutstanding
  <2>2. OrderIsOfLines' /\ SlotsInOrder'
    BY <1>2, <2>1, OrderUnchanged DEF parseVars
  <2>3. VisitedInOrder'
    BY <1>2, <1>7, JoinBatchOrder, StartBatchOrder, NextLibraryOrder, CompileOutstandingOrder
  <2> QED
    BY <2>2, <2>3
<1> QED
  BY <1>3, <1>4, <1>5, <1>6, <1>7 DEF Next, Step, Terminated

\* Every file before one visited is in an earlier slot, so it has been visited.
LEMMA OrderIsRight ==
  ASSUME IInv, OrderInv
  PROVE  CompiledInOrder
<1> SUFFICES ASSUME Conforming(flt)
             PROVE  /\ \A j, k \in 1..Len(Visited) : j < k => Visited[j] < Visited[k]
                    /\ \A k \in 1..Len(Visited) :
                         /\ Visited[k] \in FileLines(flt)
                         /\ \A f \in FileLines(flt) :
                              f < Visited[k] => \E j \in 1..k : Visited[j] = f
                    /\ phase = "done" =>
                         {compiled[k].file : k \in 1..Len(compiled)} = FileLines(flt)
  BY DEF CompiledInOrder
<1>1. OrderIsOfLines /\ SlotsInOrder /\ VisitedInOrder
  BY DEF OrderInv
<1>2. PICK v \in Seq(Nat) : v = Visited
  BY VisitedIs
<1>3. \A j, k \in 1..Len(v) : j < k => v[j] < v[k]
  BY <1>1, <1>2 DEF VisitedInOrder
<1>4. Len(v) \in Nat /\ \A k \in 1..Len(v) : v[k] \in Nat
  OBVIOUS
<1>5. ASSUME NEW a \in Nat, NEW k \in Nat, IsSlot(a, k)
      PROVE  File(a, k) \in FileLines(flt) /\ File(a, k) <= pos
  <2>1. <<liborder[a], k>> \in DOMAIN db
    BY <1>1, <1>5 DEF SlotsInOrder
  <2> QED
    BY <2>1 DEF IInv, TypeOK, Filed, File
<1>6. cur \in Nat /\ n \in Nat
  BY DEF IInv, TypeOK
<1>7. ASSUME NEW k \in 1..Len(v)
      PROVE  /\ v[k] \in FileLines(flt)
             /\ \A f \in FileLines(flt) : f < v[k] => \E j \in 1..k : v[j] = f
  <2>1. PICK b, m \in Nat : IsSlot(b, m) /\ Before(b, m, cur, n) /\ v[k] = File(b, m)
    BY <1>1, <1>2 DEF VisitedInOrder
  <2>2. v[k] \in FileLines(flt) /\ v[k] <= pos
    BY <1>5, <2>1
  <2>3. ASSUME NEW f \in FileLines(flt), f < v[k] PROVE \E j \in 1..k : v[j] = f
    <3>1. f \in Nat /\ v[k] \in Nat /\ pos \in Nat
      BY <1>4, ListFacts DEF FileLines, IInv
    <3>2. f <= pos
      BY <2>2, <2>3, <3>1
    <3>3. PICK a, l \in Nat : IsSlot(a, l) /\ File(a, l) = f
      BY <1>1, <3>2 DEF SlotsInOrder
    <3>4. ~Before(b, m, a, l) /\ ~(a = b /\ l = m)
      <4>1. ~(File(b, m) < File(a, l)) /\ File(a, l) # File(b, m)
        BY <2>1, <2>3, <3>1, <3>3
      <4> QED
        BY <1>1, <2>1, <3>3, <4>1 DEF SlotsInOrder
    <3>5. Before(a, l, b, m)
      BY <3>4 DEF Before
    <3>6. Before(a, l, cur, n)
      BY <1>6, <2>1, <3>5 DEF Before
    <3>7. PICK j \in 1..Len(v) : v[j] = f
      BY <1>1, <1>2, <3>3, <3>6 DEF VisitedInOrder
    <3>8. j <= k
      BY <1>3, <1>4, <2>3, <3>1, <3>7
    <3> QED
      BY <1>4, <3>7, <3>8
  <2> QED
    BY <2>2, <2>3
<1>8. ASSUME phase = "done"
      PROVE  {compiled[k].file : k \in 1..Len(compiled)} = FileLines(flt)
  <2>1. commandFiles = <<>> /\ pos = Len(flt) /\ cur > Len(liborder) /\ Len(liborder) \in Nat
    BY <1>8, <1>6 DEF IInv, Phases, InLibrary, TypeOK
  <2>2. PICK c \in Seq(Nat) : c = Compiled
    BY VisitedIs
  <2>3. v = c
    BY <1>2, <2>1, <2>2, VisitedIs
  <2>4. Len(c) = Len(compiled) /\ \A k \in 1..Len(compiled) : c[k] = compiled[k].file
    <3>1. Len(compiled) \in Nat
      BY DEF IInv
    <3> QED
      BY <2>2, <3>1 DEF Compiled
  <2>5. \A k \in 1..Len(compiled) : compiled[k].file \in FileLines(flt)
    BY DEF IInv, TypeOK
  <2>6. ASSUME NEW f \in FileLines(flt) PROVE \E k \in 1..Len(compiled) : compiled[k].file = f
    <3>1. f <= pos
      BY <2>1 DEF FileLines
    <3>2. PICK a, l \in Nat : IsSlot(a, l) /\ File(a, l) = f
      BY <1>1, <3>1 DEF SlotsInOrder
    <3>3. Before(a, l, cur, n)
      BY <1>6, <2>1, <3>2 DEF IsSlot, Before
    <3>4. PICK j \in 1..Len(v) : v[j] = f
      BY <1>1, <1>2, <3>2, <3>3 DEF VisitedInOrder
    <3> QED
      BY <2>3, <2>4, <3>4
  <2> QED
    BY <2>5, <2>6
<1> QED
  BY <1>2, <1>3, <1>7, <1>8

\* "compile order MUST be respected": for every conforming list, whatever files are
\* joined and wherever a command fails, files are compiled in the order of the list,
\* none skipped and none twice, and a run that succeeds has compiled them all.
THEOREM OrderIsKept == Spec => []CompiledInOrder
<1>1. Init => IInv /\ OrderInv
  BY InitStep, InitOrder
<1>2. (IInv /\ OrderInv) /\ [Next]_vars => (IInv /\ OrderInv)'
  BY NextStep, NextOrder
<1>3. IInv /\ OrderInv => CompiledInOrder
  BY OrderIsRight
<1> QED
  BY <1>1, <1>2, <1>3, PTL DEF Spec
=============================================================================
