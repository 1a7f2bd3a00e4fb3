------------------------- MODULE ParallelMergeProofs -------------------------
(***************************************************************************)
(* Theorems about ParallelMerge, for every list, number of jobs, host list *)
(* and schedule.                                                           *)
(***************************************************************************)
EXTENDS ParallelMerge, FiniteSetTheorems, TLAPS

-----------------------------------------------------------------------------
(* Lemmas about the operators.                                               *)

\* A quotient of naturals is zero exactly when the dividend is the smaller.
LEMMA DivZero ==
  ASSUME NEW a \in Nat, NEW d \in Nat \ {0}
  PROVE  /\ a \div d \in Nat
         /\ a \div d = 0 <=> a < d
         /\ a % d \in 0..(d - 1)
         /\ a = d * (a \div d) + (a % d)
  OBVIOUS

\* CalculateGroups returns the smaller of the two numbers it compares.
LEMMA GroupsIsMinimum ==
  ASSUME NEW jobs \in Nat, NEW databases \in Nat
  PROVE  CalculateGroups(jobs, databases)
           = IF jobs <= databases THEN jobs ELSE databases
  <1>1. CASE databases = 0 \/ jobs = 0
    BY <1>1 DEF CalculateGroups
  <1>2. CASE databases # 0 /\ jobs # 0
    <2> DEFINE Fits(g) == /\ databases \div g # 0
                          /\ \A h \in (g + 1)..jobs : databases \div h = 0
               min == IF jobs <= databases THEN jobs ELSE databases
    <2>1. \A h \in 1..jobs : databases \div h = 0 <=> databases < h
      BY DivZero
    <2>2. min \in 1..jobs /\ Fits(min)
      BY <1>2, <2>1
    <2>3. ASSUME NEW g \in 1..jobs, Fits(g)
          PROVE  g = min
      BY <1>2, <2>1, <2>2, <2>3
    <2>4. (CHOOSE g \in 1..jobs : Fits(g)) = min
      BY <2>2, <2>3
    <2> QED
      BY <1>2, <2>4 DEF CalculateGroups
  <1> QED
    BY <1>1, <1>2

\* The lines taken from a part of a list are finitely many.
LEMMA TakenFinite ==
  ASSUME NEW list, NEW a \in Nat, NEW p \in Nat
  PROVE  /\ IsFiniteSet(Taken(list, a, p))
         /\ Cardinality(Taken(list, a, p)) \in Nat
  <1>1. IsFiniteSet((a + 1)..p)
    BY FS_Interval
  <1>2. Taken(list, a, p) \in SUBSET ((a + 1)..p)
    BY DEF Taken
  <1> QED
    BY <1>1, <1>2, FS_Subset, FS_CardinalityType

\* A non-empty set of naturals has a least element.
LEMMA LeastElement ==
  ASSUME NEW T \in SUBSET Nat, T # {}
  PROVE  \E m \in T : \A n \in T : m <= n
  <1> DEFINE C == {0..n : n \in T}
  <1>1. PICK x \in C : \A y \in C : <<y, x>> \notin StrictSubsetOrdering(Nat)
    <2>1. ASSUME NEW n \in T PROVE 0..n \in FiniteSubsetsOf(Nat)
      <3>1. IsFiniteSet(0..n)
        BY FS_Interval
      <3>2. 0..n \in SUBSET Nat
        OBVIOUS
      <3> QED
        BY <3>1, <3>2 DEF FiniteSubsetsOf
    <2>2. C \subseteq FiniteSubsetsOf(Nat) /\ C # {}
      BY <2>1
    <2> QED
      BY <2>2, FS_StrictSubsetOrderingWellFounded, WFMin
  <1>2. PICK m \in T : x = 0..m
    OBVIOUS
  <1>3. ASSUME NEW n \in T PROVE m <= n
    <2>1. 0..n \in C /\ 0..n \in SUBSET Nat /\ 0..m \in SUBSET Nat
      OBVIOUS
    <2>2. CASE n < m
      <3>1. 0..n \subseteq 0..m /\ m \in 0..m /\ m \notin 0..n
        BY <2>2
      <3> QED
        BY <1>1, <1>2, <2>1, <3>1 DEF StrictSubsetOrdering
    <2> QED
      BY <2>2
  <1> QED
    BY <1>3

\* The read loop stops inside the list, short of the end only with its count.
LEMMA StopAtProperties ==
  ASSUME NEW list \in Seq(Line), NEW a \in 0..Len(list), NEW count \in Nat
  PROVE  LET p == StopAt(list, a, count)
         IN  /\ p \in a..Len(list)
             /\ Cardinality(Taken(list, a, p)) >= count \/ p = Len(list)
             /\ \A q \in a..(p - 1) : Cardinality(Taken(list, a, q)) < count
  <1> DEFINE Got(p) == Cardinality(Taken(list, a, p))
             Stops(p) == /\ Got(p) >= count \/ p = Len(list)
                         /\ \A q \in a..(p - 1) : Got(q) < count
             T == {p \in a..Len(list) : Got(p) >= count \/ p = Len(list)}
  <1>1. Len(list) \in Nat
    OBVIOUS
  <1>2. \A p \in a..Len(list) : Got(p) \in Nat
    BY <1>1, TakenFinite
  <1>3. PICK m \in T : \A n \in T : m <= n
    <2>1. Len(list) \in T /\ T \in SUBSET Nat
      BY <1>1
    <2> QED
      BY <2>1, LeastElement
  <1>4. m \in a..Len(list) /\ Stops(m)
    <2> SUFFICES ASSUME NEW q \in a..(m - 1) PROVE Got(q) < count
      BY <1>3
    <2>1. q \in a..Len(list) /\ ~(m <= q)
      BY <1>1, <1>3
    <2>2. q \notin T
      BY <1>3, <2>1
    <2> QED
      BY <1>2, <2>1, <2>2
  <1>5. StopAt(list, a, count) = CHOOSE p \in a..Len(list) : Stops(p)
    BY DEF StopAt
  <1> HIDE DEF Stops
  <1>6. LET p == CHOOSE p \in a..Len(list) : Stops(p)
        IN  p \in a..Len(list) /\ Stops(p)
    BY <1>4
  <1> QED
    BY <1>5, <1>6 DEF Stops

-----------------------------------------------------------------------------
(* The inductive invariant.                                                  *)

\* Before levelOne starts nothing has been read from the list or merged.
NothingReadYet ==
  stage \notin {"levelOne", "done"} => fp = NotOpen /\ merged = {}

\* An instance whose script has been expanded has its share, and one that has
\* been launched in rsh mode its host.
ExpandedHasShare ==
  \A g \in Instances : instance[g] # "new" => g \in DOMAIN UcdbFiles
LaunchedHasHost ==
  param.mode = "rsh" =>
    \A g \in Instances :
      instance[g] \in {"exec", "toMerge", "merge"} => g \in DOMAIN NextHost

\* levelOne is over when every instance is.
EndedWhenDone ==
  stage = "done" => \A g \in Instances : instance[g] \in {"done", "failed"}

IInv ==
  /\ TypeOK
  /\ NothingReadYet
  /\ ExpandedHasShare
  /\ LaunchedHasHost
  /\ EndedWhenDone
  /\ SharesPartitionList

\* The list, and what is computed from it, change in the first stages only.
LEMMA ListUnchanged ==
  ASSUME UNCHANGED <<param, filelist, optimized>>
  PROVE  UNCHANGED <<OPTFILELIST, DATABASES, GROUPS>>
  BY DEF OPTFILELIST, DATABASES, GROUPS, RSHJOBS

\* The list that is merged is a sequence of lines.
LEMMA ListType ==
  ASSUME TypeOK
  PROVE  /\ OPTFILELIST \in Seq(Line)
         /\ DATABASES \in Nat
         /\ GROUPS \in Nat
  <1>1. OPTFILELIST \in Seq(Line)
    BY DEF TypeOK, OPTFILELIST, Line
  <1>2. DATABASES \in Nat
    BY <1>1 DEF DATABASES, CountFiles, Absent
  <1>3. RSHJOBS \in Nat /\ param.jobs \in Nat
    BY ParamsAssumption DEF TypeOK, Param, RSHJOBS
  <1> QED
    BY <1>1, <1>2, <1>3, GroupsIsMinimum DEF GROUPS

LEMMA InitIInv == Init => IInv
  <1> SUFFICES ASSUME Init PROVE IInv
    OBVIOUS
  <1>1. TypeOK
    BY UserListsAssumption, ParamsAssumption DEF Init, TypeOK, Param, Instances, NotOpen, Unset
  <1>2. SharesPartitionList
    BY DEF Init, SharesPartitionList
  <1>3. Instances = {}
    BY DEF Init, Instances
  <1> QED
    BY <1>1, <1>2, <1>3 DEF Init, IInv, NothingReadYet, ExpandedHasShare, LaunchedHasHost,
       EndedWhenDone

\* The steps before levelOne leave everything about the instances alone.
LEMMA PrepareIInv ==
  ASSUME IInv, Prepare
  PROVE  IInv'
  <1> USE DEF IInv
  <1>1. /\ stage \notin {"levelOne", "done"}
        /\ instance = <<>> /\ fp = NotOpen /\ merged = {}
        /\ UNCHANGED <<param, fp, Remainder, UcdbFiles, availableHosts, NextHost,
                       merged>>
    BY DEF Prepare, GenerateFileList, OptimizeAll, OptimizeNoFile, OptimizeLine,
           OptimizeEnd, ModePreScript, RshPreScript, RepeatLevelOne, groupVars,
           hostVars, TypeOK, NothingReadYet
  <1>2. Instances = {} /\ DOMAIN UcdbFiles = {}
    <2>1. Instances = {}
      BY <1>1 DEF Instances
    <2> QED
      BY <2>1 DEF TypeOK
  <1>3. /\ filelist' \in Seq(Line) /\ optimized' \in Seq(Line)
        /\ read' \in Nat /\ result' \in Status \cup {Unset}
        /\ \/ /\ stage' \in {"optimize", "mode", "rsh", "repeat", "error"}
              /\ UNCHANGED instance
           \/ /\ stage' = "levelOne"
              /\ instance' = [g \in 1..GROUPS |-> "new"]
              /\ UNCHANGED <<filelist, optimized>>
    <2>1. CASE GenerateFileList
      BY <2>1, FoundListsAssumption DEF GenerateFileList, TypeOK
    <2>2. CASE OptimizeLine
      <3>1. filelist[read + 1] \in Line
        BY <2>2 DEF OptimizeLine, TypeOK
      <3> QED
        <4>1. ResultAt(filelist[read + 1]) \in Status \cup {Unset}
          BY <3>1 DEF ResultAt, TypeOK, Status
        <4>2. /\ read' = read + 1 /\ UNCHANGED <<filelist, instance>>
              /\ stage' \in {stage, "error"} /\ stage = "optimize"
              /\ result' \in Status \cup {Unset}
              /\ optimized' \in {optimized, Append(optimized, filelist[read + 1])}
          BY <2>2, <4>1 DEF OptimizeLine, TypeOK
        <4>3. Append(optimized, filelist[read + 1]) \in Seq(Line)
          BY <3>1 DEF TypeOK
        <4>4. /\ filelist \in Seq(Line) /\ optimized \in Seq(Line) /\ read \in Nat
          BY DEF TypeOK
        <4> HIDE DEF IInv
        <4>5. filelist' \in Seq(Line) /\ optimized' \in Seq(Line) /\ read' \in Nat
          BY <4>2, <4>3, <4>4
        <4> QED
          BY <4>2, <4>5
    <2>3. CASE RepeatLevelOne
      BY <2>3 DEF RepeatLevelOne, TypeOK, listVars
    <2>4. CASE OptimizeAll \/ OptimizeNoFile \/ OptimizeEnd \/ ModePreScript \/ RshPreScript
      <3>1. UNCHANGED <<filelist, optimized, read, result, instance>>
        BY <2>4 DEF OptimizeAll, OptimizeNoFile, OptimizeEnd, ModePreScript,
                    RshPreScript, listVars
      <3>2. stage' \in {"mode", "rsh", "repeat", "error"}
        BY <2>4 DEF OptimizeAll, OptimizeNoFile, OptimizeEnd, ModePreScript,
                    RshPreScript
      <3> QED
        BY <3>1, <3>2 DEF TypeOK
    <2> QED
      BY <2>1, <2>2, <2>3, <2>4 DEF Prepare
  <1>4. /\ stage' = "levelOne" => instance' \in [1..GROUPS' -> {"new"}]
        /\ Instances' = DOMAIN instance'
    BY <1>1, <1>3, ListUnchanged DEF Instances
  <1>5. \A g \in Instances' : instance'[g] = "new"
    BY <1>1, <1>2, <1>3, <1>4 DEF Instances
  <1>6. TypeOK'
    BY <1>1, <1>2, <1>3, <1>4 DEF TypeOK
  <1>7. SharesPartitionList'
    BY <1>1, <1>2 DEF SharesPartitionList
  <1> QED
    BY <1>1, <1>3, <1>5, <1>6, <1>7 DEF NothingReadYet, ExpandedHasShare, LaunchedHasHost,
       EndedWhenDone

\* What a call of GetUcdbFiles does: it reads on in the list, and what it
\* newly reads is the caller's share, or the caller has its share already.
LEMMA GetUcdbFilesStep ==
  ASSUME TypeOK, NEW g \in Instances, GetUcdbFiles(g)
  PROVE  /\ ListPosition \in 0..Len(OPTFILELIST)
         /\ fp' \in ListPosition..Len(OPTFILELIST) /\ Remainder' \in Nat
         /\ \/ /\ g \in DOMAIN UcdbFiles /\ UNCHANGED UcdbFiles
               /\ fp' = ListPosition
            \/ /\ g \notin DOMAIN UcdbFiles
               /\ UcdbFiles' = Put(UcdbFiles, g, Taken(OPTFILELIST, ListPosition, fp'))
  <1>1. OPTFILELIST \in Seq(Line) /\ DATABASES \in Nat /\ GROUPS \in Nat
    BY ListType
  <1>2. GROUPS \in Nat \ {0}
    BY <1>1 DEF TypeOK, Instances
  <1>3. ListPosition \in 0..Len(OPTFILELIST)
    BY <1>1 DEF TypeOK, ListPosition, NotOpen
  <1>4. CurrentRemainder \in Nat /\ NextRemainder(CurrentRemainder) \in Nat
    BY <1>1, <1>2, DivZero DEF TypeOK, CurrentRemainder, NextRemainder
  <1>5. ShareSize(CurrentRemainder) \in Nat
    <2>1. DATABASES \div GROUPS \in Nat
      BY <1>1, <1>2, DivZero
    <2> QED
      BY <2>1 DEF ShareSize
  <1>6. StopAt(OPTFILELIST, ListPosition, ShareSize(CurrentRemainder))
          \in ListPosition..Len(OPTFILELIST)
    BY <1>1, <1>3, <1>5, StopAtProperties
  <1> QED
    BY <1>1, <1>3, <1>4, <1>6 DEF GetUcdbFiles, HasShare

LEMMA ExpandScriptIInv ==
  ASSUME IInv, NEW g \in Instances, ExpandScript(g)
  PROVE  IInv'
  <1> USE DEF IInv
  <1>1. UNCHANGED <<param, stage, filelist, optimized, read, result, availableHosts,
                    NextHost, merged>>
    BY DEF ExpandScript, listVars, hostVars
  <1>2. UNCHANGED <<OPTFILELIST, DATABASES, GROUPS>>
    BY <1>1, ListUnchanged
  <1>3. /\ stage = "levelOne" /\ Instances' = Instances
        /\ instance[g] \in {"new", "tested"}
        /\ \A h \in Instances : instance'[h] = IF h # g THEN instance[h]
                               ELSE IF instance[g] = "new" THEN "tested" ELSE "ready"
        /\ instance' \in [1..GROUPS -> {"new", "tested", "ready", "exec", "toMerge",
                                       "merge", "done", "failed"}]
    BY DEF ExpandScript, TypeOK, Instances
  <1>4. /\ ListPosition \in 0..Len(OPTFILELIST)
        /\ fp' \in ListPosition..Len(OPTFILELIST) /\ Remainder' \in Nat
        /\ \/ /\ g \in DOMAIN UcdbFiles /\ UNCHANGED UcdbFiles
              /\ fp' = ListPosition
           \/ /\ g \notin DOMAIN UcdbFiles
              /\ UcdbFiles' = Put(UcdbFiles, g, Taken(OPTFILELIST, ListPosition, fp'))
    BY GetUcdbFilesStep DEF ExpandScript
  <1>5. /\ DOMAIN UcdbFiles' = DOMAIN UcdbFiles \cup {g}
        /\ \A h \in DOMAIN UcdbFiles : UcdbFiles'[h] = UcdbFiles[h]
        /\ g \notin DOMAIN UcdbFiles =>
             UcdbFiles'[g] = Taken(OPTFILELIST, ListPosition, fp')
    BY <1>4 DEF Put
  <1>6. OPTFILELIST \in Seq(Line)
    BY ListType
  <1>7. Taken(OPTFILELIST, ListPosition, fp')
          = {i \in Named(OPTFILELIST) : ListPosition < i /\ i <= fp'}
    BY <1>4, <1>6 DEF Taken, Named
  <1>8. TypeOK'
    <2>1. \A h \in DOMAIN UcdbFiles' : UcdbFiles'[h] \subseteq Named(OPTFILELIST)
      BY <1>5, <1>7 DEF TypeOK
    <2>2. fp' \in 0..Len(OPTFILELIST)
      BY <1>4, <1>6
    <2> QED
      BY <1>1, <1>2, <1>3, <1>4, <1>5, <2>1, <2>2 DEF TypeOK
  <1>9. SharesPartitionList'
    <2>1. UNION {UcdbFiles[h] : h \in DOMAIN UcdbFiles}
            = {i \in Named(OPTFILELIST) : i <= ListPosition}
      BY <1>6 DEF SharesPartitionList, ListPosition, Named
    <2>2. CASE g \in DOMAIN UcdbFiles
      BY <1>2, <1>4, <1>5, <2>1, <2>2 DEF SharesPartitionList, NotOpen
    <2>3. CASE g \notin DOMAIN UcdbFiles
      <3> DEFINE New == Taken(OPTFILELIST, ListPosition, fp')
      <3>1. UcdbFiles'[g] = New
        BY <1>5, <2>3
      <3>2. \A h \in DOMAIN UcdbFiles : UcdbFiles[h] \cap New = {}
        <4>1. \A h \in DOMAIN UcdbFiles :
                UcdbFiles[h] \subseteq {i \in Named(OPTFILELIST) : i <= ListPosition}
          BY <2>1
        <4>2. \A i \in Named(OPTFILELIST) :
                i \in Nat /\ ~(i <= ListPosition /\ ListPosition < i)
          BY <1>4, <1>6 DEF Named
        <4> QED
          BY <1>7, <4>1, <4>2
      <3>3. UNION {UcdbFiles'[h] : h \in DOMAIN UcdbFiles'}
              = (UNION {UcdbFiles[h] : h \in DOMAIN UcdbFiles}) \cup New
        BY <1>5, <3>1
      <3>4. {i \in Named(OPTFILELIST) : i <= fp'}
              = {i \in Named(OPTFILELIST) : i <= ListPosition} \cup New
        BY <1>4, <1>6, <1>7 DEF Named
      <3>5. fp' # NotOpen
        BY <1>4, <1>6 DEF NotOpen
      <3> QED
        BY <1>2, <1>5, <2>1, <3>1, <3>2, <3>3, <3>4, <3>5 DEF SharesPartitionList
    <2> QED
      BY <2>2, <2>3
  <1> QED
    BY <1>1, <1>3, <1>5, <1>8, <1>9 DEF NothingReadYet, ExpandedHasShare, LaunchedHasHost,
       EndedWhenDone

\* GetNextHost gives the instance a host and keeps those it has given.
LEMMA GetNextHostStep ==
  ASSUME TypeOK, NEW i, GetNextHost(i)
  PROVE  /\ availableHosts' \in Seq(Host \cup {NoHost})
         /\ DOMAIN NextHost \subseteq DOMAIN NextHost'
         /\ DOMAIN NextHost' \subseteq DOMAIN NextHost \cup {i}
         /\ param.mode = "rsh" => i \in DOMAIN NextHost'
         /\ \A j \in DOMAIN NextHost' : NextHost'[j] \in Host \cup {NoHost}
  <1>1. CASE UNCHANGED hostVars /\ (param.mode = "rsh" => i \in DOMAIN NextHost)
    BY <1>1 DEF hostVars, TypeOK
  <1>2. ASSUME NEW h \in Host \cup {NoHost}, NextHost' = Put(NextHost, i, h)
        PROVE  /\ DOMAIN NextHost' = DOMAIN NextHost \cup {i}
               /\ \A j \in DOMAIN NextHost' : NextHost'[j] \in Host \cup {NoHost}
    BY <1>2 DEF Put, TypeOK
  <1>3. CASE availableHosts = <<>> /\ NextHost' = Put(NextHost, i, NoHost)
             /\ UNCHANGED availableHosts
    BY <1>2, <1>3 DEF TypeOK
  <1>4. CASE /\ availableHosts # <<>> /\ NextHost' = Put(NextHost, i, Head(availableHosts))
             /\ availableHosts' = Tail(availableHosts)
    <2>1. Head(availableHosts) \in Host \cup {NoHost}
      BY <1>4 DEF TypeOK
    <2>2. Tail(availableHosts) \in Seq(Host \cup {NoHost})
      BY <1>4 DEF TypeOK
    <2> QED
      BY <1>2, <1>4, <2>1, <2>2
  <1> QED
    BY <1>1, <1>3, <1>4 DEF GetNextHost

\* The steps of an instance that has its share, and the last step, leave the
\* list and the shares alone.
LEMMA RunIInv ==
  ASSUME IInv,
         \/ \E g \in Instances : \/ LaunchExec(g) \/ CompleteExec(g)
                                 \/ LaunchMerge(g) \/ CompleteMerge(g)
         \/ PostScript
  PROVE  IInv'
  <1> USE DEF IInv
  <1>1. UNCHANGED <<param, filelist, optimized, read, result, fp, Remainder, UcdbFiles>>
    BY DEF LaunchExec, CompleteExec, LaunchMerge, CompleteMerge, PostScript,
           listVars, groupVars
  <1>2. UNCHANGED <<OPTFILELIST, DATABASES, GROUPS>>
    BY <1>1, ListUnchanged
  <1>3. /\ stage = "levelOne" /\ stage' \in {"levelOne", "done"}
        /\ merged' \subseteq Named(OPTFILELIST)
        /\ Instances' = Instances
        /\ instance' \in [1..GROUPS -> {"new", "tested", "ready", "exec", "toMerge",
                                       "merge", "done", "failed"}]
        /\ \A g \in Instances : instance'[g] # "new" => g \in DOMAIN UcdbFiles
        /\ EndedWhenDone'
    <2>1. CASE PostScript
      BY <2>1 DEF PostScript, TypeOK, Instances, ExpandedHasShare, EndedWhenDone
    <2>2. ASSUME NEW g \in Instances,
                 LaunchExec(g) \/ CompleteExec(g) \/ LaunchMerge(g) \/ CompleteMerge(g)
          PROVE  <1>3
      <3>1. /\ stage = "levelOne" /\ stage' = stage /\ instance[g] # "new"
            /\ \E st \in {"exec", "toMerge", "merge", "done", "failed"} :
                 instance' = [instance EXCEPT ![g] = st]
            /\ merged' \in {merged, merged \cup UcdbFiles[g]}
        BY <2>2 DEF LaunchExec, CompleteExec, LaunchMerge, CompleteMerge
      <3>2. g \in DOMAIN UcdbFiles
        BY <3>1 DEF ExpandedHasShare
      <3> QED
        BY <3>1, <3>2 DEF TypeOK, Instances, ExpandedHasShare, EndedWhenDone
    <2> QED
      BY <2>1, <2>2
  <1>4. /\ availableHosts' \in Seq(Host \cup {NoHost})
        /\ DOMAIN NextHost' \subseteq Instances \cup {GroupScript}
        /\ \A i \in DOMAIN NextHost' : NextHost'[i] \in Host \cup {NoHost}
        /\ LaunchedHasHost'
    <2>1. CASE PostScript
      BY <1>1, <1>3, <2>1, GetNextHostStep DEF PostScript, TypeOK, LaunchedHasHost
    <2>2. ASSUME NEW g \in Instances, LaunchExec(g) \/ LaunchMerge(g)
          PROVE  <1>4
      <3>1. /\ GetNextHost(g)
            /\ \A h \in Instances : h # g => instance'[h] = instance[h]
        BY <2>2 DEF LaunchExec, LaunchMerge, TypeOK, Instances
      <3> QED
        BY <1>1, <1>3, <3>1, GetNextHostStep DEF TypeOK, LaunchedHasHost
    <2>3. ASSUME NEW g \in Instances, CompleteExec(g) \/ CompleteMerge(g)
          PROVE  <1>4
      <3>1. /\ ActionCompleted(g) /\ instance[g] \in {"exec", "merge"}
            /\ \A h \in Instances : h # g => instance'[h] = instance[h]
        BY <2>3 DEF CompleteExec, CompleteMerge, TypeOK, Instances
      <3>2. UNCHANGED NextHost
        BY <3>1 DEF ActionCompleted, hostVars
      <3>3. availableHosts' \in Seq(Host \cup {NoHost})
        <4>1. CASE param.mode # "rsh"
          BY <3>1, <4>1 DEF ActionCompleted, hostVars, TypeOK
        <4>2. CASE param.mode = "rsh"
          <5>1. NextHost[g] \in Host \cup {NoHost}
            BY <3>1, <4>2 DEF TypeOK, LaunchedHasHost
          <5>2. Append(availableHosts, NextHost[g]) \in Seq(Host \cup {NoHost})
            BY <5>1 DEF TypeOK
          <5> QED
            BY <3>1, <4>2, <5>2 DEF ActionCompleted
        <4> QED
          BY <4>1, <4>2
      <3> QED
        BY <1>1, <1>3, <3>1, <3>2, <3>3 DEF TypeOK, LaunchedHasHost
    <2> QED
      BY <2>1, <2>2, <2>3
  <1>5. TypeOK'
    BY <1>1, <1>2, <1>3, <1>4 DEF TypeOK
  <1>6. SharesPartitionList'
    BY <1>1, <1>2 DEF SharesPartitionList
  <1> QED
    BY <1>1, <1>3, <1>4, <1>5, <1>6 DEF NothingReadYet, ExpandedHasShare

LEMMA NextIInv == IInv /\ [Next]_vars => IInv'
  <1> SUFFICES ASSUME IInv, [Next]_vars PROVE IInv'
    OBVIOUS
  <1>1. CASE Prepare
    BY <1>1, PrepareIInv
  <1>2. ASSUME NEW g \in Instances, LevelOne(g) PROVE IInv'
    BY <1>2, ExpandScriptIInv, RunIInv DEF LevelOne
  <1>3. CASE PostScript
    BY <1>3, RunIInv
  <1>4. CASE UNCHANGED vars
    <2>1. UNCHANGED <<OPTFILELIST, DATABASES, GROUPS>>
      BY <1>4, ListUnchanged DEF vars, listVars
    <2> QED
      BY <1>4, <2>1 DEF vars, listVars, groupVars, hostVars, IInv, TypeOK, Instances,
         NothingReadYet, ExpandedHasShare, LaunchedHasHost, EndedWhenDone,
         SharesPartitionList
  <1> QED
    BY <1>1, <1>2, <1>3, <1>4 DEF Next, Terminated

LEMMA Invariance == Spec => []IInv
  BY InitIInv, NextIInv, PTL DEF Spec

\* Every variable keeps its type; in particular a share never holds a line that
\* names no UCDB, and reading never passes the end of the list.
THEOREM TypeCorrect == Spec => []TypeOK
  <1>1. IInv => TypeOK
    BY DEF IInv
  <1> QED
    BY <1>1, Invariance, PTL

\* GetUcdbFiles deals the list out exactly once: for any list, number of jobs
\* and order of expansion, no UCDB is in two shares or skipped between two.
THEOREM SharesPartition == Spec => []SharesPartitionList
  <1>1. IInv => SharesPartitionList
    BY DEF IInv
  <1> QED
    BY <1>1, Invariance, PTL

\* An instance keeps its share for good, however often its script is expanded.
THEOREM SharesAreStable == Spec => SharesStable
  <1>1. IInv /\ [Next]_vars =>
          \A g \in DOMAIN UcdbFiles :
            g \in DOMAIN UcdbFiles' /\ UcdbFiles'[g] = UcdbFiles[g]
    <2> SUFFICES ASSUME IInv, [Next]_vars, NEW g \in DOMAIN UcdbFiles
                 PROVE  g \in DOMAIN UcdbFiles' /\ UcdbFiles'[g] = UcdbFiles[g]
      OBVIOUS
    <2>1. ASSUME NEW h \in Instances, ExpandScript(h)
          PROVE  g \in DOMAIN UcdbFiles' /\ UcdbFiles'[g] = UcdbFiles[g]
      BY <2>1, GetUcdbFilesStep DEF IInv, ExpandScript, Put
    <2>2. CASE UNCHANGED UcdbFiles
      BY <2>2
    <2> QED
      BY <2>1, <2>2 DEF Next, Prepare, GenerateFileList, OptimizeAll, OptimizeNoFile,
         OptimizeLine, OptimizeEnd, ModePreScript, RshPreScript, RepeatLevelOne,
         LevelOne, LaunchExec, CompleteExec, LaunchMerge, CompleteMerge, PostScript,
         Terminated, vars, groupVars
  <1> QED
    BY <1>1, Invariance, PTL DEF Spec, SharesStable
-----------------------------------------------------------------------------
(* The refinement of UcdbMerge.                                              *)

\* The UCDBs of the instances in a given state.
SharesIn(st) == UNION {UcdbFiles[g] : g \in {h \in DOMAIN UcdbFiles : instance[h] = st}}

\* What has been merged is what the instances that are done were given.
DoneIsMerged == merged = SharesIn("done")

\* Before levelOne starts there is no share.
LEMMA NoShareYet ==
  ASSUME IInv, stage \notin {"levelOne", "done"}
  PROVE  DOMAIN UcdbFiles = {} /\ merged = {} /\ fp = NotOpen
  <1>1. Instances = {}
    BY DEF IInv, TypeOK, Instances
  <1> QED
    BY <1>1 DEF IInv, TypeOK, NothingReadYet

\* A step of Prepare hands out nothing.
LEMMA PrepareStep ==
  ASSUME IInv, Prepare
  PROVE  /\ stage \notin {"levelOne", "done"} /\ stage' # "done"
         /\ DOMAIN UcdbFiles' = {} /\ merged' = {} /\ fp' = NotOpen
         /\ UNCHANGED <<param, merged, Remainder, UcdbFiles, availableHosts, NextHost>>
         /\ stage' = "levelOne" => RepeatLevelOne
  <1>1. /\ stage \notin {"levelOne", "done"} /\ stage' # "done"
        /\ UNCHANGED <<param, fp, Remainder, UcdbFiles, availableHosts, NextHost, merged>>
        /\ stage' = "levelOne" => RepeatLevelOne
    BY DEF Prepare, GenerateFileList, OptimizeAll, OptimizeNoFile, OptimizeLine,
           OptimizeEnd, ModePreScript, RshPreScript, RepeatLevelOne, groupVars, hostVars
  <1> QED
    BY <1>1, NoShareYet

\* An expansion adds at most the share of an instance that has not started.
LEMMA ExpandScriptStep ==
  ASSUME IInv, NEW g \in Instances, ExpandScript(g)
  PROVE  /\ stage \in {"levelOne", "done"}
         /\ UNCHANGED <<stage, OPTFILELIST, merged>>
         /\ \A h \in DOMAIN UcdbFiles :
              h \in DOMAIN UcdbFiles' /\ UcdbFiles'[h] = UcdbFiles[h]
         /\ DOMAIN UcdbFiles' = DOMAIN UcdbFiles \cup {g}
         /\ instance[g] \in {"new", "tested"} /\ instance'[g] \in {"tested", "ready"}
         /\ \A h \in DOMAIN UcdbFiles : h # g => instance'[h] = instance[h]
  <1>1. /\ stage = "levelOne" /\ UNCHANGED <<stage, OPTFILELIST, merged>>
        /\ instance[g] \in {"new", "tested"} /\ instance'[g] \in {"tested", "ready"}
        /\ \A h \in Instances : h # g => instance'[h] = instance[h]
    BY ListUnchanged DEF ExpandScript, listVars, IInv, TypeOK, Instances
  <1>2. /\ DOMAIN UcdbFiles' = DOMAIN UcdbFiles \cup {g}
        /\ \A h \in DOMAIN UcdbFiles : UcdbFiles'[h] = UcdbFiles[h]
    BY GetUcdbFilesStep DEF IInv, ExpandScript, Put
  <1>3. DOMAIN UcdbFiles \subseteq Instances
    BY DEF IInv, TypeOK
  <1> QED
    BY <1>1, <1>2, <1>3

\* A later step of an instance changes its state only; if it is done, its
\* share is merged.
LEMMA LaterStep ==
  ASSUME IInv, NEW g \in Instances,
         LaunchExec(g) \/ CompleteExec(g) \/ LaunchMerge(g) \/ CompleteMerge(g)
  PROVE  /\ stage \in {"levelOne", "done"}
         /\ UNCHANGED <<stage, OPTFILELIST, UcdbFiles, fp, Remainder>>
         /\ g \in DOMAIN UcdbFiles
         /\ instance[g] \in {"ready", "exec", "toMerge", "merge"}
         /\ instance'[g] \in {"exec", "toMerge", "merge", "done", "failed"}
         /\ \A h \in DOMAIN UcdbFiles : h # g => instance'[h] = instance[h]
         /\ merged' = IF instance'[g] = "done" THEN merged \cup UcdbFiles[g] ELSE merged
  <1>1. /\ stage = "levelOne" /\ UNCHANGED <<stage, OPTFILELIST, UcdbFiles, fp, Remainder>>
    BY ListUnchanged
    DEF LaunchExec, CompleteExec, LaunchMerge, CompleteMerge, listVars, groupVars
  <1>2. /\ instance[g] \in {"ready", "exec", "toMerge", "merge"}
        /\ instance'[g] \in {"exec", "toMerge", "merge", "done", "failed"}
        /\ \A h \in Instances : h # g => instance'[h] = instance[h]
        /\ merged' = IF instance'[g] = "done" THEN merged \cup UcdbFiles[g] ELSE merged
    BY DEF LaunchExec, CompleteExec, LaunchMerge, CompleteMerge, IInv, TypeOK, Instances
  <1>3. g \in DOMAIN UcdbFiles /\ DOMAIN UcdbFiles \subseteq Instances
    BY <1>2 DEF IInv, TypeOK, ExpandedHasShare
  <1> QED
    BY <1>1, <1>2, <1>3

LEMMA InitDoneIsMerged == Init => DoneIsMerged
  BY DEF Init, DoneIsMerged, SharesIn

\* The step of an instance maps to a step of UcdbMerge, or to none.
LEMMA LevelOneRefines ==
  ASSUME IInv, DoneIsMerged, NEW g \in Instances, LevelOne(g)
  PROVE  DoneIsMerged' /\ (Abstract!Next \/ UNCHANGED Abstract!vars)
  <1>1. CASE ExpandScript(g)
    <2>1. ASSUME NEW st \in {"done", "failed"} PROVE SharesIn(st)' = SharesIn(st)
      <3> DEFINE S == {h \in DOMAIN UcdbFiles : instance[h] = st}
      <3>1. {h \in DOMAIN UcdbFiles' : instance'[h] = st} = S
        BY <1>1, ExpandScriptStep
      <3>2. \A h \in S : UcdbFiles'[h] = UcdbFiles[h]
        BY <1>1, ExpandScriptStep
      <3>3. {UcdbFiles'[h] : h \in S} = {UcdbFiles[h] : h \in S}
        BY <3>2
      <3> QED
        BY <3>1, <3>3 DEF SharesIn
    <2>2. Failed' = Failed
      BY <2>1 DEF Failed, SharesIn
    <2> QED
      BY <1>1, <2>1, <2>2, ExpandScriptStep DEF DoneIsMerged, Abstract!vars
  <1>2. CASE LaunchExec(g) \/ CompleteExec(g) \/ LaunchMerge(g) \/ CompleteMerge(g)
    <2>1. ASSUME NEW st \in {"done", "failed"}
          PROVE  SharesIn(st)' = IF instance'[g] = st THEN SharesIn(st) \cup UcdbFiles[g]
                                                      ELSE SharesIn(st)
      <3>1. {h \in DOMAIN UcdbFiles' : instance'[h] = st}
              = IF instance'[g] = st THEN {h \in DOMAIN UcdbFiles : instance[h] = st} \cup {g}
                ELSE {h \in DOMAIN UcdbFiles : instance[h] = st}
        BY <1>2, LaterStep
      <3> QED
        BY <1>2, <3>1, LaterStep DEF SharesIn
    <2>2. DoneIsMerged'
      BY <1>2, <2>1, LaterStep DEF DoneIsMerged
    <2>3. /\ Failed = SharesIn("failed")
          /\ Failed' = IF instance'[g] = "failed" THEN Failed \cup UcdbFiles[g] ELSE Failed
      BY <2>1 DEF Failed, SharesIn
    <2>4. UcdbFiles[g] \subseteq Named(OPTFILELIST) \ (merged \cup Failed)
      <3>1. g \in DOMAIN UcdbFiles /\ UcdbFiles[g] \subseteq Named(OPTFILELIST)
        BY <1>2, LaterStep DEF IInv, TypeOK
      <3>2. ASSUME NEW st \in {"done", "failed"} PROVE UcdbFiles[g] \cap SharesIn(st) = {}
        BY <1>2, <3>1, LaterStep DEF SharesIn, IInv, SharesPartitionList
      <3> QED
        BY <2>3, <3>1, <3>2 DEF DoneIsMerged
    <2>5. stage \in {"levelOne", "done"} /\ UNCHANGED <<stage, OPTFILELIST>>
      BY <1>2, LaterStep
    <2>6. CASE instance'[g] = "done"
      <3>1. merged' = merged \cup UcdbFiles[g] /\ UNCHANGED Failed
        BY <1>2, <2>3, <2>6, LaterStep
      <3>2. Abstract!Merge
        BY <2>4, <2>5, <3>1 DEF Abstract!Merge, Abstract!Pending
      <3> QED
        BY <2>2, <3>2 DEF Abstract!Next
    <2>7. CASE instance'[g] = "failed"
      <3>1. Failed' = Failed \cup UcdbFiles[g] /\ UNCHANGED merged
        BY <1>2, <2>3, <2>7, LaterStep
      <3>2. Abstract!Drop
        BY <2>4, <2>5, <3>1 DEF Abstract!Drop, Abstract!Pending
      <3> QED
        BY <2>2, <3>2 DEF Abstract!Next
    <2>8. CASE instance'[g] \notin {"done", "failed"}
      <3>1. UNCHANGED <<Failed, merged>>
        BY <1>2, <2>3, <2>8, LaterStep
      <3> QED
        BY <2>2, <2>5, <3>1 DEF Abstract!vars
    <2> QED
      BY <2>6, <2>7, <2>8
  <1> QED
    BY <1>1, <1>2 DEF LevelOne

LEMMA NextRefines ==
  ASSUME IInv, DoneIsMerged, [Next]_vars
  PROVE  DoneIsMerged' /\ (Abstract!Next \/ UNCHANGED Abstract!vars)
  <1>1. CASE Prepare
    <2>1. /\ merged' = {} /\ UNCHANGED merged /\ DOMAIN UcdbFiles' = {}
          /\ stage \notin {"levelOne", "done"}
      BY <1>1, PrepareStep
    <2>2. DoneIsMerged' /\ Failed' = {}
      BY <2>1 DEF DoneIsMerged, SharesIn, Failed
    <2>3. CASE stage' = "levelOne"
      <3>1. OPTFILELIST' = OPTFILELIST
        BY <1>1, <2>3, PrepareStep, ListUnchanged DEF RepeatLevelOne, listVars
      <3>2. Named(OPTFILELIST) \subseteq Nat
        BY ListType DEF IInv, Named
      <3>3. Abstract!Start
        BY <2>1, <2>2, <2>3, <3>1, <3>2 DEF Abstract!Start
      <3> QED
        BY <2>2, <3>3 DEF Abstract!Next
    <2>4. CASE stage' # "levelOne"
      <3>1. stage' # "done"
        BY <1>1, PrepareStep
      <3> QED
        BY <2>1, <2>2, <2>4, <3>1 DEF Abstract!vars
    <2> QED
      BY <2>3, <2>4
  <1>2. ASSUME NEW g \in Instances, LevelOne(g)
        PROVE  DoneIsMerged' /\ (Abstract!Next \/ UNCHANGED Abstract!vars)
    BY <1>2, LevelOneRefines
  <1>3. CASE PostScript \/ UNCHANGED vars
    <2>1. /\ UNCHANGED <<param, filelist, optimized, UcdbFiles, instance, merged>>
          /\ stage' = stage \/ (stage = "levelOne" /\ stage' = "done")
      BY <1>3 DEF PostScript, vars, listVars, groupVars
    <2>2. UNCHANGED <<OPTFILELIST, Failed>> /\ DoneIsMerged'
      BY <2>1, ListUnchanged DEF Failed, DoneIsMerged, SharesIn
    <2> QED
      BY <2>1, <2>2 DEF Abstract!vars
  <1> QED
    BY <1>1, <1>2, <1>3 DEF Next, Terminated

\* The parallel merge is a merge: for every list, mode, number of jobs, order
\* of the instances and failure of any, a UCDB is merged once, with its batch,
\* or dropped with the batch of a job that failed, and never both.
THEOREM Refinement == Spec => ImplementsUcdbMerge
  <1>1. Init => Abstract!Init
    BY DEF Init, Abstract!Init
  <1>2. IInv /\ DoneIsMerged /\ [Next]_vars =>
          DoneIsMerged' /\ [Abstract!Next]_(Abstract!vars)
    BY NextRefines
  <1> QED
    BY <1>1, <1>2, InitDoneIsMerged, Invariance, PTL
    DEF Spec, ImplementsUcdbMerge, Abstract!Spec
-----------------------------------------------------------------------------
(* The hosts of rsh mode.                                                    *)

\* How many instances have taken a host, and those that have given one back.
Taking == Cardinality(DOMAIN NextHost)
Completed == {g \in Instances : instance[g] \in {"toMerge", "merge", "done", "failed"}}

\* The hosts are taken in the order of HOSTNAMES, and those that have not been
\* taken come first in the list, before the ones given back...
HostsWaiting ==
  \A j \in 1..(RSHJOBS - Taking) : availableHosts[j] = param.hostnames[Taking + j]
HostsTaken ==
  /\ DOMAIN NextHost \subseteq Instances
  /\ \A i \in DOMAIN NextHost : \E p \in 1..Taking : NextHost[i] = param.hostnames[p]
  /\ Distinct(param.hostnames) =>
       \A i, j \in DOMAIN NextHost : i # j => NextHost[i] # NextHost[j]
\* ... of which there is one when an action has completed.  None is missing.
HostsExist ==
  availableHosts \in Seq(Host) /\ \A i \in DOMAIN NextHost : NextHost[i] \in Host
EnoughHosts ==
  /\ Len(availableHosts) >= RSHJOBS - Taking
  /\ Completed # {} => Len(availableHosts) > RSHJOBS - Taking

HostsInOrder ==
  param.mode = "rsh" =>
    /\ stage \in {"repeat", "levelOne", "done"} => RSHJOBS # 0
    /\ HostsExist
    /\ stage # "done" => HostsWaiting /\ HostsTaken /\ EnoughHosts

\* There are no more instances than hosts, and an instance that has no host
\* finds one that nobody has taken.
LEMMA HostsSuffice ==
  ASSUME TypeOK, param.mode = "rsh", stage = "levelOne", HostsTaken
  PROVE  /\ RSHJOBS \in Nat /\ Taking \in 0..RSHJOBS
         /\ \A g \in Instances \ DOMAIN NextHost :
              /\ Taking < RSHJOBS
              /\ Cardinality(DOMAIN NextHost \cup {g}) = Taking + 1
  <1>1. RSHJOBS \in Nat /\ param.hostnames \in Seq(Host)
    BY ParamsAssumption DEF TypeOK, Param, RSHJOBS
  <1>2. GROUPS \in Nat /\ DATABASES \in Nat
    BY ListType
  <1>3. GROUPS <= RSHJOBS
    BY <1>1, <1>2, GroupsIsMinimum DEF GROUPS
  <1>4. Instances = 1..GROUPS
    BY DEF TypeOK, Instances
  <1>5. IsFiniteSet(Instances) /\ Cardinality(Instances) = GROUPS
    BY <1>2, <1>4, FS_Interval
  <1>6. /\ IsFiniteSet(DOMAIN NextHost)
        /\ Taking \in Nat /\ Taking <= GROUPS
    BY <1>2, <1>5, FS_Subset, FS_CardinalityType DEF HostsTaken, Taking
  <1>7. ASSUME NEW g \in Instances \ DOMAIN NextHost
        PROVE  /\ Taking < RSHJOBS
               /\ Cardinality(DOMAIN NextHost \cup {g}) = Taking + 1
    <2>1. Cardinality(DOMAIN NextHost \cup {g}) = Taking + 1
      BY <1>6, <1>7, FS_AddElement DEF Taking
    <2>2. DOMAIN NextHost \cup {g} \subseteq Instances
      BY DEF HostsTaken
    <2>3. Cardinality(DOMAIN NextHost \cup {g}) <= GROUPS
      BY <1>5, <2>2, FS_Subset
    <2> QED
      BY <1>1, <1>2, <1>3, <1>6, <2>1, <2>3
  <1> QED
    BY <1>1, <1>2, <1>3, <1>6, <1>7

\* An action that starts has its host from before, or takes the next one.
LEMMA HostIsTaken ==
  ASSUME TypeOK, param.mode = "rsh", stage = "levelOne", HostsTaken, HostsWaiting,
         EnoughHosts, HostsExist, NEW g \in Instances, GetNextHost(g),
         UNCHANGED param, Instances' = Instances, Completed' = Completed
  PROVE  HostsTaken' /\ HostsWaiting' /\ EnoughHosts' /\ HostsExist'
  <1>1. /\ RSHJOBS \in Nat /\ RSHJOBS' = RSHJOBS /\ RSHJOBS = Len(param.hostnames)
        /\ param.hostnames \in Seq(Host)
        /\ availableHosts \in Seq(Host \cup {NoHost}) /\ Taking \in 0..RSHJOBS
    BY HostsSuffice, ParamsAssumption DEF TypeOK, Param, RSHJOBS
  <1>2. CASE g \in DOMAIN NextHost
    <2>1. UNCHANGED hostVars
      BY <1>2 DEF GetNextHost
    <2>2. Taking' = Taking
      BY <2>1 DEF hostVars, Taking
    <2> QED
      BY <1>1, <2>1, <2>2 DEF hostVars, HostsTaken, HostsWaiting, EnoughHosts, HostsExist
  <1>3. CASE g \notin DOMAIN NextHost
    <2>1. /\ Taking < RSHJOBS
          /\ Cardinality(DOMAIN NextHost \cup {g}) = Taking + 1
      BY <1>3, HostsSuffice
    <2>2. /\ availableHosts # <<>> /\ Len(availableHosts) \in Nat
          /\ Head(availableHosts) = param.hostnames[Taking + 1]
      BY <1>1, <2>1 DEF HostsWaiting, EnoughHosts
    <2>3. /\ NextHost' = Put(NextHost, g, param.hostnames[Taking + 1])
          /\ availableHosts' = Tail(availableHosts)
      BY <1>3, <2>2 DEF GetNextHost
    <2>4. /\ DOMAIN NextHost' = DOMAIN NextHost \cup {g}
          /\ NextHost'[g] = param.hostnames[Taking + 1]
          /\ \A i \in DOMAIN NextHost : NextHost'[i] = NextHost[i]
      BY <1>3, <2>3 DEF Put
    <2>5. Taking' = Taking + 1
      BY <2>1, <2>4 DEF Taking
    <2>6. /\ Len(availableHosts') = Len(availableHosts) - 1
          /\ \A j \in 1..Len(availableHosts') : availableHosts'[j] = availableHosts[j + 1]
      BY <1>1, <2>2, <2>3
    <2>7. HostsTaken'
      <3>1. \A i \in DOMAIN NextHost' : \E p \in 1..Taking' : NextHost'[i] = param'.hostnames[p]
        <4>1. ASSUME NEW i \in DOMAIN NextHost
              PROVE  \E p \in 1..Taking' : NextHost'[i] = param'.hostnames[p]
          <5>1. PICK p \in 1..Taking : NextHost[i] = param.hostnames[p]
            BY DEF HostsTaken
          <5>2. p \in 1..Taking'
            BY <1>1, <2>5
          <5> QED
            BY <2>4, <5>1, <5>2
        <4>2. Taking + 1 \in 1..Taking'
          BY <1>1, <2>5
        <4> QED
          BY <2>4, <4>1, <4>2
      <3>2. ASSUME Distinct(param.hostnames), NEW i \in DOMAIN NextHost
            PROVE  NextHost[i] # param.hostnames[Taking + 1]
        <4>1. PICK p \in 1..Taking : NextHost[i] = param.hostnames[p]
          BY DEF HostsTaken
        <4>2. p \in 1..RSHJOBS /\ Taking + 1 \in 1..RSHJOBS /\ p # Taking + 1
          BY <1>1, <2>1
        <4> QED
          BY <1>1, <3>2, <4>1, <4>2 DEF Distinct
      <3> QED
        BY <2>4, <3>1, <3>2 DEF HostsTaken
    <2>8. HostsWaiting'
      <3> SUFFICES ASSUME NEW j \in 1..(RSHJOBS - Taking')
                   PROVE  availableHosts'[j] = param.hostnames[Taking' + j]
        BY <1>1 DEF HostsWaiting
      <3>1. j + 1 \in 1..(RSHJOBS - Taking) /\ j \in 1..Len(availableHosts')
            /\ Taking' + j = Taking + (j + 1)
        BY <1>1, <2>2, <2>5, <2>6 DEF EnoughHosts
      <3> QED
        BY <2>6, <3>1 DEF HostsWaiting
    <2>9. EnoughHosts'
      BY <1>1, <2>2, <2>5, <2>6 DEF EnoughHosts
    <2>10. HostsExist'
      <3>1. param.hostnames[Taking + 1] \in Host
        BY <1>1, <2>1
      <3>2. Tail(availableHosts) \in Seq(Host)
        BY <2>2 DEF HostsExist
      <3> QED
        BY <2>3, <2>4, <3>1, <3>2 DEF HostsExist
    <2> QED
      BY <2>7, <2>8, <2>9, <2>10
  <1> QED
    BY <1>2, <1>3

LEMMA InitHosts == Init => HostsInOrder
  <1> SUFFICES ASSUME Init PROVE HostsInOrder
    OBVIOUS
  <1>1. DOMAIN NextHost = {} /\ Taking = 0
    BY FS_EmptySet DEF Init, Taking
  <1>2. Completed = {} /\ availableHosts = param.hostnames /\ stage = "filelist"
    BY DEF Init, Completed, Instances
  <1>3. param.hostnames \in Seq(Host)
    BY ParamsAssumption DEF Init, Param
  <1> QED
    BY <1>1, <1>2, <1>3 DEF HostsInOrder, HostsWaiting, HostsTaken,
    EnoughHosts, HostsExist, RSHJOBS

\* Before levelOne no host is taken or given back.
LEMMA PrepareHosts ==
  ASSUME IInv, IInv', HostsInOrder, Prepare
  PROVE  HostsInOrder'
  <1> SUFFICES ASSUME param.mode = "rsh" PROVE HostsInOrder'
    BY PrepareStep DEF HostsInOrder
  <1>1. /\ UNCHANGED <<param, availableHosts, NextHost>>
        /\ stage \notin {"levelOne", "done"} /\ stage' # "done"
    BY PrepareStep
  <1>2. HostsWaiting /\ HostsTaken /\ EnoughHosts
    BY <1>1 DEF HostsInOrder
  <1>3. RSHJOBS' = RSHJOBS /\ Taking' = Taking
    BY <1>1 DEF RSHJOBS, Taking
  <1>4. Instances = {} /\ DOMAIN NextHost = {}
    <2>1. Instances = {}
      BY <1>1 DEF IInv, TypeOK, Instances
    <2> QED
      BY <1>2, <2>1 DEF HostsTaken
  <1>5. Completed' = {}
    <2>1. CASE RepeatLevelOne
      BY <2>1 DEF RepeatLevelOne, Completed, Instances
    <2>2. CASE stage' # "levelOne"
      BY <1>1, <2>2 DEF IInv, TypeOK, Completed, Instances
    <2> QED
      BY <2>1, <2>2, PrepareStep
  <1>6. stage' \in {"repeat", "levelOne", "done"} => RSHJOBS # 0
    BY <1>1 DEF HostsInOrder, Prepare, GenerateFileList, OptimizeAll, OptimizeNoFile,
       OptimizeLine, OptimizeEnd, ModePreScript, RshPreScript, RepeatLevelOne
  <1> QED
    BY <1>1, <1>2, <1>3, <1>4, <1>5, <1>6
    DEF HostsInOrder, HostsWaiting, HostsTaken, EnoughHosts, HostsExist

\* The steps of an instance; the host of an action that ends goes to the end
\* of the list.
LEMMA LevelOneHosts ==
  ASSUME IInv, HostsInOrder, NEW g \in Instances, LevelOne(g)
  PROVE  HostsInOrder'
  <1>1. UNCHANGED <<param, stage>> /\ stage = "levelOne"
    BY DEF LevelOne, ExpandScript, LaunchExec, CompleteExec, LaunchMerge, CompleteMerge
  <1>2. SUFFICES ASSUME param.mode = "rsh" PROVE HostsInOrder'
    BY <1>1 DEF HostsInOrder
  <1>3. /\ HostsWaiting /\ HostsTaken /\ EnoughHosts /\ HostsExist /\ TypeOK
        /\ Instances' = Instances /\ RSHJOBS # 0 /\ RSHJOBS' = RSHJOBS
        /\ \A h \in Instances : h # g => instance'[h] = instance[h]
    BY <1>1, <1>2 DEF HostsInOrder, IInv, TypeOK, Instances, RSHJOBS, LevelOne,
       ExpandScript, LaunchExec, CompleteExec, LaunchMerge, CompleteMerge
  <1>4. /\ RSHJOBS \in Nat /\ RSHJOBS = Len(param.hostnames)
        /\ param.hostnames \in Seq(Host)
        /\ availableHosts \in Seq(Host \cup {NoHost}) /\ Taking \in 0..RSHJOBS
    BY <1>1, <1>2, <1>3, HostsSuffice, ParamsAssumption DEF TypeOK, Param, RSHJOBS
  <1>5. CASE ExpandScript(g)
    <2>1. UNCHANGED hostVars /\ Completed' = Completed
      BY <1>3, <1>5 DEF ExpandScript, Completed, IInv, TypeOK, Instances
    <2>2. Taking' = Taking
      BY <2>1 DEF hostVars, Taking
    <2> QED
      BY <1>1, <1>3, <2>1, <2>2
      DEF hostVars, HostsInOrder, HostsTaken, HostsWaiting, EnoughHosts, HostsExist
  <1>6. CASE LaunchExec(g) \/ LaunchMerge(g)
    <2>1. GetNextHost(g) /\ Completed' = Completed
      BY <1>3, <1>6 DEF LaunchExec, LaunchMerge, Completed, IInv, TypeOK, Instances
    <2>2. HostsTaken' /\ HostsWaiting' /\ EnoughHosts' /\ HostsExist'
      BY <1>1, <1>2, <1>3, <2>1, HostIsTaken
    <2> QED
      BY <1>1, <1>3, <2>2 DEF HostsInOrder
  <1>7. CASE CompleteExec(g) \/ CompleteMerge(g)
    <2>1. /\ ActionCompleted(g) /\ instance[g] \in {"exec", "merge"}
      BY <1>7 DEF CompleteExec, CompleteMerge
    <2>2. /\ UNCHANGED NextHost /\ availableHosts' = Append(availableHosts, NextHost[g])
          /\ Taking' = Taking
      BY <1>2, <2>1 DEF ActionCompleted, Taking
    <2>3. /\ Len(availableHosts') = Len(availableHosts) + 1
          /\ \A j \in 1..Len(availableHosts) : availableHosts'[j] = availableHosts[j]
      BY <1>4, <2>2
    <2>4. HostsWaiting'
      <3>1. Len(availableHosts) \in Nat /\ Len(availableHosts) >= RSHJOBS - Taking
        BY <1>3, <1>4 DEF EnoughHosts
      <3>2. \A j \in 1..(RSHJOBS - Taking) : j \in 1..Len(availableHosts)
        BY <1>4, <3>1
      <3> QED
        BY <1>1, <1>3, <1>4, <2>2, <2>3, <3>2 DEF HostsWaiting
    <2>5. EnoughHosts'
      <3>1. Len(availableHosts) \in Nat /\ Len(availableHosts) >= RSHJOBS - Taking
        BY <1>3, <1>4 DEF EnoughHosts
      <3> QED
        BY <1>3, <1>4, <2>2, <2>3, <3>1 DEF EnoughHosts
    <2>6. HostsTaken'
      BY <1>1, <1>3, <2>2 DEF HostsTaken
    <2>7. HostsExist'
      <3>1. g \in DOMAIN NextHost
        BY <1>2, <2>1 DEF IInv, LaunchedHasHost
      <3>2. Append(availableHosts, NextHost[g]) \in Seq(Host)
        BY <1>3, <3>1 DEF HostsExist
      <3> QED
        BY <1>3, <2>2, <3>2 DEF HostsExist
    <2> QED
      BY <1>1, <1>3, <2>2, <2>4, <2>5, <2>6, <2>7 DEF HostsInOrder
  <1> QED
    BY <1>5, <1>6, <1>7 DEF LevelOne

\* The postScript finds a host: either no instance needed one, or one has been
\* given back.
LEMMA PostScriptHosts ==
  ASSUME IInv, HostsInOrder, PostScript
  PROVE  HostsInOrder'
  <1>1. /\ stage = "levelOne" /\ stage' = "done" /\ UNCHANGED param
        /\ GetNextHost(GroupScript)
        /\ \A g \in Instances : instance[g] \in {"done", "failed"}
    BY DEF PostScript
  <1>2. SUFFICES ASSUME param.mode = "rsh" PROVE HostsInOrder'
    BY <1>1 DEF HostsInOrder
  <1>3. /\ HostsWaiting /\ HostsTaken /\ EnoughHosts /\ HostsExist /\ TypeOK
        /\ RSHJOBS # 0 /\ RSHJOBS' = RSHJOBS
    BY <1>1, <1>2 DEF HostsInOrder, IInv, RSHJOBS
  <1>4. /\ RSHJOBS \in Nat /\ Taking \in 0..RSHJOBS
        /\ availableHosts \in Seq(Host \cup {NoHost})
    BY <1>1, <1>2, <1>3, HostsSuffice DEF TypeOK
  <1>5. availableHosts # <<>>
    <2>1. CASE Instances = {}
      <3>1. Taking = 0
        BY <1>3, <2>1, FS_EmptySet DEF HostsTaken, Taking
      <3> QED
        BY <1>3, <1>4, <3>1 DEF EnoughHosts
    <2>2. CASE Instances # {}
      <3>1. Completed # {}
        BY <1>1, <2>2 DEF Completed
      <3> QED
        BY <1>3, <1>4, <3>1 DEF EnoughHosts
    <2> QED
      BY <2>1, <2>2
  <1>6. CASE GroupScript \in DOMAIN NextHost
    BY <1>1, <1>3, <1>6 DEF GetNextHost, hostVars, HostsInOrder, HostsExist
  <1>7. CASE GroupScript \notin DOMAIN NextHost
    <2>1. /\ NextHost' = Put(NextHost, GroupScript, Head(availableHosts))
          /\ availableHosts' = Tail(availableHosts)
      BY <1>1, <1>2, <1>5, <1>7 DEF GetNextHost
    <2>2. Head(availableHosts) \in Host /\ Tail(availableHosts) \in Seq(Host)
      BY <1>3, <1>5 DEF HostsExist
    <2>3. HostsExist'
      BY <1>3, <2>1, <2>2 DEF HostsExist, Put
    <2> QED
      BY <1>1, <1>3, <2>3 DEF HostsInOrder
  <1> QED
    BY <1>6, <1>7

LEMMA NextHosts ==
  ASSUME IInv, IInv', HostsInOrder, [Next]_vars
  PROVE  HostsInOrder'
  <1>1. CASE UNCHANGED vars
    <2>1. UNCHANGED <<param, stage, instance, availableHosts, NextHost>>
      BY <1>1 DEF vars, hostVars
    <2>2. UNCHANGED <<Taking, Completed, RSHJOBS, Instances>>
      BY <2>1 DEF Taking, Completed, RSHJOBS, Instances
    <2> QED
      BY <2>1, <2>2 DEF HostsInOrder, HostsWaiting, HostsTaken, EnoughHosts, HostsExist
  <1> QED
    BY <1>1, PrepareHosts, LevelOneHosts, PostScriptHosts DEF Next, Terminated

\* On distinct hosts no two instances ever run on the same one, though every
\* instance gives its host back twice, and no action is left without a host:
\* there are at most as many instances as hosts, and the hosts given back wait
\* behind those nobody has taken.
THEOREM HostsAreExclusive == Spec => []HostsExclusive
  <1>1. IInv /\ HostsInOrder => HostsExclusive
    <2> SUFFICES ASSUME IInv, HostsInOrder, param.mode = "rsh", Distinct(param.hostnames)
                 PROVE  /\ \A g, h \in In("exec") \cup In("merge") :
                             g # h => NextHost[g] # NextHost[h]
                        /\ \A i \in DOMAIN NextHost : NextHost[i] # NoHost
      BY DEF HostsExclusive
    <2>1. \A i \in DOMAIN NextHost : NextHost[i] # NoHost
      BY HostAssumption DEF HostsInOrder, HostsExist
    <2>2. ASSUME NEW g \in In("exec") \cup In("merge"), NEW h \in In("exec") \cup In("merge"),
                 g # h
          PROVE  NextHost[g] # NextHost[h]
      <3>1. stage # "done"
        BY DEF IInv, EndedWhenDone, In
      <3>2. g \in DOMAIN NextHost /\ h \in DOMAIN NextHost
        BY DEF In, IInv, LaunchedHasHost
      <3> QED
        BY <2>2, <3>1, <3>2 DEF HostsInOrder, HostsTaken
    <2> QED
      BY <2>1, <2>2
  <1>2. IInv /\ IInv' /\ HostsInOrder /\ [Next]_vars => HostsInOrder'
    BY NextHosts
  <1> QED
    BY <1>1, <1>2, InitHosts, Invariance, PTL DEF Spec
-----------------------------------------------------------------------------
(* Whether the shares are even, and together enough for the whole list.      *)

\* The UCDBs after line a are those up to p and those after p.
LEMMA TakenSplit ==
  ASSUME NEW list, NEW a \in Nat, NEW p \in Nat, NEW n \in Nat, a <= p, p <= n
  PROVE  Cardinality(Taken(list, a, n))
           = Cardinality(Taken(list, a, p)) + Cardinality(Taken(list, p, n))
  <1> DEFINE A == Taken(list, a, p)
             B == Taken(list, p, n)
  <1>1. A \cup B = Taken(list, a, n) /\ A \cap B = {}
    BY DEF Taken
  <1>2. IsFiniteSet(A) /\ IsFiniteSet(B) /\ Cardinality(A) \in Nat /\ Cardinality(B) \in Nat
    BY TakenFinite
  <1>3. Cardinality(A \cup B) = Cardinality(A) + Cardinality(B) - Cardinality(A \cap B)
    BY <1>2, FS_Union
  <1>4. Cardinality(A \cap B) = 0
    BY <1>1, FS_EmptySet
  <1> HIDE DEF A, B
  <1>5. Cardinality(A \cup B) = Cardinality(A) + Cardinality(B)
    BY <1>2, <1>3, <1>4
  <1> QED
    BY <1>1, <1>5 DEF A, B

\* n shares of s are one and n - 1 more.
LEMMA OneShareMore ==
  ASSUME NEW n \in Nat \ {0}, NEW s \in Nat
  PROVE  /\ n * s = s + (n - 1) * s
         /\ (n - 1) * s \in Nat
  OBVIOUS

\* If what is left of the list fits n shares of s and r remainders, what is
\* left after one share fits n - 1 of them and one remainder less.
LEMMA RestAfterShare ==
  ASSUME NEW list \in Seq(Line), NEW a \in 0..Len(list), NEW n \in Nat \ {0},
         NEW s \in Nat, NEW r \in 0..n,
         Cardinality(Taken(list, a, Len(list))) <= n * s + r
  PROVE  LET p == StopAt(list, a, s + IF r # 0 THEN 1 ELSE 0)
         IN  /\ NextRemainder(r) \in 0..(n - 1)
             /\ Cardinality(Taken(list, p, Len(list))) <= (n - 1) * s + NextRemainder(r)
  <1> DEFINE c == s + IF r # 0 THEN 1 ELSE 0
             p == StopAt(list, a, c)
             Got == Cardinality(Taken(list, a, p))
             Left == Cardinality(Taken(list, p, Len(list)))
  <1>1. c \in Nat /\ n * s = s + (n - 1) * s /\ (n - 1) * s \in Nat
    BY OneShareMore
  <1>2. p \in a..Len(list) /\ (Got >= c \/ p = Len(list))
    BY <1>1, StopAtProperties
  <1>3. Cardinality(Taken(list, a, Len(list))) = Got + Left /\ Got \in Nat /\ Left \in Nat
    BY <1>2, TakenSplit, TakenFinite
  <1>4. NextRemainder(r) \in 0..(n - 1)
    BY DEF NextRemainder
  <1>5. CASE p = Len(list)
    <2>1. Taken(list, p, Len(list)) = {}
      BY <1>5 DEF Taken
    <2>2. Left = 0
      BY <2>1, FS_EmptySet
    <2> HIDE DEF Left
    <2> QED
      BY <1>1, <1>4, <2>2 DEF Left
  <1>6. CASE Got >= c
    <2>1. c = s + r - NextRemainder(r)
      BY DEF NextRemainder
    <2> DEFINE m == (n - 1) * s
               N == n * s
    <2>2. N = s + m /\ m \in Nat /\ Got + Left <= N + r
      BY <1>1, <1>3
    <2> HIDE DEF Got, Left, c, p, m, N
    <2>3. Left <= m + NextRemainder(r)
      BY <1>3, <1>4, <1>6, <2>1, <2>2
    <2> QED
      BY <1>4, <2>3 DEF Left, m, c, p
  <1> QED
    BY <1>2, <1>5, <1>6

\* In a list with no blank line a share takes as many lines as UCDBs.
LEMMA ShareOfWellFormed ==
  ASSUME NEW list \in Seq(Line), WellFormed(list), NEW a \in Nat, NEW c \in Nat,
         a + c < Len(list)
  PROVE  /\ StopAt(list, a, c) = a + c
         /\ Cardinality(Taken(list, a, a + c)) = c
  <1>1. Len(list) \in Nat /\ a \in 0..Len(list)
    OBVIOUS
  <1>2. ASSUME NEW q \in a..(Len(list) - 1)
        PROVE  Cardinality(Taken(list, a, q)) = q - a
    <2>1. Taken(list, a, q) = (a + 1)..q
      BY <1>1 DEF Taken, WellFormed
    <2>2. q \in Int /\ a + 1 \in Int /\ a <= q
      BY <1>1
    <2>3. Cardinality((a + 1)..q) = IF a + 1 > q THEN 0 ELSE q - (a + 1) + 1
      BY <2>2, FS_Interval
    <2>4. Cardinality((a + 1)..q) = q - a
      BY <2>2, <2>3
    <2> QED
      BY <2>1, <2>4
  <1> DEFINE p == StopAt(list, a, c)
  <1>3. /\ p \in a..Len(list)
        /\ Cardinality(Taken(list, a, p)) >= c \/ p = Len(list)
        /\ \A q \in a..(p - 1) : Cardinality(Taken(list, a, q)) < c
    BY <1>1, StopAtProperties
  <1>4. Cardinality(Taken(list, a, a + c)) = c
    BY <1>1, <1>2
  <1> HIDE DEF p
  <1>5. ~(a + c < p)
    BY <1>1, <1>3, <1>4
  <1>6. ~(p < a + c)
    <2> SUFFICES ASSUME p < a + c PROVE FALSE
      OBVIOUS
    <2>1. p \in a..(Len(list) - 1) /\ p # Len(list)
      BY <1>1, <1>3
    <2>2. Cardinality(Taken(list, a, p)) = p - a
      BY <1>2, <2>1
    <2> QED
      BY <1>1, <1>3, <2>1, <2>2
  <1> QED
    BY <1>1, <1>3, <1>4, <1>5, <1>6 DEF p

\* The size of a share, the number of shares handed out, and the number of
\* UCDBs that the others would take.
Share == DATABASES \div GROUPS
Dealt == Cardinality(DOMAIN UcdbFiles)
ToDeal == (GROUPS - Dealt) * Share + CurrentRemainder
Rest == Cardinality(Taken(OPTFILELIST, ListPosition, Len(OPTFILELIST)))

\* The shares to come hold what is left of the list; if it has no blank line,
\* they hold exactly that, and those handed out are of the size or one more.
RestIsDealt ==
  GROUPS # 0 /\ stage \in {"levelOne", "done"} =>
    /\ fp = NotOpen <=> DOMAIN UcdbFiles = {}
    /\ CurrentRemainder \in 0..(GROUPS - Dealt)
    /\ OPTFILELIST[Len(OPTFILELIST)] = Blank => Rest <= ToDeal
    /\ WellFormed(OPTFILELIST) =>
         /\ ListPosition + ToDeal = DATABASES
         /\ \A g \in DOMAIN UcdbFiles :
              Cardinality(UcdbFiles[g]) \in {Share, Share + 1}

\* As long as an instance has no share, there are fewer shares than instances.
LEMMA DealtBound ==
  ASSUME TypeOK, stage \in {"levelOne", "done"}
  PROVE  /\ GROUPS \in Nat /\ IsFiniteSet(DOMAIN UcdbFiles) /\ Dealt \in 0..GROUPS
         /\ \A g \in Instances \ DOMAIN UcdbFiles :
              /\ Dealt < GROUPS
              /\ Cardinality(DOMAIN UcdbFiles \cup {g}) = Dealt + 1
  <1>1. GROUPS \in Nat
    BY ListType
  <1>2. IsFiniteSet(Instances) /\ Cardinality(Instances) = GROUPS
    BY <1>1, FS_Interval DEF TypeOK, Instances
  <1>3. IsFiniteSet(DOMAIN UcdbFiles) /\ Dealt \in Nat /\ Dealt <= GROUPS
    BY <1>2, FS_Subset, FS_CardinalityType DEF TypeOK, Dealt
  <1>4. ASSUME NEW g \in Instances \ DOMAIN UcdbFiles
        PROVE  /\ Dealt < GROUPS
               /\ Cardinality(DOMAIN UcdbFiles \cup {g}) = Dealt + 1
    <2>1. Cardinality(DOMAIN UcdbFiles \cup {g}) = Dealt + 1
      BY <1>3, <1>4, FS_AddElement DEF Dealt
    <2>2. DOMAIN UcdbFiles \cup {g} \subseteq Instances
      BY DEF TypeOK
    <2>3. Cardinality(DOMAIN UcdbFiles \cup {g}) <= GROUPS
      BY <1>2, <2>2, FS_Subset
    <2> QED
      BY <1>1, <1>3, <2>1, <2>3
  <1> QED
    BY <1>1, <1>3, <1>4

\* When levelOne starts, the shares hold the whole list.
LEMMA RepeatRest ==
  ASSUME IInv, RepeatLevelOne
  PROVE  RestIsDealt'
  <1>1. UNCHANGED <<OPTFILELIST, DATABASES, GROUPS>>
    BY ListUnchanged DEF RepeatLevelOne, listVars
  <1>2. DOMAIN UcdbFiles' = {} /\ fp' = NotOpen
    BY PrepareStep DEF Prepare
  <1>3. OPTFILELIST \in Seq(Line) /\ DATABASES \in Nat /\ GROUPS \in Nat
    BY ListType DEF IInv
  <1>4. /\ ListPosition' = 0 /\ CurrentRemainder' = DATABASES % GROUPS
        /\ Dealt' = 0 /\ Share' = Share
    BY <1>1, <1>2, FS_EmptySet DEF ListPosition, CurrentRemainder, Dealt, Share
  <1> SUFFICES ASSUME GROUPS # 0 PROVE RestIsDealt'
    BY <1>1 DEF RestIsDealt
  <1>5. /\ Share \in Nat /\ DATABASES % GROUPS \in 0..(GROUPS - 1)
        /\ DATABASES = GROUPS * Share + (DATABASES % GROUPS)
    BY <1>3, DivZero DEF Share
  <1>6. ToDeal' = DATABASES
    BY <1>1, <1>3, <1>4, <1>5 DEF ToDeal
  <1>7. DATABASES = Len(OPTFILELIST) - 1 /\ Len(OPTFILELIST) \in Nat \ {0}
    <2>1. DATABASES # 0
      BY <1>3, GroupsIsMinimum, ParamsAssumption DEF GROUPS, IInv, TypeOK, Param, RSHJOBS
    <2> QED
      BY <1>3, <2>1 DEF DATABASES, CountFiles, Absent
  <1>8. ASSUME OPTFILELIST[Len(OPTFILELIST)] = Blank PROVE Rest' <= DATABASES
    <2>1. Taken(OPTFILELIST, 0, Len(OPTFILELIST)) \in SUBSET (1..DATABASES)
      BY <1>7, <1>8 DEF Taken
    <2>2. IsFiniteSet(1..DATABASES) /\ Cardinality(1..DATABASES) = DATABASES
      BY <1>3, FS_Interval
    <2>3. Cardinality(Taken(OPTFILELIST, 0, Len(OPTFILELIST))) <= DATABASES
      BY <2>1, <2>2, FS_Subset
    <2> QED
      BY <1>1, <1>4, <2>3 DEF Rest
  <1> QED
    BY <1>1, <1>2, <1>3, <1>4, <1>5, <1>6, <1>8 DEF RestIsDealt

\* An expansion that hands out a share.
LEMMA ExpandScriptRest ==
  ASSUME IInv, RestIsDealt, NEW g \in Instances, ExpandScript(g)
  PROVE  RestIsDealt'
  <1>1. /\ stage = "levelOne" /\ UNCHANGED <<stage, OPTFILELIST, DATABASES, GROUPS>>
        /\ GetUcdbFiles(g)
    BY ListUnchanged DEF ExpandScript, listVars
  <1>2. /\ OPTFILELIST \in Seq(Line) /\ DATABASES \in Nat /\ GROUPS \in Nat \ {0}
        /\ ListPosition \in 0..Len(OPTFILELIST) /\ fp' \in ListPosition..Len(OPTFILELIST)
    BY <1>1, ListType, GetUcdbFilesStep DEF IInv, TypeOK, Instances
  <1>3. /\ fp' # NotOpen /\ ListPosition' = fp' /\ CurrentRemainder' = Remainder'
        /\ Share' = Share
    BY <1>1, <1>2 DEF NotOpen, ListPosition, CurrentRemainder, Share
  <1>4. Share \in Nat
    BY <1>2, DivZero DEF Share
  <1>5. CASE g \in DOMAIN UcdbFiles
    <2>1. fp' = ListPosition /\ Remainder' = CurrentRemainder /\ UNCHANGED UcdbFiles
      BY <1>1, <1>5 DEF GetUcdbFiles, HasShare
    <2>2. ToDeal' = ToDeal /\ Rest' = Rest /\ Dealt' = Dealt
      BY <1>1, <1>3, <2>1 DEF ToDeal, Rest, Dealt
    <2> QED
      BY <1>1, <1>2, <1>3, <1>5, <2>1, <2>2 DEF RestIsDealt
  <1>6. CASE g \notin DOMAIN UcdbFiles
    <2> DEFINE r == CurrentRemainder
               c == Share + IF r # 0 THEN 1 ELSE 0
               n == GROUPS - Dealt
    <2>1. /\ fp' = StopAt(OPTFILELIST, ListPosition, c)
          /\ Remainder' = NextRemainder(r)
          /\ UcdbFiles' = Put(UcdbFiles, g, Taken(OPTFILELIST, ListPosition, fp'))
      BY <1>1, <1>6 DEF GetUcdbFiles, HasShare, ShareSize, Share
    <2>2. /\ DOMAIN UcdbFiles' = DOMAIN UcdbFiles \cup {g}
          /\ \A h \in DOMAIN UcdbFiles : UcdbFiles'[h] = UcdbFiles[h]
          /\ UcdbFiles'[g] = Taken(OPTFILELIST, ListPosition, fp')
      BY <1>6, <2>1 DEF Put
    <2>3. /\ Dealt \in 0..GROUPS /\ n \in Nat \ {0}
          /\ Dealt' = Dealt + 1
      <3>1. /\ Dealt \in 0..GROUPS /\ Dealt < GROUPS
            /\ Cardinality(DOMAIN UcdbFiles \cup {g}) = Dealt + 1
        BY <1>1, <1>6, DealtBound DEF IInv
      <3> QED
        BY <1>2, <2>2, <3>1 DEF Dealt
    <2>4. r \in 0..n /\ NextRemainder(r) \in 0..(n - 1)
      BY <1>1, <1>2, <2>3 DEF RestIsDealt, NextRemainder
    <2>5. GROUPS' - Dealt' = n - 1 /\ CurrentRemainder' = NextRemainder(r)
      BY <1>1, <1>2, <1>3, <2>1, <2>3
    <2>6. ToDeal = n * Share + r /\ ToDeal' = (n - 1) * Share + NextRemainder(r)
      BY <1>3, <2>5 DEF ToDeal
    <2> HIDE DEF r, c, n
    <2>7. ASSUME OPTFILELIST[Len(OPTFILELIST)] = Blank PROVE Rest' <= ToDeal'
      <3>1. Cardinality(Taken(OPTFILELIST, ListPosition, Len(OPTFILELIST))) <= n * Share + r
        BY <1>1, <1>2, <2>6, <2>7 DEF RestIsDealt, Rest
      <3>2. Cardinality(Taken(OPTFILELIST, fp', Len(OPTFILELIST)))
              <= (n - 1) * Share + NextRemainder(r)
        BY <1>2, <1>4, <2>1, <2>3, <2>4, <3>1, RestAfterShare DEF c
      <3> QED
        BY <1>1, <1>3, <2>6, <3>2 DEF Rest
    <2>8. ASSUME WellFormed(OPTFILELIST)
          PROVE  /\ ListPosition' + ToDeal' = DATABASES
                 /\ \A h \in DOMAIN UcdbFiles' :
                      Cardinality(UcdbFiles'[h]) \in {Share, Share + 1}
      <3> DEFINE m == (n - 1) * Share
                 N == n * Share
      <3>1. N = Share + m /\ m \in Nat
        BY <1>4, <2>3, OneShareMore
      <3>2. ListPosition + (N + r) = DATABASES
        BY <1>1, <1>2, <2>6, <2>8 DEF RestIsDealt
      <3> HIDE DEF m, N
      <3>3. c = Share + r - NextRemainder(r) /\ c \in {Share, Share + 1} /\ c \in Nat
        BY <1>4, <2>4 DEF c, NextRemainder
      <3>4. DATABASES < Len(OPTFILELIST)
        BY <1>2, <2>8 DEF DATABASES, CountFiles, Absent, WellFormed
      <3>5. ListPosition + c <= DATABASES
        BY <1>2, <1>4, <2>4, <3>1, <3>2, <3>3
      <3>6. /\ fp' = ListPosition + c
            /\ Cardinality(Taken(OPTFILELIST, ListPosition, ListPosition + c)) = c
        BY <1>2, <2>1, <2>8, <3>3, <3>4, <3>5, ShareOfWellFormed
      <3>7. ListPosition' + (m + NextRemainder(r)) = DATABASES
        <4>1. /\ NextRemainder(r) \in Nat /\ r \in Nat /\ m \in Nat /\ N \in Nat
              /\ ListPosition \in Nat
          BY <1>2, <1>4, <2>3, <2>4, <3>1
        <4> QED
          BY <1>3, <1>4, <3>1, <3>2, <3>3, <3>6, <4>1
      <3>8. \A h \in DOMAIN UcdbFiles' :
              Cardinality(UcdbFiles'[h]) \in {Share, Share + 1}
        BY <1>1, <1>2, <2>2, <2>8, <3>3, <3>6 DEF RestIsDealt
      <3> QED
        BY <2>6, <3>7, <3>8 DEF m
    <2> QED
      BY <1>1, <1>3, <2>2, <2>4, <2>5, <2>7, <2>8 DEF RestIsDealt
  <1> QED
    BY <1>5, <1>6

LEMMA NextRest ==
  ASSUME IInv, RestIsDealt, [Next]_vars
  PROVE  RestIsDealt'
  <1>1. CASE Prepare
    BY <1>1, PrepareStep, RepeatRest DEF RestIsDealt
  <1>2. ASSUME NEW g \in Instances, LevelOne(g), ~ExpandScript(g) PROVE RestIsDealt'
    <2>1. UNCHANGED <<param, stage, filelist, optimized, fp, Remainder, UcdbFiles>>
      BY <1>2 DEF LevelOne, LaunchExec, CompleteExec, LaunchMerge, CompleteMerge,
                  listVars, groupVars
    <2>2. UNCHANGED <<OPTFILELIST, DATABASES, GROUPS>>
      BY <2>1, ListUnchanged
    <2> QED
      BY <2>1, <2>2 DEF RestIsDealt, Rest, ToDeal, Dealt, Share, ListPosition, CurrentRemainder
  <1>3. CASE PostScript \/ UNCHANGED vars
    <2>1. /\ UNCHANGED <<param, filelist, optimized, fp, Remainder, UcdbFiles>>
          /\ stage' = stage \/ stage = "levelOne"
      BY <1>3 DEF PostScript, vars, listVars, groupVars
    <2>2. UNCHANGED <<OPTFILELIST, DATABASES, GROUPS>>
      BY <2>1, ListUnchanged
    <2> QED
      BY <2>1, <2>2 DEF RestIsDealt, Rest, ToDeal, Dealt, Share, ListPosition, CurrentRemainder
  <1> QED
    BY <1>1, <1>2, <1>3, ExpandScriptRest DEF Next, Terminated

LEMMA RestInvariant == Spec => []RestIsDealt
  <1>1. Init => RestIsDealt
    BY DEF Init, RestIsDealt
  <1> QED
    BY <1>1, NextRest, Invariance, PTL DEF Spec

\* Of a list with no blank line every instance gets a UCDB, and no instance two
\* more than another: a Remainder spent one at a time makes the shares even.
THEOREM SharesAreBalanced == Spec => []SharesBalanced
  <1>1. IInv /\ RestIsDealt => SharesBalanced
    <2> SUFFICES ASSUME IInv, RestIsDealt, WellFormed(OPTFILELIST),
                        NEW g \in DOMAIN UcdbFiles, NEW h \in DOMAIN UcdbFiles
                 PROVE  /\ UcdbFiles[g] # {}
                        /\ Cardinality(UcdbFiles[g]) <= Cardinality(UcdbFiles[h]) + 1
      BY DEF SharesBalanced
    <2>1. stage \in {"levelOne", "done"}
      BY NoShareYet
    <2>2. DATABASES \in Nat /\ GROUPS \in Nat \ {0}
      BY <2>1, ListType DEF IInv, TypeOK, Instances
    <2>3. /\ Cardinality(UcdbFiles[g]) \in {Share, Share + 1}
          /\ Cardinality(UcdbFiles[h]) \in {Share, Share + 1}
      BY <2>1, <2>2 DEF RestIsDealt
    <2>4. GROUPS <= DATABASES
      BY <2>2, GroupsIsMinimum, ParamsAssumption
      DEF GROUPS, IInv, TypeOK, Param, RSHJOBS
    <2>5. Share \in Nat \ {0}
      BY <2>2, <2>4, DivZero DEF Share
    <2>6. UcdbFiles[g] # {}
      BY <2>3, <2>5, FS_EmptySet
    <2> QED
      BY <2>3, <2>5, <2>6
  <1> QED
    BY <1>1, Invariance, RestInvariant, PTL

\* At the end every UCDB of a list that ends in a newline is in the final merge
\* or belongs to an instance that failed: what CountFiles counts, what
\* CalculateGroups divides it by and how the Remainder is spent agree.
THEOREM NothingIsForgotten == Spec => []NothingForgotten
  <1>1. IInv /\ DoneIsMerged /\ HostsInOrder /\ RestIsDealt => NothingForgotten
    <2> SUFFICES ASSUME IInv, DoneIsMerged, HostsInOrder, RestIsDealt,
                        stage = "done", OPTFILELIST[Len(OPTFILELIST)] = Blank
                 PROVE  merged \cup Failed = Named(OPTFILELIST)
      BY DEF NothingForgotten
    <2> DEFINE All == UNION {UcdbFiles[g] : g \in DOMAIN UcdbFiles}
    <2>1. DOMAIN UcdbFiles = Instances
      BY DEF IInv, TypeOK, EndedWhenDone, ExpandedHasShare
    <2>2. merged \cup Failed = All
      BY <2>1 DEF DoneIsMerged, SharesIn, Failed, IInv, EndedWhenDone
    <2>3. OPTFILELIST \in Seq(Line) /\ DATABASES \in Nat /\ GROUPS \in Nat
      BY ListType DEF IInv
    <2>4. CASE GROUPS = 0
      <3>1. Instances = {}
        BY <2>4 DEF IInv, TypeOK, Instances
      <3>2. DATABASES = 0
        <4>1. /\ param.jobs \in Nat \ {0} /\ RSHJOBS \in Nat
              /\ param.mode = "rsh" => RSHJOBS # 0
          BY ParamsAssumption DEF IInv, TypeOK, Param, RSHJOBS, HostsInOrder
        <4> QED
          BY <2>3, <2>4, <4>1, GroupsIsMinimum DEF GROUPS
      <3>3. Named(OPTFILELIST) = {}
        BY <2>3, <3>2 DEF DATABASES, CountFiles, Absent, Named
      <3> QED
        BY <2>1, <2>2, <3>1, <3>3
    <2>5. CASE GROUPS # 0
      <3>1. Instances # {} /\ fp # NotOpen
        <4>1. 1 \in Instances
          BY <2>3, <2>5 DEF IInv, TypeOK, Instances
        <4> QED
          BY <2>1, <2>5, <4>1 DEF RestIsDealt
      <3>2. fp \in 0..Len(OPTFILELIST) /\ ListPosition = fp
        BY <3>1 DEF IInv, TypeOK, ListPosition
      <3>3. Dealt = GROUPS
        BY <2>1, <2>3, FS_Interval DEF IInv, TypeOK, Instances, Dealt
      <3>4. Share \in Nat
        BY <2>3, <2>5, DivZero DEF Share
      <3>5. Rest <= 0
        <4>1. CurrentRemainder = 0
          BY <2>3, <2>5, <3>3 DEF RestIsDealt
        <4>2. ToDeal = 0
          BY <2>3, <3>3, <3>4, <4>1 DEF ToDeal
        <4> QED
          BY <2>5, <4>2 DEF RestIsDealt
      <3>6. Taken(OPTFILELIST, fp, Len(OPTFILELIST)) = {}
        <4>1. Len(OPTFILELIST) \in Nat /\ fp \in Nat
          BY <2>3, <3>2
        <4> QED
          BY <3>2, <3>5, <4>1, TakenFinite, FS_EmptySet DEF Rest
      <3>7. \A i \in Named(OPTFILELIST) : i <= fp
        BY <2>3, <3>2, <3>6 DEF Named, Taken
      <3> QED
        BY <2>2, <3>1, <3>7 DEF IInv, SharesPartitionList
    <2> QED
      BY <2>4, <2>5
  <1>2. IInv /\ IInv' /\ DoneIsMerged /\ HostsInOrder /\ [Next]_vars
          => DoneIsMerged' /\ HostsInOrder'
    BY NextRefines, NextHosts
  <1> QED
    BY <1>1, <1>2, InitDoneIsMerged, InitHosts, Invariance, RestInvariant, PTL DEF Spec
-----------------------------------------------------------------------------
(* The filter.                                                               *)

\* The lines of the list up to n that have the requested status.
Requested(n) == {i \in 1..n : filelist[i] = param.teststatus}

\* What OptimizeFilelist has kept of the first n lines.
Filtered(n) ==
  (\A i \in 1..n : filelist[i] # "unset") =>
    /\ \A j \in 1..Len(optimized) : optimized[j] = param.teststatus
    /\ Len(optimized) = Cardinality(Requested(n))

FilteredSoFar ==
  param.teststatus # "all" =>
    /\ stage = "filelist" => read = 0 /\ optimized = <<>>
    /\ stage = "optimize" => read <= Len(filelist) /\ Filtered(read)
    /\ stage \notin {"filelist", "optimize", "error"} => Filtered(Len(filelist))

\* The first lines that have the status are finitely many; the next one is
\* added if it has it.
LEMMA RequestedNext ==
  ASSUME NEW n \in Nat
  PROVE  /\ Cardinality(Requested(0)) = 0
         /\ Cardinality(Requested(n)) \in Nat
         /\ Cardinality(Requested(n + 1))
              = Cardinality(Requested(n)) + IF filelist[n + 1] = param.teststatus THEN 1 ELSE 0
  <1>1. Requested(0) = {}
    BY DEF Requested
  <1>2. IsFiniteSet(1..n) /\ Requested(n) \in SUBSET (1..n) /\ n + 1 \notin Requested(n)
    BY FS_Interval DEF Requested
  <1>3. IsFiniteSet(Requested(n)) /\ Cardinality(Requested(n)) \in Nat
    BY <1>2, FS_Subset, FS_CardinalityType
  <1>4. Requested(n + 1) = IF filelist[n + 1] = param.teststatus
                           THEN Requested(n) \cup {n + 1} ELSE Requested(n)
    BY DEF Requested
  <1>5. Cardinality(Requested(n) \cup {n + 1}) = Cardinality(Requested(n)) + 1
    BY <1>2, <1>3, FS_AddElement
  <1> QED
    BY <1>1, <1>3, <1>4, <1>5, FS_EmptySet

LEMMA OptimizeLineFilters ==
  ASSUME IInv, FilteredSoFar, OptimizeLine
  PROVE  FilteredSoFar'
  <1> DEFINE line == filelist[read + 1]
  <1>1. /\ stage = "optimize" /\ param.teststatus # "all" /\ UNCHANGED <<param, filelist>>
        /\ read \in Nat /\ read < Len(filelist) /\ read' = read + 1
        /\ Len(filelist) \in Nat /\ line \in Line /\ optimized \in Seq(Line)
        /\ param.teststatus \in {"passed", "failed"}
    BY ParamsAssumption DEF OptimizeLine, IInv, TypeOK, Param
  <1>2. stage' \in {"optimize", "error"}
    BY <1>1 DEF OptimizeLine
  <1>3. SUFFICES ASSUME \A i \in 1..(read + 1) : filelist[i] # "unset", stage' # "error"
                 PROVE  /\ \A j \in 1..Len(optimized') : optimized'[j] = param.teststatus
                        /\ Len(optimized') = Cardinality(Requested(read + 1))
    BY <1>1, <1>2 DEF FilteredSoFar, Filtered, Requested
  <1>4. /\ \A j \in 1..Len(optimized) : optimized[j] = param.teststatus
        /\ Len(optimized) = Cardinality(Requested(read))
    BY <1>1, <1>3 DEF FilteredSoFar, Filtered
  <1>5. line \in {Blank, "passed", "failed"}
    BY <1>1, <1>3 DEF Line, Status
  <1>6. optimized' = IF line = param.teststatus THEN Append(optimized, line) ELSE optimized
    BY <1>1, <1>5 DEF OptimizeLine, ResultAt, Blank, Unset
  <1>7. /\ Cardinality(Requested(read)) \in Nat
        /\ Cardinality(Requested(read + 1))
             = Cardinality(Requested(read)) + IF line = param.teststatus THEN 1 ELSE 0
    BY <1>1, RequestedNext
  <1> HIDE DEF line
  <1>8. CASE line = param.teststatus
    <2>1. /\ Len(optimized') = Len(optimized) + 1 /\ Len(optimized) \in Nat
          /\ \A j \in 1..Len(optimized) : optimized'[j] = optimized[j]
          /\ optimized'[Len(optimized) + 1] = line
      BY <1>1, <1>6, <1>8
    <2> QED
      BY <1>4, <1>7, <1>8, <2>1
  <1>9. CASE line # param.teststatus
    BY <1>4, <1>6, <1>7, <1>9
  <1> QED
    BY <1>8, <1>9

LEMMA NextFilters ==
  ASSUME IInv, FilteredSoFar, [Next]_vars
  PROVE  FilteredSoFar'
  <1>1. CASE GenerateFileList
    <2>1. /\ stage = "filelist" /\ stage' = "optimize"
          /\ UNCHANGED <<param, optimized, read>> /\ Len(filelist') \in Nat
      BY <1>1, FoundListsAssumption DEF GenerateFileList, IInv, TypeOK
    <2>2. param.teststatus # "all" => Filtered(0)'
      <3>1. Requested(0)' = {}
        BY DEF Requested
      <3> QED
        BY <2>1, <3>1, FS_EmptySet DEF FilteredSoFar, Filtered
    <2>3. param.teststatus' # "all" => read' = 0
      BY <2>1 DEF FilteredSoFar
    <2>4. param.teststatus' # "all" => read' <= Len(filelist') /\ Filtered(read)'
      <3> SUFFICES ASSUME param.teststatus' # "all"
                   PROVE  read' <= Len(filelist') /\ Filtered(read)'
        OBVIOUS
      <3>1. Filtered(0)' /\ read' = 0
        BY <2>1, <2>2, <2>3
      <3> QED
        BY <2>1, <3>1 DEF Filtered, Requested
    <2> QED
      BY <2>1, <2>4 DEF FilteredSoFar
  <1>2. CASE OptimizeLine
    BY <1>2, OptimizeLineFilters
  <1>3. CASE UNCHANGED <<param, filelist, optimized, read>>
             /\ \/ stage' = stage
                \/ stage' = "error"
                \/ param.teststatus = "all"
                \/ stage = "optimize" /\ stage' = "mode" /\ read = Len(filelist)
                \/ stage \notin {"filelist", "optimize", "error"}
                   /\ stage' \notin {"filelist", "optimize"}
    BY <1>3 DEF FilteredSoFar, Filtered, Requested
  <1> QED
    BY <1>1, <1>2, <1>3
    DEF Next, Prepare, OptimizeAll, OptimizeNoFile, OptimizeEnd, ModePreScript,
        RshPreScript, RepeatLevelOne, LevelOne, ExpandScript, LaunchExec, CompleteExec,
        LaunchMerge, CompleteMerge, PostScript, Terminated, vars, listVars

\* When every UCDB has a TESTSTATUS, the filtered list is that of the UCDBs
\* whose status was requested, blank lines or not.
THEOREM FilterIsExact == Spec => []OptimizedIsFilter
  <1>1. Init => FilteredSoFar
    BY DEF Init, FilteredSoFar
  <1>2. IInv /\ FilteredSoFar => OptimizedIsFilter
    BY DEF FilteredSoFar, Filtered, Requested, OptimizedIsFilter
  <1> QED
    BY <1>1, <1>2, NextFilters, Invariance, PTL DEF Spec
=============================================================================
