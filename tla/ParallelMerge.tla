---------------------------- MODULE ParallelMerge ----------------------------
(***************************************************************************)
(* The "merge" runnable of templates/parallel-merge.rmdb: a list of UCDB   *)
(* files is generated or supplied, optionally filtered by test status, and *)
(* split over GROUPS instances of the task levelOne, which VRM runs in     *)
(* parallel, each merging its share into a UCDB of its own; VRM then       *)
(* merges that one into (%mergefile%) with the instance's mergeScript.  In *)
(* rsh mode every action runs on a host taken from HOSTNAMES.              *)
(*                                                                         *)
(* vrun evaluates the file's Tcl procedures one at a time; what interleaves*)
(* is the order in which instances are expanded, launched and completed.   *)
(***************************************************************************)
EXTENDS UcdbFilelist, Integers

CONSTANTS
  Params,     (* The parameter settings merge may be started with.           *)
  UserLists,  (* The files a user may supply as FILELIST (Absent if none).   *)
  FoundLists, (* The lists a search of UCDBDIR may yield.                    *)
  Host        (* Host names.                                                 *)

NoHost == ""

Param ==
  [mode : {"rsh", "lsf", "sge", "local"}, genfilelist : BOOLEAN,
   teststatus : {"all", "passed", "failed"}, jobs : Nat \ {0},
   hostnames : Seq(Host), gridslots : Nat \ {0}]

ASSUME ParamsAssumption == Params \subseteq Param
ASSUME UserListsAssumption == UserLists \subseteq Seq(Line)
ASSUME FoundListsAssumption ==
  FoundLists \subseteq Seq(Line) /\ \A l \in FoundLists : WellFormed(l)
ASSUME HostAssumption == NoHost \notin Host

VARIABLES
  param,          (* The parameters of runnable merge and of its members.    *)
  stage,          (* The member or script of merge that vrun is at.          *)
  filelist,       (* The file FILELISTLOCATION.                              *)
  optimized,      (* The UCDBs put in FILELISTLOCATION.optimized so far.     *)
  read, result,   (* OptimizeFilelist: lines read, its Tcl variable result.  *)
  instance,       (* The state of each instance of levelOne.                 *)
  fp, Remainder,  (* Lines read from the list, and the global Remainder.     *)
  UcdbFiles,      (* Global array of GetUcdbFiles: the lines of an instance. *)
  availableHosts, (* Global list of GetNextHost.                             *)
  NextHost,       (* Global array of GetNextHost.                            *)
  merged          (* Lines whose UCDB has been merged into (%mergefile%).    *)

listVars == <<filelist, optimized, read, result>>
groupVars == <<fp, Remainder, UcdbFiles>>
hostVars == <<availableHosts, NextHost>>
vars == <<param, stage, listVars, instance, groupVars, hostVars, merged>>

NotOpen == -1        \* fp before the first call of GetUcdbFiles
Unset == "none"      \* OptimizeFilelist's result before it is first set
GroupScript == 0     \* the instance of the postScript of the mode's group

-----------------------------------------------------------------------------
\* Parameters of type tcl, evaluated whenever they are expanded.

OPTFILELIST ==
  IF param.teststatus = "all" THEN filelist ELSE Append(optimized, Blank)

DATABASES == CountFiles(OPTFILELIST)

RSHJOBS == Len(param.hostnames)

GROUPS ==
  CalculateGroups(IF param.mode = "rsh" THEN RSHJOBS ELSE param.jobs, DATABASES)

\* (Bug variant: one slot too few.)
MaxRunningLessOne == GROUPS - 1

MaxRunning ==
  IF param.mode \in {"lsf", "sge"} THEN param.gridslots ELSE GROUPS

\* An entry of a Tcl array: set a(i) v.
Put(a, i, v) == [j \in DOMAIN a \cup {i} |-> IF j = i THEN v ELSE a[j]]

Instances == DOMAIN instance
In(st) == {g \in Instances : instance[g] = st}

Init ==
  /\ param \in Params
  /\ stage = "filelist"
  /\ filelist \in UserLists
  /\ optimized = <<>> /\ read = 0 /\ result = Unset
  /\ instance = <<>>
  /\ fp = NotOpen /\ Remainder = 0 /\ UcdbFiles = <<>>
  /\ availableHosts = param.hostnames /\ NextHost = <<>>
  /\ merged = {}

-----------------------------------------------------------------------------
(* merge's members filelist, optimize and mode, one after the other.         *)

\* Member filelist: its condition is GenerateFileList, which writes the list.
GenerateFileList ==
  /\ stage = "filelist"
  /\ stage' = "optimize"
  /\ IF param.genfilelist THEN filelist' \in FoundLists
                          ELSE UNCHANGED filelist
  /\ UNCHANGED <<param, optimized, read, result, instance, groupVars, hostVars,
                 merged>>

\* Member optimize: nothing to do for "all".
OptimizeAll ==
  /\ stage = "optimize"
  /\ param.teststatus = "all"
  /\ stage' = "mode"
  /\ UNCHANGED <<param, listVars, instance, groupVars, hostVars, merged>>

\* OptimizeFilelist cannot open the list.
OptimizeNoFile ==
  /\ stage = "optimize"
  /\ param.teststatus # "all"
  /\ filelist = Absent
  /\ stage' = "error"
  /\ UNCHANGED <<param, listVars, instance, groupVars, hostVars, merged>>

\* (Bug variant: the first result is never replaced.)
FirstResult(line) == IF result = Unset THEN line ELSE result

\* The result of a UCDB that has a TESTSTATUS replaces the previous one.
ResultAt(line) == IF line \in {"passed", "failed"} THEN line ELSE result

\* One round of OptimizeFilelist's loop.  A UCDB with no TESTSTATUS when no
\* earlier one had any makes $result an unknown variable, a Tcl error.
OptimizeLine ==
  /\ stage = "optimize"
  /\ param.teststatus # "all"
  /\ read < Len(filelist)
  /\ read' = read + 1
  /\ LET line == filelist[read + 1]
     IN  IF line = Blank THEN UNCHANGED <<stage, optimized, result>>
         ELSE IF ResultAt(line) = Unset
         THEN stage' = "error" /\ UNCHANGED <<optimized, result>>
         ELSE /\ result' = ResultAt(line)
              /\ optimized' = IF result' = param.teststatus
                              THEN Append(optimized, line) ELSE optimized
              /\ UNCHANGED stage
  /\ UNCHANGED <<param, filelist, instance, groupVars, hostVars, merged>>

OptimizeEnd ==
  /\ stage = "optimize"
  /\ param.teststatus # "all"
  /\ filelist # Absent
  /\ read = Len(filelist)
  /\ stage' = "mode"
  /\ UNCHANGED <<param, listVars, instance, groupVars, hostVars, merged>>

\* mode's preScript: an error if the list does not exist or has no character.
ModePreScript ==
  /\ stage = "mode"
  /\ stage' = IF OPTFILELIST \in {Absent, <<Blank>>} THEN "error"
              ELSE IF param.mode = "rsh" THEN "rsh" ELSE "repeat"
  /\ UNCHANGED <<param, listVars, instance, groupVars, hostVars, merged>>

\* rsh's preScript: there must be a host, and each must answer.
RshPreScript ==
  /\ stage = "rsh"
  /\ \/ stage' = "error"
     \/ RSHJOBS # 0 /\ stage' = "repeat"
  /\ UNCHANGED <<param, listVars, instance, groupVars, hostVars, merged>>

\* VRM repeats levelOne (%GROUPS%) times.
RepeatLevelOne ==
  /\ stage = "repeat"
  /\ stage' = "levelOne"
  /\ instance' = [g \in 1..GROUPS |-> "new"]
  /\ UNCHANGED <<param, listVars, groupVars, hostVars, merged>>

-----------------------------------------------------------------------------
(* The instances of levelOne.                                                *)

\* proc GetUcdbFiles {path databases groups runnable}, in parts.

\* (Bug variants, not the code: a list opened by every call; a Remainder never
\* spent, or not added to the share; a share computed again by every expansion.)
ListReopened == 0
RemainderKept(rem) == rem
ShareWithoutRemainder(rem) == DATABASES \div GROUPS
NeverCached(g) == FALSE

\* The first call opens the list and sets the Remainder.
ListPosition == IF fp = NotOpen THEN 0 ELSE fp
CurrentRemainder == IF fp = NotOpen THEN DATABASES % GROUPS ELSE Remainder

\* The size of the next share, and the Remainder after it.
ShareSize(rem) == DATABASES \div GROUPS + IF rem # 0 THEN 1 ELSE 0
NextRemainder(rem) == IF rem # 0 THEN rem - 1 ELSE rem

\* Whether the instance's share is known already.
HasShare(g) == g \in DOMAIN UcdbFiles

GetUcdbFiles(g) ==
  LET rem == CurrentRemainder
      stop == StopAt(OPTFILELIST, ListPosition, ShareSize(rem))
  IN  IF HasShare(g)
      THEN fp' = ListPosition /\ Remainder' = rem /\ UNCHANGED UcdbFiles
      ELSE /\ fp' = stop
           /\ Remainder' = NextRemainder(rem)
           /\ UcdbFiles' = Put(UcdbFiles, g, Taken(OPTFILELIST, ListPosition, stop))

\* vrun writes the instance's execScript, which names (%ucdbfiles%) twice.
ExpandScript(g) ==
  /\ stage = "levelOne"
  /\ instance[g] \in {"new", "tested"}
  /\ GetUcdbFiles(g)
  /\ instance' = [instance EXCEPT ![g] = IF @ = "new" THEN "tested" ELSE "ready"]
  /\ UNCHANGED <<param, stage, listVars, hostVars, merged>>

\* proc GetNextHost, for a script other than a preScript; only rsh's methods
\* have a (%HOST%) to expand.  The list it takes from starts as HOSTNAMES.
GetNextHost(i) ==
  IF param.mode # "rsh" \/ i \in DOMAIN NextHost
  THEN UNCHANGED hostVars
  ELSE IF availableHosts = <<>>
  THEN NextHost' = Put(NextHost, i, NoHost) /\ UNCHANGED availableHosts
  ELSE /\ NextHost' = Put(NextHost, i, Head(availableHosts))
       /\ availableHosts' = Tail(availableHosts)

\* VRM launches an execScript, respecting its method's maxrunning.
LaunchExec(g) ==
  /\ stage = "levelOne"
  /\ instance[g] = "ready"
  /\ Cardinality(In("exec")) < MaxRunning
  /\ GetNextHost(g)
  /\ instance' = [instance EXCEPT ![g] = "exec"]
  /\ UNCHANGED <<param, stage, listVars, groupVars, merged>>

\* (Bug variant: the host is put back in front of the waiting ones.)
HostReturnedFirst(g) ==
  IF param.mode = "rsh"
  THEN availableHosts' = <<NextHost[g]>> \o availableHosts /\ UNCHANGED NextHost
  ELSE UNCHANGED hostVars

\* proc ActionCompleted, for an action of levelOne.  Outside rsh mode the
\* action has no HOST and "none" is appended to a list nobody reads.
ActionCompleted(g) ==
  IF param.mode = "rsh"
  THEN /\ availableHosts' = Append(availableHosts, NextHost[g])
       /\ UNCHANGED NextHost
  ELSE UNCHANGED hostVars

\* The execScript ends: VRM goes on with the mergeScript if it passed, and
\* with nothing (-nolocalrerun) if it failed or met MERGETIMEOUT.
CompleteExec(g) ==
  /\ stage = "levelOne"
  /\ instance[g] = "exec"
  /\ ActionCompleted(g)
  /\ \E st \in {"toMerge", "failed"} : instance' = [instance EXCEPT ![g] = st]
  /\ UNCHANGED <<param, stage, listVars, groupVars, merged>>

\* The mergeScript goes to the method of queue merge, with its own maxrunning.
LaunchMerge(g) ==
  /\ stage = "levelOne"
  /\ instance[g] = "toMerge"
  /\ Cardinality(In("merge")) < MaxRunning
  /\ GetNextHost(g)
  /\ instance' = [instance EXCEPT ![g] = "merge"]
  /\ UNCHANGED <<param, stage, listVars, groupVars, merged>>

CompleteMerge(g) ==
  /\ stage = "levelOne"
  /\ instance[g] = "merge"
  /\ ActionCompleted(g)
  /\ \/ /\ instance' = [instance EXCEPT ![g] = "done"]
        /\ merged' = merged \cup UcdbFiles[g]
     \/ /\ instance' = [instance EXCEPT ![g] = "failed"]
        /\ UNCHANGED merged
  /\ UNCHANGED <<param, stage, listVars, groupVars>>

\* The postScript of the mode's group, an action of its own in rsh mode.
PostScript ==
  /\ stage = "levelOne"
  /\ \A g \in Instances : instance[g] \in {"done", "failed"}
  /\ GetNextHost(GroupScript)
  /\ stage' = "done"
  /\ UNCHANGED <<param, listVars, instance, groupVars, merged>>

Terminated ==
  /\ stage \in {"done", "error"}
  /\ UNCHANGED vars

Prepare ==
  \/ GenerateFileList \/ OptimizeAll \/ OptimizeNoFile \/ OptimizeLine
  \/ OptimizeEnd \/ ModePreScript \/ RshPreScript \/ RepeatLevelOne

LevelOne(g) ==
  \/ ExpandScript(g) \/ LaunchExec(g) \/ CompleteExec(g)
  \/ LaunchMerge(g) \/ CompleteMerge(g)

Next ==
  \/ Prepare
  \/ \E g \in Instances : LevelOne(g)
  \/ PostScript
  \/ Terminated

Spec == Init /\ [][Next]_vars

\* vrun keeps scheduling, and an action that hangs is ended by its mintimeout.
Fairness ==
  /\ WF_vars(Prepare)
  /\ WF_vars(\E g \in Instances : LevelOne(g))
  /\ WF_vars(PostScript)

FairSpec == Spec /\ Fairness
-----------------------------------------------------------------------------
(* Properties.                                                               *)

TypeOK ==
  /\ param \in Params
  /\ stage \in {"filelist", "optimize", "mode", "rsh", "repeat", "levelOne",
               "done", "error"}
  /\ filelist \in Seq(Line) /\ optimized \in Seq(Line)
  /\ read \in Nat /\ result \in Status \cup {Unset}
  /\ \/ stage \notin {"levelOne", "done"} /\ instance = <<>>
     \/ stage \in {"levelOne", "done"} /\
        instance \in [1..GROUPS -> {"new", "tested", "ready", "exec", "toMerge",
                                   "merge", "done", "failed"}]
  /\ fp \in 0..Len(OPTFILELIST) \cup {NotOpen} /\ Remainder \in Nat
  /\ DOMAIN UcdbFiles \subseteq Instances
  /\ \A g \in DOMAIN UcdbFiles : UcdbFiles[g] \subseteq Named(OPTFILELIST)
  /\ availableHosts \in Seq(Host \cup {NoHost})
  /\ DOMAIN NextHost \subseteq Instances \cup {GroupScript}
  /\ \A i \in DOMAIN NextHost : NextHost[i] \in Host \cup {NoHost}
  /\ merged \subseteq Named(OPTFILELIST)

\* Whatever the order in which vrun expands the instances, the shares handed
\* out so far are disjoint and together are the UCDBs read from the list:
\* no UCDB is merged by two instances or skipped between two of them.
SharesPartitionList ==
  /\ \A g, h \in DOMAIN UcdbFiles : g # h => UcdbFiles[g] \cap UcdbFiles[h] = {}
  /\ UNION {UcdbFiles[g] : g \in DOMAIN UcdbFiles}
       = IF fp = NotOpen THEN {} ELSE {i \in Named(OPTFILELIST) : i <= fp}

\* The work is evenly divided: of a list with no blank line every instance
\* gets a UCDB, and no instance gets two more than another.
SharesBalanced ==
  WellFormed(OPTFILELIST) =>
    \A g, h \in DOMAIN UcdbFiles :
      /\ UcdbFiles[g] # {}
      /\ Cardinality(UcdbFiles[g]) <= Cardinality(UcdbFiles[h]) + 1

Failed == UNION {UcdbFiles[g] : g \in {h \in DOMAIN UcdbFiles : instance[h] = "failed"}}

\* When the run ends, each UCDB of a list that ends in a newline, blank lines
\* or not, is in the final merge unless its own instance failed: none is lost
\* because CountFiles, CalculateGroups and the Remainder disagree.
NothingForgotten ==
  stage = "done" /\ OPTFILELIST[Len(OPTFILELIST)] = Blank =>
    merged \cup Failed = Named(OPTFILELIST)

Distinct(s) == \A i, j \in 1..Len(s) : s[i] = s[j] => i = j

\* In rsh mode no two instances ever run actions on the same host at a time,
\* although completed actions return their host to the list twice (execScript
\* and mergeScript), and the postScript finds a host too.
HostsExclusive ==
  param.mode = "rsh" /\ Distinct(param.hostnames) =>
    /\ \A g, h \in In("exec") \cup In("merge") :
         g # h => NextHost[g] # NextHost[h]
    /\ \A i \in DOMAIN NextHost : NextHost[i] # NoHost

\* Filtering by status keeps exactly the UCDBs of the requested status, when
\* each UCDB has a TESTSTATUS.
OptimizedIsFilter ==
  (stage \in {"mode", "levelOne"} /\ param.teststatus # "all"
    /\ \A i \in 1..Len(filelist) : filelist[i] # "unset") =>
      /\ \A j \in 1..Len(optimized) : optimized[j] = param.teststatus
      /\ Len(optimized)
           = Cardinality({i \in 1..Len(filelist) : filelist[i] = param.teststatus})

\* The share of an instance is fixed by its first expansion: expanding its
\* script again (the script names ucdbfiles twice) neither changes it nor
\* consumes the list.
SharesStable ==
  [][\A g \in DOMAIN UcdbFiles :
       g \in DOMAIN UcdbFiles' /\ UcdbFiles'[g] = UcdbFiles[g]]_vars

\* The merge comes to an end.
Completes == <>(stage \in {"done", "error"})
-----------------------------------------------------------------------------
(* The abstract merge this implements.                                       *)
Abstract == INSTANCE UcdbMerge WITH
  database <- IF stage \in {"levelOne", "done"} THEN Named(OPTFILELIST) ELSE {},
  started <- stage \in {"levelOne", "done"},
  merged <- merged,
  dropped <- IF stage \in {"levelOne", "done"} THEN Failed ELSE {}

ImplementsUcdbMerge == Abstract!Spec
=============================================================================
