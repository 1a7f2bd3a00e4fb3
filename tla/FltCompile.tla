----------------------------- MODULE FltCompile -----------------------------
(***************************************************************************)
(* scripts/questa_compile.pl: parse a file list (FLT), create its          *)
(* libraries and record their order in liborder.txt, then compile the files*)
(* in that order, joining adjacent files that can share one vlog or vcom   *)
(* command.                                                                *)
(*                                                                         *)
(* A line of the list, comments and blank lines being skipped, is          *)
(*   [kind |-> "library", lib]     @library <lib>                          *)
(*   [kind |-> "vlogargs", args]   @vlogargs:<args>    (likewise vcomargs) *)
(*   [kind |-> "file", type, args] <file>:<args>                           *)
(* A file is named by its line number.  The script is sequential; what can *)
(* go wrong around it is a command that fails at any point (it dies with   *)
(* some libraries compiled) and an earlier run's liborder.txt.             *)
(***************************************************************************)
EXTENDS Naturals, Sequences, FiniteSets

CONSTANTS
  Lib,         (* Library names.                                             *)
  Args,        (* Argument strings of files and of @vlogargs, @vcomargs.     *)
  FltLists,    (* The file lists considered.                                 *)
  StaleOrders, (* What liborder.txt may hold before the run.                 *)
  DefaultLib   (* The value of -default_lib.                                 *)

NoLib == ""                  \* $prev_lib before the first file
NoArgs == "__NOARGS__"
Type == {"verilog", "vhdl", "c"}

Line ==
  [kind : {"library"}, lib : Lib]
    \cup [kind : {"vlogargs", "vcomargs"}, args : Args]
    \cup [kind : {"file"}, type : Type \cup {"unknown"}, args : Args]

ASSUME FltListsAssumption == FltLists \subseteq Seq(Line)
ASSUME StaleOrdersAssumption == StaleOrders \subseteq Seq(Lib)
ASSUME NamesAssumption == NoLib \notin Lib /\ NoArgs \notin Args

VARIABLES
  flt,          (* The file list.                                            *)
  phase,        (* start, parse, batch, done; died after a failed command.   *)
  pos,          (* Lines parsed.                                             *)
  lib, i,       (* Current library, and number of its last file.             *)
  generic,      (* The lines of generic_vlog_args and generic_vcom_args.     *)
  liborder,     (* @liborder.                                                *)
  db,           (* $db: the file (line) of <<library, number>>.              *)
  noOfFiles,    (* $db's no_of_files, of the libraries that have one.        *)
  liborderTxt,  (* The file liborder.txt.                                    *)
  cur, n,       (* The batching loops: index in liborder, file number.       *)
  prevLib, prevType, prevArgs, commandFiles,
                (* The batch being collected.                                *)
  compiled      (* The files compiled, each with its command's attributes.   *)

parseVars == <<pos, lib, i, generic, liborder, db, noOfFiles, liborderTxt>>
batchVars == <<cur, n, prevLib, prevType, prevArgs, commandFiles, compiled>>
vars == <<flt, phase, parseVars, batchVars>>

-----------------------------------------------------------------------------
Put(a, k, v) == [j \in DOMAIN a \cup {k} |-> IF j = k THEN v ELSE a[j]]

\* The lines of a list's files, and of the libraries among its first lines.
FileLines(list) == {k \in 1..Len(list) : list[k].kind = "file"}
LibraryLines(list, last) == {k \in 1..last : list[k].kind = "library"}

Init ==
  /\ flt \in FltLists
  /\ phase = "start"
  /\ pos = 0 /\ lib = DefaultLib /\ i = 1
  /\ generic = [vlog |-> {}, vcom |-> {}]
  /\ liborder = <<>> /\ db = <<>> /\ noOfFiles = <<>>
  /\ liborderTxt \in StaleOrders
  /\ cur = 1 /\ n = 1
  /\ prevLib = NoLib /\ prevType = "unknown" /\ prevArgs = NoArgs
  /\ commandFiles = <<>> /\ compiled = <<>>

\* (Bug variant, not the code: the earlier run's liborder.txt is kept.)
KeptOrder == liborderTxt

\* rm -f liborder.txt.
InitialOrder == <<>>

RemoveLiborder ==
  /\ phase = "start"
  /\ phase' = "parse"
  /\ liborderTxt' = InitialOrder
  /\ UNCHANGED <<flt, pos, lib, i, generic, liborder, db, noOfFiles, batchVars>>

-----------------------------------------------------------------------------
(* The first loop: parse the list.                                           *)

Parse(kinds) ==
  /\ phase = "parse"
  /\ pos < Len(flt)
  /\ flt[pos + 1].kind \in kinds

\* @library: create the library, map it and append it to liborder.txt; a
\* failing vlib, vmap or echo ends the script before the line is appended.
ParseLibrary ==
  /\ Parse({"library"})
  /\ \/ /\ pos' = pos + 1
        /\ generic' = [vlog |-> {}, vcom |-> {}]
        /\ lib' = flt[pos + 1].lib
        /\ liborder' = Append(liborder, lib')
        /\ i' = 0
        /\ liborderTxt' = Append(liborderTxt, lib')
        /\ UNCHANGED phase
     \/ phase' = "died" /\ UNCHANGED parseVars
  /\ UNCHANGED <<flt, db, noOfFiles, batchVars>>

\* @vlogargs and @vcomargs accumulate.
ParseGeneric ==
  /\ Parse({"vlogargs", "vcomargs"})
  /\ pos' = pos + 1
  /\ generic' = IF flt[pos'].kind = "vlogargs"
                THEN [generic EXCEPT !.vlog = @ \cup {pos'}]
                ELSE [generic EXCEPT !.vcom = @ \cup {pos'}]
  /\ UNCHANGED <<flt, phase, lib, i, liborder, db, noOfFiles, liborderTxt, batchVars>>

ParseFile ==
  /\ Parse({"file"})
  /\ flt[pos + 1].type \in Type
  /\ pos' = pos + 1
  /\ i' = i + 1
  /\ db' = Put(db, <<lib, i'>>, pos')
  /\ noOfFiles' = Put(noOfFiles, lib, i')
  /\ UNCHANGED <<flt, phase, lib, generic, liborder, liborderTxt, batchVars>>

\* exit(1) on a file of unknown type.
ParseUnknown ==
  /\ Parse({"file"})
  /\ flt[pos + 1].type \notin Type
  /\ phase' = "died"
  /\ UNCHANGED <<flt, parseVars, batchVars>>

ParseEnd ==
  /\ phase = "parse"
  /\ pos = Len(flt)
  /\ phase' = "batch"
  /\ UNCHANGED <<flt, parseVars, batchVars>>

-----------------------------------------------------------------------------
(* The second loop: visit the libraries' files and compile in batches.       *)

\* What compile() is given for a command: the generic arguments are those the
\* script's globals hold now, when the whole list has been parsed.
Command(files) ==
  [k \in 1..Len(files) |->
     [file |-> files[k], lib |-> prevLib, type |-> prevType, args |-> prevArgs,
      generic |-> CASE prevType = "verilog" -> generic.vlog
                    [] prevType = "vhdl" -> generic.vcom
                    [] OTHER -> {},
      first |-> files[1]]]

InLibrary == cur <= Len(liborder)
NoOfFiles(l) == IF l \in DOMAIN noOfFiles THEN noOfFiles[l] ELSE 0
Visiting == phase = "batch" /\ InLibrary /\ n <= NoOfFiles(liborder[cur])

\* The hash entry visited.  Files before any @library are numbered from 2, so
\* that default_lib may have no first entry: all its fields are then undefined,
\* and its name adds nothing to a command.
Entry ==
  LET key == <<liborder[cur], n>>
  IN  IF key \in DOMAIN db
      THEN [files |-> <<db[key]>>, type |-> flt[db[key]].type, args |-> flt[db[key]].args]
      ELSE [files |-> <<>>, type |-> "unknown", args |-> NoArgs]

\* (Bug variant, not the code: arguments are not compared.)
IgnoringArgs(e) == liborder[cur] = prevLib /\ e.type = prevType /\ e.type # "c"

\* A file joins the batch of its library, type and arguments, unless it is C.
Joins(e) ==
  /\ liborder[cur] = prevLib
  /\ e.type = prevType /\ e.type # "c"
  /\ e.args = prevArgs

JoinBatch ==
  /\ Visiting
  /\ Joins(Entry)
  /\ commandFiles' = commandFiles \o Entry.files
  /\ n' = n + 1
  /\ UNCHANGED <<flt, phase, parseVars, cur, prevLib, prevType, prevArgs, compiled>>

\* (Bug variant, not the code: a batch starts without the file that starts it.)
BatchWithoutFile(e) == <<>>

BatchOf(e) == e.files
ArgsOf(e) == e.args

\* Any other file has the batch before it compiled and starts its own.
StartBatch ==
  /\ Visiting
  /\ ~Joins(Entry)
  /\ \/ /\ compiled' = compiled \o Command(commandFiles)
        /\ prevLib' = liborder[cur]
        /\ prevType' = Entry.type
        /\ prevArgs' = ArgsOf(Entry)
        /\ commandFiles' = BatchOf(Entry)
        /\ n' = n + 1
        /\ UNCHANGED <<phase, cur>>
     \/ /\ commandFiles # <<>>
        /\ phase' = "died"
        /\ UNCHANGED batchVars
  /\ UNCHANGED <<flt, parseVars>>

FirstNumber == 1

NextLibrary ==
  /\ phase = "batch" /\ InLibrary
  /\ n > NoOfFiles(liborder[cur])
  /\ cur' = cur + 1 /\ n' = FirstNumber
  /\ UNCHANGED <<flt, phase, parseVars, prevLib, prevType, prevArgs, commandFiles,
                 compiled>>

\* The batch left over at the end.
CompileOutstanding ==
  /\ phase = "batch" /\ ~InLibrary
  /\ \/ /\ compiled' = compiled \o Command(commandFiles)
        /\ commandFiles' = <<>>
        /\ phase' = "done"
     \/ /\ commandFiles # <<>>
        /\ phase' = "died"
        /\ UNCHANGED <<compiled, commandFiles>>
  /\ UNCHANGED <<flt, parseVars, cur, n, prevLib, prevType, prevArgs>>

Terminated == phase \in {"done", "died"} /\ UNCHANGED vars

Step ==
  \/ RemoveLiborder
  \/ ParseLibrary \/ ParseGeneric \/ ParseFile \/ ParseUnknown \/ ParseEnd
  \/ JoinBatch \/ StartBatch \/ NextLibrary \/ CompileOutstanding

Next == Step \/ Terminated

Spec == Init /\ [][Next]_vars /\ WF_vars(Step)

-----------------------------------------------------------------------------
(* Properties.                                                               *)

TypeOK ==
  /\ flt \in FltLists
  /\ phase \in {"start", "parse", "batch", "done", "died"}
  /\ pos \in 0..Len(flt) /\ lib \in Lib \cup {DefaultLib} /\ i \in Nat
  /\ generic \in [{"vlog", "vcom"} -> SUBSET (1..pos)]
  /\ liborder \in Seq(Lib) /\ liborderTxt \in Seq(Lib)
  /\ DOMAIN db \subseteq (Lib \cup {DefaultLib}) \X (Nat \ {0})
  /\ \A k \in DOMAIN db : db[k] \in FileLines(flt)
  /\ \A l \in DOMAIN noOfFiles : <<l, noOfFiles[l]>> \in DOMAIN db
  /\ cur \in Nat \ {0} /\ n \in Nat \ {0}
  /\ InLibrary => n <= NoOfFiles(liborder[cur]) + 1
  /\ prevLib \in Lib \cup {NoLib} /\ prevType \in Type \cup {"unknown"}
  /\ prevArgs \in Args \cup {NoArgs}
  /\ commandFiles \in Seq(FileLines(flt))
  /\ \A k \in 1..Len(compiled) : compiled[k].file \in FileLines(flt)

\* A list as the format wants it: it starts with a library and names none twice.
Conforming(list) ==
  /\ list # <<>> => list[1].kind = "library"
  /\ \A j, k \in 1..Len(list) :
       (list[j].kind = "library" /\ list[j] = list[k]) => j = k

\* The files handed to commands so far and the batch being collected.
Visited == [k \in 1..Len(compiled) |-> compiled[k].file] \o commandFiles

\* "compile order MUST be respected": whatever is joined, and wherever a command
\* fails, files are compiled in the order of the list, none skipped and none
\* twice, and a run that succeeds has compiled them all.
CompiledInOrder ==
  Conforming(flt) =>
    /\ \A j, k \in 1..Len(Visited) : j < k => Visited[j] < Visited[k]
    /\ \A k \in 1..Len(Visited) :
         /\ Visited[k] \in FileLines(flt)
         /\ \A f \in FileLines(flt) : f < Visited[k] => \E j \in 1..k : Visited[j] = f
    /\ phase = "done" => {compiled[k].file : k \in 1..Len(compiled)} = FileLines(flt)

\* The library of a file: the last @library line before it.
LibraryOf(list, file) ==
  LET before == LibraryLines(list, file)
  IN  IF before = {} THEN DefaultLib
      ELSE list[CHOOSE k \in before : \A j \in before : j <= k].lib

\* However files are joined, each is compiled into its own library, by the tool
\* of its type and with its own arguments, and a C file by itself.
CommandsFitFiles ==
  \A k \in 1..Len(compiled) :
    LET c == compiled[k]
    IN  /\ c.lib = LibraryOf(flt, c.file)
        /\ c.type = flt[c.file].type /\ c.args = flt[c.file].args
        /\ c.type = "c" => c.first = c.file

\* liborder.txt, which recompilation relies on, lists the libraries created so
\* far by this run in their order, and nothing of an earlier run.
LiborderTxtMatches ==
  phase # "start" =>
    LET created == LibraryLines(flt, pos)
    IN  /\ Len(liborderTxt) = Cardinality(created)
        /\ \A k \in created : liborderTxt[Cardinality({j \in created : j <= k})] = flt[k].lib
=============================================================================
