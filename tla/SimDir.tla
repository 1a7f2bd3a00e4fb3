------------------------------- MODULE SimDir -------------------------------
(***************************************************************************)
(* A simulation directory: the compilation targets of                      *)
(* templates/Makefile.template and the files under questa_libs that they   *)
(* keep for each other - the libraries, liborder.txt and its rtl_ and tb_  *)
(* copies, the optimized snapshots, and makefile.remake, which             *)
(* scripts/create_questa_remake.pl generates from liborder.txt, possibly in*)
(* the background while the simulation that started it, or a later make,   *)
(* goes on.                                                                *)
(*                                                                         *)
(* One make runs in the foreground at a time.  A step is a recipe line, or *)
(* what a script does to the directory between two of its commands; any    *)
(* tool may fail, which ends the make.  The file lists are edited at any   *)
(* time.                                                                   *)
(***************************************************************************)
EXTENDS Naturals, Sequences, FiniteSets, SequencesExt

CONSTANTS
  Lib,              (* Library names.                                        *)
  FileLists,        (* FileLists[p][r]: the libraries of revision r of the   *)
                    (* file list of part p, "rtl" or "tb"; r is 1, 2, ...    *)
  Occurs,           (* The <<p, l>> where the name l occurs in the name p.   *)
  Background        (* Generators that may run in the background at a time.  *)

Part == {"rtl", "tb"}
Revisions(p) == DOMAIN FileLists[p]

ASSUME FileListsAssumption ==
  /\ DOMAIN FileLists = Part
  /\ \A p \in Part : FileLists[p] \in Seq(Seq(Lib) \ {<<>>}) \ {<<>>}
ASSUME OccursAssumption ==
  Occurs \subseteq Lib \X Lib /\ \A l \in Lib : <<l, l>> \in Occurs

VARIABLES
  rev,        (* The revision of each file list when it was read last.       *)
  target,     (* The target of the make that is running, or ran last; "" if  *)
              (* it failed.                                                  *)
  todo,       (* Its remaining steps.                                        *)
  made,       (* Whether there is a directory questa_libs.                   *)
  files,      (* The contents of liborder, rtl_liborder and tb_liborder, of  *)
              (* those that exist.                                           *)
  built,      (* The revision of each part compiled last, or NotBuilt.       *)
  snap,       (* The snapshots that exist; what was compiled since each was  *)
              (* made: nothing "", a "library", the test bench's list "tb".  *)
  remake,     (* makefile.remake: the orders it was written from, {} if there*)
              (* is no such file; more than one if writers overlapped.       *)
  gens,       (* The runs of create_questa_remake.pl; late: a compilation was*)
              (* started before the run ended.                               *)
  spoilers    (* What may have made makefile.remake other than it should be. *)
              (* late and spoilers are history: only properties read them.   *)

dirVars == <<made, files, built, snap>>
vars == <<rev, target, todo, dirVars, remake, gens, spoilers>>

NotBuilt == 0
Generators == {"foreground"} \cup Background
Idle == [pc |-> "idle", order |-> <<>>, holds |-> FALSE, late |-> FALSE]

Without(f, keys) == [k \in DOMAIN f \ keys |-> f[k]]
With(f, k, v) == [j \in DOMAIN f \cup {k} |-> IF j = k THEN v ELSE f[j]]

-----------------------------------------------------------------------------
(* The libraries makefile.remake has rules for.                              *)

\* (Bug variant, not the code: a library that is listed again stays in place.)
KeepInPlace(acc, l) ==
  IF <<acc.prev, l>> \in Occurs \/ l \in ToSet(acc.libs)
  THEN acc ELSE [libs |-> Append(acc.libs, l), prev |-> l]

\* A line is skipped if its library occurs in the previous one's name, and else
\* moves its library to the end.
AddLibrary(acc, l) ==
  IF <<acc.prev, l>> \in Occurs THEN acc
  ELSE [libs |-> Append(RemoveFirst(acc.libs, l), l), prev |-> l]

Targets(order) ==
  LET kept[k \in 0..Len(order)] ==
        IF k = 0 THEN [libs |-> <<>>, prev |-> ""] ELSE AddLibrary(kept[k - 1], order[k])
  IN  kept[Len(order)].libs

-----------------------------------------------------------------------------
(* The targets, as sequences of steps: what is done, and to what.            *)

Do(step) == [do |-> step, to |-> ""]
DoTo(step, what) == [do |-> step, to |-> what]

CompileScript(p) == <<DoTo("compile_script", p)>>
CompileRtl == <<Do("remove_remake")>> \o CompileScript("rtl") \o <<Do("mv_rtl_liborder")>>
JoinLiborders == <<Do("cp_tb_liborder"), Do("cp_rtl_liborder"), Do("cat_tb_liborder")>>
CompileTbScript == CompileScript("tb") \o JoinLiborders
Vsim == <<Do("vsim")>>

\* Neither remove_remake nor clean is among its requirements.
CompileRtlFv == CompileScript("rtl") \o <<Do("mv_rtl_liborder")>>

\* A make runs remove_remake once, however many targets require it.  autocheck and
\* cdc_static begin as formal does; their tools leave questa_libs alone.
Recipe ==
  [compile          |-> <<Do("clean")>> \o CompileRtl \o <<Do("remove_opts")>> \o CompileTbScript,
   compile_rtl      |-> CompileRtl,
   compile_tb       |-> <<Do("remove_opts"), Do("remove_remake")>> \o CompileTbScript,
   compile_rtl_fv   |-> CompileRtlFv,
   formal           |-> <<Do("clean")>> \o CompileRtlFv,
   opt              |-> <<DoTo("vopt", "opt"), DoTo("vopt", "dbg")>>,
   create_recompile |-> <<Do("generate"), Do("await_generator")>>,
   recompile        |-> <<Do("generate_in_background"), Do("make_all")>>,
   batch_block      |-> <<Do("generate_in_background")>> \o Vsim,
   batch_chip       |-> <<Do("generate_in_background"), DoTo("vopt", "dbg")>> \o Vsim]

Compiles(t) == t \in {"compile", "compile_rtl", "compile_tb", "compile_rtl_fv", "formal"}

Init ==
  /\ rev = [p \in Part |-> 1]
  /\ target = "" /\ todo = <<>>
  /\ made = FALSE /\ files = <<>> /\ built = [p \in Part |-> NotBuilt] /\ snap = <<>>
  /\ remake = {} /\ gens = [g \in Generators |-> Idle] /\ spoilers = {}

Running(g) == gens[g].pc \notin {"idle", "failed"}

Make ==
  /\ todo = <<>>
  /\ \E t \in DOMAIN Recipe :
       /\ target' = t /\ todo' = Recipe[t]
       /\ gens' = [g \in Generators |->
                    [gens[g] EXCEPT !.late = @ \/ (Compiles(t) /\ Running(g))]]
       /\ spoilers' = spoilers \cup (IF remake = {} THEN {} ELSE {t} \cap {"compile_rtl_fv"})
  /\ UNCHANGED <<rev, dirVars, remake>>

At(step) == todo # <<>> /\ Head(todo).do = step
Proceed == todo' = Tail(todo) /\ UNCHANGED <<rev, target>>
Fail == todo' = <<>> /\ target' = "" /\ UNCHANGED rev

-----------------------------------------------------------------------------
(* The steps of a make.                                                      *)

\* A generator that has the file open goes on writing what is no longer there.
RemakeRemoved ==
  /\ remake' = {} /\ spoilers' = {}
  /\ gens' = [g \in Generators |-> [gens[g] EXCEPT !.holds = FALSE]]

Clean ==
  /\ At("clean") /\ Proceed
  /\ made' = FALSE /\ files' = <<>> /\ snap' = <<>>
  /\ built' = [p \in Part |-> NotBuilt]
  /\ RemakeRemoved

\* (Bug variant, not the code: the file is left.)
RemakeKept == At("remove_remake") /\ Proceed /\ UNCHANGED <<dirVars, remake, gens, spoilers>>

RemoveRemake ==
  /\ At("remove_remake") /\ Proceed
  /\ RemakeRemoved
  /\ UNCHANGED dirVars

\* (Bug variant, not the code: only the other snapshot is removed.)
DebugSnapshotOnly == {"opt_dbg"}

\* The snapshots are called _opt and _dbg; _opt and _opt_dbg are removed.
RemovedSnapshots == {"opt", "opt_dbg"}

RemoveOpts ==
  /\ At("remove_opts") /\ Proceed
  /\ snap' = Without(snap, RemovedSnapshots)
  /\ UNCHANGED <<made, files, built, remake, gens, spoilers>>

\* The snapshots when a part's file list, or a library, is compiled again.
Outdated(what) ==
  [s \in DOMAIN snap |-> IF "tb" \in {what, snap[s]} THEN "tb" ELSE "library"]

\* questa_compile.pl: remove liborder.txt; create and list each library; then
\* compile the files.
StartCompileScript ==
  /\ At("compile_script")
  /\ LET p == Head(todo).to
         libs == FileLists[p][rev'[p]]
     IN  /\ \E r \in Revisions(p) : rev' = [rev EXCEPT ![p] = r]
         /\ todo' = [k \in 1..Len(libs) |-> DoTo("create_library", libs[k])]
                      \o <<DoTo("compile_files", p)>> \o Tail(todo)
         /\ snap' = Outdated(p)
  /\ files' = Without(files, {"liborder"})
  /\ made' = TRUE
  /\ UNCHANGED <<target, built, remake, gens, spoilers>>

Liborder(f) == IF f \in DOMAIN files THEN files[f] ELSE <<>>

CreateLibrary ==
  /\ At("create_library")
  /\ \/ /\ Proceed
        /\ files' = With(files, "liborder", Append(Liborder("liborder"), Head(todo).to))
     \/ Fail /\ UNCHANGED files
  /\ UNCHANGED <<made, built, snap, remake, gens, spoilers>>

CompileFiles ==
  /\ At("compile_files")
  /\ \/ Proceed /\ built' = [built EXCEPT ![Head(todo).to] = rev[Head(todo).to]]
     \/ Fail /\ UNCHANGED built
  /\ UNCHANGED <<made, files, snap, remake, gens, spoilers>>

MoveRtlLiborder ==
  /\ At("mv_rtl_liborder") /\ Proceed
  /\ files' = With(Without(files, {"liborder"}), "rtl_liborder", files.liborder)
  /\ UNCHANGED <<made, built, snap, remake, gens, spoilers>>

CopyTbLiborder ==
  /\ At("cp_tb_liborder") /\ Proceed
  /\ files' = With(files, "tb_liborder", files.liborder)
  /\ UNCHANGED <<made, built, snap, remake, gens, spoilers>>

\* Fails if the RTL was never compiled.
CopyRtlLiborder ==
  /\ At("cp_rtl_liborder")
  /\ IF "rtl_liborder" \in DOMAIN files
     THEN Proceed /\ files' = With(files, "liborder", files.rtl_liborder)
     ELSE Fail /\ UNCHANGED files
  /\ UNCHANGED <<made, built, snap, remake, gens, spoilers>>

\* (Bug variant, not the code: the test bench's order replaces the RTL's.)
TbOrderOnly == files.tb_liborder

JoinedOrder == files.liborder \o files.tb_liborder

CatTbLiborder ==
  /\ At("cat_tb_liborder") /\ Proceed
  /\ files' = With(files, "liborder", JoinedOrder)
  /\ UNCHANGED <<made, built, snap, remake, gens, spoilers>>

\* vopt needs the test bench.
Vopt ==
  /\ At("vopt")
  /\ \/ /\ built["tb"] # NotBuilt
        /\ Proceed
        /\ snap' = With(snap, Head(todo).to, "")
     \/ Fail /\ UNCHANGED snap
  /\ UNCHANGED <<made, files, built, remake, gens, spoilers>>

Simulate ==
  /\ At("vsim")
  /\ Proceed \/ Fail
  /\ UNCHANGED <<dirVars, remake, gens, spoilers>>

Start(g, pc) == gens' = [gens EXCEPT ![g] = [Idle EXCEPT !.pc = pc]]

\* The rule of makefile.remake has two colons and no prerequisite: it always runs.
Generate ==
  /\ At("generate") /\ Proceed
  /\ Start("foreground", "read")
  /\ UNCHANGED <<dirVars, remake, spoilers>>

AwaitGenerator ==
  /\ At("await_generator")
  /\ ~Running("foreground")
  /\ IF gens["foreground"].pc = "idle" THEN Proceed ELSE Fail
  /\ UNCHANGED <<dirVars, remake, gens, spoilers>>

\* "test -e makefile.remake || create_questa_remake.pl ... &": the test is run in
\* the background too.
GenerateInBackground ==
  /\ At("generate_in_background") /\ Proceed
  /\ \E g \in Background : ~Running(g) /\ Start(g, "test")
  /\ UNCHANGED <<dirVars, remake, spoilers>>

\* A makefile written from one order, and to its end.
Complete ==
  /\ Cardinality(remake) = 1
  /\ \A g \in Generators : gens[g].pc = "write" => ~gens[g].holds

\* make all -f makefile.remake: the rule of each library compiles it and touches
\* questa_libs/touchfiles/<library>.  No step of any target creates the directory
\* touchfiles, so that make ends at its first rule even if the compiler succeeds: that
\* library is changed, and no snapshot removed.
MakeAll ==
  /\ At("make_all")
  /\ \/ ~Complete /\ Fail /\ UNCHANGED snap
     \/ /\ remake # {}
        /\ Fail
        /\ snap' \in {snap, Outdated("library")}
  /\ UNCHANGED <<made, files, built, remake, gens, spoilers>>

-----------------------------------------------------------------------------
(* create_questa_remake.pl.                                                  *)

Becomes(g, fields) == gens' = [gens EXCEPT ![g] = fields]

TestRemake(g) ==
  /\ gens[g].pc = "test"
  /\ Becomes(g, IF remake = {} THEN [gens[g] EXCEPT !.pc = "read"] ELSE Idle)
  /\ UNCHANGED <<rev, target, todo, dirVars, remake, spoilers>>

\* The script dies if there is no liborder.txt; what becomes of one in the background
\* is not seen.
Died(g) == Becomes(g, [Idle EXCEPT !.pc = IF g \in Background THEN "idle" ELSE "failed"])

ReadLiborder(g) ==
  /\ gens[g].pc = "read"
  /\ IF "liborder" \in DOMAIN files
     THEN Becomes(g, [gens[g] EXCEPT !.pc = "open", !.order = files.liborder])
     ELSE Died(g)
  /\ UNCHANGED <<rev, target, todo, dirVars, remake, spoilers>>

\* The generators that have the file open once g has opened it.
Writers(g) == {g} \cup {h \in Generators : gens[h].pc = "write" /\ gens[h].holds}

\* Truncates the file if there is one: what others still write goes to the same
\* file.  The script dies if the directory is gone.
OpenRemake(g) ==
  /\ gens[g].pc = "open"
  /\ IF made
     THEN /\ remake' = {gens[h].order : h \in Writers(g)}
          /\ spoilers' = IF \E h \in Writers(g) : gens[h].late THEN {"overtaken"} ELSE {}
          /\ Becomes(g, [gens[g] EXCEPT !.pc = "write", !.holds = TRUE])
     ELSE /\ Died(g)
          /\ UNCHANGED <<remake, spoilers>>
  /\ UNCHANGED <<rev, target, todo, dirVars>>

CloseRemake(g) ==
  /\ gens[g].pc = "write"
  /\ Becomes(g, Idle)
  /\ UNCHANGED <<rev, target, todo, dirVars, remake, spoilers>>

Generator(g) == TestRemake(g) \/ ReadLiborder(g) \/ OpenRemake(g) \/ CloseRemake(g)

Next ==
  \/ Make
  \/ Clean \/ RemoveRemake \/ RemoveOpts
  \/ StartCompileScript \/ CreateLibrary \/ CompileFiles
  \/ MoveRtlLiborder \/ CopyTbLiborder \/ CopyRtlLiborder \/ CatTbLiborder
  \/ Vopt \/ Simulate
  \/ Generate \/ AwaitGenerator \/ GenerateInBackground \/ MakeAll
  \/ \E g \in Generators : Generator(g)

Spec == Init /\ [][Next]_vars

-----------------------------------------------------------------------------
(* Properties.                                                               *)

TypeOK ==
  /\ \A p \in Part : rev[p] \in Revisions(p)
  /\ \A p \in Part : built[p] \in Revisions(p) \cup {NotBuilt}
  /\ target \in DOMAIN Recipe \cup {""}
  /\ made \in BOOLEAN
  /\ DOMAIN files \subseteq {"liborder", "rtl_liborder", "tb_liborder"}
  /\ \A f \in DOMAIN files : files[f] \in Seq(Lib) \ {<<>>}
  /\ DOMAIN snap \subseteq {"opt", "dbg"}
  /\ \A s \in DOMAIN snap : snap[s] \in {"", "library", "tb"}
  /\ remake \subseteq Seq(Lib)
  /\ \A g \in Generators :
       gens[g].pc \in {"idle", "test", "read", "open", "write", "failed"}
  /\ spoilers \subseteq {"compile_rtl_fv", "overtaken"}
  /\ (files # <<>> \/ remake # {}) => made

\* makefile.remake is of the present liborder.txt, however compilations failed half-way
\* since, with two exceptions only: compile_rtl_fv was made since it was written, which
\* moves liborder.txt away and leaves it; or a compilation was started while the
\* generator that wrote it still ran.
RemakeIsCurrent ==
  (remake # {} /\ spoilers = {}) => "liborder" \in DOMAIN files /\ remake = {files.liborder}

\* A successful compile or compile_tb leaves in liborder.txt the RTL's libraries
\* and then the test bench's, as they were compiled last, whatever failed before.
LiborderIsWhole ==
  (todo = <<>> /\ target \in {"compile", "compile_tb"}) =>
    files.liborder = FileLists["rtl"][built["rtl"]] \o FileLists["tb"][built["tb"]]

\* The snapshot that batch_regression runs is never of an earlier file list of the test
\* bench: from the moment compile_tb begins to change libraries there is none.  Only
\* what has no remove_opts, the compilations of the RTL and recompile, outdates it.
OptIsCurrent == "opt" \in DOMAIN snap => snap["opt"] # "tb"

\* makefile.remake has one rule for each library of liborder.txt, and compiles a
\* library listed more than once where it was listed last.
RemakeCoversLibraries ==
  "liborder" \in DOMAIN files =>
    LET order == files.liborder
        targets == Targets(order)
        LastListed(l) == CHOOSE k \in 1..Len(order) :
                     order[k] = l /\ \A j \in (k + 1)..Len(order) : order[j] # l
    IN  /\ ToSet(targets) = ToSet(order)
        /\ \A j, k \in 1..Len(targets) : j < k => LastListed(targets[j]) < LastListed(targets[k])
=============================================================================
