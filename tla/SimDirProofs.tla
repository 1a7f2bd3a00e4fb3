----------------------------- MODULE SimDirProofs -----------------------------
(***************************************************************************)
(* Theorems about SimDir, for every set of libraries, all revisions of the *)
(* file lists and every order of makes, edits, failures and generators.    *)
(*                                                                         *)
(* What a recipe still has to do says what is true of the directory: a     *)
(* step that changes the libraries comes after the one that removes what   *)
(* was made from the old ones, and a step that reads an order comes after  *)
(* the one that wrote it.                                                  *)
(***************************************************************************)
EXTENDS SimDir, SequenceTheorems, WellFoundedInduction, TLAPS

-----------------------------------------------------------------------------
(* The steps of the recipes and what is true of every rest of a recipe.      *)

Removers == {"clean", "remove_remake"}
OptRemovers == {"clean", "remove_opts"}
Mutators == {"compile_script", "create_library", "mv_rtl_liborder", "cp_tb_liborder",
             "cp_rtl_liborder", "cat_tb_liborder"}
CompileSteps == Removers \cup OptRemovers \cup Mutators \cup {"compile_files"}
RunSteps == {"vopt", "vsim", "generate", "await_generator", "generate_in_background",
             "make_all"}

Steps ==
  {Do(d) : d \in (CompileSteps \cup RunSteps)
                   \ {"compile_script", "compile_files", "create_library", "vopt"}}
    \cup {DoTo(d, p) : d \in {"compile_script", "compile_files"}, p \in Part}
    \cup {DoTo("create_library", l) : l \in Lib}
    \cup {DoTo("vopt", s) : s \in {"opt", "dbg"}}

\* The steps that may come after a step; those of a compilation are in a fixed order.
Unordered == Removers \cup OptRemovers \cup {"compile_script"} \cup RunSteps
Successors(a) ==
  CASE a.do \in {"compile_script", "compile_files"} ->
         IF a.to = "rtl" THEN {"mv_rtl_liborder"} ELSE {"cp_tb_liborder"}
    [] a.do = "create_library" -> {"create_library", "compile_files"}
    [] a.do = "cp_tb_liborder" -> {"cp_rtl_liborder"}
    [] a.do = "cp_rtl_liborder" -> {"cat_tb_liborder"}
    [] OTHER -> Unordered

Final == RunSteps \cup {"mv_rtl_liborder", "cat_tb_liborder"}

InOrder(s) ==
  /\ s \in Seq(Steps)
  /\ \A k \in 1..(Len(s) - 1) : s[k + 1].do \in Successors(s[k])
  /\ s # <<>> => s[Len(s)].do \in Final
  /\ \/ \A k \in 1..Len(s) : s[k].do \in CompileSteps
     \/ \A k \in 1..Len(s) : s[k].do \in RunSteps

\* Whether what a step changes is removed by an earlier one.
RemakeRemovedFirst(s) ==
  \A k \in 1..Len(s) : s[k].do \in Mutators => \E j \in 1..(k - 1) : s[j].do \in Removers
OptRemovedFirst(s) ==
  \A k \in 1..Len(s) :
    s[k] = DoTo("compile_script", "tb") => \E j \in 1..(k - 1) : s[j].do \in OptRemovers

\* compile and compile_tb end with the order of the libraries.
Ends(t, s) ==
  t \in {"compile", "compile_tb"} /\ s # <<>> => s[Len(s)].do = "cat_tb_liborder"

-----------------------------------------------------------------------------
(* The inductive invariant.                                                  *)

\* The libraries of a part in its current revision, and a file that lists them.
Libraries(p) == FileLists[p][rev[p]]
Lists(f, p, r) == f \in DOMAIN files /\ files[f] = FileLists[p][r]

\* questa_compile.pl has listed j libraries and has the others to create.
Creating ==
  At("create_library") =>
    /\ made
    /\ \E p \in Part : \E j \in 0..(Len(Libraries(p)) - 1) :
         /\ Liborder("liborder") = SubSeq(Libraries(p), 1, j)
         /\ Len(todo) > Len(Libraries(p)) - j
         /\ \A i \in 1..(Len(Libraries(p)) - j) :
              todo[i] = DoTo("create_library", Libraries(p)[j + i])
         /\ todo[Len(Libraries(p)) - j + 1] = DoTo("compile_files", p)

\* What the next step reads is there, and of the last compilation.
Compiled ==
  /\ At("compile_files") => Lists("liborder", Head(todo).to, rev[Head(todo).to])
  /\ At("mv_rtl_liborder") => built["rtl"] = rev["rtl"] /\ Lists("liborder", "rtl", built["rtl"])
  /\ At("cp_tb_liborder") => built["tb"] = rev["tb"] /\ Lists("liborder", "tb", built["tb"])
  /\ At("cp_rtl_liborder") => Lists("tb_liborder", "tb", built["tb"])
  /\ At("cat_tb_liborder") =>
       Lists("tb_liborder", "tb", built["tb"]) /\ Lists("liborder", "rtl", built["rtl"])

\* rtl_liborder.txt is of the last compilation of the RTL, or about to be replaced.
RtlOrderKept ==
  "rtl_liborder" \in DOMAIN files /\ ~At("mv_rtl_liborder") =>
    Lists("rtl_liborder", "rtl", built["rtl"])

OptFresh ==
  "opt" \in DOMAIN snap => snap["opt"] # "tb" /\ OptRemovedFirst(todo)

GeneratorTypes ==
  gens \in [Generators -> [pc : {"idle", "test", "read", "open", "write", "failed"},
                           order : Seq(Lib), holds : BOOLEAN, late : BOOLEAN]]

FunctionTypes == DOMAIN rev = Part /\ DOMAIN built = Part

IInv ==
  /\ TypeOK /\ FunctionTypes /\ GeneratorTypes
  /\ InOrder(todo) /\ Ends(target, todo)
  /\ Creating /\ Compiled /\ RtlOrderKept /\ OptFresh /\ LiborderIsWhole

\* Nothing changes under a generator that no compilation has overtaken: what it has read,
\* and what it wrote, is the order that is there.
RunRest(s) == \A k \in 1..Len(s) : s[k].do \in RunSteps
Undisturbed == \A g \in Generators : Running(g) /\ ~gens[g].late => RunRest(todo)
ReadIsCurrent ==
  \A g \in Generators :
    gens[g].pc \in {"open", "write"} /\ ~gens[g].late =>
      "liborder" \in DOMAIN files /\ gens[g].order = files.liborder
RemakeFresh ==
  remake # {} /\ spoilers = {} =>
    /\ "liborder" \in DOMAIN files /\ remake = {files.liborder}
    /\ RemakeRemovedFirst(todo)

RemakeInv == Undisturbed /\ ReadIsCurrent /\ RemakeFresh

-----------------------------------------------------------------------------
(* The recipes.                                                              *)

LEMMA TailFacts ==
  ASSUME NEW S, NEW s \in Seq(S), s # <<>>
  PROVE  /\ Tail(s) \in Seq(S) /\ Len(Tail(s)) = Len(s) - 1 /\ Len(s) \in Nat \ {0}
         /\ Head(s) = s[1] /\ s[1] \in S
         /\ \A k \in 1..Len(Tail(s)) : Tail(s)[k] = s[k + 1]
OBVIOUS

\* A sequence with the elements of two others is their concatenation; the lengths
\* that the recipes need.
LEMMA Joined ==
  ASSUME NEW S, NEW s \in Seq(S), NEW t \in Seq(S), NEW u \in Seq(S),
         Len(u) = Len(s) + Len(t),
         \A k \in 1..Len(s) : u[k] = s[k],
         \A k \in 1..Len(t) : u[Len(s) + k] = t[k]
  PROVE  s \o t = u
OBVIOUS

LEMMA Joined11 ==
  ASSUME NEW a, NEW b
  PROVE  <<a>> \o <<b>> = <<a, b>>
<1> DEFINE s == <<a>>  t == <<b>>
           u == <<a, b>>  S == {a, b}
<1>1. s \in Seq(S) /\ t \in Seq(S) /\ u \in Seq(S)
  OBVIOUS
<1>2. Len(u) = Len(s) + Len(t)
  OBVIOUS
<1>3. \A k \in 1..Len(s) : u[k] = s[k]
  OBVIOUS
<1>4. \A k \in 1..Len(t) : u[Len(s) + k] = t[k]
  OBVIOUS
<1> HIDE DEF S, s, t, u
<1>5. s \o t = u
  BY <1>1, <1>2, <1>3, <1>4, Joined
<1>6. QED
  BY <1>5 DEF s, t, u

LEMMA Joined12 ==
  ASSUME NEW a, NEW b, NEW c
  PROVE  <<a>> \o <<b, c>> = <<a, b, c>>
<1> DEFINE s == <<a>>  t == <<b, c>>
           u == <<a, b, c>>  S == {a, b, c}
<1>1. s \in Seq(S) /\ t \in Seq(S) /\ u \in Seq(S)
  OBVIOUS
<1>2. Len(u) = Len(s) + Len(t)
  OBVIOUS
<1>3. \A k \in 1..Len(s) : u[k] = s[k]
  OBVIOUS
<1>4. \A k \in 1..Len(t) : u[Len(s) + k] = t[k]
  OBVIOUS
<1> HIDE DEF S, s, t, u
<1>5. s \o t = u
  BY <1>1, <1>2, <1>3, <1>4, Joined
<1>6. QED
  BY <1>5 DEF s, t, u

LEMMA Joined21 ==
  ASSUME NEW a, NEW b, NEW c
  PROVE  <<a, b>> \o <<c>> = <<a, b, c>>
<1> DEFINE s == <<a, b>>  t == <<c>>
           u == <<a, b, c>>  S == {a, b, c}
<1>1. s \in Seq(S) /\ t \in Seq(S) /\ u \in Seq(S)
  OBVIOUS
<1>2. Len(u) = Len(s) + Len(t)
  OBVIOUS
<1>3. \A k \in 1..Len(s) : u[k] = s[k]
  OBVIOUS
<1>4. \A k \in 1..Len(t) : u[Len(s) + k] = t[k]
  OBVIOUS
<1> HIDE DEF S, s, t, u
<1>5. s \o t = u
  BY <1>1, <1>2, <1>3, <1>4, Joined
<1>6. QED
  BY <1>5 DEF s, t, u

LEMMA Joined13 ==
  ASSUME NEW a, NEW b, NEW c, NEW d
  PROVE  <<a>> \o <<b, c, d>> = <<a, b, c, d>>
<1> DEFINE s == <<a>>  t == <<b, c, d>>
           u == <<a, b, c, d>>  S == {a, b, c, d}
<1>1. s \in Seq(S) /\ t \in Seq(S) /\ u \in Seq(S)
  OBVIOUS
<1>2. Len(u) = Len(s) + Len(t)
  OBVIOUS
<1>3. \A k \in 1..Len(s) : u[k] = s[k]
  OBVIOUS
<1>4. \A k \in 1..Len(t) : u[Len(s) + k] = t[k]
  OBVIOUS
<1> HIDE DEF S, s, t, u
<1>5. s \o t = u
  BY <1>1, <1>2, <1>3, <1>4, Joined
<1>6. QED
  BY <1>5 DEF s, t, u

LEMMA Joined41 ==
  ASSUME NEW a, NEW b, NEW c, NEW d, NEW e
  PROVE  <<a, b, c, d>> \o <<e>> = <<a, b, c, d, e>>
<1> DEFINE s == <<a, b, c, d>>  t == <<e>>
           u == <<a, b, c, d, e>>  S == {a, b, c, d, e}
<1>1. s \in Seq(S) /\ t \in Seq(S) /\ u \in Seq(S)
  OBVIOUS
<1>2. Len(u) = Len(s) + Len(t)
  OBVIOUS
<1>3. \A k \in 1..Len(s) : u[k] = s[k]
  OBVIOUS
<1>4. \A k \in 1..Len(t) : u[Len(s) + k] = t[k]
  OBVIOUS
<1> HIDE DEF S, s, t, u
<1>5. s \o t = u
  BY <1>1, <1>2, <1>3, <1>4, Joined
<1>6. QED
  BY <1>5 DEF s, t, u

LEMMA Joined24 ==
  ASSUME NEW a, NEW b, NEW c, NEW d, NEW e, NEW f
  PROVE  <<a, b>> \o <<c, d, e, f>> = <<a, b, c, d, e, f>>
<1> DEFINE s == <<a, b>>  t == <<c, d, e, f>>
           u == <<a, b, c, d, e, f>>  S == {a, b, c, d, e, f}
<1>1. s \in Seq(S) /\ t \in Seq(S) /\ u \in Seq(S)
  OBVIOUS
<1>2. Len(u) = Len(s) + Len(t)
  OBVIOUS
<1>3. \A k \in 1..Len(s) : u[k] = s[k]
  OBVIOUS
<1>4. \A k \in 1..Len(t) : u[Len(s) + k] = t[k]
  OBVIOUS
<1> HIDE DEF S, s, t, u
<1>5. s \o t = u
  BY <1>1, <1>2, <1>3, <1>4, Joined
<1>6. QED
  BY <1>5 DEF s, t, u

LEMMA Joined54 ==
  ASSUME NEW a, NEW b, NEW c, NEW d, NEW e, NEW f, NEW g, NEW h, NEW i
  PROVE  <<a, b, c, d, e>> \o <<f, g, h, i>> = <<a, b, c, d, e, f, g, h, i>>
<1> DEFINE s == <<a, b, c, d, e>>  t == <<f, g, h, i>>
           u == <<a, b, c, d, e, f, g, h, i>>  S == {a, b, c, d, e, f, g, h, i}
<1>1. s \in Seq(S) /\ t \in Seq(S) /\ u \in Seq(S)
  OBVIOUS
<1>2. Len(u) = Len(s) + Len(t)
  OBVIOUS
<1>3. \A k \in 1..Len(s) : u[k] = s[k]
  OBVIOUS
<1>4. \A k \in 1..Len(t) : u[Len(s) + k] = t[k]
  OBVIOUS
<1> HIDE DEF S, s, t, u
<1>5. s \o t = u
  BY <1>1, <1>2, <1>3, <1>4, Joined
<1>6. QED
  BY <1>5 DEF s, t, u

RtlSteps ==
  << Do("remove_remake"), DoTo("compile_script", "rtl"), Do("mv_rtl_liborder") >>
TbSteps ==
  << DoTo("compile_script", "tb"), Do("cp_tb_liborder"), Do("cp_rtl_liborder"),
     Do("cat_tb_liborder") >>

\* The recipes of more than two steps, written out.
LEMMA RecipesWritten ==
  /\ Recipe["compile"] =
       << Do("clean"), Do("remove_remake"), DoTo("compile_script", "rtl"),
          Do("mv_rtl_liborder"), Do("remove_opts"), DoTo("compile_script", "tb"),
          Do("cp_tb_liborder"), Do("cp_rtl_liborder"), Do("cat_tb_liborder") >>
  /\ Recipe["compile_rtl"] = RtlSteps
  /\ Recipe["compile_tb"] = << Do("remove_opts"), Do("remove_remake"),
                               DoTo("compile_script", "tb"), Do("cp_tb_liborder"),
                               Do("cp_rtl_liborder"), Do("cat_tb_liborder") >>
  /\ Recipe["compile_rtl_fv"] = << DoTo("compile_script", "rtl"), Do("mv_rtl_liborder") >>
  /\ Recipe["formal"] =
       << Do("clean"), DoTo("compile_script", "rtl"), Do("mv_rtl_liborder") >>
  /\ Recipe["batch_block"] = << Do("generate_in_background"), Do("vsim") >>
  /\ Recipe["batch_chip"] = << Do("generate_in_background"), DoTo("vopt", "dbg"), Do("vsim") >>
<1>1. CompileRtl = RtlSteps
  <2>1. <<Do("remove_remake")>> \o CompileScript("rtl")
          = <<Do("remove_remake"), DoTo("compile_script", "rtl")>>
    BY Joined11 DEF CompileScript
  <2>2. QED
    BY <2>1, Joined21 DEF CompileRtl, RtlSteps
<1>2. CompileTbScript = TbSteps
  BY Joined13 DEF CompileTbScript, CompileScript, JoinLiborders, TbSteps
<1>3. Recipe["compile"] =
        << Do("clean"), Do("remove_remake"), DoTo("compile_script", "rtl"),
           Do("mv_rtl_liborder"), Do("remove_opts"), DoTo("compile_script", "tb"),
           Do("cp_tb_liborder"), Do("cp_rtl_liborder"), Do("cat_tb_liborder") >>
  <2>1. <<Do("clean")>> \o CompileRtl
          = << Do("clean"), Do("remove_remake"), DoTo("compile_script", "rtl"),
               Do("mv_rtl_liborder") >>
    BY <1>1, Joined13 DEF RtlSteps
  <2>2. <<Do("clean")>> \o CompileRtl \o <<Do("remove_opts")>>
          = << Do("clean"), Do("remove_remake"), DoTo("compile_script", "rtl"),
               Do("mv_rtl_liborder"), Do("remove_opts") >>
    BY <2>1, Joined41
  <2>3. ASSUME NEW a, NEW b, NEW c, NEW d, NEW e, NEW f, NEW g, NEW h, NEW i,
               a = Do("clean"), b = Do("remove_remake"), c = DoTo("compile_script", "rtl"),
               d = Do("mv_rtl_liborder"), e = Do("remove_opts"),
               f = DoTo("compile_script", "tb"), g = Do("cp_tb_liborder"),
               h = Do("cp_rtl_liborder"), i = Do("cat_tb_liborder")
        PROVE  Recipe["compile"] = <<a, b, c, d, e, f, g, h, i>>
    <3>1. Recipe["compile"] = <<a, b, c, d, e>> \o TbSteps
      BY <2>2, <2>3, <1>2 DEF Recipe
    <3>2. TbSteps = <<f, g, h, i>>
      BY <2>3 DEF TbSteps
    <3>3. <<a, b, c, d, e>> \o <<f, g, h, i>> = <<a, b, c, d, e, f, g, h, i>>
      BY Joined54
    <3>4. QED
      BY <3>1, <3>2, <3>3
  <2>4. QED
    BY <2>3
<1>4. Recipe["compile_tb"] = << Do("remove_opts"), Do("remove_remake"),
                               DoTo("compile_script", "tb"), Do("cp_tb_liborder"),
                               Do("cp_rtl_liborder"), Do("cat_tb_liborder") >>
  BY <1>2, Joined24 DEF Recipe, TbSteps
<1>5. Recipe["compile_rtl"] = RtlSteps
  BY <1>1 DEF Recipe
<1>6. CompileRtlFv = << DoTo("compile_script", "rtl"), Do("mv_rtl_liborder") >>
  BY Joined11 DEF CompileRtlFv, CompileScript
<1>6a. Recipe["compile_rtl_fv"] = << DoTo("compile_script", "rtl"), Do("mv_rtl_liborder") >>
  BY <1>6 DEF Recipe
<1>6b. Recipe["formal"] =
        << Do("clean"), DoTo("compile_script", "rtl"), Do("mv_rtl_liborder") >>
  BY <1>6, Joined12 DEF Recipe
<1>7. Recipe["batch_block"] = << Do("generate_in_background"), Do("vsim") >>
  BY Joined11 DEF Recipe, Vsim
<1>8. Recipe["batch_chip"] = << Do("generate_in_background"), DoTo("vopt", "dbg"), Do("vsim") >>
  BY Joined21 DEF Recipe, Vsim
<1>9. QED
  BY <1>3, <1>4, <1>5, <1>6a, <1>6b, <1>7, <1>8

\* Every recipe satisfies what the proofs use of the rest of a recipe.
WellMade(t, s) ==
  /\ InOrder(s) /\ s # <<>> /\ Head(s).do \in Unordered
  /\ Ends(t, s) /\ OptRemovedFirst(s)
  /\ t # "compile_rtl_fv" => RemakeRemovedFirst(s)
  /\ ~Compiles(t) => RunRest(s)

LEMMA StepFields ==
  /\ \A d : Do(d).do = d
  /\ \A d, what : DoTo(d, what).do = d /\ DoTo(d, what).to = what
BY DEF Do, DoTo

LEMMA StepsThere ==
  /\ \A d \in {"clean", "remove_remake", "remove_opts", "mv_rtl_liborder", "cp_tb_liborder",
                "cp_rtl_liborder", "cat_tb_liborder", "vsim", "generate", "await_generator",
                "generate_in_background", "make_all"} : Do(d) \in Steps
  /\ \A p \in Part : DoTo("compile_script", p) \in Steps /\ DoTo("compile_files", p) \in Steps
  /\ \A l \in Lib : DoTo("create_library", l) \in Steps
  /\ DoTo("vopt", "opt") \in Steps /\ DoTo("vopt", "dbg") \in Steps
BY DEF Steps, CompileSteps, RunSteps, Removers, OptRemovers, Mutators

LEMMA CompileWellMade ==
  WellMade("compile", Recipe["compile"])
<1> DEFINE s == Recipe["compile"]
<1>1. s \in Seq(Steps) /\ Len(s) = 9
  BY RecipesWritten, StepsThere DEF Part
<1>2. /\ s[1] = Do("clean")
      /\ s[2] = Do("remove_remake")
      /\ s[3] = DoTo("compile_script", "rtl")
      /\ s[4] = Do("mv_rtl_liborder")
      /\ s[5] = Do("remove_opts")
      /\ s[6] = DoTo("compile_script", "tb")
      /\ s[7] = Do("cp_tb_liborder")
      /\ s[8] = Do("cp_rtl_liborder")
      /\ s[9] = Do("cat_tb_liborder")
  BY RecipesWritten
<1>2a. /\ s[1].do = "clean"
      /\ s[2].do = "remove_remake"
      /\ s[3].do = "compile_script"
      /\ s[4].do = "mv_rtl_liborder"
      /\ s[5].do = "remove_opts"
      /\ s[6].do = "compile_script"
      /\ s[7].do = "cp_tb_liborder"
      /\ s[8].do = "cp_rtl_liborder"
      /\ s[9].do = "cat_tb_liborder"
      /\ s[3].to = "rtl"
      /\ s[6].to = "tb"
  BY <1>2, StepFields
<1> HIDE DEF s
<1>3. \A k \in 1..8 : s[k + 1].do \in Successors(s[k])
  BY <1>2a DEF Successors, Unordered, Removers, OptRemovers, RunSteps
<1>4. \A k \in 1..9 : s[k].do \in CompileSteps
  BY <1>2a DEF CompileSteps, Removers, OptRemovers, Mutators
<1>5. s # <<>>
  BY <1>1
<1>5a. Head(s).do \in Unordered
  BY <1>1, <1>5, <1>2a, TailFacts DEF Unordered, Removers, OptRemovers
<1>6. RemakeRemovedFirst(s)
  BY <1>1, <1>2a DEF RemakeRemovedFirst, Removers, Mutators
<1>7. OptRemovedFirst(s)
  BY <1>1, <1>2a, StepFields DEF OptRemovedFirst, OptRemovers
<1>8. InOrder(s)
  BY <1>1, <1>2a, <1>3, <1>4 DEF InOrder, Final
<1>9. QED
  BY <1>1, <1>2a, <1>5, <1>5a, <1>6, <1>7, <1>8 DEF s, WellMade, Ends, Compiles

LEMMA CompileTbWellMade ==
  WellMade("compile_tb", Recipe["compile_tb"])
<1> DEFINE s == Recipe["compile_tb"]
<1>1. s \in Seq(Steps) /\ Len(s) = 6
  BY RecipesWritten, StepsThere DEF Part
<1>2. /\ s[1] = Do("remove_opts")
      /\ s[2] = Do("remove_remake")
      /\ s[3] = DoTo("compile_script", "tb")
      /\ s[4] = Do("cp_tb_liborder")
      /\ s[5] = Do("cp_rtl_liborder")
      /\ s[6] = Do("cat_tb_liborder")
  BY RecipesWritten
<1>2a. /\ s[1].do = "remove_opts"
      /\ s[2].do = "remove_remake"
      /\ s[3].do = "compile_script"
      /\ s[4].do = "cp_tb_liborder"
      /\ s[5].do = "cp_rtl_liborder"
      /\ s[6].do = "cat_tb_liborder"
      /\ s[3].to = "tb"
  BY <1>2, StepFields
<1> HIDE DEF s
<1>3. \A k \in 1..5 : s[k + 1].do \in Successors(s[k])
  BY <1>2a DEF Successors, Unordered, Removers, OptRemovers, RunSteps
<1>4. \A k \in 1..6 : s[k].do \in CompileSteps
  BY <1>2a DEF CompileSteps, Removers, OptRemovers, Mutators
<1>5. s # <<>>
  BY <1>1
<1>5a. Head(s).do \in Unordered
  BY <1>1, <1>5, <1>2a, TailFacts DEF Unordered, Removers, OptRemovers
<1>6. RemakeRemovedFirst(s)
  BY <1>1, <1>2a DEF RemakeRemovedFirst, Removers, Mutators
<1>7. OptRemovedFirst(s)
  BY <1>1, <1>2a, StepFields DEF OptRemovedFirst, OptRemovers
<1>8. InOrder(s)
  BY <1>1, <1>2a, <1>3, <1>4 DEF InOrder, Final
<1>9. QED
  BY <1>1, <1>2a, <1>5, <1>5a, <1>6, <1>7, <1>8 DEF s, WellMade, Ends, Compiles

LEMMA RtlWellMade ==
  ASSUME NEW t \in {"compile_rtl", "formal"}, NEW s \in Seq(Steps), Len(s) = 3,
         s[1].do \in Removers, s[2] = DoTo("compile_script", "rtl"), s[3] = Do("mv_rtl_liborder")
  PROVE  WellMade(t, s)
<1>0. /\ s[2].do = "compile_script" /\ s[2].to = "rtl" /\ s[3].do = "mv_rtl_liborder"
  BY StepFields
<1>1. \A k \in 1..2 : s[k + 1].do \in Successors(s[k])
  BY <1>0 DEF Successors, Unordered, Removers
<1>2. \A k \in 1..3 : s[k].do \in CompileSteps
  BY <1>0 DEF CompileSteps, Removers, OptRemovers, Mutators
<1>3. s[3].do \in Final /\ Head(s).do \in Unordered /\ s # <<>>
  BY <1>0 DEF Final, Unordered, Removers
<1>4. RemakeRemovedFirst(s)
  BY <1>0 DEF RemakeRemovedFirst, Removers, Mutators
<1>5. OptRemovedFirst(s)
  BY <1>0, StepFields DEF OptRemovedFirst, Removers
<1>6. InOrder(s)
  BY <1>1, <1>2, <1>3 DEF InOrder
<1>7. QED
  BY <1>3, <1>4, <1>5, <1>6 DEF WellMade, Ends, Compiles

\* compile_rtl_fv removes nothing.
LEMMA RtlFvWellMade ==
  ASSUME NEW s \in Seq(Steps), Len(s) = 2,
         s[1] = DoTo("compile_script", "rtl"), s[2] = Do("mv_rtl_liborder")
  PROVE  WellMade("compile_rtl_fv", s)
<1>0. /\ s[1].do = "compile_script" /\ s[1].to = "rtl" /\ s[2].do = "mv_rtl_liborder"
  BY StepFields
<1>1. s[2].do \in Successors(s[1])
  BY <1>0 DEF Successors
<1>2. \A k \in 1..2 : s[k].do \in CompileSteps
  BY <1>0 DEF CompileSteps, Mutators
<1>3. s[2].do \in Final /\ Head(s).do \in Unordered /\ s # <<>>
  BY <1>0 DEF Final, Unordered
<1>4. OptRemovedFirst(s)
  BY <1>0, StepFields DEF OptRemovedFirst
<1>5. InOrder(s)
  BY <1>1, <1>2, <1>3 DEF InOrder
<1>6. QED
  BY <1>3, <1>4, <1>5 DEF WellMade, Ends, Compiles

LEMMA RunWellMade ==
  ASSUME NEW t, t \notin {"compile", "compile_tb"}, NEW s \in Seq(Steps), s # <<>>,
         \A k \in 1..Len(s) : s[k].do \in RunSteps
  PROVE  WellMade(t, s)
<1>1. \A k \in 1..(Len(s) - 1) : s[k + 1].do \in Successors(s[k])
  BY DEF Successors, Unordered, RunSteps
<1>2. s[Len(s)].do \in RunSteps /\ Head(s).do \in RunSteps /\ Len(s) \in Nat \ {0}
  OBVIOUS
<1>3. RemakeRemovedFirst(s)
  BY DEF RemakeRemovedFirst, RunSteps, Mutators
<1>4. OptRemovedFirst(s)
  BY DEF OptRemovedFirst, RunSteps, DoTo
<1>5. InOrder(s)
  BY <1>1, <1>2 DEF InOrder, Final
<1>6. QED
  BY <1>2, <1>3, <1>4, <1>5 DEF WellMade, Ends, Unordered, RunRest

LEMMA RecipesWellMade ==
  \A t \in DOMAIN Recipe : WellMade(t, Recipe[t])
<1>1. DOMAIN Recipe = {"compile", "compile_rtl", "compile_tb", "compile_rtl_fv", "formal",
                       "opt", "create_recompile", "recompile", "batch_block", "batch_chip"}
  BY DEF Recipe
<1>2. WellMade("compile_rtl", Recipe["compile_rtl"])
  <2> DEFINE s == Recipe["compile_rtl"]
  <2>1. s \in Seq(Steps) /\ Len(s) = 3
    BY RecipesWritten, StepsThere DEF RtlSteps, Part
  <2>2. /\ s[1] = Do("remove_remake") /\ s[2] = DoTo("compile_script", "rtl")
        /\ s[3] = Do("mv_rtl_liborder")
    BY RecipesWritten DEF RtlSteps
  <2> HIDE DEF s
  <2>3. s[1].do \in Removers
    BY <2>2, StepFields DEF Removers
  <2>4. QED
    BY <2>1, <2>2, <2>3, RtlWellMade DEF s
<1>3. WellMade("formal", Recipe["formal"])
  <2> DEFINE s == Recipe["formal"]
  <2>1. s \in Seq(Steps) /\ Len(s) = 3
    BY RecipesWritten, StepsThere DEF Part
  <2>2. s[1] = Do("clean") /\ s[2] = DoTo("compile_script", "rtl") /\ s[3] = Do("mv_rtl_liborder")
    BY RecipesWritten
  <2> HIDE DEF s
  <2>3. s[1].do \in Removers
    BY <2>2, StepFields DEF Removers
  <2>4. QED
    BY <2>1, <2>2, <2>3, RtlWellMade DEF s
<1>3a. WellMade("compile_rtl_fv", Recipe["compile_rtl_fv"])
  <2> DEFINE s == Recipe["compile_rtl_fv"]
  <2>1. s \in Seq(Steps) /\ Len(s) = 2
    BY RecipesWritten, StepsThere DEF Part
  <2>2. s[1] = DoTo("compile_script", "rtl") /\ s[2] = Do("mv_rtl_liborder")
    BY RecipesWritten
  <2> HIDE DEF s
  <2>3. QED
    BY <2>1, <2>2, RtlFvWellMade DEF s
<1>4. ASSUME NEW t \in {"opt", "create_recompile", "recompile", "batch_block", "batch_chip"}
      PROVE  WellMade(t, Recipe[t])
  <2> DEFINE Runs == {<<DoTo("vopt", "opt"), DoTo("vopt", "dbg")>>,
                     <<Do("generate"), Do("await_generator")>>,
                     <<Do("generate_in_background"), Do("make_all")>>,
                     <<Do("generate_in_background"), Do("vsim")>>,
                     <<Do("generate_in_background"), DoTo("vopt", "dbg"), Do("vsim")>>}
  <2>1. Recipe[t] \in Runs
    <3>1. /\ Recipe["opt"] = <<DoTo("vopt", "opt"), DoTo("vopt", "dbg")>>
          /\ Recipe["create_recompile"] = <<Do("generate"), Do("await_generator")>>
          /\ Recipe["recompile"] = <<Do("generate_in_background"), Do("make_all")>>
      BY DEF Recipe
    <3>2. QED
      BY <3>1, RecipesWritten
  <2>2. \A s \in Runs : s # <<>>
    OBVIOUS
  <2>2a. \A s \in Runs : s \in Seq(Steps)
    <3>1. \A a, b \in Steps : <<a, b>> \in Seq(Steps)
      OBVIOUS
    <3>2. \A a, b, c \in Steps : <<a, b, c>> \in Seq(Steps)
      OBVIOUS
    <3>3. /\ DoTo("vopt", "opt") \in Steps /\ DoTo("vopt", "dbg") \in Steps
          /\ Do("generate") \in Steps /\ Do("await_generator") \in Steps
          /\ Do("generate_in_background") \in Steps /\ Do("make_all") \in Steps
          /\ Do("vsim") \in Steps
      BY StepsThere
    <3>4. QED
      BY <3>1, <3>2, <3>3
  <2>3. \A s \in Runs : \A k \in 1..Len(s) : s[k].do \in RunSteps
    BY StepFields DEF RunSteps
  <2> HIDE DEF Runs
  <2>4. QED
    BY <2>1, <2>2, <2>2a, <2>3, RunWellMade
<1>5. QED
  BY <1>1, <1>2, <1>3, <1>3a, <1>4, CompileWellMade, CompileTbWellMade

-----------------------------------------------------------------------------
(* What is true of a recipe's rest stays true of the rest of that.           *)

LEMMA StepKinds ==
  ASSUME NEW a \in Steps
  PROVE  /\ a.do \in CompileSteps \cup RunSteps
         /\ a.do \in {"compile_script", "compile_files"} => a = DoTo(a.do, a.to) /\ a.to \in Part
         /\ a.do = "create_library" => a.to \in Lib
         /\ a.do = "vopt" => a.to \in {"opt", "dbg"}
<1>1. CASE \E d \in (CompileSteps \cup RunSteps)
                      \ {"compile_script", "compile_files", "create_library", "vopt"} : a = Do(d)
  BY <1>1, StepFields
<1>2. CASE \E d \in {"compile_script", "compile_files"}, p \in Part : a = DoTo(d, p)
  BY <1>2, StepFields DEF CompileSteps, Mutators
<1>3. CASE \E l \in Lib : a = DoTo("create_library", l)
  BY <1>3, StepFields DEF CompileSteps, Mutators
<1>4. CASE \E s \in {"opt", "dbg"} : a = DoTo("vopt", s)
  BY <1>4, StepFields DEF RunSteps
<1>5. QED
  BY <1>1, <1>2, <1>3, <1>4 DEF Steps

LEMMA TailInOrder ==
  ASSUME NEW s, InOrder(s), s # <<>>
  PROVE  /\ InOrder(Tail(s))
         /\ Tail(s) # <<>> => Head(Tail(s)).do \in Successors(Head(s))
         /\ Tail(s) = <<>> => Head(s).do \in Final
         /\ Head(s) \in Steps
<1> DEFINE t == Tail(s)
<1>1. /\ s \in Seq(Steps)
      /\ t \in Seq(Steps) /\ Len(t) = Len(s) - 1 /\ Len(s) \in Nat \ {0}
      /\ Head(s) = s[1] /\ s[1] \in Steps
      /\ \A k \in 1..Len(t) : t[k] = s[k + 1]
  BY TailFacts DEF InOrder
<1>2. t # <<>> => Head(t) = t[1] /\ Len(t) \in Nat \ {0}
  BY <1>1, TailFacts
<1> HIDE DEF t
<1>3. \A k \in 1..(Len(t) - 1) : t[k + 1].do \in Successors(t[k])
  <2>1. TAKE k \in 1..(Len(t) - 1)
  <2>2. t[k + 1] = s[k + 2] /\ t[k] = s[k + 1] /\ k + 1 \in 1..(Len(s) - 1)
    BY <1>1
  <2>3. s[(k + 1) + 1].do \in Successors(s[k + 1])
    BY <2>2 DEF InOrder
  <2>4. (k + 1) + 1 = k + 2
    OBVIOUS
  <2>5. QED
    BY <2>2, <2>3, <2>4
<1>4. t # <<>> => t[Len(t)].do \in Final
  BY <1>1, <1>2 DEF InOrder
<1>5. \/ \A k \in 1..Len(t) : t[k].do \in CompileSteps
      \/ \A k \in 1..Len(t) : t[k].do \in RunSteps
  BY <1>1 DEF InOrder
<1>6. InOrder(t)
  BY <1>1, <1>3, <1>4, <1>5 DEF InOrder
<1>7. t # <<>> => t[1].do \in Successors(s[1])
  BY <1>1, <1>2 DEF InOrder
<1>8. ASSUME t = <<>> PROVE s[1].do \in Final
  <2>1. Len(t) = 0
    BY <1>8
  <2>2. Len(s) = 1
    BY <1>1, <2>1
  <2>3. QED
    BY <2>2 DEF InOrder
<1>9. QED
  BY <1>1, <1>2, <1>6, <1>7, <1>8 DEF t

LEMMA TailKeeps ==
  ASSUME NEW s \in Seq(Steps), s # <<>>
  PROVE  /\ RemakeRemovedFirst(s) /\ Head(s).do \notin Removers => RemakeRemovedFirst(Tail(s))
         /\ OptRemovedFirst(s) /\ Head(s).do \notin OptRemovers => OptRemovedFirst(Tail(s))
         /\ \A t : Ends(t, s) => /\ Ends(t, Tail(s))
                                 /\ t \in {"compile", "compile_tb"} /\ Tail(s) = <<>>
                                      => Head(s).do = "cat_tb_liborder"
<1> DEFINE t == Tail(s)
<1>1. /\ t \in Seq(Steps) /\ Len(t) = Len(s) - 1 /\ Len(s) \in Nat \ {0}
      /\ Head(s) = s[1]
      /\ \A k \in 1..Len(t) : t[k] = s[k + 1]
  BY TailFacts
<1> HIDE DEF t
<1>2. ASSUME RemakeRemovedFirst(s), s[1].do \notin Removers
      PROVE  RemakeRemovedFirst(t)
  <2>1. SUFFICES ASSUME NEW k \in 1..Len(t), t[k].do \in Mutators
                 PROVE  \E j \in 1..(k - 1) : t[j].do \in Removers
    BY DEF RemakeRemovedFirst
  <2>2. k + 1 \in 1..Len(s) /\ s[k + 1].do \in Mutators
    BY <1>1, <2>1
  <2>3. PICK j \in 1..((k + 1) - 1) : s[j].do \in Removers
    BY <1>2, <2>2 DEF RemakeRemovedFirst
  <2>4. j # 1 /\ j - 1 \in 1..(k - 1) /\ j - 1 \in 1..Len(t) /\ (j - 1) + 1 = j
    BY <1>1, <1>2, <2>1, <2>3
  <2>5. t[j - 1] = s[j]
    BY <1>1, <2>4
  <2>6. QED
    BY <2>3, <2>4, <2>5
<1>3. ASSUME OptRemovedFirst(s), s[1].do \notin OptRemovers
      PROVE  OptRemovedFirst(t)
  <2>1. SUFFICES ASSUME NEW k \in 1..Len(t), t[k] = DoTo("compile_script", "tb")
                 PROVE  \E j \in 1..(k - 1) : t[j].do \in OptRemovers
    BY DEF OptRemovedFirst
  <2>2. k + 1 \in 1..Len(s) /\ s[k + 1] = DoTo("compile_script", "tb")
    BY <1>1, <2>1
  <2>3. PICK j \in 1..((k + 1) - 1) : s[j].do \in OptRemovers
    BY <1>3, <2>2 DEF OptRemovedFirst
  <2>4. j # 1 /\ j - 1 \in 1..(k - 1) /\ j - 1 \in 1..Len(t) /\ (j - 1) + 1 = j
    BY <1>1, <1>3, <2>1, <2>3
  <2>5. t[j - 1] = s[j]
    BY <1>1, <2>4
  <2>6. QED
    BY <2>3, <2>4, <2>5
<1>4. ASSUME NEW u, Ends(u, s)
      PROVE  /\ Ends(u, t)
             /\ u \in {"compile", "compile_tb"} /\ t = <<>> => s[1].do = "cat_tb_liborder"
  <2>1. t # <<>> => t[Len(t)] = s[Len(s)]
    BY <1>1
  <2>2. t = <<>> => Len(s) = 1
    BY <1>1
  <2>3. QED
    BY <1>4, <2>1, <2>2 DEF Ends
<1>5. QED
  BY <1>1, <1>2, <1>3, <1>4 DEF t

LEMMA NonEmpty ==
  ASSUME NEW S, NEW s \in Seq(S)
  PROVE  Len(s) \in Nat /\ (s # <<>> <=> Len(s) # 0)
OBVIOUS

LEMMA ConcatFacts ==
  ASSUME NEW s \in Seq(Steps), NEW t \in Seq(Steps)
  PROVE  /\ s \o t \in Seq(Steps) /\ Len(s \o t) = Len(s) + Len(t)
         /\ Len(s) \in Nat /\ Len(t) \in Nat
         /\ \A k \in 1..Len(s) : (s \o t)[k] = s[k]
         /\ \A k \in 1..Len(t) : (s \o t)[Len(s) + k] = t[k]
OBVIOUS

\* questa_compile.pl puts the creation of the libraries and the compilation of the
\* files in place of itself.
Started(p, libs, s) ==
  [k \in 1..Len(libs) |-> DoTo("create_library", libs[k])]
    \o <<DoTo("compile_files", p)>> \o Tail(s)

LEMMA ScriptStarted ==
  ASSUME NEW s, InOrder(s), s # <<>>, Head(s).do = "compile_script",
         NEW libs \in Seq(Lib) \ {<<>>}, NEW u,
         u = Started(Head(s).to, libs, s)
  PROVE  /\ u \in Seq(Steps) /\ Len(u) = Len(libs) + Len(s)
         /\ \A k \in 1..Len(libs) : u[k] = DoTo("create_library", libs[k])
         /\ u[Len(libs) + 1] = DoTo("compile_files", Head(s).to)
         /\ \A k \in 2..Len(s) : u[Len(libs) + k] = s[k]
         /\ Len(libs) \in Nat \ {0} /\ Len(s) \in Nat \ {0, 1} /\ u # <<>>
<1> DEFINE n == Len(libs)
           creates == [k \in 1..n |-> DoTo("create_library", libs[k])]
           compiles == <<DoTo("compile_files", Head(s).to)>>
<1>1. n \in Nat \ {0} /\ \A k \in 1..n : libs[k] \in Lib
  OBVIOUS
<1>2. creates \in Seq(Steps) /\ Len(creates) = n
  BY <1>1, StepsThere
<1>3. Head(s) \in Steps /\ Head(s).to \in Part
  BY TailInOrder, StepKinds
<1>4. compiles \in Seq(Steps) /\ Len(compiles) = 1
  BY <1>3, StepsThere
<1>5. /\ Tail(s) \in Seq(Steps) /\ Len(Tail(s)) = Len(s) - 1 /\ Len(s) \in Nat \ {0}
      /\ \A k \in 1..Len(Tail(s)) : Tail(s)[k] = s[k + 1]
      /\ Head(s) = s[1]
  BY TailFacts DEF InOrder
<1>6. Tail(s) # <<>>
  BY TailInOrder DEF Final, RunSteps
<1>7. Len(s) # 1
  <2>1. Len(Tail(s)) # 0
    BY <1>5, <1>6, NonEmpty
  <2>2. QED
    BY <1>5, <2>1
<1>8. \A k \in 1..n : creates[k] = DoTo("create_library", libs[k])
  OBVIOUS
<1>9. compiles[1] = DoTo("compile_files", Head(s).to)
  OBVIOUS
<1>10. u = creates \o compiles \o Tail(s)
  BY DEF Started
<1> HIDE DEF creates, compiles, n
<1>11. /\ creates \o compiles \in Seq(Steps) /\ Len(creates \o compiles) = n + 1
       /\ \A k \in 1..n : (creates \o compiles)[k] = creates[k]
       /\ (creates \o compiles)[n + 1] = compiles[1]
  <2>1. /\ creates \o compiles \in Seq(Steps)
        /\ Len(creates \o compiles) = Len(creates) + Len(compiles)
        /\ \A k \in 1..Len(creates) : (creates \o compiles)[k] = creates[k]
        /\ \A k \in 1..Len(compiles) : (creates \o compiles)[Len(creates) + k] = compiles[k]
    BY <1>2, <1>4, ConcatFacts
  <2>2. QED
    BY <1>1, <1>2, <1>4, <2>1
<1> DEFINE first == creates \o compiles
<1> HIDE DEF first
<1>12. /\ u \in Seq(Steps) /\ Len(u) = n + 1 + (Len(s) - 1)
       /\ \A k \in 1..(n + 1) : u[k] = first[k]
       /\ \A k \in 1..(Len(s) - 1) : u[n + 1 + k] = Tail(s)[k]
  <2>1. first \in Seq(Steps) /\ Len(first) = n + 1 /\ u = first \o Tail(s)
    BY <1>10, <1>11 DEF first
  <2> DEFINE rest == Tail(s)
  <2> HIDE DEF rest
  <2>2. /\ u \in Seq(Steps) /\ Len(u) = Len(first) + Len(Tail(s))
        /\ \A k \in 1..Len(first) : u[k] = first[k]
        /\ \A k \in 1..Len(Tail(s)) : u[Len(first) + k] = Tail(s)[k]
    <3>1. rest \in Seq(Steps) /\ u = first \o rest
      BY <1>5, <2>1 DEF rest
    <3>2. /\ first \o rest \in Seq(Steps) /\ Len(first \o rest) = Len(first) + Len(rest)
          /\ \A k \in 1..Len(first) : (first \o rest)[k] = first[k]
          /\ \A k \in 1..Len(rest) : (first \o rest)[Len(first) + k] = rest[k]
      BY <3>1, <2>1, ConcatFacts
    <3>3. QED
      BY <3>1, <3>2 DEF rest
  <2>3. QED
    BY <1>5, <2>1, <2>2
<1>13. \A k \in 2..Len(s) : u[n + k] = s[k]
  <2>1. TAKE k \in 2..Len(s)
  <2>2. k - 1 \in 1..(Len(s) - 1) /\ n + 1 + (k - 1) = n + k /\ (k - 1) + 1 = k
    BY <1>1, <1>5
  <2>3. u[n + 1 + (k - 1)] = Tail(s)[k - 1] /\ Tail(s)[k - 1] = s[(k - 1) + 1]
    BY <1>5, <1>12, <2>2
  <2>4. QED
    BY <2>2, <2>3
<1>14. Len(u) = n + Len(s) /\ u # <<>>
  <2> DEFINE m == Len(s)
  <2>1. n \in Nat \ {0} /\ m \in Nat \ {0} /\ Len(u) = n + 1 + (m - 1)
    BY <1>1, <1>5, <1>12
  <2> HIDE DEF m
  <2>1a. n + 1 + (m - 1) = n + m /\ n + m # 0
    BY <2>1
  <2>2. QED
    BY <2>1, <2>1a, <1>12, NonEmpty DEF m
<1>15. \A k \in 1..n : u[k] = DoTo("create_library", libs[k])
  <2>1. TAKE k \in 1..n
  <2>2. k \in 1..(n + 1)
    BY <1>1
  <2>3. u[k] = first[k] /\ first[k] = creates[k]
    BY <2>2, <1>11, <1>12 DEF first
  <2>4. QED
    BY <1>8, <2>3
<1>16. u[n + 1] = DoTo("compile_files", Head(s).to)
  <2>1. n + 1 \in 1..(n + 1)
    BY <1>1
  <2>2. QED
    BY <2>1, <1>9, <1>11, <1>12 DEF first
<1>17. QED
  BY <1>1, <1>5, <1>7, <1>12, <1>13, <1>14, <1>15, <1>16 DEF n

LEMMA ScriptInOrder ==
  ASSUME NEW s, InOrder(s), s # <<>>, s[1].do = "compile_script", s[1].to \in Part,
         NEW m \in Nat \ {0, 1}, Len(s) = m, NEW n \in Nat \ {0},
         NEW u \in Seq(Steps), u # <<>>, Len(u) = n + m,
         \A k \in 1..n : u[k].do = "create_library",
         u[n + 1] = DoTo("compile_files", s[1].to),
         \A k \in 2..m : u[n + k] = s[k]
  PROVE  /\ InOrder(u)
         /\ \A t : Ends(t, s) => Ends(t, u)
         /\ OptRemovedFirst(s) => OptRemovedFirst(u)
<1>1. u[n + 1].do = "compile_files" /\ u[n + 1].to = s[1].to
  BY StepFields
<1>2. s[2].do \in Successors(s[1])
  <2>1. 1 \in 1..(m - 1) /\ 1 + 1 = 2
    OBVIOUS
  <2>2. s[1 + 1].do \in Successors(s[1])
    BY <2>1 DEF InOrder
  <2>3. QED
    BY <2>1, <2>2
<1>3. s[2].do \in Successors(u[n + 1])
  BY <1>1, <1>2 DEF Successors, Part
<1>4. ASSUME NEW k \in 1..(n + m - 1)
      PROVE  u[k + 1].do \in Successors(u[k])
  <2>1. CASE k \in 1..(n - 1)
    <3>1. u[k].do = "create_library" /\ u[k + 1].do = "create_library"
      BY <2>1
    <3>2. QED
      BY <3>1 DEF Successors
  <2>2. CASE k = n
    <3>1. u[k].do = "create_library" /\ u[k + 1].do = "compile_files"
      BY <1>1, <2>2
    <3>2. QED
      BY <3>1 DEF Successors
  <2>3. CASE k = n + 1
    <3>1. u[k + 1] = s[2]
      <4>1. u[n + 2] = s[2] /\ n + 2 = k + 1
        BY <2>3
      <4>2. QED
        BY <4>1
    <3>2. QED
      BY <1>3, <2>3, <3>1
  <2>4. CASE k \in (n + 2)..(n + m - 1)
    <3>1. PICK i \in 2..(m - 1) : k = n + i
      <4>1. k - n \in 2..(m - 1) /\ k = n + (k - n)
        BY <2>4
      <4>2. QED
        BY <4>1
    <3>2. u[n + i] = s[i] /\ u[n + (i + 1)] = s[i + 1] /\ n + (i + 1) = k + 1
      BY <3>1
    <3>3. s[i + 1].do \in Successors(s[i])
      BY <3>1 DEF InOrder
    <3>4. QED
      BY <3>1, <3>2, <3>3
  <2>5. QED
    BY <2>1, <2>2, <2>3, <2>4
<1>5. u[n + m] = s[m]
  BY m \in 2..m
<1>6. \A k \in 1..m : s[k].do \in CompileSteps
  <2>1. s[1].do \notin RunSteps /\ 1 \in 1..m
    BY DEF RunSteps
  <2>2. QED
    BY <2>1 DEF InOrder
<1>7. ASSUME NEW k \in 1..(n + m)
      PROVE  u[k].do \in CompileSteps
  <2>1. CASE k \in 1..n
    BY <2>1 DEF CompileSteps, Mutators
  <2>2. CASE k = n + 1
    BY <1>1, <2>2 DEF CompileSteps
  <2>3. CASE k \in (n + 2)..(n + m)
    <3>1. k - n \in 2..m /\ k = n + (k - n)
      BY <2>3
    <3>2. u[n + (k - n)] = s[k - n]
      BY <3>1
    <3>3. QED
      BY <1>6, <3>1, <3>2
  <2>4. QED
    BY <2>1, <2>2, <2>3
<1>8. InOrder(u)
  <2>1. s[m].do \in Final
    BY DEF InOrder
  <2>2. QED
    BY <1>4, <1>5, <1>7, <2>1 DEF InOrder
<1>9. \A t : Ends(t, s) => Ends(t, u)
  BY <1>5 DEF Ends
<1>10. ASSUME OptRemovedFirst(s), NEW k \in 1..(n + m), u[k] = DoTo("compile_script", "tb")
       PROVE  \E j \in 1..(k - 1) : u[j].do \in OptRemovers
  <2>1. u[k].do = "compile_script"
    BY <1>10, StepFields
  <2>2. k - n \in 2..m /\ k = n + (k - n)
    <3>1. k \notin 1..n /\ k # n + 1 /\ k \in 1..(n + m)
      BY <1>1, <2>1
    <3>2. QED
      BY <3>1
  <2>3. u[k] = s[k - n]
    BY <2>2
  <2>4. PICK j \in 1..((k - n) - 1) : s[j].do \in OptRemovers
    BY <1>10, <2>2, <2>3 DEF OptRemovedFirst
  <2>5. j # 1
    BY <2>4 DEF OptRemovers
  <2>6. u[n + j] = s[j] /\ n + j \in 1..(k - 1)
    BY <2>2, <2>4, <2>5
  <2>7. QED
    BY <2>4, <2>6
<1>11. QED
  BY <1>8, <1>9, <1>10 DEF OptRemovedFirst

-----------------------------------------------------------------------------
(* What the steps have in common.                                            *)

\* The part of the types that is about files.
FileTypes ==
  /\ DOMAIN files \subseteq {"liborder", "rtl_liborder", "tb_liborder"}
  /\ \A f \in DOMAIN files : files[f] \in Seq(Lib) \ {<<>>}
  /\ files # <<>> => made

\* Where the next step is one that may follow any, nothing is due to it.
LEMMA NothingDue ==
  ASSUME todo' = <<>> \/ Head(todo').do \in Unordered
  PROVE  Creating' /\ Compiled' /\ (RtlOrderKept' <=> ("rtl_liborder" \in DOMAIN files =>
                                      Lists("rtl_liborder", "rtl", built["rtl"]))')
BY DEF At, Creating, Compiled, RtlOrderKept, Unordered, Removers, OptRemovers, RunSteps

LEMMA NoSteps ==
  InOrder(<<>>) /\ OptRemovedFirst(<<>>) /\ RemakeRemovedFirst(<<>>)
<1>1. <<>> \in Seq(Steps)
  OBVIOUS
<1>2. Len(<<>>) = 0
  OBVIOUS
<1>3. QED
  BY <1>1, <1>2 DEF InOrder, OptRemovedFirst, RemakeRemovedFirst

LEMMA Proceeds ==
  ASSUME IInv, todo # <<>>, Proceed
  PROVE  /\ InOrder(todo') /\ Ends(target', todo') /\ Head(todo) \in Steps
         /\ Head(todo).do # "cat_tb_liborder" => LiborderIsWhole'
         /\ todo' # <<>> => Head(todo').do \in Successors(Head(todo))
         /\ todo' = <<>> => Head(todo).do \in Final
         /\ OptRemovedFirst(todo) /\ Head(todo).do \notin OptRemovers => OptRemovedFirst(todo')
<1>1. InOrder(todo) /\ Ends(target, todo) /\ todo \in Seq(Steps)
  BY DEF IInv, InOrder
<1>2. todo' = Tail(todo) /\ target' = target
  BY DEF Proceed
<1>3. /\ InOrder(todo') /\ Head(todo) \in Steps
      /\ todo' # <<>> => Head(todo').do \in Successors(Head(todo))
      /\ todo' = <<>> => Head(todo).do \in Final
  BY <1>1, <1>2, TailInOrder
<1>4. /\ OptRemovedFirst(todo) /\ Head(todo).do \notin OptRemovers => OptRemovedFirst(todo')
      /\ Ends(target', todo')
      /\ target' \in {"compile", "compile_tb"} /\ todo' = <<>> => Head(todo).do = "cat_tb_liborder"
  BY <1>1, <1>2, TailKeeps
<1>5. Head(todo).do # "cat_tb_liborder" => LiborderIsWhole'
  BY <1>4 DEF LiborderIsWhole
<1>6. QED
  BY <1>3, <1>4, <1>5

LEMMA Fails ==
  ASSUME IInv, Fail
  PROVE  /\ InOrder(todo') /\ Ends(target', todo') /\ LiborderIsWhole' /\ OptRemovedFirst(todo')
         /\ Creating' /\ Compiled'
<1>1. todo' = <<>> /\ target' = ""
  BY DEF Fail
<1>2. LiborderIsWhole'
  BY <1>1 DEF LiborderIsWhole
<1>3. QED
  BY <1>1, <1>2, NoSteps, NothingDue DEF Ends

OtherTypes ==
  /\ \A p \in Part : rev[p] \in Revisions(p)
  /\ \A p \in Part : built[p] \in Revisions(p) \cup {NotBuilt}
  /\ target \in DOMAIN Recipe \cup {""}
  /\ made \in BOOLEAN
  /\ DOMAIN snap \subseteq {"opt", "dbg"}
  /\ \A s \in DOMAIN snap : snap[s] \in {"", "library", "tb"}
  /\ remake \subseteq Seq(Lib)
  /\ remake # {} => made
  /\ spoilers \subseteq {"compile_rtl_fv", "overtaken"}

LEMMA TypesApart ==
  ASSUME IInv
  PROVE  FileTypes /\ OtherTypes /\ FunctionTypes /\ GeneratorTypes
BY DEF IInv, TypeOK, FileTypes, OtherTypes

LEMMA TypesTogether ==
  ASSUME FileTypes', OtherTypes', GeneratorTypes'
  PROVE  TypeOK'
<1>1. \A g \in Generators : gens'[g].pc \in {"idle", "test", "read", "open", "write", "failed"}
  BY DEF GeneratorTypes
<1>2. QED
  BY <1>1 DEF TypeOK, FileTypes, OtherTypes

LEMMA IInvParts ==
  ASSUME FileTypes', OtherTypes', FunctionTypes', GeneratorTypes', InOrder(todo'),
         Ends(target', todo'), Creating', Compiled', RtlOrderKept', OptFresh', LiborderIsWhole'
  PROVE  IInv'
BY TypesTogether DEF IInv

\* The order of the RTL stays that of its last compilation while nobody compiles it.
LEMMA RtlOrderStays ==
  ASSUME IInv, ~At("mv_rtl_liborder"), UNCHANGED <<files, built>>
  PROVE  ("rtl_liborder" \in DOMAIN files => Lists("rtl_liborder", "rtl", built["rtl"]))'
BY DEF IInv, RtlOrderKept, Lists

LEMMA InitInvariant ==
  ASSUME Init
  PROVE  IInv
<1> USE FileListsAssumption
<1>1. \A p \in Part : 1 \in Revisions(p)
  <2>1. TAKE p \in Part
  <2>2. FileLists[p] \in Seq(Seq(Lib) \ {<<>>}) /\ FileLists[p] # <<>>
    OBVIOUS
  <2>3. Len(FileLists[p]) \in Nat \ {0} /\ DOMAIN FileLists[p] = 1..Len(FileLists[p])
    BY <2>2
  <2>4. QED
    BY <2>3 DEF Revisions
<1>2. DOMAIN <<>> = {}
  OBVIOUS
<1>3. FileTypes /\ GeneratorTypes
  <2>1. FileTypes
    BY <1>2 DEF Init, FileTypes
  <2>2. <<>> \in Seq(Lib)
    OBVIOUS
  <2>3. GeneratorTypes
    BY <2>2 DEF Init, GeneratorTypes, Idle
  <2>4. QED
    BY <2>1, <2>3
<1>4. OtherTypes /\ FunctionTypes
  BY <1>1, <1>2 DEF Init, OtherTypes, FunctionTypes
<1>5. TypeOK
  BY <1>3, <1>4 DEF TypeOK, FileTypes, OtherTypes, GeneratorTypes
<1>6. todo = <<>> /\ DOMAIN files = {} /\ DOMAIN snap = {} /\ target = ""
  BY <1>2 DEF Init
<1>7. InOrder(todo) /\ Ends(target, todo)
  BY <1>6, NoSteps DEF Ends
<1>8. Creating /\ Compiled /\ RtlOrderKept /\ OptFresh /\ LiborderIsWhole
  BY <1>6 DEF Creating, Compiled, RtlOrderKept, OptFresh, LiborderIsWhole, At
<1>9. QED
  BY <1>3, <1>4, <1>5, <1>7, <1>8 DEF IInv

LEMMA MakeKeeps ==
  ASSUME IInv, Make
  PROVE  IInv'
<1>1. PICK t \in DOMAIN Recipe :
        /\ target' = t /\ todo' = Recipe[t]
        /\ gens' = [g \in Generators |->
                     [gens[g] EXCEPT !.late = @ \/ (Compiles(t) /\ Running(g))]]
        /\ spoilers' = spoilers \cup (IF remake = {} THEN {} ELSE {t} \cap {"compile_rtl_fv"})
  BY DEF Make
<1>2. todo = <<>> /\ UNCHANGED <<rev, made, files, built, snap, remake>>
  BY DEF Make, dirVars
<1>3. WellMade(t, todo')
  BY <1>1, RecipesWellMade
<1>4. FileTypes' /\ GeneratorTypes'
  <2>1. FileTypes'
    BY <1>2, TypesApart DEF FileTypes
  <2>2. \A g \in Generators : (gens[g].late \/ (Compiles(t) /\ Running(g))) \in BOOLEAN
    BY TypesApart DEF GeneratorTypes, Compiles, Running
  <2>3. \A g \in Generators : gens'[g] \in [pc : {"idle", "test", "read", "open", "write", "failed"},
                                           order : Seq(Lib), holds : BOOLEAN, late : BOOLEAN]
    BY <1>1, <2>2, TypesApart DEF GeneratorTypes
  <2>4. QED
    BY <1>1, <2>1, <2>3 DEF GeneratorTypes
<1>5. OtherTypes' /\ FunctionTypes'
  BY <1>1, <1>2, TypesApart DEF OtherTypes, FunctionTypes
<1>6. InOrder(todo') /\ Ends(target', todo')
  BY <1>1, <1>3 DEF WellMade
<1>7. OptFresh' /\ LiborderIsWhole'
  BY <1>2, <1>3 DEF IInv, OptFresh, LiborderIsWhole, WellMade
<1>8. Creating' /\ Compiled' /\ RtlOrderKept'
  BY <1>2, <1>3, NothingDue, RtlOrderStays DEF At, WellMade
<1>9. QED
  BY <1>4, <1>5, <1>6, <1>7, <1>8, IInvParts

\* A step that touches nothing but makefile.remake and the generators.
LEMMA QuietKeeps ==
  ASSUME IInv, NEW d \in RunSteps \cup {"remove_remake"}, At(d), Proceed \/ Fail,
         UNCHANGED <<made, files, built>>, remake' \subseteq remake, GeneratorTypes',
         spoilers' \subseteq spoilers, DOMAIN snap' = DOMAIN snap,
         \A s \in DOMAIN snap : snap'[s] = snap[s] \/ snap'[s] = "library"
  PROVE  IInv'
<1>1. todo # <<>> /\ Head(todo).do = d /\ UNCHANGED rev /\ target' \in {target, ""}
  BY DEF At, Proceed, Fail
<1>2. d \notin Mutators \cup OptRemovers \cup {"compile_files"}
  BY DEF RunSteps, Mutators, OptRemovers
<1>3. FileTypes'
  BY TypesApart DEF FileTypes
<1>4. OtherTypes' /\ FunctionTypes'
  BY <1>1, TypesApart DEF OtherTypes, FunctionTypes
<1>5. /\ InOrder(todo') /\ Ends(target', todo') /\ LiborderIsWhole'
      /\ todo' = <<>> \/ Head(todo').do \in Unordered
      /\ OptRemovedFirst(todo) => OptRemovedFirst(todo')
  <2>1. CASE Proceed
    <3>1. /\ InOrder(todo') /\ Ends(target', todo') /\ LiborderIsWhole'
          /\ todo' # <<>> => Head(todo').do \in Successors(Head(todo))
          /\ OptRemovedFirst(todo) => OptRemovedFirst(todo')
      BY <1>1, <1>2, <2>1, Proceeds DEF Mutators
    <3>2. Successors(Head(todo)) = Unordered
      BY <1>1, <1>2 DEF Successors, Mutators
    <3>3. QED
      BY <3>1, <3>2
  <2>2. CASE Fail
    BY <2>2, Fails DEF Fail
  <2>3. QED
    BY <2>1, <2>2
<1>6. OptFresh'
  BY <1>5 DEF IInv, OptFresh
<1>7. Creating' /\ Compiled' /\ RtlOrderKept'
  BY <1>1, <1>2, <1>5, NothingDue, RtlOrderStays DEF At, Mutators
<1>8. QED
  BY <1>3, <1>4, <1>5, <1>6, <1>7, IInvParts

LEMMA GeneratorTyped ==
  ASSUME GeneratorTypes, NEW g \in Generators,
         NEW r \in [pc : {"idle", "test", "read", "open", "write", "failed"},
                    order : Seq(Lib), holds : BOOLEAN, late : BOOLEAN],
         gens' = [gens EXCEPT ![g] = r]
  PROVE  GeneratorTypes'
BY DEF GeneratorTypes

LEMMA IdleTyped ==
  ASSUME NEW pc \in {"idle", "test", "read", "open", "write", "failed"}
  PROVE  [Idle EXCEPT !.pc = pc] \in [pc : {"idle", "test", "read", "open", "write", "failed"},
                                      order : Seq(Lib), holds : BOOLEAN, late : BOOLEAN]
<1>1. <<>> \in Seq(Lib)
  OBVIOUS
<1>2. QED
  BY <1>1 DEF Idle

LEMMA RemovalTyped ==
  ASSUME IInv, RemakeRemoved
  PROVE  GeneratorTypes' /\ remake' = {} /\ spoilers' = {}
BY DEF IInv, RemakeRemoved, GeneratorTypes

LEMMA RunStepsKeep ==
  ASSUME IInv,
         RemoveRemake \/ Simulate \/ Generate \/ AwaitGenerator \/ GenerateInBackground \/ MakeAll
  PROVE  IInv'
<1>1. CASE RemoveRemake
  BY <1>1, QuietKeeps, RemovalTyped DEF RemoveRemake, RemakeRemoved, dirVars
<1>2. CASE Simulate
  <2>1. GeneratorTypes' /\ UNCHANGED <<made, files, built, snap, remake, spoilers>>
    BY <1>2 DEF Simulate, dirVars, IInv, GeneratorTypes
  <2>2. QED
    BY <1>2, <2>1, QuietKeeps DEF Simulate, RunSteps
<1>3. CASE Generate
  <2>1. gens' = [gens EXCEPT !["foreground"] = [Idle EXCEPT !.pc = "read"]]
    BY <1>3 DEF Generate, Start
  <2>2. GeneratorTypes'
    BY <2>1, GeneratorTyped, IdleTyped DEF Generators, IInv
  <2>3. QED
    BY <1>3, <2>2, QuietKeeps DEF Generate, RunSteps, dirVars
<1>4. CASE AwaitGenerator
  <2>1. GeneratorTypes' /\ UNCHANGED <<made, files, built, snap, remake, spoilers>>
    BY <1>4 DEF AwaitGenerator, dirVars, IInv, GeneratorTypes
  <2>2. QED
    BY <1>4, <2>1, QuietKeeps DEF AwaitGenerator, RunSteps
<1>5. CASE GenerateInBackground
  <2>1. PICK g \in Background : gens' = [gens EXCEPT ![g] = [Idle EXCEPT !.pc = "test"]]
    BY <1>5 DEF GenerateInBackground, Start
  <2>2. GeneratorTypes'
    BY <2>1, GeneratorTyped, IdleTyped DEF Generators, IInv
  <2>3. QED
    BY <1>5, <2>2, QuietKeeps DEF GenerateInBackground, RunSteps, dirVars
<1>6. CASE MakeAll
  <2>1. GeneratorTypes' /\ UNCHANGED <<made, files, built, remake, spoilers>>
    BY <1>6 DEF MakeAll, IInv, GeneratorTypes
  <2>2. /\ Fail /\ DOMAIN snap' = DOMAIN snap
        /\ \A s \in DOMAIN snap : snap'[s] = snap[s] \/ snap'[s] = "library"
    <3>1. snap' \in {snap, Outdated("library")} /\ Fail
      BY <1>6 DEF MakeAll
    <3>2. QED
      BY <3>1, TypesApart DEF Outdated, OtherTypes
  <2>3. QED
    BY <1>6, <2>1, <2>2, QuietKeeps DEF MakeAll, RunSteps
<1>7. QED
  BY <1>1, <1>2, <1>3, <1>4, <1>5, <1>6

\* A generator changes no file that the steps of a make look at.
LEMMA GeneratorKeeps ==
  ASSUME IInv, NEW g \in Generators, Generator(g)
  PROVE  IInv'
<1>1. UNCHANGED <<rev, target, todo, made, files, built, snap>>
  BY DEF Generator, TestRemake, ReadLiborder, OpenRemake, CloseRemake, dirVars
<1>2. FileTypes /\ OtherTypes /\ FunctionTypes /\ GeneratorTypes
  BY TypesApart
<1>3. GeneratorTypes'
  <2>1. CASE TestRemake(g)
    <3>1. [Idle EXCEPT !.pc = "idle"] = Idle
      BY DEF Idle
    <3>2. [gens[g] EXCEPT !.pc = "read"]
            \in [pc : {"idle", "test", "read", "open", "write", "failed"},
                 order : Seq(Lib), holds : BOOLEAN, late : BOOLEAN]
      BY <1>2 DEF GeneratorTypes
    <3>3. QED
      BY <1>2, <2>1, <3>1, <3>2, GeneratorTyped, IdleTyped DEF TestRemake, Becomes
  <2>2. CASE ReadLiborder(g)
    <3>1. "liborder" \in DOMAIN files => files.liborder \in Seq(Lib)
      BY <1>2 DEF FileTypes
    <3>2. "liborder" \in DOMAIN files =>
            [gens[g] EXCEPT !.pc = "open", !.order = files.liborder]
              \in [pc : {"idle", "test", "read", "open", "write", "failed"},
                   order : Seq(Lib), holds : BOOLEAN, late : BOOLEAN]
      BY <1>2, <3>1 DEF GeneratorTypes
    <3>3. \A pc \in {"idle", "failed"} : [Idle EXCEPT !.pc = pc]
            \in [pc : {"idle", "test", "read", "open", "write", "failed"},
                 order : Seq(Lib), holds : BOOLEAN, late : BOOLEAN]
      BY IdleTyped
    <3>4. \/ /\ "liborder" \in DOMAIN files
             /\ gens' = [gens EXCEPT ![g] =
                            [gens[g] EXCEPT !.pc = "open", !.order = files.liborder]]
          \/ \E pc \in {"idle", "failed"} : gens' = [gens EXCEPT ![g] = [Idle EXCEPT !.pc = pc]]
      BY <2>2 DEF ReadLiborder, Becomes, Died
    <3>5. QED
      BY <1>2, <3>2, <3>3, <3>4, GeneratorTyped
  <2>3. CASE OpenRemake(g)
    <3>1. [gens[g] EXCEPT !.pc = "write", !.holds = TRUE]
            \in [pc : {"idle", "test", "read", "open", "write", "failed"},
                 order : Seq(Lib), holds : BOOLEAN, late : BOOLEAN]
      BY <1>2 DEF GeneratorTypes
    <3>2. \A pc \in {"idle", "failed"} : [Idle EXCEPT !.pc = pc]
            \in [pc : {"idle", "test", "read", "open", "write", "failed"},
                 order : Seq(Lib), holds : BOOLEAN, late : BOOLEAN]
      BY IdleTyped
    <3>3. \/ gens' = [gens EXCEPT ![g] = [gens[g] EXCEPT !.pc = "write", !.holds = TRUE]]
          \/ \E pc \in {"idle", "failed"} : gens' = [gens EXCEPT ![g] = [Idle EXCEPT !.pc = pc]]
      BY <2>3 DEF OpenRemake, Becomes, Died
    <3>4. QED
      BY <1>2, <3>1, <3>2, <3>3, GeneratorTyped
  <2>4. CASE CloseRemake(g)
    <3>1. [Idle EXCEPT !.pc = "idle"] = Idle
      BY DEF Idle
    <3>2. QED
      BY <1>2, <2>4, <3>1, GeneratorTyped, IdleTyped DEF CloseRemake, Becomes
  <2>5. QED
    BY <2>1, <2>2, <2>3, <2>4 DEF Generator
<1>4. FileTypes' /\ FunctionTypes'
  BY <1>1, <1>2 DEF FileTypes, FunctionTypes
<1>5. /\ remake' \subseteq Seq(Lib) /\ (remake' # {} => made)
      /\ spoilers' \subseteq {"compile_rtl_fv", "overtaken"}
  <2>1. {gens[h].order : h \in Writers(g)} \subseteq Seq(Lib)
    BY <1>2 DEF Writers, GeneratorTypes
  <2>2. QED
    BY <1>2, <2>1
      DEF OtherTypes, Generator, TestRemake, ReadLiborder, OpenRemake, CloseRemake
<1>6. OtherTypes'
  BY <1>1, <1>2, <1>5 DEF OtherTypes
<1>7. /\ InOrder(todo') /\ Ends(target', todo') /\ Creating' /\ Compiled' /\ RtlOrderKept'
      /\ OptFresh' /\ LiborderIsWhole'
  <2>1. InOrder(todo') /\ Ends(target', todo') /\ OptFresh' /\ LiborderIsWhole'
    BY <1>1 DEF IInv, OptFresh, LiborderIsWhole
  <2>2. Compiled' /\ RtlOrderKept'
    BY <1>1 DEF IInv, Compiled, RtlOrderKept, At, Lists
  <2>3. Creating'
    BY <1>1 DEF IInv, Creating, At, Liborder, Libraries
  <2>4. QED
    BY <2>1, <2>2, <2>3
<1>8. QED
  BY <1>3, <1>4, <1>6, <1>7, IInvParts

LEMMA CleanKeeps ==
  ASSUME IInv, Clean
  PROVE  IInv'
<1>1. /\ todo # <<>> /\ Head(todo).do = "clean" /\ Proceed /\ UNCHANGED <<rev, target>>
      /\ made' = FALSE /\ files' = <<>> /\ snap' = <<>> /\ built' = [p \in Part |-> NotBuilt]
  BY DEF Clean, At, Proceed
<1>2. DOMAIN <<>> = {}
  OBVIOUS
<1>3. GeneratorTypes' /\ remake' = {} /\ spoilers' = {}
  BY RemovalTyped DEF Clean
<1>4. FileTypes'
  BY <1>1, <1>2 DEF FileTypes
<1>5. OtherTypes' /\ FunctionTypes'
  BY <1>1, <1>2, <1>3, TypesApart DEF OtherTypes, FunctionTypes
<1>6. /\ InOrder(todo') /\ Ends(target', todo') /\ LiborderIsWhole'
      /\ todo' # <<>> => Head(todo').do \in Successors(Head(todo))
  BY <1>1, Proceeds
<1>7. Successors(Head(todo)) = Unordered
  BY <1>1 DEF Successors
<1>8. Creating' /\ Compiled' /\ RtlOrderKept'
  BY <1>1, <1>2, <1>6, <1>7, NothingDue
<1>9. OptFresh'
  BY <1>1, <1>2 DEF OptFresh
<1>10. QED
  BY <1>3, <1>4, <1>5, <1>6, <1>8, <1>9, IInvParts

LEMMA SnapshotsKeep ==
  ASSUME IInv, RemoveOpts \/ Vopt
  PROVE  IInv'
<1>1. /\ todo # <<>> /\ Head(todo).do \in {"remove_opts", "vopt"}
      /\ UNCHANGED <<rev, made, files, built, remake, gens, spoilers>> /\ target' \in {target, ""}
  BY DEF RemoveOpts, Vopt, At, Proceed, Fail
<1>2. FileTypes' /\ GeneratorTypes'
  BY <1>1, TypesApart DEF FileTypes, GeneratorTypes
<1>3. InOrder(todo) /\ OptFresh
  BY DEF IInv
<1>4. Head(todo) \in Steps
  BY <1>1, <1>3, TailInOrder
<1>5. CASE RemoveOpts
  <2>1. Proceed /\ Head(todo).do = "remove_opts" /\ snap' = Without(snap, RemovedSnapshots)
    BY <1>5 DEF RemoveOpts, At
  <2>2. /\ DOMAIN snap' = DOMAIN snap \ RemovedSnapshots
        /\ \A s \in DOMAIN snap' : snap'[s] = snap[s]
    BY <2>1 DEF Without
  <2>3. OtherTypes' /\ FunctionTypes'
    BY <1>1, <2>2, TypesApart DEF OtherTypes, FunctionTypes
  <2>4. /\ InOrder(todo') /\ Ends(target', todo') /\ LiborderIsWhole'
        /\ todo' # <<>> => Head(todo').do \in Successors(Head(todo))
    BY <1>1, <2>1, Proceeds
  <2>5. Successors(Head(todo)) = Unordered
    BY <2>1 DEF Successors
  <2>6. Creating' /\ Compiled' /\ RtlOrderKept'
    BY <1>1, <2>1, <2>4, <2>5, NothingDue, RtlOrderStays DEF At
  <2>7. OptFresh'
    BY <2>2 DEF OptFresh, RemovedSnapshots
  <2>8. QED
    BY <1>2, <2>3, <2>4, <2>6, <2>7, IInvParts
<1>6. CASE Vopt
  <2>1. Head(todo).do = "vopt" /\ Head(todo).to \in {"opt", "dbg"}
    BY <1>4, <1>6, StepKinds DEF Vopt, At
  <2>2. \/ Proceed /\ snap' = With(snap, Head(todo).to, "")
        \/ Fail /\ snap' = snap
    BY <1>6 DEF Vopt
  <2>3. /\ DOMAIN snap' \subseteq DOMAIN snap \cup {"opt", "dbg"}
        /\ \A s \in DOMAIN snap' : snap'[s] = "" \/ (s \in DOMAIN snap /\ snap'[s] = snap[s])
        /\ "opt" \in DOMAIN snap' => snap'["opt"] # "tb"
    <3>1. ASSUME snap' = With(snap, Head(todo).to, "")
          PROVE  /\ DOMAIN snap' = DOMAIN snap \cup {Head(todo).to} /\ snap'[Head(todo).to] = ""
                 /\ \A s \in DOMAIN snap \ {Head(todo).to} : snap'[s] = snap[s]
      BY <3>1 DEF With
    <3>2. QED
      BY <1>3, <2>1, <2>2, <3>1 DEF OptFresh
  <2>4. OtherTypes' /\ FunctionTypes'
    BY <1>1, <2>3, TypesApart DEF OtherTypes, FunctionTypes
  <2>5. OptRemovedFirst(todo)
    <3>1. \A k \in 1..Len(todo) : todo[k].do \in RunSteps
      <4>1. 1 \in 1..Len(todo) /\ todo[1].do = "vopt"
        <5>1. todo \in Seq(Steps)
          BY <1>3 DEF InOrder
        <5>2. todo # <<>>
          BY <1>1
        <5>3. Len(todo) \in Nat \ {0} /\ Head(todo) = todo[1]
          BY <5>1, <5>2, TailFacts
        <5>4. QED
          BY <2>1, <5>3
      <4>2. todo[1].do \notin CompileSteps
        BY <4>1 DEF CompileSteps, Removers, OptRemovers, Mutators
      <4>3. QED
        BY <1>3, <4>1, <4>2 DEF InOrder
    <3>2. QED
      BY <3>1, StepFields DEF OptRemovedFirst, RunSteps
  <2>6. /\ InOrder(todo') /\ Ends(target', todo') /\ LiborderIsWhole' /\ OptRemovedFirst(todo')
        /\ todo' = <<>> \/ Head(todo').do \in Unordered
    <3>1. CASE Proceed
      <4>1. Successors(Head(todo)) = Unordered
        BY <2>1 DEF Successors
      <4>2. QED
        BY <1>1, <2>1, <2>5, <3>1, <4>1, Proceeds DEF OptRemovers
    <3>2. CASE Fail
      <4>1. todo' = <<>>
        BY <3>2 DEF Fail
      <4>2. QED
        BY <3>2, <4>1, Fails
    <3>3. QED
      BY <2>2, <3>1, <3>2
  <2>7. Creating' /\ Compiled' /\ RtlOrderKept'
    BY <1>1, <2>1, <2>6, NothingDue, RtlOrderStays DEF At
  <2>8. QED
    BY <1>2, <2>3, <2>4, <2>6, <2>7, IInvParts DEF OptFresh
<1>7. QED
  BY <1>5, <1>6

\* The libraries of a part, in any revision.
LEMMA LibrariesThere ==
  ASSUME NEW p \in Part, NEW r \in Revisions(p)
  PROVE  /\ FileLists[p][r] \in Seq(Lib) \ {<<>>}
         /\ Len(FileLists[p][r]) \in Nat \ {0}
         /\ \A k \in 1..Len(FileLists[p][r]) : FileLists[p][r][k] \in Lib
<1>1. FileLists[p] \in Seq(Seq(Lib) \ {<<>>})
  BY FileListsAssumption
<1>2. FileLists[p][r] \in Seq(Lib) \ {<<>>}
  BY <1>1 DEF Revisions
<1>3. QED
  BY <1>2, NonEmpty

LEMMA ScriptRuns ==
  ASSUME NEW s, InOrder(s), s # <<>>, NEW p \in Part, Head(s) = DoTo("compile_script", p),
         NEW libs \in Seq(Lib) \ {<<>>}
  PROVE  /\ \A k \in 1..Len(libs) : Started(p, libs, s)[k] = DoTo("create_library", libs[k])
         /\ Started(p, libs, s)[Len(libs) + 1] = DoTo("compile_files", p)
         /\ Len(Started(p, libs, s)) > Len(libs) /\ Len(libs) \in Nat \ {0}
         /\ InOrder(Started(p, libs, s)) /\ Started(p, libs, s) # <<>>
         /\ \A t : Ends(t, s) => Ends(t, Started(p, libs, s))
         /\ OptRemovedFirst(s) => OptRemovedFirst(Started(p, libs, s))
         /\ todo' = Started(p, libs, s) => Head(todo').do = "create_library"
<1> DEFINE u == Started(p, libs, s)
<1>1. Head(s).do = "compile_script" /\ Head(s).to = p /\ Head(s) = s[1]
  BY StepFields, TailFacts DEF InOrder
<1>2. /\ u \in Seq(Steps) /\ Len(u) = Len(libs) + Len(s)
      /\ \A k \in 1..Len(libs) : u[k] = DoTo("create_library", libs[k])
      /\ u[Len(libs) + 1] = DoTo("compile_files", p)
      /\ \A k \in 2..Len(s) : u[Len(libs) + k] = s[k]
      /\ Len(libs) \in Nat \ {0} /\ Len(s) \in Nat \ {0, 1} /\ u # <<>>
  BY <1>1, ScriptStarted
<1> HIDE DEF u
<1>3. \A k \in 1..Len(libs) : u[k].do = "create_library"
  BY <1>2, StepFields
<1>4. ASSUME NEW m, m = Len(s), NEW n, n = Len(libs)
      PROVE  /\ InOrder(u) /\ Len(u) > n
             /\ \A t : Ends(t, s) => Ends(t, u)
             /\ OptRemovedFirst(s) => OptRemovedFirst(u)
  <2>1. m \in Nat \ {0, 1} /\ n \in Nat \ {0} /\ Len(u) = n + m
    BY <1>2, <1>4
  <2>2. Len(u) > n
    BY <2>1
  <2>3. u[n + 1] = DoTo("compile_files", s[1].to) /\ s[1].do = "compile_script" /\ s[1].to \in Part
    BY <1>1, <1>2, <1>4
  <2>4. (\A k \in 1..n : u[k].do = "create_library") /\ (\A k \in 2..m : u[n + k] = s[k])
    BY <1>2, <1>3, <1>4
  <2>5. u \in Seq(Steps) /\ u # <<>> /\ Len(s) = m
    BY <1>2, <1>4
  <2>6. QED
    BY <2>1, <2>2, <2>3, <2>4, <2>5, ScriptInOrder
<1>5. Head(u) = u[1]
  BY <1>2, TailFacts
<1>6. Head(u).do = "create_library"
  BY <1>2, <1>3, <1>5
<1>7. QED
  BY <1>2, <1>4, <1>6 DEF u

LEMMA ScriptKeeps ==
  ASSUME IInv, StartCompileScript
  PROVE  IInv'
<1>1. /\ todo # <<>> /\ Head(todo).do = "compile_script"
      /\ UNCHANGED <<target, built, remake, gens, spoilers>>
      /\ files' = Without(files, {"liborder"}) /\ made' = TRUE
      /\ snap' = Outdated(Head(todo).to)
      /\ \E r \in Revisions(Head(todo).to) : rev' = [rev EXCEPT ![Head(todo).to] = r]
  BY DEF StartCompileScript, At
<1>2. /\ InOrder(todo) /\ Ends(target, todo) /\ OptFresh
      /\ FileTypes /\ OtherTypes /\ FunctionTypes /\ GeneratorTypes
  BY TypesApart DEF IInv
<1>3. PICK p \in Part : Head(todo) = DoTo("compile_script", p) /\ Head(todo).to = p
  BY <1>1, <1>2, TailInOrder, StepKinds
<1>4. todo \in Seq(Steps) /\ Head(todo) = todo[1] /\ Len(todo) \in Nat \ {0}
  BY <1>1, <1>2, TailFacts DEF InOrder
<1>4a. (\A q \in Part : rev'[q] \in Revisions(q)) /\ DOMAIN rev' = Part
  BY <1>1, <1>2, <1>3 DEF OtherTypes, FunctionTypes
<1>5. PICK libs \in Seq(Lib) \ {<<>>} : libs = FileLists[p][rev'[p]]
  BY <1>4a, LibrariesThere
<1>6. todo' = Started(p, libs, todo)
  BY <1>3, <1>5 DEF StartCompileScript, Started
<1>7. /\ \A k \in 1..Len(libs) : todo'[k] = DoTo("create_library", libs[k])
      /\ todo'[Len(libs) + 1] = DoTo("compile_files", p)
      /\ Len(todo') > Len(libs) /\ Len(libs) \in Nat \ {0}
      /\ InOrder(todo') /\ todo' # <<>> /\ Ends(target', todo')
      /\ OptRemovedFirst(todo) => OptRemovedFirst(todo')
      /\ Head(todo').do = "create_library"
  BY <1>1, <1>2, <1>3, <1>6, ScriptRuns
<1>8. /\ DOMAIN files' = DOMAIN files \ {"liborder"}
      /\ \A f \in DOMAIN files' : files'[f] = files[f]
  BY <1>1 DEF Without
<1>9. FileTypes'
  BY <1>1, <1>2, <1>8 DEF FileTypes
<1>9a. /\ DOMAIN snap' = DOMAIN snap
       /\ \A s \in DOMAIN snap :
            /\ snap'[s] \in {"library", "tb"}
            /\ snap'[s] = "tb" => p = "tb" \/ snap[s] = "tb"
  BY <1>1, <1>3 DEF Outdated
<1>10. OtherTypes' /\ FunctionTypes' /\ GeneratorTypes'
  BY <1>1, <1>2, <1>4a, <1>9a DEF OtherTypes, FunctionTypes, GeneratorTypes
<1>11. OptFresh'
  <2>1. ASSUME "opt" \in DOMAIN snap, p = "tb"
        PROVE  FALSE
    <3>1. OptRemovedFirst(todo) /\ todo[1] = DoTo("compile_script", "tb") /\ 1 \in 1..Len(todo)
      BY <1>2, <1>3, <1>4, <2>1 DEF OptFresh
    <3>2. QED
      BY <3>1 DEF OptRemovedFirst
  <2>2. ASSUME "opt" \in DOMAIN snap'
        PROVE  "opt" \in DOMAIN snap /\ snap'["opt"] # "tb"
    BY <1>2, <1>9a, <2>1, <2>2 DEF OptFresh
  <2>3. QED
    BY <1>2, <1>7, <2>2 DEF OptFresh
<1>12. LiborderIsWhole'
  BY <1>7 DEF LiborderIsWhole
<1>13. Creating'
  <2>1. Libraries(p)' = libs
    BY <1>1, <1>5 DEF Libraries
  <2>2. Liborder("liborder")' = <<>>
    BY <1>8 DEF Liborder
  <2>3. SubSeq(libs, 1, 0) = <<>>
    OBVIOUS
  <2>4. \A i \in 1..Len(libs) : todo'[i] = DoTo("create_library", libs[0 + i])
    BY <1>7
  <2>5. /\ 0 \in 0..(Len(libs) - 1) /\ Len(libs) - 0 = Len(libs)
    BY <1>7
  <2>6. made'
    BY <1>1
  <2>7. \E j \in 0..(Len(Libraries(p)') - 1) :
         /\ Liborder("liborder")' = SubSeq(Libraries(p)', 1, j)
         /\ Len(todo') > Len(Libraries(p)') - j
         /\ \A i \in 1..(Len(Libraries(p)') - j) :
              todo'[i] = DoTo("create_library", Libraries(p)'[j + i])
         /\ todo'[Len(Libraries(p)') - j + 1] = DoTo("compile_files", p)
    <3>1. 0 \in 0..(Len(Libraries(p)') - 1)
      BY <2>1, <2>5
    <3>2. QED
      BY <3>1, <1>7, <2>1, <2>2, <2>3, <2>4, <2>5
  <2>8. QED
    BY <2>6, <2>7 DEF Creating
<1>14. Compiled'
  BY <1>7 DEF Compiled, At
<1>15. RtlOrderKept'
  <2>1. ~At("mv_rtl_liborder")
    BY <1>1 DEF At
  <2>2. "rtl_liborder" \in DOMAIN files' =>
          "rtl_liborder" \in DOMAIN files /\ files'["rtl_liborder"] = files["rtl_liborder"]
    BY <1>8
  <2>3. QED
    BY <1>1, <2>1, <2>2 DEF IInv, RtlOrderKept, Lists
<1>16. QED
  BY <1>7, <1>9, <1>10, <1>11, <1>12, <1>13, <1>14, <1>15, IInvParts

LEMMA ListGrows ==
  ASSUME NEW libs \in Seq(Lib), NEW j \in 0..(Len(libs) - 1)
  PROVE  Append(SubSeq(libs, 1, j), libs[j + 1]) = SubSeq(libs, 1, j + 1)
OBVIOUS

LEMMA WholeList ==
  ASSUME NEW libs \in Seq(Lib)
  PROVE  SubSeq(libs, 1, Len(libs)) = libs
OBVIOUS

LEMMA AppendListed ==
  ASSUME NEW s \in Seq(Lib), NEW l \in Lib
  PROVE  Append(s, l) \in Seq(Lib) \ {<<>>}
<1>1. Append(s, l) \in Seq(Lib) /\ Len(Append(s, l)) = Len(s) + 1 /\ Len(s) \in Nat
  OBVIOUS
<1>2. QED
  BY <1>1, NonEmpty

LEMMA ConcatListed ==
  ASSUME NEW s \in Seq(Lib), NEW t \in Seq(Lib) \ {<<>>}
  PROVE  s \o t \in Seq(Lib) \ {<<>>}
<1>1. s \o t \in Seq(Lib) /\ Len(s \o t) = Len(s) + Len(t) /\ Len(s) \in Nat
  OBVIOUS
<1>2. Len(t) \in Nat \ {0}
  BY NonEmpty
<1>3. Len(s \o t) # 0
  BY <1>1, <1>2
<1>4. QED
  BY <1>1, <1>3, NonEmpty

\* What a step that compiles something leaves alone.
LEMMA CompileStep ==
  ASSUME IInv, todo # <<>>, Proceed, Head(todo).do \notin OptRemovers \cup {"cat_tb_liborder"},
         UNCHANGED snap
  PROVE  /\ InOrder(todo') /\ Ends(target', todo') /\ LiborderIsWhole' /\ OptFresh'
         /\ todo' # <<>> => Head(todo').do \in Successors(Head(todo))
         /\ todo' = <<>> => Head(todo).do \in Final
         /\ UNCHANGED <<rev, target>>
<1>1. OptFresh
  BY DEF IInv
<1>2. QED
  BY <1>1, Proceeds DEF OptFresh, Proceed

\* A step that failed and changed nothing.
LEMMA FailKeeps ==
  ASSUME IInv, Fail, ~At("mv_rtl_liborder"),
         UNCHANGED <<made, files, built, snap, remake, gens, spoilers>>
  PROVE  IInv'
<1>1. todo' = <<>> /\ UNCHANGED rev /\ target' = ""
  BY DEF Fail
<1>2. FileTypes' /\ OtherTypes' /\ FunctionTypes' /\ GeneratorTypes'
  BY <1>1, TypesApart DEF FileTypes, OtherTypes, FunctionTypes, GeneratorTypes
<1>3. RtlOrderKept'
  BY <1>1, NothingDue, RtlOrderStays
<1>4. OptFresh'
  BY Fails DEF IInv, OptFresh
<1>5. QED
  BY <1>2, <1>3, <1>4, Fails, IInvParts

LEMMA CreateKeeps ==
  ASSUME IInv, CreateLibrary
  PROVE  IInv'
<1>1. /\ todo # <<>> /\ Head(todo).do = "create_library" /\ At("create_library")
      /\ UNCHANGED <<rev, made, built, snap, remake, gens, spoilers>>
  BY DEF CreateLibrary, At, Proceed, Fail
<1>2. CASE Fail /\ UNCHANGED files
  <2>1. ~At("mv_rtl_liborder")
    BY <1>1 DEF At
  <2>2. QED
    BY <1>1, <1>2, <2>1, FailKeeps
<1>3. CASE /\ Proceed
           /\ files' = With(files, "liborder", Append(Liborder("liborder"), Head(todo).to))
  <2>1. /\ InOrder(todo) /\ FileTypes /\ OtherTypes /\ FunctionTypes /\ GeneratorTypes
        /\ made
    BY <1>1, TypesApart DEF IInv, Creating
  <2>2. PICK p \in Part : \E j \in 0..(Len(Libraries(p)) - 1) :
               /\ Liborder("liborder") = SubSeq(Libraries(p), 1, j)
               /\ Len(todo) > Len(Libraries(p)) - j
               /\ \A i \in 1..(Len(Libraries(p)) - j) :
                    todo[i] = DoTo("create_library", Libraries(p)[j + i])
               /\ todo[Len(Libraries(p)) - j + 1] = DoTo("compile_files", p)
    BY <1>1 DEF IInv, Creating
  <2>3. PICK libs \in Seq(Lib) \ {<<>>} : libs = Libraries(p)
    BY <2>1, LibrariesThere DEF OtherTypes, Libraries
  <2>4. PICK j \in 0..(Len(libs) - 1) :
               /\ Liborder("liborder") = SubSeq(libs, 1, j)
               /\ Len(todo) > Len(libs) - j
               /\ \A i \in 1..(Len(libs) - j) : todo[i] = DoTo("create_library", libs[j + i])
               /\ todo[Len(libs) - j + 1] = DoTo("compile_files", p)
    BY <2>2, <2>3
  <2>5. PICK n \in Nat \ {0} : n = Len(libs)
    BY <2>3, NonEmpty
  <2>6. /\ j \in 0..(n - 1) /\ Len(todo) > n - j
        /\ \A i \in 1..(n - j) : todo[i] = DoTo("create_library", libs[j + i])
        /\ todo[n - j + 1] = DoTo("compile_files", p)
    BY <2>4, <2>5
  <2>7. /\ todo \in Seq(Steps) /\ Head(todo) = todo[1] /\ todo' = Tail(todo)
        /\ todo' \in Seq(Steps) /\ Len(todo) \in Nat \ {0} /\ Len(todo') = Len(todo) - 1
        /\ \A k \in 1..Len(todo') : todo'[k] = todo[k + 1]
    BY <1>1, <1>3, <2>1, TailFacts DEF InOrder, Proceed
  <2>8. Head(todo).to = libs[j + 1]
    <3>1. 1 \in 1..(n - j)
      BY <2>6
    <3>2. todo[1] = DoTo("create_library", libs[j + 1])
      BY <2>6, <3>1
    <3>3. QED
      BY <2>7, <3>2, StepFields
  <2>9. PICK l \in Lib : l = libs[j + 1] /\ l = Head(todo).to
    <3>1. j + 1 \in 1..Len(libs)
      BY <2>5, <2>6
    <3>2. QED
      BY <2>3, <2>8, <3>1
  <2>10. /\ DOMAIN files' = DOMAIN files \cup {"liborder"}
         /\ files'["liborder"] = SubSeq(libs, 1, j + 1)
         /\ \A f \in DOMAIN files \ {"liborder"} : files'[f] = files[f]
    <3>1. Append(Liborder("liborder"), Head(todo).to) = SubSeq(libs, 1, j + 1)
      BY <2>4, <2>8, ListGrows
    <3>2. files' = With(files, "liborder", SubSeq(libs, 1, j + 1))
      BY <1>3, <3>1
    <3>3. QED
      BY <3>2 DEF With
  <2>11. FileTypes'
    <3>1. Liborder("liborder") \in Seq(Lib)
      <4>1. <<>> \in Seq(Lib)
        OBVIOUS
      <4>2. QED
        BY <2>1, <4>1 DEF Liborder, FileTypes
    <3>2. files'["liborder"] \in Seq(Lib) \ {<<>>}
      <4>1. files'["liborder"] = Append(Liborder("liborder"), l)
        BY <2>4, <2>9, <2>10, ListGrows
      <4>2. QED
        BY <3>1, <4>1, AppendListed
    <3>3. QED
      BY <1>1, <2>1, <2>10, <3>2 DEF FileTypes
  <2>12. OtherTypes' /\ FunctionTypes' /\ GeneratorTypes'
    BY <1>1, <1>3, <2>1, <2>9 DEF Proceed, OtherTypes, FunctionTypes, GeneratorTypes
  <2>13. /\ InOrder(todo') /\ Ends(target', todo') /\ LiborderIsWhole' /\ OptFresh'
         /\ todo' # <<>> => Head(todo').do \in {"create_library", "compile_files"}
         /\ todo' # <<>> => Head(todo') = todo'[1]
    <3>1. Successors(Head(todo)) = {"create_library", "compile_files"}
      BY <1>1 DEF Successors
    <3>2. QED
      BY <1>1, <1>3, <2>7, <3>1, CompileStep, TailFacts DEF OptRemovers
  <2>14. RtlOrderKept'
    <3>1. ~At("mv_rtl_liborder")
      BY <1>1 DEF At
    <3>2. QED
      BY <1>1, <2>10, <3>1 DEF IInv, RtlOrderKept, Lists
  <2>15. Libraries(p)' = libs
    BY <1>1, <2>3 DEF Libraries
  <2>16. CASE j + 1 < n
    <3>1. /\ j + 1 \in 0..(n - 1) /\ Len(todo') > n - (j + 1)
          /\ \A i \in 1..(n - (j + 1)) : todo'[i] = DoTo("create_library", libs[(j + 1) + i])
          /\ todo'[n - (j + 1) + 1] = DoTo("compile_files", p)
      <4>1. j + 1 \in 0..(n - 1) /\ Len(todo') > n - (j + 1)
        BY <2>6, <2>7, <2>16
      <4>2. ASSUME NEW i \in 1..(n - (j + 1))
            PROVE  todo'[i] = DoTo("create_library", libs[(j + 1) + i])
        <5>1. i \in 1..Len(todo') /\ i + 1 \in 1..(n - j) /\ j + (i + 1) = (j + 1) + i
          BY <4>1, <2>6
        <5>2. todo'[i] = todo[i + 1] /\ todo[i + 1] = DoTo("create_library", libs[j + (i + 1)])
          BY <2>6, <2>7, <5>1
        <5>3. QED
          BY <5>1, <5>2
      <4>3. todo'[n - (j + 1) + 1] = DoTo("compile_files", p)
        <5>1. n - (j + 1) + 1 \in 1..Len(todo') /\ (n - (j + 1) + 1) + 1 = n - j + 1
          BY <4>1, <2>6, <2>16
        <5>2. todo'[n - (j + 1) + 1] = todo[(n - (j + 1) + 1) + 1]
          BY <2>7, <5>1
        <5>3. QED
          BY <2>6, <5>1, <5>2
      <4>4. QED
        BY <4>1, <4>2, <4>3
    <3>2. Liborder("liborder")' = SubSeq(libs, 1, j + 1)
      BY <2>10 DEF Liborder
    <3>3. Creating'
      BY <1>1, <2>1, <2>5, <2>15, <3>1, <3>2 DEF Creating
    <3>4. Head(todo').do = "create_library"
      <4>0. 1 \in 1..(n - (j + 1)) /\ Len(todo') # 0
        <5>1. j \in Nat /\ n - (j + 1) \in Nat \ {0}
          BY <2>6, <2>16
        <5>2. Len(todo') > n - (j + 1) /\ Len(todo') \in Nat
          BY <2>7, <3>1
        <5> QED  BY <5>1, <5>2
      <4>1. 1 \in 1..(n - (j + 1)) /\ todo' # <<>>
        BY <2>7, <4>0, NonEmpty
      <4>2. todo'[1] = DoTo("create_library", libs[(j + 1) + 1])
        BY <3>1, <4>1
      <4>3. QED
        BY <2>13, <4>1, <4>2, StepFields
    <3>5. Compiled'
      BY <3>4 DEF Compiled, At
    <3>6. QED
      BY <2>11, <2>12, <2>13, <2>14, <3>3, <3>5, IInvParts
  <2>17. CASE j + 1 = n
    <3>1. todo' # <<>> => Head(todo') = DoTo("compile_files", p)
      <4>1. n - j + 1 = 2 /\ 1 + 1 = 2
        BY <2>6, <2>17
      <4>2. todo' # <<>> => 1 \in 1..Len(todo')
        BY <2>7, NonEmpty
      <4>3. todo[2] = DoTo("compile_files", p)
        BY <2>6, <4>1
      <4>4. todo' # <<>> => todo'[1] = todo[2]
        BY <2>7, <4>1, <4>2
      <4>5. QED
        BY <2>13, <4>3, <4>4
    <3>2. files'["liborder"] = libs
      BY <2>5, <2>10, <2>17, WholeList
    <3>3. Lists("liborder", p, rev[p])'
      BY <1>1, <2>10, <2>15, <3>2 DEF Lists, Libraries
    <3>4. Compiled' /\ Creating'
      BY <3>1, <3>3, StepFields DEF Compiled, Creating, At, Lists
    <3>5. QED
      BY <2>11, <2>12, <2>13, <2>14, <3>4, IInvParts
  <2>18. QED
    BY <2>6, <2>16, <2>17
<1>4. QED
  BY <1>2, <1>3 DEF CreateLibrary

LEMMA CompileKeeps ==
  ASSUME IInv, CompileFiles
  PROVE  IInv'
<1>1. /\ todo # <<>> /\ Head(todo).do = "compile_files" /\ At("compile_files")
      /\ UNCHANGED <<rev, made, files, snap, remake, gens, spoilers>>
  BY DEF CompileFiles, At, Proceed, Fail
<1>2. CASE Fail /\ UNCHANGED built
  <2>1. ~At("mv_rtl_liborder")
    BY <1>1 DEF At
  <2>2. QED
    BY <1>1, <1>2, <2>1, FailKeeps
<1>3. CASE Proceed /\ built' = [built EXCEPT ![Head(todo).to] = rev[Head(todo).to]]
  <2>1. InOrder(todo) /\ FileTypes /\ OtherTypes /\ FunctionTypes /\ GeneratorTypes
    BY TypesApart DEF IInv
  <2>2. PICK p \in Part : p = Head(todo).to
    BY <1>1, <2>1, TailInOrder, StepKinds
  <2>3. Lists("liborder", p, rev[p])
    BY <1>1, <2>2 DEF IInv, Compiled
  <2>4. built'[p] = rev[p] /\ \A q \in Part \ {p} : built'[q] = built[q]
    BY <1>3, <2>1, <2>2 DEF FunctionTypes
  <2>5. FileTypes' /\ OtherTypes' /\ FunctionTypes' /\ GeneratorTypes'
    BY <1>1, <1>3, <2>1, <2>4 DEF Proceed, FileTypes, OtherTypes, FunctionTypes, GeneratorTypes
  <2>6. /\ InOrder(todo') /\ Ends(target', todo') /\ LiborderIsWhole' /\ OptFresh'
        /\ Head(todo').do = IF p = "rtl" THEN "mv_rtl_liborder" ELSE "cp_tb_liborder"
        /\ todo' # <<>>
    <3>1. Successors(Head(todo)) = IF p = "rtl" THEN {"mv_rtl_liborder"} ELSE {"cp_tb_liborder"}
      BY <1>1, <2>2 DEF Successors
    <3>2. "compile_files" \notin Final
      BY DEF Final, RunSteps
    <3>3. QED
      BY <1>1, <1>3, <3>1, <3>2, CompileStep DEF OptRemovers
  <2>7. Creating' /\ Compiled'
    BY <1>1, <2>2, <2>3, <2>4, <2>6 DEF Creating, Compiled, At, Lists, Part
  <2>8. RtlOrderKept'
    <3>1. CASE p = "rtl"
      BY <2>6, <3>1 DEF RtlOrderKept, At
    <3>2. CASE p # "rtl"
      <4>1. built'["rtl"] = built["rtl"] /\ ~At("mv_rtl_liborder")
        BY <1>1, <2>4, <3>2 DEF Part, At
      <4>2. QED
        BY <1>1, <4>1 DEF IInv, RtlOrderKept, Lists
    <3>3. QED
      BY <3>1, <3>2
  <2>9. QED
    BY <2>5, <2>6, <2>7, <2>8, IInvParts
<1>4. QED
  BY <1>2, <1>3 DEF CompileFiles

LEMMA MoveKeeps ==
  ASSUME IInv, MoveRtlLiborder
  PROVE  IInv'
<1>1. /\ todo # <<>> /\ Head(todo).do = "mv_rtl_liborder" /\ At("mv_rtl_liborder") /\ Proceed
      /\ files' = With(Without(files, {"liborder"}), "rtl_liborder", files.liborder)
      /\ UNCHANGED <<rev, target, made, built, snap, remake, gens, spoilers>>
  BY DEF MoveRtlLiborder, At, Proceed
<1>2. FileTypes /\ OtherTypes /\ FunctionTypes /\ GeneratorTypes
  BY TypesApart
<1>3. "liborder" \in DOMAIN files /\ files["liborder"] = FileLists["rtl"][built["rtl"]]
  BY <1>1 DEF IInv, Compiled, Lists
<1>4. /\ DOMAIN files' = (DOMAIN files \ {"liborder"}) \cup {"rtl_liborder"}
      /\ files'["rtl_liborder"] = files["liborder"]
      /\ \A f \in DOMAIN files \ {"liborder", "rtl_liborder"} : files'[f] = files[f]
  BY <1>1 DEF With, Without
<1>5. FileTypes'
  <2>1. files # <<>>
    BY <1>3
  <2>2. QED
    BY <1>1, <1>2, <1>3, <1>4, <2>1 DEF FileTypes
<1>6. OtherTypes' /\ FunctionTypes' /\ GeneratorTypes'
  BY <1>1, <1>2 DEF OtherTypes, FunctionTypes, GeneratorTypes
<1>7. /\ InOrder(todo') /\ Ends(target', todo') /\ LiborderIsWhole' /\ OptFresh'
      /\ todo' = <<>> \/ Head(todo').do \in Unordered
  <2>1. Successors(Head(todo)) = Unordered
    BY <1>1 DEF Successors
  <2>2. QED
    BY <1>1, <2>1, CompileStep DEF OptRemovers
<1>8. Creating' /\ Compiled' /\ RtlOrderKept'
  BY <1>1, <1>3, <1>4, <1>7, NothingDue DEF Lists
<1>9. QED
  BY <1>5, <1>6, <1>7, <1>8, IInvParts

\* What the two copies have in common: one file is written from another.
LEMMA CopyKeeps ==
  ASSUME IInv, NEW f \in {"liborder", "tb_liborder"}, NEW h \in {"liborder", "rtl_liborder"},
         At("cp_tb_liborder") \/ At("cp_rtl_liborder"), Proceed,
         h \in DOMAIN files, files' = With(files, f, files[h]),
         UNCHANGED <<made, built, snap, remake, gens, spoilers>>,
         Head(todo).do = "cp_tb_liborder" => f = "tb_liborder" /\ h = "liborder",
         Head(todo).do = "cp_rtl_liborder" => f = "liborder" /\ h = "rtl_liborder"
  PROVE  IInv'
<1>1. /\ todo # <<>> /\ Head(todo).do \in {"cp_tb_liborder", "cp_rtl_liborder"}
      /\ UNCHANGED <<rev, target>>
  BY DEF At, Proceed
<1>2. FileTypes /\ OtherTypes /\ FunctionTypes /\ GeneratorTypes
  BY TypesApart
<1>3. /\ DOMAIN files' = DOMAIN files \cup {f} /\ files'[f] = files[h]
      /\ \A g \in DOMAIN files \ {f} : files'[g] = files[g]
  BY DEF With
<1>4. FileTypes'
  <2>1. DOMAIN files # {} /\ DOMAIN <<>> = {}
    OBVIOUS
  <2>2. files # <<>>
    BY <2>1
  <2>3. QED
    BY <1>1, <1>2, <1>3, <2>2 DEF FileTypes
<1>5. OtherTypes' /\ FunctionTypes' /\ GeneratorTypes'
  BY <1>1, <1>2 DEF OtherTypes, FunctionTypes, GeneratorTypes
<1>6. /\ InOrder(todo') /\ Ends(target', todo') /\ LiborderIsWhole' /\ OptFresh' /\ todo' # <<>>
      /\ Head(todo).do = "cp_tb_liborder" => Head(todo').do = "cp_rtl_liborder"
      /\ Head(todo).do = "cp_rtl_liborder" => Head(todo').do = "cat_tb_liborder"
  <2>1. /\ Head(todo).do = "cp_tb_liborder" => Successors(Head(todo)) = {"cp_rtl_liborder"}
        /\ Head(todo).do = "cp_rtl_liborder" => Successors(Head(todo)) = {"cat_tb_liborder"}
    BY DEF Successors
  <2>2. Head(todo).do \notin Final
    BY <1>1 DEF Final, RunSteps
  <2>3. QED
    BY <1>1, <2>1, <2>2, CompileStep DEF OptRemovers
<1>7. RtlOrderKept'
  <2>1. ~At("mv_rtl_liborder")
    BY <1>1 DEF At
  <2>2. QED
    BY <1>3, <2>1 DEF IInv, RtlOrderKept, Lists
<1>8. Creating' /\ Compiled'
  <2>1. CASE Head(todo).do = "cp_tb_liborder"
    <3>1. Lists("liborder", "tb", built["tb"])
      BY <1>1, <2>1 DEF IInv, Compiled, At
    <3>2. Lists("tb_liborder", "tb", built["tb"])'
      BY <1>3, <2>1, <3>1 DEF Lists
    <3>3. QED
      BY <1>6, <2>1, <3>2 DEF Creating, Compiled, At
  <2>2. CASE Head(todo).do = "cp_rtl_liborder"
    <3>1. Lists("tb_liborder", "tb", built["tb"]) /\ ~At("mv_rtl_liborder")
      BY <1>1, <2>2 DEF IInv, Compiled, At
    <3>2. Lists("rtl_liborder", "rtl", built["rtl"])
      BY <2>2, <3>1 DEF IInv, RtlOrderKept
    <3>3. Lists("tb_liborder", "tb", built["tb"])' /\ Lists("liborder", "rtl", built["rtl"])'
      BY <1>3, <2>2, <3>1, <3>2 DEF Lists
    <3>4. QED
      BY <1>6, <2>2, <3>3 DEF Creating, Compiled, At
  <2>3. QED
    BY <1>1, <2>1, <2>2
<1>9. QED
  BY <1>4, <1>5, <1>6, <1>7, <1>8, IInvParts

LEMMA CopiesKeep ==
  ASSUME IInv, CopyTbLiborder \/ CopyRtlLiborder
  PROVE  IInv'
<1>1. CASE CopyTbLiborder
  <2>1. At("cp_tb_liborder") /\ Head(todo).do = "cp_tb_liborder"
    BY <1>1 DEF CopyTbLiborder, At
  <2>2. "liborder" \in DOMAIN files
    BY <2>1 DEF IInv, Compiled, Lists
  <2>3. QED
    BY <1>1, <2>1, <2>2, CopyKeeps DEF CopyTbLiborder
<1>2. CASE CopyRtlLiborder
  <2>1. At("cp_rtl_liborder") /\ Head(todo).do = "cp_rtl_liborder" /\ ~At("mv_rtl_liborder")
        /\ UNCHANGED <<made, built, snap, remake, gens, spoilers>>
    BY <1>2 DEF CopyRtlLiborder, At
  <2>2. CASE "rtl_liborder" \in DOMAIN files
    BY <1>2, <2>1, <2>2, CopyKeeps DEF CopyRtlLiborder
  <2>3. CASE "rtl_liborder" \notin DOMAIN files
    <3>1. Fail /\ UNCHANGED files
      BY <1>2, <2>3 DEF CopyRtlLiborder
    <3>2. QED
      BY <2>1, <3>1, FailKeeps
  <2>4. QED
    BY <2>2, <2>3
<1>3. QED
  BY <1>1, <1>2

LEMMA CatKeeps ==
  ASSUME IInv, CatTbLiborder
  PROVE  IInv'
<1>1. /\ todo # <<>> /\ Head(todo).do = "cat_tb_liborder" /\ At("cat_tb_liborder") /\ Proceed
      /\ files' = With(files, "liborder", files["liborder"] \o files["tb_liborder"])
      /\ UNCHANGED <<rev, target, made, built, snap, remake, gens, spoilers>>
  BY DEF CatTbLiborder, JoinedOrder, At, Proceed
<1>2. FileTypes /\ OtherTypes /\ FunctionTypes /\ GeneratorTypes
  BY TypesApart
<1>3. Lists("tb_liborder", "tb", built["tb"]) /\ Lists("liborder", "rtl", built["rtl"])
  BY <1>1 DEF IInv, Compiled
<1>4. /\ DOMAIN files' = DOMAIN files \cup {"liborder"}
      /\ files'["liborder"] = files["liborder"] \o files["tb_liborder"]
      /\ \A f \in DOMAIN files \ {"liborder"} : files'[f] = files[f]
  BY <1>1 DEF With
<1>5. FileTypes'
  <2>1. /\ files["liborder"] \in Seq(Lib)
        /\ files["tb_liborder"] \in Seq(Lib) \ {<<>>}
    BY <1>2, <1>3 DEF FileTypes, Lists
  <2>2. files'["liborder"] \in Seq(Lib) \ {<<>>}
    BY <1>4, <2>1, ConcatListed
  <2>3. DOMAIN files # {} /\ DOMAIN <<>> = {}
    BY <1>3 DEF Lists
  <2>4. files # <<>>
    BY <2>3
  <2>5. QED
    BY <1>1, <1>2, <1>4, <2>2, <2>4 DEF FileTypes
<1>6. OtherTypes' /\ FunctionTypes' /\ GeneratorTypes'
  BY <1>1, <1>2 DEF OtherTypes, FunctionTypes, GeneratorTypes
<1>7. /\ InOrder(todo') /\ Ends(target', todo') /\ OptFresh'
      /\ todo' = <<>> \/ Head(todo').do \in Unordered
  <2>1. Successors(Head(todo)) = Unordered
    BY <1>1 DEF Successors
  <2>2. QED
    BY <1>1, <2>1, Proceeds DEF OptRemovers, IInv, OptFresh
<1>8. Creating' /\ Compiled' /\ RtlOrderKept'
  <2>1. ~At("mv_rtl_liborder")
    BY <1>1 DEF At
  <2>2. ("rtl_liborder" \in DOMAIN files => Lists("rtl_liborder", "rtl", built["rtl"]))'
    BY <1>1, <1>4, <2>1 DEF IInv, RtlOrderKept, Lists
  <2>3. QED
    BY <1>7, <2>2, NothingDue
<1>9. LiborderIsWhole'
  BY <1>1, <1>3, <1>4 DEF LiborderIsWhole, Lists
<1>10. QED
  BY <1>5, <1>6, <1>7, <1>8, <1>9, IInvParts

-----------------------------------------------------------------------------
(* The theorems about the directory.                                         *)

\* What is true of the rest of a recipe and of the files it reads holds after every
\* step, whatever fails and whenever file lists are edited.
THEOREM Invariance == Spec => []IInv
<1>1. Init => IInv
  BY InitInvariant
<1>2. IInv /\ [Next]_vars => IInv'
  <2>1. SUFFICES ASSUME IInv, [Next]_vars
                 PROVE  IInv'
    OBVIOUS
  <2>3. CASE Make
    BY <2>1, <2>3, MakeKeeps
  <2>4. CASE Clean
    BY <2>1, <2>4, CleanKeeps
  <2>5. CASE RemoveOpts \/ Vopt
    BY <2>1, <2>5, SnapshotsKeep
  <2>6. CASE StartCompileScript
    BY <2>1, <2>6, ScriptKeeps
  <2>7. CASE CreateLibrary
    BY <2>1, <2>7, CreateKeeps
  <2>8. CASE CompileFiles
    BY <2>1, <2>8, CompileKeeps
  <2>9. CASE MoveRtlLiborder
    BY <2>1, <2>9, MoveKeeps
  <2>10. CASE CopyTbLiborder \/ CopyRtlLiborder
    BY <2>1, <2>10, CopiesKeep
  <2>11. CASE CatTbLiborder
    BY <2>1, <2>11, CatKeeps
  <2>12. CASE RemoveRemake \/ Simulate \/ Generate \/ AwaitGenerator \/ GenerateInBackground
              \/ MakeAll
    BY <2>1, <2>12, RunStepsKeep
  <2>13. CASE \E g \in Generators : Generator(g)
    BY <2>1, <2>13, GeneratorKeeps
  <2>14. CASE UNCHANGED vars
    <3>1. UNCHANGED <<rev, target, todo, made, files, built, snap, remake, gens, spoilers>>
      BY <2>14 DEF vars, dirVars
    <3>2. FileTypes' /\ OtherTypes' /\ FunctionTypes' /\ GeneratorTypes'
      BY <2>1, <3>1, TypesApart DEF FileTypes, OtherTypes, FunctionTypes, GeneratorTypes
    <3>3. InOrder(todo') /\ Ends(target', todo') /\ OptFresh' /\ LiborderIsWhole'
      BY <2>1, <3>1 DEF IInv, OptFresh, LiborderIsWhole
    <3>4. Compiled' /\ RtlOrderKept'
      BY <2>1, <3>1 DEF IInv, Compiled, RtlOrderKept, At, Lists
    <3>5. Creating'
      BY <2>1, <3>1 DEF IInv, Creating, At, Liborder, Libraries
    <3>6. QED
      BY <3>2, <3>3, <3>4, <3>5, IInvParts
  <2>15. QED
    BY <2>1, <2>3, <2>4, <2>5, <2>6, <2>7, <2>8, <2>9, <2>10, <2>11, <2>12, <2>13, <2>14
       DEF Next
<1>3. QED
  BY <1>1, <1>2, PTL DEF Spec

\* The directory and the file lists keep their types; what lists libraries is in
\* questa_libs.
THEOREM TypeCorrect == Spec => []TypeOK
<1>1. IInv => TypeOK
  BY DEF IInv
<1>2. QED
  BY <1>1, Invariance, PTL

\* A successful compile or compile_tb leaves the order of the RTL's libraries and then
\* of the test bench's, as compiled last, whatever makes failed before it and at which
\* step.
THEOREM OrderIsWhole == Spec => []LiborderIsWhole
<1>1. IInv => LiborderIsWhole
  BY DEF IInv
<1>2. QED
  BY <1>1, Invariance, PTL

\* The regression's snapshot is never of an earlier file list of the test bench: only a
\* compilation of the RTL or a recompile may have changed a library under it.
THEOREM SnapshotIsCurrent == Spec => []OptIsCurrent
<1>1. IInv => OptIsCurrent
  BY DEF IInv, OptFresh, OptIsCurrent
<1>2. QED
  BY <1>1, Invariance, PTL

-----------------------------------------------------------------------------
(* makefile.remake and the generators that no compilation has overtaken.     *)

LEMMA RunRestFacts ==
  ASSUME NEW s \in Seq(Steps), s # <<>>
  PROVE  /\ RunRest(s) => RunRest(Tail(s)) /\ RemakeRemovedFirst(s) /\ Head(s).do \in RunSteps
         /\ InOrder(s) /\ Head(s).do \in RunSteps => RunRest(s)
         /\ RemakeRemovedFirst(s) => Head(s).do \notin Mutators
<1>1. /\ Tail(s) \in Seq(Steps) /\ Len(Tail(s)) = Len(s) - 1 /\ Len(s) \in Nat \ {0}
      /\ Head(s) = s[1]
      /\ \A k \in 1..Len(Tail(s)) : Tail(s)[k] = s[k + 1]
  BY TailFacts
<1>2. 1 \in 1..Len(s)
  BY <1>1
<1>3. ASSUME RunRest(s) PROVE RunRest(Tail(s))
  <2>1. SUFFICES ASSUME NEW k \in 1..Len(Tail(s)) PROVE Tail(s)[k].do \in RunSteps
    BY DEF RunRest
  <2>2. k + 1 \in 1..Len(s) /\ Tail(s)[k] = s[k + 1]
    BY <1>1
  <2>3. QED
    BY <1>3, <2>2 DEF RunRest
<1>4. RunRest(s) => RemakeRemovedFirst(s) /\ s[1].do \in RunSteps
  BY <1>2 DEF RunRest, RemakeRemovedFirst, RunSteps, Mutators
<1>5. InOrder(s) /\ s[1].do \in RunSteps => RunRest(s)
  <2>1. s[1].do \in RunSteps => s[1].do \notin CompileSteps
    BY DEF RunSteps, CompileSteps, Removers, OptRemovers, Mutators
  <2>2. QED
    BY <1>2, <2>1 DEF InOrder, RunRest
<1>6. RemakeRemovedFirst(s) => s[1].do \notin Mutators
  BY <1>2 DEF RemakeRemovedFirst
<1>7. QED
  BY <1>1, <1>3, <1>4, <1>5, <1>6

LEMMA NoRest ==
  RunRest(<<>>)
<1>1. Len(<<>>) = 0
  OBVIOUS
<1>2. QED
  BY <1>1 DEF RunRest

LEMMA AtHead ==
  ASSUME IInv, RemakeInv, todo # <<>>
  PROVE  /\ todo \in Seq(Steps) /\ InOrder(todo)
         /\ Head(todo).do \in CompileSteps => \A g \in Generators : Running(g) => gens[g].late
         /\ remake # {} /\ spoilers = {} => Head(todo).do \notin Mutators
<1>1. todo \in Seq(Steps) /\ InOrder(todo)
  BY DEF IInv, InOrder
<1>2. ASSUME Head(todo).do \in CompileSteps, NEW g \in Generators, Running(g), ~gens[g].late
      PROVE  FALSE
  <2>1. RunRest(todo)
    BY <1>2 DEF RemakeInv, Undisturbed
  <2>2. Head(todo).do \in RunSteps
    BY <1>1, <2>1, RunRestFacts
  <2>3. QED
    BY <1>2, <2>2 DEF RunSteps, CompileSteps, Removers, OptRemovers, Mutators
<1>3. remake # {} /\ spoilers = {} => Head(todo).do \notin Mutators
  BY <1>1, RunRestFacts DEF RemakeInv, RemakeFresh
<1>4. QED
  BY <1>1, <1>2, <1>3

\* A step of a compilation, which has overtaken every generator that runs.
LEMMA CalmStep ==
  ASSUME IInv, RemakeInv, todo # <<>>, Head(todo).do \in CompileSteps,
         \A g \in Generators : gens'[g].pc = gens[g].pc /\ gens'[g].late = gens[g].late,
         remake' = {} \/ /\ remake' = remake /\ spoilers' = spoilers
                         /\ Head(todo).do \in {"compile_files", "remove_opts"} => UNCHANGED files
                         /\ Head(todo).do \notin Removers
                         /\ Head(todo).do \notin Mutators => todo' \in {Tail(todo), <<>>}
  PROVE  RemakeInv'
<1>1. /\ todo \in Seq(Steps) /\ \A g \in Generators : Running(g) => gens[g].late
      /\ remake # {} /\ spoilers = {} => Head(todo).do \notin Mutators
  BY AtHead
<1>2. \A g \in Generators : Running(g)' => gens'[g].late
  BY <1>1 DEF Running
<1>3. Undisturbed' /\ ReadIsCurrent'
  BY <1>2 DEF Undisturbed, ReadIsCurrent, Running
<1>4. RemakeFresh'
  <2>1. CASE remake' = {} \/ spoilers' # {}
    BY <2>1 DEF RemakeFresh
  <2>2. CASE remake' # {} /\ spoilers' = {}
    <3>1. /\ remake' = remake /\ spoilers = {} /\ Head(todo).do \notin Mutators \cup Removers
          /\ todo' \in {Tail(todo), <<>>}
      BY <1>1, <2>2
    <3>2. Head(todo).do \in {"compile_files", "remove_opts"}
      BY <3>1 DEF CompileSteps, Removers, OptRemovers
    <3>3. RemakeRemovedFirst(todo')
      BY <1>1, <2>2, <3>1, TailKeeps, NoSteps DEF RemakeInv, RemakeFresh
    <3>4. QED
      BY <2>2, <3>1, <3>2, <3>3 DEF RemakeInv, RemakeFresh
  <2>3. QED
    BY <2>1, <2>2
<1>5. QED
  BY <1>3, <1>4 DEF RemakeInv

LEMMA CompileStepsKeepRemake ==
  ASSUME IInv, RemakeInv,
         \/ Clean \/ RemoveRemake \/ RemoveOpts \/ StartCompileScript \/ CreateLibrary
         \/ CompileFiles \/ MoveRtlLiborder \/ CopyTbLiborder \/ CopyRtlLiborder \/ CatTbLiborder
  PROVE  RemakeInv'
<1> USE DEF CompileSteps, Removers, OptRemovers, Mutators, At
<1>1. CASE Clean \/ RemoveRemake
  <2>1. RemakeRemoved /\ todo # <<>> /\ Head(todo).do \in CompileSteps
    BY <1>1 DEF Clean, RemoveRemake
  <2>2. /\ remake' = {}
        /\ \A g \in Generators : gens'[g].pc = gens[g].pc /\ gens'[g].late = gens[g].late
    <3>1. remake' = {} /\ GeneratorTypes
      BY <2>1, RemovalTyped DEF IInv
    <3>2. \A g \in Generators : gens'[g] = [gens[g] EXCEPT !.holds = FALSE]
      BY <2>1 DEF RemakeRemoved
    <3>3. QED
      BY <3>1, <3>2 DEF GeneratorTypes
  <2>3. QED
    BY <2>1, <2>2, CalmStep
<1>2. CASE \/ RemoveOpts \/ StartCompileScript \/ CreateLibrary \/ CompileFiles
           \/ MoveRtlLiborder \/ CopyTbLiborder \/ CopyRtlLiborder \/ CatTbLiborder
  <2>1. UNCHANGED <<gens, remake, spoilers>> /\ todo # <<>>
    BY <1>2 DEF RemoveOpts, StartCompileScript, CreateLibrary, CompileFiles, MoveRtlLiborder,
                CopyTbLiborder, CopyRtlLiborder, CatTbLiborder
  <2>3. CASE RemoveOpts \/ CompileFiles
    <3>1. /\ Head(todo).do \in {"remove_opts", "compile_files"} /\ UNCHANGED files
          /\ todo' \in {Tail(todo), <<>>}
      BY <2>3 DEF RemoveOpts, CompileFiles, Proceed, Fail
    <3>2. QED
      BY <2>1, <3>1, CalmStep
  <2>4. CASE ~(RemoveOpts \/ CompileFiles)
    <3>1. Head(todo).do \in Mutators
      BY <1>2, <2>4 DEF StartCompileScript, CreateLibrary, MoveRtlLiborder, CopyTbLiborder,
                        CopyRtlLiborder, CatTbLiborder
    <3>2. Head(todo).do \notin Removers \cup {"compile_files", "remove_opts"}
      BY <3>1
    <3>3. QED
      BY <2>1, <3>1, <3>2, CalmStep
  <2>5. QED
    BY <2>3, <2>4
<1>3. QED
  BY <1>1, <1>2

LEMMA RunStepsKeepRemake ==
  ASSUME IInv, RemakeInv,
         Vopt \/ Simulate \/ Generate \/ AwaitGenerator \/ GenerateInBackground \/ MakeAll
  PROVE  RemakeInv'
<1>1. /\ todo # <<>> /\ Head(todo).do \in RunSteps /\ todo' \in {Tail(todo), <<>>}
      /\ UNCHANGED <<files, remake, spoilers>>
      /\ \/ UNCHANGED gens
         \/ \E g \in Generators : \E pc \in {"read", "test"} :
              gens' = [gens EXCEPT ![g] = [Idle EXCEPT !.pc = pc]]
  BY DEF Vopt, Simulate, Generate, AwaitGenerator, GenerateInBackground, MakeAll, At, Proceed,
         Fail, RunSteps, dirVars, Start, Generators
<1>2. todo \in Seq(Steps) /\ InOrder(todo) /\ GeneratorTypes
  BY DEF IInv, InOrder
<1>3. RunRest(todo')
  BY <1>1, <1>2, RunRestFacts, NoRest
<1>4. RemakeRemovedFirst(todo')
  BY <1>3 DEF RunRest, RemakeRemovedFirst, RunSteps, Mutators
<1>5. Undisturbed'
  BY <1>3 DEF Undisturbed, RunRest
<1>6. RemakeFresh'
  BY <1>1, <1>4 DEF RemakeInv, RemakeFresh
<1>7. ReadIsCurrent'
  <2>1. \A g \in Generators : gens'[g].pc \in {"open", "write"} => gens'[g] = gens[g]
    <3>1. ASSUME NEW g \in Generators, NEW pc \in {"read", "test"},
                 gens' = [gens EXCEPT ![g] = [Idle EXCEPT !.pc = pc]]
          PROVE  /\ gens'[g].pc = pc
                 /\ \A h \in Generators \ {g} : gens'[h] = gens[h]
      BY <1>2, <3>1 DEF GeneratorTypes, Idle
    <3>2. QED
      BY <1>1, <3>1
  <2>2. QED
    BY <1>1, <2>1 DEF RemakeInv, ReadIsCurrent
<1>8. QED
  BY <1>5, <1>6, <1>7 DEF RemakeInv

\* A generator's step keeps what is known of it: whether it was overtaken, and its order.
LEMMA GeneratorStep ==
  ASSUME GeneratorTypes, NEW g \in Generators, Generator(g)
  PROVE  /\ UNCHANGED <<todo, files>> /\ Running(g)
         /\ \A h \in Generators \ {g} : gens'[h] = gens[h]
         /\ Running(g)' => gens'[g].late = gens[g].late
         /\ gens'[g].pc = "open" => "liborder" \in DOMAIN files /\ gens'[g].order = files.liborder
         /\ gens'[g].pc = "write" => gens[g].pc = "open" /\ gens'[g].order = gens[g].order
<1>1. UNCHANGED <<todo, files>> /\ gens[g].pc \in {"test", "read", "open", "write"}
  BY DEF Generator, TestRemake, ReadLiborder, OpenRemake, CloseRemake, dirVars
<1>2. PICK r :
        /\ gens' = [gens EXCEPT ![g] = r]
        /\ \/ \E pc \in {"idle", "failed"} : r = [Idle EXCEPT !.pc = pc]
           \/ r = [gens[g] EXCEPT !.pc = "read"]
           \/ /\ "liborder" \in DOMAIN files
              /\ r = [gens[g] EXCEPT !.pc = "open", !.order = files.liborder]
           \/ gens[g].pc = "open" /\ r = [gens[g] EXCEPT !.pc = "write", !.holds = TRUE]
  <2>1. Idle = [Idle EXCEPT !.pc = "idle"]
    BY DEF Idle
  <2>2. CASE TestRemake(g)
    BY <2>1, <2>2 DEF TestRemake, Becomes
  <2>3. CASE ReadLiborder(g)
    BY <2>3 DEF ReadLiborder, Becomes, Died
  <2>4. CASE OpenRemake(g)
    BY <2>4 DEF OpenRemake, Becomes, Died
  <2>5. CASE CloseRemake(g)
    BY <2>1, <2>5 DEF CloseRemake, Becomes
  <2>6. QED
    BY <2>2, <2>3, <2>4, <2>5 DEF Generator
<1>3. gens'[g] = r /\ \A h \in Generators \ {g} : gens'[h] = gens[h]
  BY <1>2 DEF GeneratorTypes
<1>4. gens[g] \in [pc : {"idle", "test", "read", "open", "write", "failed"},
                   order : Seq(Lib), holds : BOOLEAN, late : BOOLEAN]
  BY DEF GeneratorTypes
<1>5. /\ r.pc \notin {"idle", "failed"} => r.late = gens[g].late
      /\ r.pc = "open" => "liborder" \in DOMAIN files /\ r.order = files.liborder
      /\ r.pc = "write" => gens[g].pc = "open" /\ r.order = gens[g].order
  BY <1>2, <1>4 DEF Idle
<1>6. QED
  BY <1>1, <1>3, <1>5 DEF Running

LEMMA GeneratorKeepsRemake ==
  ASSUME IInv, RemakeInv, NEW g \in Generators, Generator(g)
  PROVE  RemakeInv'
<1>1. /\ UNCHANGED <<todo, files>> /\ Running(g)
      /\ \A h \in Generators \ {g} : gens'[h] = gens[h]
      /\ Running(g)' => gens'[g].late = gens[g].late
      /\ gens'[g].pc = "open" => "liborder" \in DOMAIN files /\ gens'[g].order = files.liborder
      /\ gens'[g].pc = "write" => gens[g].pc = "open" /\ gens'[g].order = gens[g].order
  BY GeneratorStep DEF IInv
<1>2. Undisturbed /\ ReadIsCurrent /\ RemakeFresh
  BY DEF RemakeInv
<1>3. Undisturbed'
  <2>1. SUFFICES ASSUME NEW h \in Generators, Running(h)', ~gens'[h].late
                 PROVE  RunRest(todo)
    BY <1>1 DEF Undisturbed, RunRest
  <2>2. Running(h) /\ ~gens[h].late
    BY <1>1, <2>1 DEF Running
  <2>3. QED
    BY <1>2, <2>2 DEF Undisturbed
<1>4. ReadIsCurrent'
  <2>1. SUFFICES ASSUME NEW h \in Generators, gens'[h].pc \in {"open", "write"}, ~gens'[h].late
                 PROVE  "liborder" \in DOMAIN files /\ gens'[h].order = files.liborder
    BY <1>1 DEF ReadIsCurrent
  <2>2. CASE h # g
    BY <1>1, <1>2, <2>1, <2>2 DEF ReadIsCurrent
  <2>3. CASE h = g /\ gens'[g].pc = "open"
    BY <1>1, <2>3
  <2>4. CASE h = g /\ gens'[g].pc = "write"
    <3>1. gens[g].pc = "open" /\ ~gens[g].late /\ gens'[g].order = gens[g].order
      BY <1>1, <2>1, <2>4 DEF Running
    <3>2. QED
      BY <1>2, <2>4, <3>1 DEF ReadIsCurrent
  <2>5. QED
    BY <2>1, <2>2, <2>3, <2>4
<1>5. RemakeFresh'
  <2>1. CASE UNCHANGED <<remake, spoilers>>
    BY <1>1, <1>2, <2>1 DEF RemakeFresh
  <2>2. CASE /\ gens[g].pc = "open"
             /\ remake' = {gens[h].order : h \in Writers(g)}
             /\ spoilers' = IF \E h \in Writers(g) : gens[h].late THEN {"overtaken"} ELSE {}
    <3>1. SUFFICES ASSUME spoilers' = {}
                   PROVE  /\ "liborder" \in DOMAIN files /\ remake' = {files.liborder}
                          /\ RemakeRemovedFirst(todo)
      BY <1>1 DEF RemakeFresh
    <3>2. g \in Writers(g) /\ \A h \in Writers(g) : ~gens[h].late
      BY <2>2, <3>1 DEF Writers
    <3>3. \A h \in Writers(g) : h \in Generators /\ gens[h].pc \in {"open", "write"}
      BY <2>2 DEF Writers
    <3>4. \A h \in Writers(g) : "liborder" \in DOMAIN files /\ gens[h].order = files.liborder
      BY <1>2, <3>2, <3>3 DEF ReadIsCurrent
    <3>5. RunRest(todo)
      BY <1>1, <1>2, <3>2 DEF Undisturbed
    <3>6. RemakeRemovedFirst(todo)
      BY <3>5 DEF RunRest, RemakeRemovedFirst, RunSteps, Mutators
    <3>7. remake' = {files.liborder}
      BY <2>2, <3>2, <3>4
    <3>8. QED
      BY <3>2, <3>4, <3>6, <3>7
  <2>3. QED
    BY <2>1, <2>2 DEF Generator, TestRemake, ReadLiborder, OpenRemake, CloseRemake
<1>6. QED
  BY <1>3, <1>4, <1>5 DEF RemakeInv

LEMMA MakeKeepsRemake ==
  ASSUME IInv, RemakeInv, Make
  PROVE  RemakeInv'
<1>1. PICK t \in DOMAIN Recipe :
        /\ target' = t /\ todo' = Recipe[t]
        /\ gens' = [g \in Generators |->
                     [gens[g] EXCEPT !.late = @ \/ (Compiles(t) /\ Running(g))]]
        /\ spoilers' = spoilers \cup (IF remake = {} THEN {} ELSE {t} \cap {"compile_rtl_fv"})
  BY DEF Make
<1>2. UNCHANGED <<files, remake>>
  BY DEF Make, dirVars
<1>3. WellMade(t, todo')
  BY <1>1, RecipesWellMade
<1>4. \A g \in Generators : /\ gens'[g].pc = gens[g].pc /\ gens'[g].order = gens[g].order
                            /\ ~gens'[g].late /\ Running(g) => ~gens[g].late /\ ~Compiles(t)
                            /\ ~gens'[g].late => ~gens[g].late
  BY <1>1 DEF IInv, GeneratorTypes, Compiles, Running
<1>5. Undisturbed'
  BY <1>3, <1>4 DEF Undisturbed, Running, WellMade, RunRest
<1>6. ReadIsCurrent'
  BY <1>2, <1>4 DEF RemakeInv, ReadIsCurrent
<1>7. RemakeFresh'
  <2>1. CASE remake' # {} /\ spoilers' = {}
    <3>1. spoilers = {} /\ remake # {} /\ t # "compile_rtl_fv"
      BY <1>1, <1>2, <2>1
    <3>2. RemakeRemovedFirst(todo')
      BY <1>3, <3>1 DEF WellMade
    <3>3. QED
      BY <1>2, <3>1, <3>2 DEF RemakeInv, RemakeFresh
  <2>2. QED
    BY <2>1 DEF RemakeFresh
<1>8. QED
  BY <1>5, <1>6, <1>7 DEF RemakeInv

\* makefile.remake never outlives the order that it was generated from, whatever makes
\* overlap with its generators, but in two cases: compile_rtl_fv was made since, which
\* does not remove it; or a compilation was started while its generator still ran.
THEOREM RemakeFollows == Spec => []RemakeIsCurrent
<1>1. Init => RemakeInv
  <2>1. SUFFICES ASSUME Init
                 PROVE  RemakeInv
    OBVIOUS
  <2>2. \A g \in Generators : gens[g].pc = "idle"
    BY <2>1 DEF Init, Idle
  <2>3. remake = {}
    BY <2>1 DEF Init
  <2>4. QED
    BY <2>2, <2>3 DEF RemakeInv, Undisturbed, ReadIsCurrent, RemakeFresh, Running
<1>2. IInv /\ RemakeInv /\ [Next]_vars => RemakeInv'
  <2>1. SUFFICES ASSUME IInv, RemakeInv, [Next]_vars
                 PROVE  RemakeInv'
    OBVIOUS
  <2>2. CASE UNCHANGED vars
    <3>1. UNCHANGED <<todo, files, remake, gens, spoilers>>
      BY <2>2 DEF vars, dirVars
    <3>2. QED
      BY <2>1, <3>1 DEF RemakeInv, Undisturbed, ReadIsCurrent, RemakeFresh, Running
  <2>3. CASE Make
    BY <2>1, <2>3, MakeKeepsRemake
  <2>4. CASE \/ Clean \/ RemoveRemake \/ RemoveOpts \/ StartCompileScript \/ CreateLibrary
             \/ CompileFiles \/ MoveRtlLiborder \/ CopyTbLiborder \/ CopyRtlLiborder
             \/ CatTbLiborder
    BY <2>1, <2>4, CompileStepsKeepRemake
  <2>5. CASE Vopt \/ Simulate \/ Generate \/ AwaitGenerator \/ GenerateInBackground \/ MakeAll
    BY <2>1, <2>5, RunStepsKeepRemake
  <2>6. CASE \E g \in Generators : Generator(g)
    BY <2>1, <2>6, GeneratorKeepsRemake
  <2>7. QED
    BY <2>1, <2>2, <2>3, <2>4, <2>5, <2>6 DEF Next
<1>3. RemakeInv => RemakeIsCurrent
  BY DEF RemakeInv, RemakeFresh, RemakeIsCurrent
<1>4. QED
  BY <1>1, <1>2, <1>3, Invariance, PTL DEF Spec

-----------------------------------------------------------------------------
(* The libraries of makefile.remake: induction along an order.               *)

\* Every set of numbers has a least one.
LEMMA LeastNumber ==
  ASSUME NEW T, T \subseteq Nat, T # {}
  PROVE  \E m \in T : \A k \in T : m <= k
<1>1. PICK m \in T : \A k \in T : <<k, m>> \notin OpToRel(<, Nat)
  BY NatLessThanWellFounded, WFMin
<1>2. ASSUME NEW k \in T
      PROVE  m <= k
  <2>1. k \in Nat /\ m \in Nat
    OBVIOUS
  <2>2. ~(k < m)
    BY <1>1, <2>1, Zenon DEF OpToRel
  <2> QED  BY <2>1, <2>2
<1> QED  BY <1>2

\* What holds at 0 and from each number to the next holds of all: the numbers it holds of
\* are given as a set.
LEMMA Induction ==
  ASSUME NEW S, 0 \in S, \A n \in Nat : n \in S => n + 1 \in S
  PROVE  Nat \subseteq S
<1> DEFINE T == Nat \ S
<1>1. SUFFICES ASSUME T # {} PROVE FALSE
  OBVIOUS
<1>2. PICK m \in T : \A k \in T : m <= k
  BY <1>1, LeastNumber
<1>3. m \in Nat \ {0}
  OBVIOUS
<1>4. m - 1 \in Nat /\ m - 1 \notin T
  BY <1>2, <1>3
<1> QED  BY <1>3, <1>4

NothingKept == [libs |-> <<>>, prev |-> ""]

\* What is kept after each line of an order.
KeptAlong(order, n, kept) ==
  kept = [k \in 0..n |-> IF k = 0 THEN NothingKept ELSE AddLibrary(kept[k - 1], order[k])]

LEMMA KeptExists ==
  ASSUME NEW order, NEW n \in Nat
  PROVE  \E kept : KeptAlong(order, n, kept)
<1> DEFINE S == {m \in Nat : \E kept : KeptAlong(order, m, kept)}
<1>1. 0 \in S
  <2>1. KeptAlong(order, 0, [k \in 0..0 |-> NothingKept])
    BY DEF KeptAlong
  <2> QED  BY <2>1
<1>2. ASSUME NEW m \in Nat, m \in S
      PROVE  m + 1 \in S
  <2>1. PICK f : KeptAlong(order, m, f)
    BY <1>2
  <2> DEFINE g == [k \in 0..(m + 1) |-> IF k = m + 1 THEN AddLibrary(f[m], order[m + 1]) ELSE f[k]]
  <2>2. \A k \in 0..m : f[k] = IF k = 0 THEN NothingKept ELSE AddLibrary(f[k - 1], order[k])
    BY <2>1 DEF KeptAlong
  <2>3. ASSUME NEW k \in 0..(m + 1)
        PROVE  g[k] = IF k = 0 THEN NothingKept ELSE AddLibrary(g[k - 1], order[k])
    <3>1. CASE k = 0
      BY <2>2, <3>1
    <3>2. CASE k \in 1..m
      <4>1. k - 1 \in 0..m /\ k \in 0..m /\ k # 0
        BY <3>2
      <4>2. g[k] = f[k] /\ g[k - 1] = f[k - 1]
        BY <4>1
      <4> QED  BY <2>2, <4>1, <4>2
    <3>3. CASE k = m + 1
      <4>1. g[m + 1] = AddLibrary(f[m], order[m + 1]) /\ g[m] = f[m] /\ k - 1 = m
        BY <3>3
      <4> QED  BY <3>3, <4>1
    <3> QED  BY <3>1, <3>2, <3>3
  <2>4. KeptAlong(order, m + 1, g)
    <3> DEFINE h == [k \in 0..(m + 1) |->
                       IF k = 0 THEN NothingKept ELSE AddLibrary(g[k - 1], order[k])]
    <3>1. \A k \in 0..(m + 1) : g[k] = h[k]
      BY <2>3
    <3>2. g = h
      BY <3>1
    <3> QED  BY <3>2 DEF KeptAlong
  <2> QED  BY <2>4
<1> HIDE DEF S
<1>3. n \in S
  BY <1>1, <1>2, Induction
<1> QED  BY <1>3 DEF S

\* Targets is what is kept at the end.
LEMMA TargetsAreKept ==
  ASSUME NEW order, Len(order) \in Nat
  PROVE  \E kept : KeptAlong(order, Len(order), kept) /\ Targets(order) = kept[Len(order)].libs
<1> DEFINE kept == CHOOSE f : KeptAlong(order, Len(order), f)
<1>1. KeptAlong(order, Len(order), kept)
  BY KeptExists
<1>2. Targets(order) = kept[Len(order)].libs
  BY DEF Targets, KeptAlong, NothingKept
<1> QED  BY <1>1, <1>2

\* The libraries libs are those of the first n lines of an order, and each was listed
\* there after every listing of one that is before it.
ListedIn(order, n, libs) ==
  /\ libs \in Seq(Lib)
  /\ \A k \in 1..n : \E i \in 1..Len(libs) : libs[i] = order[k]
  /\ \A i \in 1..Len(libs) : \E k \in 1..n : order[k] = libs[i]
  /\ \A i, j \in 1..Len(libs) : i < j =>
       \E k \in 1..n : order[k] = libs[j] /\ \A m \in k..n : order[m] # libs[i]

\* What is true of what is kept after the first n lines.
KeptRight(order, n, acc) ==
  /\ ListedIn(order, n, acc.libs)
  /\ n = 0 => acc.prev = ""
  /\ n # 0 => /\ acc.prev = order[n]
              /\ acc.libs # <<>> /\ acc.libs[Len(acc.libs)] = order[n]

\* Removing a library from where it is.
LEMMA Removed ==
  ASSUME NEW s \in Seq(Lib), NEW l
  PROVE  \/ /\ \A i \in 1..Len(s) : s[i] # l
            /\ RemoveFirst(s, l) = s
         \/ \E x \in 1..Len(s) :
              /\ s[x] = l
              /\ RemoveFirst(s, l) \in Seq(Lib) /\ Len(RemoveFirst(s, l)) = Len(s) - 1
              /\ \A i \in 1..(Len(s) - 1) :
                   RemoveFirst(s, l)[i] = IF i < x THEN s[i] ELSE s[i + 1]
<1>1. CASE \A i \in 1..Len(s) : s[i] # l
  BY <1>1 DEF RemoveFirst
<1>2. CASE \E i \in 1..Len(s) : s[i] = l
  <2> DEFINE I == {i \in 1..Len(s) : s[i] = l}
             x == Min(I)
  <2>1. RemoveFirst(s, l) = RemoveAt(s, x)
    BY <1>2 DEF RemoveFirst, SelectInSeq
  <2>2. PICK y \in I : \A i \in I : y <= i
    <3>1. I # {} /\ I \subseteq Nat
      BY <1>2
    <3> HIDE DEF I
    <3> QED  BY <3>1, LeastNumber
  <2>3. x \in I
    BY <2>2 DEF Min
  <2> HIDE DEF x
  <2> DEFINE a == SubSeq(s, 1, x - 1)
             b == SubSeq(s, x + 1, Len(s))
  <2>4. x \in 1..Len(s) /\ s[x] = l /\ Len(s) \in Nat
    BY <2>3
  <2>5. /\ a \in Seq(Lib) /\ Len(a) = x - 1 /\ \A i \in 1..(x - 1) : a[i] = s[i]
        /\ b \in Seq(Lib) /\ Len(b) = Len(s) - x
        /\ \A i \in 1..(Len(s) - x) : b[i] = s[x + i]
    BY <2>4
  <2>6. RemoveAt(s, x) = a \o b
    BY DEF RemoveAt
  <2> HIDE DEF a, b
  <2>7. /\ a \o b \in Seq(Lib) /\ Len(a \o b) = Len(s) - 1
        /\ \A i \in 1..(Len(s) - 1) : (a \o b)[i] = IF i < x THEN a[i] ELSE b[i - (x - 1)]
    <3>1. /\ a \o b \in Seq(Lib) /\ Len(a \o b) = Len(a) + Len(b)
          /\ \A i \in 1..(Len(a) + Len(b)) :
               (a \o b)[i] = IF i <= Len(a) THEN a[i] ELSE b[i - Len(a)]
      BY <2>5, ConcatProperties
    <3>2. Len(a) = x - 1 /\ Len(a) + Len(b) = Len(s) - 1
      BY <2>4, <2>5
    <3>3. \A i \in 1..(Len(s) - 1) : i <= x - 1 <=> i < x
      BY <2>4
    <3> QED  BY <3>1, <3>2, <3>3
  <2>8. \A i \in 1..(Len(s) - 1) : (a \o b)[i] = IF i < x THEN s[i] ELSE s[i + 1]
    <3> TAKE i \in 1..(Len(s) - 1)
    <3>1. CASE i < x
      BY <2>4, <2>5, <2>7, <3>1
    <3>2. CASE ~(i < x)
      <4>1. i - (x - 1) \in 1..(Len(s) - x) /\ x + (i - (x - 1)) = i + 1
        BY <2>4, <3>2
      <4> QED  BY <2>5, <2>7, <3>2, <4>1
    <3> QED  BY <3>1, <3>2
  <2> QED  BY <2>1, <2>4, <2>6, <2>7, <2>8
<1> QED  BY <1>1, <1>2

\* No name of a library occurs in the name of another.
NamesSeparate == "" \notin Lib /\ \A l \in Lib, m \in Lib : <<l, m>> \in Occurs <=> l = m

LEMMA AddedRight ==
  ASSUME NamesSeparate, NEW order, NEW n \in Nat, order[n + 1] \in Lib, NEW acc,
         KeptRight(order, n, acc), Occurs \subseteq Lib \X Lib,
         \A k \in 1..n : order[k] \in Lib
  PROVE  KeptRight(order, n + 1, AddLibrary(acc, order[n + 1]))
<1> DEFINE l == order[n + 1]
           s == acc.libs
           added == AddLibrary(acc, l)
           t == added.libs
<1>1. s \in Seq(Lib) /\ Len(s) \in Nat
  <2>1. s \in Seq(Lib)
    BY DEF KeptRight, ListedIn
  <2> QED  BY <2>1, LenProperties
<1>2. /\ \A k \in 1..n : \E i \in 1..Len(s) : s[i] = order[k]
      /\ \A i \in 1..Len(s) : \E k \in 1..n : order[k] = s[i]
      /\ \A i, j \in 1..Len(s) : i < j =>
           \E k \in 1..n : order[k] = s[j] /\ \A m \in k..n : order[m] # s[i]
  BY DEF KeptRight, ListedIn
<1>3. \A k \in 1..(n + 1) : k \in 1..n \/ k = n + 1
  OBVIOUS
<1>4. \A k \in 1..n : k \in 1..(n + 1)
  OBVIOUS
<1>5. n + 1 \in 1..(n + 1)
  OBVIOUS
<1>6. \A i, j \in 1..Len(s) : i < j => s[i] # s[j]
  BY <1>2
<1>7. CASE <<acc.prev, l>> \in Occurs
  <2>1. added = acc
    BY <1>7 DEF AddLibrary
  <2>2. n # 0 /\ acc.prev = order[n] /\ l = order[n]
    <3>1. acc.prev \in Lib /\ acc.prev = l
      BY <1>7 DEF NamesSeparate
    <3>2. n # 0
      BY <3>1 DEF KeptRight, NamesSeparate
    <3> QED  BY <3>1, <3>2 DEF KeptRight
  <2>3. s # <<>> /\ s[Len(s)] = l /\ Len(s) \in 1..Len(s)
    <3>1. s # <<>> /\ s[Len(s)] = l
      BY <2>2 DEF KeptRight
    <3> HIDE DEF s
    <3>2. Len(s) # 0
      BY <1>1, <3>1, EmptySeq
    <3> QED  BY <1>1, <3>1, <3>2
  <2>4. \A k \in 1..(n + 1) : \E i \in 1..Len(s) : s[i] = order[k]
    BY <1>2, <1>3, <2>3
  <2>5. \A i \in 1..Len(s) : \E k \in 1..(n + 1) : order[k] = s[i]
    BY <1>2, <1>4
  <2>6. ASSUME NEW i \in 1..Len(s), NEW j \in 1..Len(s), i < j
        PROVE  \E k \in 1..(n + 1) : order[k] = s[j] /\ \A m \in k..(n + 1) : order[m] # s[i]
    <3>1. PICK k \in 1..n : order[k] = s[j] /\ \A m \in k..n : order[m] # s[i]
      BY <1>2, <2>6
    <3>2. i < Len(s)
      BY <2>6
    <3>3. l # s[i]
      BY <1>6, <2>3, <3>2
    <3>4. \A m \in k..(n + 1) : m \in k..n \/ m = n + 1
      OBVIOUS
    <3> QED  BY <1>4, <3>1, <3>3, <3>4
  <2>7. ListedIn(order, n + 1, s)
    BY <1>1, <2>4, <2>5, <2>6 DEF ListedIn
  <2>8. n + 1 # 0
    OBVIOUS
  <2> QED  BY <2>1, <2>2, <2>3, <2>7, <2>8 DEF KeptRight
<1>8. CASE <<acc.prev, l>> \notin Occurs
  <2> DEFINE r == RemoveFirst(s, l)
  <2>1. /\ added = [libs |-> t, prev |-> l] /\ t = Append(r, l)
    BY <1>8 DEF AddLibrary
  <2> SUFFICES /\ t \in Seq(Lib) /\ t # <<>> /\ t[Len(t)] = l
               /\ \A k \in 1..(n + 1) : \E i \in 1..Len(t) : t[i] = order[k]
               /\ \A i \in 1..Len(t) : \E k \in 1..(n + 1) : order[k] = t[i]
               /\ \A i, j \in 1..Len(t) : i < j =>
                    \E k \in 1..(n + 1) : /\ order[k] = t[j]
                                          /\ \A m \in k..(n + 1) : order[m] # t[i]
    <3>1. added.prev = l /\ n + 1 # 0
      BY <2>1
    <3> QED  BY <2>1, <3>1 DEF KeptRight, ListedIn
  <2> HIDE DEF added
  \* Where each of the rest was, and that it is not l.
  <2> DEFINE WasAt(f) ==
               /\ r \in Seq(Lib)
               /\ \A i \in 1..Len(r) : r[i] = s[f[i]] /\ r[i] # l
               /\ \A i, j \in 1..Len(r) : i < j => f[i] < f[j]
               /\ \A i \in 1..Len(s) : s[i] = l \/ \E j \in 1..Len(r) : f[j] = i
  <2>2. \E f \in [1..Len(r) -> 1..Len(s)] : WasAt(f)
    <3>1. CASE (\A i \in 1..Len(s) : s[i] # l) /\ r = s
      <4> DEFINE f == [i \in 1..Len(s) |-> i]
      <4>1. /\ f \in [1..Len(r) -> 1..Len(s)]
            /\ \A i \in 1..Len(r) : r[i] = s[f[i]] /\ r[i] # l
            /\ \A i, j \in 1..Len(r) : i < j => f[i] < f[j]
            /\ \A i \in 1..Len(s) : s[i] = l \/ \E j \in 1..Len(r) : f[j] = i
        BY <3>1
      <4>2. WasAt(f)
        BY <1>1, <3>1, <4>1
      <4> HIDE DEF WasAt, f
      <4> QED  BY <4>1, <4>2
    <3>2. ASSUME NEW x \in 1..Len(s), s[x] = l, r \in Seq(Lib), Len(r) = Len(s) - 1,
                 \A i \in 1..(Len(s) - 1) : r[i] = IF i < x THEN s[i] ELSE s[i + 1]
          PROVE  \E f \in [1..Len(r) -> 1..Len(s)] : WasAt(f)
      <4> DEFINE f == [i \in 1..(Len(s) - 1) |-> IF i < x THEN i ELSE i + 1]
      <4> HIDE DEF r
      <4>1. f \in [1..Len(r) -> 1..Len(s)]
        BY <1>1, <3>2
      <4>2. \A i \in 1..Len(r) : r[i] = s[f[i]] /\ r[i] # l
        <5> TAKE i \in 1..Len(r)
        <5>1. i < x => i \in 1..Len(s) /\ x \in 1..Len(s)
          BY <1>1
        <5>2. ~(i < x) => i + 1 \in 1..Len(s) /\ x < i + 1
          BY <1>1, <3>2
        <5> QED  BY <1>6, <3>2, <5>1, <5>2
      <4>3. \A i, j \in 1..Len(r) : i < j => f[i] < f[j]
        BY <1>1, <3>2
      <4>4. ASSUME NEW i \in 1..Len(s), s[i] # l
            PROVE  \E j \in 1..Len(r) : f[j] = i
        <5>1. i # x
          BY <3>2, <4>4
        <5>2. CASE i < x
          <6>1. i \in 1..(Len(s) - 1) /\ f[i] = i
            BY <1>1, <5>2
          <6> QED  BY <3>2, <6>1
        <5>3. CASE x < i
          <6>1. i - 1 \in 1..(Len(s) - 1) /\ ~(i - 1 < x) /\ (i - 1) + 1 = i
            BY <1>1, <5>3
          <6>2. f[i - 1] = i
            BY <6>1
          <6> QED  BY <3>2, <6>1, <6>2
        <5>4. i < x \/ x < i
          BY <1>1, <5>1
        <5> QED  BY <5>2, <5>3, <5>4
      <4> HIDE DEF f
      <4>5. WasAt(f)
        BY <3>2, <4>2, <4>3, <4>4
      <4> HIDE DEF WasAt
      <4> QED  BY <4>1, <4>5
    <3> HIDE DEF WasAt
    <3> QED  BY <1>1, <3>1, <3>2, Removed
  <2>3. PICK f \in [1..Len(r) -> 1..Len(s)] : WasAt(f)
    BY <2>2
  <2> HIDE DEF r, s
  <2>4. /\ t \in Seq(Lib) /\ Len(t) = Len(r) + 1 /\ t[Len(r) + 1] = l
        /\ \A i \in 1..Len(r) : t[i] = r[i]
        /\ Len(r) \in Nat /\ t # <<>>
    BY <2>1, <2>3, AppendProperties DEF l
  <2> HIDE DEF t, l
  <2>5. \A i \in 1..Len(t) : i \in 1..Len(r) \/ i = Len(r) + 1
    BY <2>4
  <2>6. \A i \in 1..Len(r) : i \in 1..Len(t)
    BY <2>4
  <2>7. Len(r) + 1 \in 1..Len(t)
    BY <2>4
  <2>8. \A k \in 1..(n + 1) : \E i \in 1..Len(t) : t[i] = order[k]
    <3> TAKE k \in 1..(n + 1)
    <3>1. CASE order[k] = l
      BY <2>4, <2>7, <3>1
    <3>2. CASE order[k] # l
      <4>1. PICK i \in 1..Len(s) : s[i] = order[k]
        BY <1>2, <1>3, <3>2 DEF l
      <4>2. PICK j \in 1..Len(r) : f[j] = i
        BY <2>3, <3>2, <4>1
      <4> QED  BY <2>3, <2>4, <2>6, <4>1, <4>2
    <3> QED  BY <3>1, <3>2
  <2>9. \A i \in 1..Len(t) : \E k \in 1..(n + 1) : order[k] = t[i]
    <3> TAKE i \in 1..Len(t)
    <3>1. CASE i = Len(r) + 1
      BY <1>5, <2>4, <3>1 DEF l
    <3>2. CASE i \in 1..Len(r)
      <4>1. PICK a \in 1..Len(s) : t[i] = s[a]
        BY <2>3, <2>4, <3>2
      <4> QED  BY <1>2, <1>4, <4>1
    <3> QED  BY <2>5, <3>1, <3>2
  <2>10. ASSUME NEW i \in 1..Len(t), NEW j \in 1..Len(t), i < j
         PROVE  \E k \in 1..(n + 1) : order[k] = t[j] /\ \A m \in k..(n + 1) : order[m] # t[i]
    <3>1. i \in 1..Len(r)
      BY <2>4, <2>10
    <3>2. t[i] # l
      BY <2>3, <2>4, <3>1
    <3>3. CASE j = Len(r) + 1
      <4>1. \A m \in (n + 1)..(n + 1) : m = n + 1
        OBVIOUS
      <4> QED  BY <1>5, <2>4, <3>2, <3>3, <4>1 DEF l
    <3>4. CASE j \in 1..Len(r)
      <4>1. PICK a \in 1..Len(s), b \in 1..Len(s) : t[i] = s[a] /\ t[j] = s[b] /\ a < b
        <5>1. f[i] < f[j] /\ f[i] \in 1..Len(s) /\ f[j] \in 1..Len(s)
          BY <2>3, <2>10, <3>1, <3>4
        <5>2. t[i] = s[f[i]] /\ t[j] = s[f[j]]
          BY <2>3, <2>4, <3>1, <3>4
        <5> QED  BY <5>1, <5>2
      <4>2. PICK k \in 1..n : order[k] = t[j] /\ \A m \in k..n : order[m] # t[i]
        <5>1. \E k \in 1..n : order[k] = s[b] /\ \A m \in k..n : order[m] # s[a]
          BY <1>2, <4>1
        <5> QED  BY <4>1, <5>1
      <4>3. \A m \in k..(n + 1) : m \in k..n \/ m = n + 1
        OBVIOUS
      <4> QED  BY <1>4, <3>2, <4>2, <4>3 DEF l
    <3> QED  BY <2>5, <3>3, <3>4
  <2> QED  BY <2>4, <2>8, <2>9, <2>10
<1> QED  BY <1>7, <1>8

LEMMA TargetsRight ==
  ASSUME NamesSeparate, NEW order \in Seq(Lib)
  PROVE  \E acc : KeptRight(order, Len(order), acc) /\ Targets(order) = acc.libs
<1>1. Len(order) \in Nat /\ \A k \in 1..Len(order) : order[k] \in Lib
  BY LenProperties, ElementOfSeq
<1>2. PICK kept : KeptAlong(order, Len(order), kept) /\ Targets(order) = kept[Len(order)].libs
  BY <1>1, TargetsAreKept
<1> DEFINE S == {n \in Nat : n <= Len(order) => KeptRight(order, n, kept[n])}
<1>3. 0 \in S
  <2>1. kept[0] = NothingKept
    BY <1>1, <1>2 DEF KeptAlong
  <2>2. NothingKept.libs = <<>> /\ NothingKept.prev = ""
    BY DEF NothingKept
  <2>3. <<>> \in Seq(Lib) /\ Len(<<>>) = 0
    BY EmptySeq
  <2>4. KeptRight(order, 0, NothingKept)
    <3>1. ListedIn(order, 0, <<>>)
      BY <2>3 DEF ListedIn
    <3> QED  BY <2>2, <3>1 DEF KeptRight
  <2> QED  BY <2>1, <2>4
<1>4. ASSUME NEW n \in Nat, n \in S
      PROVE  n + 1 \in S
  <2> SUFFICES ASSUME n + 1 <= Len(order)
               PROVE  KeptRight(order, n + 1, kept[n + 1])
    OBVIOUS
  <2>1. KeptRight(order, n, kept[n])
    BY <1>1, <1>4
  <2>2. kept[n + 1] = AddLibrary(kept[n], order[n + 1])
    <3>1. n + 1 \in 0..Len(order) /\ n + 1 # 0 /\ (n + 1) - 1 = n
      BY <1>1
    <3> QED  BY <1>2, <3>1 DEF KeptAlong
  <2>3. order[n + 1] \in Lib /\ \A k \in 1..n : order[k] \in Lib
    BY <1>1
  <2> QED  BY <2>1, <2>2, <2>3, AddedRight, OccursAssumption
<1> HIDE DEF S
<1>5. Len(order) \in S
  BY <1>1, <1>3, <1>4, Induction
<1>6. KeptRight(order, Len(order), kept[Len(order)])
  BY <1>1, <1>5 DEF S
<1> QED  BY <1>2, <1>6

\* Where l is listed last.
IsLast(order, l, k) == order[k] = l /\ \A j \in (k + 1)..Len(order) : order[j] # l
LastListing(order, l) == CHOOSE k \in 1..Len(order) : IsLast(order, l, k)

\* What is listed is listed a last time.
LEMMA LastExists ==
  ASSUME NEW order, Len(order) \in Nat, NEW k \in 1..Len(order)
  PROVE  \E c \in 1..Len(order) : k <= c /\ IsLast(order, order[k], c)
<1> DEFINE n == Len(order)
           T == {m \in Nat : n - m \in k..n /\ order[n - m] = order[k]}
<1>1. n - k \in T
  <2>1. n - k \in Nat /\ n - (n - k) = k /\ k \in k..n
    OBVIOUS
  <2> QED  BY <2>1
<1>2. PICK m \in T : \A i \in T : m <= i
  <2>1. T # {} /\ T \subseteq Nat
    BY <1>1
  <2> HIDE DEF T
  <2> QED  BY <2>1, LeastNumber
<1>3. n - m \in k..n /\ order[n - m] = order[k] /\ m \in Nat
  OBVIOUS
<1>4. ASSUME NEW j \in ((n - m) + 1)..n
      PROVE  order[j] # order[k]
  <2>1. n - j \in Nat /\ n - (n - j) = j /\ j \in k..n /\ n - j < m
    BY <1>3
  <2>2. n - j \notin T
    <3> HIDE DEF T, n
    <3>1. n - j \in T => m <= n - j
      BY <1>2
    <3> QED  BY <1>3, <2>1, <3>1
  <2> QED  BY <2>1, <2>2
<1>5. n - m \in 1..n /\ k <= n - m
  BY <1>3
<1> QED  BY <1>3, <1>4, <1>5 DEF IsLast

LEMMA SameLibraries ==
  ASSUME NEW order \in Seq(Lib), NEW libs \in Seq(Lib), ListedIn(order, Len(order), libs)
  PROVE  ToSet(libs) = ToSet(order)
<1>1. DOMAIN order = 1..Len(order) /\ DOMAIN libs = 1..Len(libs)
  BY LenProperties
<1>2. ASSUME NEW l \in ToSet(libs)
      PROVE  l \in ToSet(order)
  <2>1. PICK i \in 1..Len(libs) : libs[i] = l
    BY <1>1 DEF ToSet
  <2>2. PICK k \in 1..Len(order) : order[k] = libs[i]
    BY DEF ListedIn
  <2> QED  BY <1>1, <2>1, <2>2 DEF ToSet
<1>3. ASSUME NEW l \in ToSet(order)
      PROVE  l \in ToSet(libs)
  <2>1. PICK k \in 1..Len(order) : order[k] = l
    BY <1>1 DEF ToSet
  <2>2. PICK i \in 1..Len(libs) : libs[i] = order[k]
    BY DEF ListedIn
  <2> QED  BY <1>1, <2>1, <2>2 DEF ToSet
<1> QED  BY <1>2, <1>3

LEMMA LastListingIs ==
  ASSUME NEW order, Len(order) \in Nat, NEW l, NEW k \in 1..Len(order), order[k] = l
  PROVE  /\ LastListing(order, l) \in 1..Len(order)
         /\ order[LastListing(order, l)] = l
         /\ k <= LastListing(order, l)
<1>1. LastListing(order, l) \in 1..Len(order) /\ IsLast(order, l, LastListing(order, l))
  BY LastExists DEF LastListing
<1>2. ASSUME LastListing(order, l) < k
      PROVE  FALSE
  <2>1. k \in (LastListing(order, l) + 1)..Len(order)
    BY <1>1, <1>2
  <2> QED  BY <1>1, <2>1 DEF IsLast
<1> QED  BY <1>1, <1>2 DEF IsLast

LEMMA LastInOrder ==
  ASSUME NEW order \in Seq(Lib), NEW libs \in Seq(Lib), ListedIn(order, Len(order), libs),
         NEW i \in 1..Len(libs), NEW j \in 1..Len(libs), i < j
  PROVE  LastListing(order, libs[i]) < LastListing(order, libs[j])
<1>1. Len(order) \in Nat
  BY LenProperties
<1>2. PICK k \in 1..Len(order) :
        order[k] = libs[j] /\ \A m \in k..Len(order) : order[m] # libs[i]
  BY DEF ListedIn
<1>3. PICK b \in 1..Len(order) : order[b] = libs[i]
  BY DEF ListedIn
<1>4. LastListing(order, libs[j]) \in 1..Len(order) /\ k <= LastListing(order, libs[j])
  BY <1>1, <1>2, LastListingIs
<1>5. LastListing(order, libs[i]) \in 1..Len(order)
      /\ order[LastListing(order, libs[i])] = libs[i]
  BY <1>1, <1>3, LastListingIs
<1>6. LastListing(order, libs[i]) \notin k..Len(order)
  BY <1>2, <1>5
<1> QED  BY <1>1, <1>4, <1>5, <1>6

LEMMA TargetsCover ==
  ASSUME NamesSeparate, "liborder" \in DOMAIN files => files.liborder \in Seq(Lib)
  PROVE  RemakeCoversLibraries
<1> SUFFICES ASSUME "liborder" \in DOMAIN files
             PROVE  RemakeCoversLibraries
  BY DEF RemakeCoversLibraries
<1> DEFINE order == files.liborder
           targets == Targets(order)
<1>1. order \in Seq(Lib)
  OBVIOUS
<1>2. targets \in Seq(Lib) /\ ListedIn(order, Len(order), targets)
  <2>1. PICK acc : KeptRight(order, Len(order), acc) /\ targets = acc.libs
    BY <1>1, TargetsRight
  <2> HIDE DEF order, targets
  <2>2. ListedIn(order, Len(order), targets)
    BY <2>1 DEF KeptRight
  <2> QED  BY <2>2 DEF ListedIn
<1> HIDE DEF order, targets
<1>3. ToSet(targets) = ToSet(order)
  BY <1>1, <1>2, SameLibraries
<1>4. \A i, j \in 1..Len(targets) :
        i < j => LastListing(order, targets[i]) < LastListing(order, targets[j])
  BY <1>1, <1>2, LastInOrder
<1> QED  BY <1>3, <1>4 DEF RemakeCoversLibraries, order, targets, LastListing, IsLast

\* Where no name of a library occurs in another, makefile.remake has one rule for each
\* library of liborder.txt, whatever the orders are and however often each is listed.
THEOREM RemakeCovers ==
  ASSUME NamesSeparate
  PROVE  Spec => []RemakeCoversLibraries
<1>1. TypeOK => RemakeCoversLibraries
  <2>1. TypeOK => ("liborder" \in DOMAIN files => files.liborder \in Seq(Lib))
    BY DEF TypeOK
  <2> QED  BY <2>1, TargetsCover
<1> QED  BY <1>1, TypeCorrect, PTL
=============================================================================
