---------------------------- MODULE MCFltCompile ----------------------------
(***************************************************************************)
(* Finite instances of FltCompile.                                         *)
(***************************************************************************)
EXTENDS FltCompile

MCLib == {"rtl_lib", "work"}
MCArgs == {"", "+define+X"}

LibraryLine(l) == [kind |-> "library", lib |-> l]
FileLine(t, a) == [kind |-> "file", type |-> t, args |-> a]
GenericLine(k) == [kind |-> k, args |-> "+define+X"]

\* Every list of up to four lines, of these: two libraries, an argument line, and
\* files of each type, Verilog with and without arguments; lists of up to three
\* lines with the lines that are rarer too; and two libraries of two files each.
Lines ==
  {LibraryLine(l) : l \in MCLib} \cup {GenericLine("vlogargs")}
    \cup {FileLine("verilog", a) : a \in MCArgs}
    \cup {FileLine("vhdl", ""), FileLine("c", "")}
UpTo(k, lines) == UNION {[1..j -> lines] : j \in 0..k}
MCLists ==
  UpTo(4, Lines)
    \cup {<<LibraryLine("rtl_lib")>> \o f \o <<LibraryLine("work")>> \o g :
             f, g \in UpTo(2, {FileLine("verilog", a) : a \in MCArgs} \cup {FileLine("c", "")})}
    \cup UpTo(3, Lines \cup {GenericLine("vcomargs"), FileLine("unknown", "")})

MCStaleOrders == {<<>>, <<"work">>}
=============================================================================
