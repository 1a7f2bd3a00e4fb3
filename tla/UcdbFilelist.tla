---------------------------- MODULE UcdbFilelist ----------------------------
(***************************************************************************)
(* The list of UCDB files that templates/parallel-merge.rmdb merges, and   *)
(* the pure Tcl procedures over it.                                        *)
(*                                                                         *)
(* A file is the sequence of the results its successive [gets] return.     *)
(* Tcl's [eof] turns true with the [gets] that meets the end of the file,  *)
(* so a file that ends in a newline has one more, empty, result than it    *)
(* has lines, and a file that does not has exactly one per line.  A file   *)
(* that does not exist is the empty sequence.                              *)
(*                                                                         *)
(* A line is blank or names a UCDB; of the UCDB only its TESTSTATUS        *)
(* matters: below 2 ("passed"), 2 or more ("failed"), or no such attribute *)
(* ("unset": a test plan's UCDB, or one that is itself a merge).           *)
(***************************************************************************)
EXTENDS Naturals, Sequences, FiniteSets

Blank == ""
Status == {"passed", "failed", "unset"}
Line == Status \cup {Blank}

Absent == <<>>

\* The numbers of the lines that name a UCDB.
Named(list) == {i \in 1..Len(list) : list[i] # Blank}

\* A list as this file's own procedures write it: one UCDB a line, each
\* terminated by a newline.
WellFormed(list) ==
  /\ Len(list) > 0
  /\ \A i \in 1..Len(list) : list[i] = Blank <=> i = Len(list)

-----------------------------------------------------------------------------
\* proc CountFiles: one count per [gets], less the last.
CountFiles(list) == IF list = Absent THEN 0 ELSE Len(list) - 1

\* proc CalculateGroups: no group when there is nothing to merge or no job;
\* otherwise as many as jobs, decremented until a group gets a database.
CalculateGroups(jobs, databases) ==
  IF databases = 0 \/ jobs = 0 THEN 0
  ELSE CHOOSE g \in 1..jobs : /\ databases \div g # 0
                              /\ \A h \in (g + 1)..jobs : databases \div h = 0

\* The read loop of GetUcdbFiles.  From line fp on, it takes the UCDBs of the
\* lines up to stop...
Taken(list, fp, stop) == {i \in (fp + 1)..stop : list[i] # Blank}

\* ... the first line at which it has count of them, or the file's last.
StopAt(list, fp, count) ==
  CHOOSE p \in fp..Len(list) :
    /\ Cardinality(Taken(list, fp, p)) >= count \/ p = Len(list)
    /\ \A q \in fp..(p - 1) : Cardinality(Taken(list, fp, q)) < count
=============================================================================
