------------------------------ MODULE UcdbMerge ------------------------------
(***************************************************************************)
(* What a parallel merge promises, with no group, list or host in it: once *)
(* the databases are known, batches of them are merged or, when the job    *)
(* that has them fails, dropped; a database is in one batch only.          *)
(***************************************************************************)
EXTENDS Naturals

VARIABLES
  database, (* The databases to merge.               *)
  started,  (* Whether they are known.               *)
  merged,   (* Those in the final UCDB.              *)
  dropped   (* Those of the jobs that failed.        *)

vars == <<database, started, merged, dropped>>

Pending == database \ (merged \cup dropped)

Init ==
  /\ database = {} /\ ~started
  /\ merged = {} /\ dropped = {}

\* The databases become known; they are line numbers of a list.
Start ==
  /\ ~started /\ started'
  /\ database' \subseteq Nat
  /\ UNCHANGED <<merged, dropped>>

Merge ==
  /\ started
  /\ \E batch \in SUBSET Pending : merged' = merged \cup batch
  /\ UNCHANGED <<database, started, dropped>>

Drop ==
  /\ started
  /\ \E batch \in SUBSET Pending : dropped' = dropped \cup batch
  /\ UNCHANGED <<database, started, merged>>

Next == Start \/ Merge \/ Drop

Spec == Init /\ [][Next]_vars
=============================================================================
