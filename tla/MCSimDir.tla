------------------------------ MODULE MCSimDir ------------------------------
(***************************************************************************)
(* Finite instances of SimDir.                                             *)
(***************************************************************************)
EXTENDS SimDir

MCLib == {"ip", "core", "tb"}

\* The second revision of each list drops a library of the first or lists one of
\* the other part's again.
MCFileLists ==
  [rtl |-> << <<"ip", "core">>, <<"core">> >>,
   tb  |-> << <<"tb">>, <<"ip", "tb">> >>]

\* Names of which none is a part of another.
SeparateNames == {<<l, l>> : l \in MCLib}

One == {"bg1"}
=============================================================================
