--------------------------- MODULE MCParallelMerge ---------------------------
(***************************************************************************)
(* Finite instances of ParallelMerge.                                      *)
(***************************************************************************)
EXTENDS ParallelMerge

MCHost == {"h1", "h2", "h3"}

Setting(mode, gen, status, jobs, hosts, slots) ==
  [mode |-> mode, genfilelist |-> gen, teststatus |-> status, jobs |-> jobs,
   hostnames |-> hosts, gridslots |-> slots]

\* Lists of 1 to n UCDBs as a search writes them.
Found(n, statuses) ==
  UNION {{Append(l, Blank) : l \in [1..k -> statuses]} : k \in 1..n}

\* Every mode, on generated lists of up to five UCDBs: more and fewer than the
\* jobs, divisible and not.
MCGroupParams ==
  {Setting("local", TRUE, "all", j, <<>>, 1) : j \in 1..3}
    \cup {Setting("lsf", TRUE, "all", 3, <<>>, k) : k \in {1, 2}}
MCGroupFound == Found(5, {"passed"}) \cup {<<Blank>>}

\* One to three hosts, and duplicated ones.
MCHostParams ==
  {Setting("rsh", TRUE, "all", 1, h, 1) :
     h \in {<<>>, <<"h1">>, <<"h1", "h2">>, <<"h1", "h2", "h3">>, <<"h1", "h1">>}}
MCHostFound == Found(4, {"passed"})

\* Lists the user supplies, blank lines included, each ending in a newline;
\* with and without filtering.
MCListParams ==
  {Setting("local", FALSE, s, j, <<>>, 1) : s \in {"all", "passed", "failed"}, j \in {1, 2}}
MCLists ==
  {Absent} \cup UNION {{Append(l, Blank) : l \in [1..k -> {"passed", "failed", Blank}]}
                        : k \in 0..4}

\* All of them.
MCParams == MCGroupParams \cup MCHostParams \cup MCListParams
=============================================================================
