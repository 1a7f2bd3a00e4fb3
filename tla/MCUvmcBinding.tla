---------------------------- MODULE MCUvmcBinding ---------------------------
(***************************************************************************)
(* Two objects and two ports under all names and lookup strings of a small *)
(* set, with seven choices of what they are; and designs with a third      *)
(* object or port under a name or a lookup string that is used up.         *)
(***************************************************************************)
EXTENDS UvmcBinding

CONSTANTS s1, s2, s3, q1, q2, q3

MCSc == {s1, s2, s3}
MCSv == {q1, q2, q3}
MCStrings == {"a", "b", "c", "d", "x"}

\* Names and lookup strings of s1, s2, q1, q2.
Namings ==
  [name : {"a"}, lookup : {NoLookup, "x"}]
    \X [name : {"a", "b"}, lookup : {NoLookup, "x", "c"}]
    \X [name : {"c"}, lookup : {NoLookup, "x", "a"}]
    \X [name : {"c", "d"}, lookup : {NoLookup, "x", "a"}]

Is(object, hier, iface) == [object |-> object, hier |-> hier, iface |-> iface]

\* <<s1, s2, q1, q2>>.
Kinds ==
  {<<Is("port", FALSE, "blocking_put"), Is("export", FALSE, "get_peek"),
     Is("imp", FALSE, "put"), Is("port", FALSE, "get")>>,
   <<Is("port", FALSE, "put"), Is("export", FALSE, "get"),
     Is("imp", FALSE, "blocking_put"), Is("port", FALSE, "get_peek")>>,
   <<Is("interface", FALSE, "put"), Is("port", TRUE, "nonblocking_put"),
     Is("port", FALSE, "put"), Is("port", FALSE, "nonblocking_put")>>,
   <<Is("export", TRUE, "transport"), Is("tlm2_port", FALSE, "analysis"),
     Is("imp", FALSE, "transport"), Is("imp", FALSE, "analysis")>>,
   <<Is("initiator_socket", FALSE, "socket"), Is("target_socket", FALSE, "socket"),
     Is("imp", FALSE, "socket"), Is("port", FALSE, "blocking_transport")>>,
   <<Is("target_socket", TRUE, "socket"), Is("initiator_socket", TRUE, "socket"),
     Is("port", FALSE, "socket"), Is("imp", FALSE, "fw_nonblocking_transport")>>,
   <<Is("tlm2_interface", FALSE, "blocking_transport"),
     Is("tlm2_export", FALSE, "fw_nonblocking_transport"),
     Is("port", FALSE, "blocking_peek"), Is("port", FALSE, "fw_nonblocking_transport")>>}

TwoAndTwo ==
  {[p \in {s1, s2, q1, q2} |->
      CASE p = s1 -> n[1] @@ o[1] [] p = s2 -> n[2] @@ o[2]
        [] p = q1 -> n[3] @@ o[3] [] p = q2 -> n[4] @@ o[4]] :
     n \in Namings, o \in Kinds}

\* Three of one side, two of them under one string or all.
Three(a, b, c, put) ==
  {(a :> n[1] @@ b :> n[2] @@ c :> n[3]) :
     n \in {<<put @@ [name |-> "a", lookup |-> i], put @@ [name |-> j, lookup |-> "x"],
              put @@ [name |-> k, lookup |-> l]>> :
             i \in {NoLookup, "x"}, j \in {"a", "b"}, k \in {"a", "d"}, l \in {NoLookup, "x"}}}

MCDesigns ==
  TwoAndTwo
    \cup {o @@ (q1 :> (Is("port", FALSE, "put") @@ [name |-> "c", lookup |-> "x"])) :
            o \in Three(s1, s2, s3, Is("export", FALSE, "put"))}
    \cup {o @@ (s1 :> (Is("export", FALSE, "put") @@ [name |-> "c", lookup |-> "x"])) :
            o \in Three(q1, q2, q3, Is("port", FALSE, "put"))}
=============================================================================
