----------------------------- MODULE BoundedFifo -----------------------------
(***************************************************************************)
(* What a FIFO promises, with no pointer, clock or synchronizer in it:     *)
(* items come out once each, in the order they went in, and at most Depth  *)
(* of them are inside.  An item may go in while another comes out.         *)
(***************************************************************************)
EXTENDS Naturals, Sequences

CONSTANTS
  Depth, (* How many items there is room for. *)
  Data,  (* The items.                        *)
  NoData (* What out is before the first one. *)

VARIABLES
  queue, (* The items inside.                 *)
  out    (* The item that came out last.      *)

vars == <<queue, out>>

Init == queue = <<>> /\ out = NoData

\* The items that may go in at once: one, if there is room, or none.
Entering == {<<>>} \cup {<<d>> : d \in IF Len(queue) < Depth THEN Data ELSE {}}

Step ==
  \E in \in Entering :
    \/ queue' = queue \o in /\ UNCHANGED out
    \/ /\ queue # <<>>
       /\ out' = Head(queue)
       /\ queue' = Tail(queue) \o in

Spec == Init /\ [][Step]_vars
=============================================================================
