--------------------------- MODULE MCUvmcCommands ---------------------------
EXTENDS UvmcCommands

\* The beginning of the phase, its execution, a state that passes, the end, and what
\* holds before the phase and never again.
MCWanted ==
  {[state |-> Started, op |-> "EQ"], [state |-> Executing, op |-> "GTE"],
   [state |-> Ended, op |-> "EQ"], [state |-> ReadyToEnd, op |-> "GT"],
   [state |-> Dormant, op |-> "LTE"], [state |-> Dormant, op |-> "NE"],
   [state |-> Started, op |-> "LT"]}
=============================================================================
