----------------------------- MODULE MCUvmcTlm1 -----------------------------
EXTENDS UvmcTlm1

CONSTANTS v1, v2

MCValues == {v1, v2}
MCReply == [v \in MCValues |-> IF v = v1 THEN v2 ELSE v1]

TryOps == {"try_put", "try_get", "try_peek"}

\* SystemC callers with every method, and SystemVerilog callers of ports of different
\* classes; of those that have no put for the proxy, no put is called here.
MCUses ==
  {[port |-> "channel", ops |-> Blocking \cup TryOps],
   [port |-> "put_port", ops |-> {"put", "try_put"}],
   [port |-> "get_peek", ops |-> {"get", "peek", "try_get", "try_peek"}],
   [port |-> "transport", ops |-> {"transport"}],
   [port |-> "write", ops |-> {"write"}],
   [port |-> "nonblocking_slave", ops |-> TryOps],
   [port |-> "master", ops |-> {"get", "peek", "try_put"}]}

\* SystemVerilog callers that put through a master port.
MCMasterUses == {[port |-> "master", ops |-> {"put", "get"}]}
=============================================================================
