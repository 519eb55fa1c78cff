---------------------------- MODULE MCRpcClient -----------------------------
(* An instance of RpcClient for TLC, with an order of the states that the     *)
(* resolver's topological sort by Require can give.                           *)
EXTENDS RpcClient

MCTopology ==
  <<"Exception", "ErrNetwork", "Start", "Connecting", "Connected", "Handshaking", "HandshakeDone",
    "Ready", "RetryingCall", "RetryingConn">>
=============================================================================
