------------------------------ MODULE MCHandshake ------------------------------
(***************************************************************************)
(* HandshakeAuth with its observer and the dashboard's client, for every   *)
(* pair of configurations.                                                 *)
(***************************************************************************)
EXTENDS DemoRequest

=============================================================================
