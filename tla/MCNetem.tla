------------------------------- MODULE MCNetem -------------------------------
(* Two connections through one proxy: one whole exchange, and a second     *)
(* request that competes with the first one for the uplink.                *)
EXTENDS NetemProxy

MCSize == ("c1" :> [up |-> 2, down |-> 1]) @@ ("c2" :> [up |-> 1, down |-> 0])

=============================================================================
