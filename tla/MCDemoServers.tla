---------------------------- MODULE MCDemoServers ----------------------------
(* DemoServers with two sessions; the ports are those of the configurations *)
(* and the benchmark's.                                                     *)
EXTENDS DemoServers

MCPorts == Configs \cup {Bench}

=============================================================================
