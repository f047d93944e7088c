-------------------------------- MODULE MCSweep --------------------------------
(***************************************************************************)
(* SweepCell on a few workers and requests: one handshake per request,     *)
(* resumption, a cached handshake, and the unprotected controls.           *)
(***************************************************************************)
EXTENDS SweepCell

CONSTANTS SessionLengths,  \* requests_per_handshake without reuse_handshake
          CachedLengths    \* and with it

MCCalls == 0..(n_requests - 1)
MCHids == MCCalls \cup {Cached}
MCModes ==
    [config_name: {"protected"}, requests_per_handshake: SessionLengths, reuse_handshake: {FALSE}]
        \cup [config_name: {"protected"}, requests_per_handshake: CachedLengths, reuse_handshake: {TRUE}]
        \cup [config_name: {"control", "control_2rt"}, requests_per_handshake: {1, 2}, reuse_handshake: BOOLEAN]

=============================================================================
