--------------------------- MODULE MCTunnelTiming ---------------------------
(* A small instance of TunnelTiming for TLC, in units of five seconds. *)
EXTENDS TunnelTiming

=============================================================================
