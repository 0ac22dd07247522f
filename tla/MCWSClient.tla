----------------------------- MODULE MCWSClient -----------------------------
(* A small instance of WSClient for TLC. *)
EXTENDS WSClient

=============================================================================
