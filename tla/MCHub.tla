------------------------------- MODULE MCHub -------------------------------
(* Small instances of Hub for TLC. *)
EXTENDS Hub, TLC

\* Tokens are interchangeable, and so are connections.
Symmetry == Permutations(Token) \cup Permutations(Conn)

=============================================================================
