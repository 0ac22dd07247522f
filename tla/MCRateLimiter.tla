--------------------------- MODULE MCRateLimiter ---------------------------
(* A small instance of RateLimiter for TLC. *)
EXTENDS RateLimiter, TLC

\* Callers are interchangeable, and so are keys.
Symmetry == Permutations(Caller) \cup Permutations(Key)

=============================================================================
