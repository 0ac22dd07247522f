---------------------------- MODULE MCDashboard ----------------------------
(* A small instance of Dashboard for TLC. *)
EXTENDS Dashboard, TLC

\* The search term occurs in the text of the old requests and in every answer.
InText == Hook \X Status \cup Old \X {Pending}

\* Webhooks are interchangeable: received_at alone orders them.
Symmetry == Permutations(Old) \cup Permutations(Hook \ Old)

=============================================================================
