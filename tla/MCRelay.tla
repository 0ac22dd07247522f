------------------------------ MODULE MCRelay ------------------------------
(* Small instances of Relay for TLC. *)
EXTENDS Relay, TLC

\* Every request differs from the others.
Distinct == [h \in Hook |-> h]

\* Every request repeats the same method, path and body.
Same == [h \in Hook |-> CHOOSE k \in Key : TRUE]

\* Connections are interchangeable, and so are the requests when their keys are.
Symmetry == Permutations(Hook) \cup Permutations(Conn)

=============================================================================
