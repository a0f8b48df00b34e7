------------------------------ MODULE MCRelay -------------------------------
(* Model-checking instances of Relay. *)
EXTENDS Relay, TLC

\* Node ids, leases and connections are interchangeable (safety runs only).
Symmetry == Permutations(Node) \cup Permutations(Lease) \cup Permutations(Conn)

=============================================================================
