---------------------------- MODULE MCLocalVault ----------------------------
(* Model-checking instances of LocalVault. *)
EXTENDS LocalVault, TLC

\* Calls of one kind, and the keys, are interchangeable.
Symmetry ==
  Permutations(Wizard) \cup Permutations(Page) \cup Permutations(Edit)
    \cup Permutations(Server) \cup Permutations(Host)

=============================================================================
