------------------------------ MODULE MCUseSsh ------------------------------
(* Model-checking instances of UseSsh. *)
EXTENDS UseSsh

=============================================================================
