---------------------------- MODULE MCSshSession ----------------------------
(* Model-checking instances of SshSession. *)
EXTENDS SshSession, TLC

\* Commands are interchangeable (safety runs only).
Symmetry == Permutations(Caller)

=============================================================================
