--------------------------- MODULE MCTerminalView ---------------------------
(* Model-checking instances of TerminalView: a session that stays below the *)
(* cap on chunks, and sessions that go beyond it.                           *)
EXTENDS TerminalView

=============================================================================
