------------------------------ MODULE JsonlLog ------------------------------
(***************************************************************************)
(* The append-only logs with one JSON value a line: the activity log       *)
(* (app-client/src-tauri/src/activity.rs), the collaboration audit log     *)
(* (collab/audit.rs) and the control plane's audit log (audit/mod.rs).     *)
(* A call opens the file, writes its line and then the newline: writeln!   *)
(* on a bare File is a system call for each.  Nothing locks the file, so   *)
(* calls from different threads mix, and a call may stop between the two.  *)
(* The reader skips every line that is not one JSON value.                 *)
(***************************************************************************)
EXTENDS Naturals, Sequences, FiniteSets, SequencesExt

CONSTANTS
  Call,        \* calls of record, each with its entry
  MaxCrashes,  \* bound: crashes of the process
  MaxClears    \* bound: calls of clear

JsonlLogAssumption ==
  MaxCrashes \in Nat /\ MaxClears \in Nat

VARIABLES
  file,     \* the lines, each the entries on it; the last has no newline yet
  pc,       \* how far each call came; "cut" stopped between line and newline
  handle,   \* which of the files that clear replaced each call has open
  clears,   \* the number of calls of clear, which names the current file
  crashes,  \* history: the number of crashes
  mixed,    \* history: the calls that met another one, or what it left, half done
  overlaps  \* history: whether two calls ever ran at the same time

vars == <<file, pc, handle, clears, crashes, mixed, overlaps>>

InFlight == {c \in Call : pc[c] \in {"opened", "half"}}

TypeOK ==
  /\ file \in Seq(Seq(Call)) /\ file # <<>>
  /\ \A c \in Call : Cardinality({i \in DOMAIN file : c \in ToSet(file[i])}) <= 1
  /\ pc \in [Call -> {"idle", "opened", "half", "recorded", "cut", "failed", "cleared"}]
  /\ handle \in [Call -> 0..MaxClears]
  /\ clears \in 0..MaxClears
  /\ crashes \in 0..MaxCrashes
  /\ mixed \subseteq Call
  /\ overlaps \in BOOLEAN
  /\ overlaps \/ Cardinality(InFlight) <= 1

-----------------------------------------------------------------------------
Init ==
  /\ file = <<<<>>>>
  /\ pc = [c \in Call |-> "idle"]
  /\ handle = [c \in Call |-> 0]
  /\ clears = 0
  /\ crashes = 0
  /\ mixed = {}
  /\ overlaps = FALSE

Goto(c, where) == pc' = [pc EXCEPT ![c] = where]

\* The calls with a line that waits for its newline in the current file.
HalfDone == {c \in Call : pc[c] \in {"half", "cut"} /\ c \in ToSet(Last(file))}

Overlap == overlaps' = (overlaps \/ InFlight # {})

Open(c) ==
  /\ pc[c] = "idle"
  /\ Goto(c, "opened")
  /\ handle' = [handle EXCEPT ![c] = clears]
  /\ Overlap
  /\ UNCHANGED <<file, clears, crashes, mixed>>

\* A mutant: the file is opened to write at its start.
WriteLineOver(c) ==
  /\ pc[c] = "opened"
  /\ Goto(c, "half")
  /\ file' = IF handle[c] = clears THEN <<<<c>>>> ELSE file
  /\ UNCHANGED <<handle, clears, crashes, mixed, overlaps>>

\* Appended to the file that was opened, which clear may have unlinked since.
WriteLine(c) ==
  /\ pc[c] = "opened"
  /\ Goto(c, "half")
  /\ IF handle[c] = clears
     THEN /\ file' = Append(Front(file), Append(Last(file), c))
          /\ mixed' = IF HalfDone = {} THEN mixed ELSE mixed \cup HalfDone \cup {c}
     ELSE UNCHANGED <<file, mixed>>
  /\ UNCHANGED <<handle, clears, crashes, overlaps>>

\* A mutant: the newline is forgotten.
WriteNoNewline(c) ==
  /\ pc[c] = "half"
  /\ Goto(c, "recorded")
  /\ UNCHANGED <<file, handle, clears, crashes, mixed, overlaps>>

WriteNewline(c) ==
  /\ pc[c] = "half"
  /\ Goto(c, "recorded")
  /\ file' = IF handle[c] = clears THEN Append(file, <<>>) ELSE file
  /\ UNCHANGED <<handle, clears, crashes, mixed, overlaps>>

\* A write fails, the caller gets an error or ignores it.
Fail(c) ==
  /\ pc[c] \in {"opened", "half"}
  /\ Goto(c, IF pc[c] = "half" THEN "cut" ELSE "failed")
  /\ UNCHANGED <<file, handle, clears, crashes, mixed, overlaps>>

\* Only the activity log has it.
Clear ==
  /\ clears < MaxClears
  /\ clears' = clears + 1
  /\ file' = <<<<>>>>
  /\ pc' = [c \in Call |-> IF pc[c] = "recorded" THEN "cleared" ELSE pc[c]]
  /\ mixed' = mixed \cup InFlight
  /\ Overlap
  /\ UNCHANGED <<handle, crashes>>

Crash ==
  /\ crashes < MaxCrashes
  /\ crashes' = crashes + 1
  /\ pc' = [c \in Call |-> CASE pc[c] = "opened" -> "failed"
                             [] pc[c] = "half" -> "cut"
                             [] OTHER -> pc[c]]
  /\ UNCHANGED <<file, handle, clears, mixed, overlaps>>

-----------------------------------------------------------------------------
Next ==
  \/ Clear \/ Crash
  \/ \E c \in Call : Open(c) \/ WriteLine(c) \/ WriteNewline(c) \/ Fail(c)

Spec == Init /\ [][Next]_vars

\* What list returns: the lines that are one value.
Listed == {c \in Call : \E i \in DOMAIN file : file[i] = <<c>>}

Recorded == {c \in Call : pc[c] = "recorded"}

-----------------------------------------------------------------------------
(* Properties.                                                             *)

\* While callers come one after the other, as commands on the main thread do, a
\* call that stopped between line and newline costs at most one later entry,
\* and nothing else costs any.
LossIsBounded ==
  ~overlaps => Cardinality(Recorded \ Listed) <= Cardinality({c \in Call : pc[c] = "cut"})

\* A recorded entry is lost only to a call that was half done next to it, or to
\* a clear while it was written.
LossNeedsMixing == Recorded \ Listed \subseteq mixed

=============================================================================
