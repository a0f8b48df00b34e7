---------------------------- MODULE TerminalView ----------------------------
(***************************************************************************)
(* How output reaches the screen.  The hook buffers it, flushes the buffer *)
(* once a frame into a React state of at most Cap chunks                   *)
(* (app-client/src-ui/hooks/useSsh.ts), and the terminal component writes, *)
(* after React committed, the chunks from an index it remembers            *)
(* (app-client/src-ui/components/live-ssh-terminal.tsx).                   *)
(***************************************************************************)
EXTENDS Naturals, Sequences, FiniteSets, SequencesExt

CONSTANTS
  Cap,        \* MAX_TERMINAL_CHUNKS
  MaxOutput,  \* bound: pieces of output
  MaxTurns    \* bound: connects after the first, and remounts

ASSUME TerminalViewAssumption ==
  Cap \in Nat \ {0} /\ MaxOutput \in Nat \ {0} /\ MaxTurns \in Nat

Output == 1..MaxOutput

VARIABLES
  produced,  \* how many pieces of output there have been, which numbers them
  turns,     \* how many connects after the first, and remounts, there have been
  pending,   \* pendingTerminalOutputRef
  frame,     \* whether a flush is scheduled
  chunks,    \* terminalOutput: each chunk the pieces it joins
  dirty,     \* whether the effect on chunks is due
  ready,     \* whether the terminal was created: its code is loaded on demand
  index,     \* chunkIndexRef
  shown      \* what was written to the terminal since it was last reset

vars == <<produced, turns, pending, frame, chunks, dirty, ready, index, shown>>

TypeOK ==
  /\ produced \in 0..MaxOutput
  /\ turns \in 0..MaxTurns
  /\ pending \in Seq(Output)
  /\ frame \in BOOLEAN
  /\ chunks \in Seq(Seq(Output)) /\ Len(chunks) <= Cap
  /\ dirty \in BOOLEAN
  /\ ready \in BOOLEAN
  /\ index \in 0..Cap
  /\ shown \in Seq(Output)

-----------------------------------------------------------------------------
\* The first connect cleared the screen and put its opening line there.
Init ==
  /\ produced = 1
  /\ turns = 0
  /\ pending = <<>>
  /\ frame = FALSE
  /\ chunks = <<<<1>>>>
  /\ dirty = TRUE
  /\ ready = FALSE
  /\ index = 0
  /\ shown = <<>>

AppendOutput ==
  /\ produced < MaxOutput
  /\ produced' = produced + 1
  /\ pending' = Append(pending, produced + 1)
  /\ frame' = TRUE
  /\ UNCHANGED <<turns, chunks, dirty, ready, index, shown>>

\* A mutant: the oldest chunk is never dropped.
AllOf(s) == s

LastOf(s) == IF Len(s) > Cap THEN SubSeq(s, Len(s) - Cap + 1, Len(s)) ELSE s

\* A mutant: the buffer is emptied without becoming a chunk.
FlushForgets ==
  /\ frame
  /\ frame' = FALSE
  /\ pending' = <<>>
  /\ UNCHANGED <<produced, turns, chunks, dirty, ready, index, shown>>

Flush ==
  /\ frame
  /\ frame' = FALSE
  /\ pending' = <<>>
  /\ chunks' = LastOf(Append(chunks, pending))
  /\ dirty' = TRUE
  /\ UNCHANGED <<produced, turns, ready, index, shown>>

\* A connect drops what is buffered and leaves its opening line alone on the
\* screen.
Reconnect ==
  /\ turns < MaxTurns
  /\ produced < MaxOutput
  /\ turns' = turns + 1
  /\ produced' = produced + 1
  /\ pending' = <<>>
  /\ frame' = FALSE
  /\ chunks' = <<<<produced + 1>>>>
  /\ dirty' = TRUE
  /\ UNCHANGED <<ready, index, shown>>

\* The wizard leaves the terminal's step and comes back to a new component.
Remount ==
  /\ ready
  /\ turns < MaxTurns
  /\ turns' = turns + 1
  /\ ready' = FALSE
  /\ index' = 0
  /\ shown' = <<>>
  /\ dirty' = TRUE
  /\ UNCHANGED <<produced, pending, frame, chunks>>

Ready ==
  /\ ~ready
  /\ ready' = TRUE
  /\ UNCHANGED <<produced, turns, pending, frame, chunks, dirty, index, shown>>

\* A mutant: every render writes all chunks.
RenderFromStart ==
  /\ dirty /\ ready
  /\ dirty' = FALSE
  /\ shown' = shown \o FlattenSeq(chunks)
  /\ index' = Len(chunks)
  /\ UNCHANGED <<produced, turns, pending, frame, chunks, ready>>

\* The effect on chunks: fewer chunks than the index mean a new screen.
Render ==
  /\ dirty /\ ready
  /\ dirty' = FALSE
  /\ LET fresh == Len(chunks) < index
         from == IF fresh THEN 0 ELSE index
     IN  shown' = (IF fresh THEN <<>> ELSE shown)
                    \o FlattenSeq(SubSeq(chunks, from + 1, Len(chunks)))
  /\ index' = Len(chunks)
  /\ UNCHANGED <<produced, turns, pending, frame, chunks, ready>>

\* Without a terminal the effect does nothing.
RenderNothing ==
  /\ dirty /\ ~ready
  /\ dirty' = FALSE
  /\ UNCHANGED <<produced, turns, pending, frame, chunks, ready, index, shown>>

-----------------------------------------------------------------------------
Next ==
  AppendOutput \/ Flush \/ Reconnect \/ Remount \/ Ready \/ Render \/ RenderNothing

Spec == Init /\ [][Next]_vars

\* Frames come, React commits and runs its effects, the code of the terminal
\* loads.
FairSpec ==
  Spec /\ WF_vars(Flush) /\ WF_vars(Ready) /\ WF_vars(Render \/ RenderNothing)

-----------------------------------------------------------------------------
(* Properties.                                                             *)

\* Output appears in the order it arrived and none of it twice, whatever was
\* flushed, cut to Cap or replaced before React committed.
ShownInOrder == \A i, j \in DOMAIN shown : i < j => shown[i] < shown[j]

\* Output that arrives while there is a terminal appears on it, unless a
\* reconnect or a remount came between.
OutputIsShown ==
  \A n \in Output, k \in 0..MaxTurns :
    (ready /\ turns = k /\ n \in ToSet(pending))
      ~> (n \in ToSet(shown) \/ turns > k)

\* The same for the first session on a screen, while its output stays within
\* Cap pieces, until a reconnect or a remount.
OutputIsShownBelowCap ==
  \A n \in Output :
    (ready /\ turns = 0 /\ n \in ToSet(pending))
      ~> (n \in ToSet(shown) \/ turns > 0 \/ produced > Cap)

=============================================================================
