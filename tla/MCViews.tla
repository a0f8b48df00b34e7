------------------------------ MODULE MCViews -------------------------------
(***************************************************************************)
(* What the window comes to show: the terminal its output, the page of     *)
(* logs the log, and the window around them the screen that was asked for. *)
(* The three share no state here, so an instance is one of them, chosen at *)
(* the start, while the others stand still, and only the one that was      *)
(* chosen is treated fairly.                                               *)
(***************************************************************************)
EXTENDS TerminalView

CONSTANTS
  MaxRecords, MaxClears, MaxEnds, MaxMounts, MaxAsked,
  Section, MaxClicks, MaxMessages, None

VARIABLES
  part,                                                             \* which of them it is
  log, recorded, clears, ends, mounted, mounts, listed, failed, cached, queue,
  answers,                                                          \* ActivityView
  place, url, arriving, activeTab, activeSection, viewMode, persistent, loading,
  timer, collaborationOpen, ssh, sftp, messages, stored, clicks, said, wanted, raced,
  silent                                                            \* AppShell

View == INSTANCE ActivityView WITH shown <- listed
Shell == INSTANCE AppShell

ASSUME ViewsAssumption == View!ActivityViewAssumption /\ Shell!AppShellAssumption

viewVars ==
  <<log, recorded, clears, ends, mounted, mounts, listed, failed, cached, queue, answers>>
shellVars ==
  <<place, url, arriving, activeTab, activeSection, viewMode, persistent, loading, timer,
    collaborationOpen, ssh, sftp, messages, stored, clicks, said, wanted, raced, silent>>
allVars == <<part, vars, viewVars, shellVars>>

OnTerminal(A) == part = "terminal" /\ A /\ UNCHANGED <<part, viewVars, shellVars>>
OnLogs(A) == part = "logs" /\ A /\ UNCHANGED <<part, vars, shellVars>>
OnShell(A) == part = "shell" /\ A /\ UNCHANGED <<part, vars, viewVars>>

\* Only the window that is chosen opens on any address.
ViewsInit ==
  /\ part \in {"terminal", "logs", "shell"}
  /\ Init /\ View!Init /\ Shell!Init
  /\ part = "shell" \/ place = "module"

ViewsNext == OnTerminal(Next) \/ OnLogs(View!Next) \/ OnShell(Shell!Next)

\* The fairness of the three modules, each for its own part.
ViewsFairness ==
  /\ WF_allVars(OnTerminal(Flush)) /\ WF_allVars(OnTerminal(Ready))
  /\ WF_allVars(OnTerminal(Render \/ RenderNothing))
  /\ WF_allVars(OnLogs(View!Tick)) /\ WF_allVars(OnLogs(View!TakeOldest))
  /\ WF_allVars(OnLogs(View!ServeList \/ View!ServeClear \/ View!Refuse))
  /\ WF_allVars(OnShell(Shell!Arrive)) /\ WF_allVars(OnShell(Shell!LoadingTimer))

ViewsSpec == ViewsInit /\ [][ViewsNext]_allVars /\ ViewsFairness

\* The types of all three.
ViewTypesOK == TypeOK /\ View!TypeOK /\ Shell!TypeOK

\* AppShell: the window shows the screen last asked for, and beside it every
\* message that was sent.
WindowIsAsLeft == Shell!ScreenIsWanted /\ Shell!MessagesAreKept

\* AppShell: leaving a screen does not unmount a live SSH session, as
\* .github/skills/ozyterminal-ssh-tauri/SKILL.md:43 has it.
ConnectionsAreKept == Shell!ConnectionsAreKept

\* What is to be seen is seen in the end: all output, up to the cap; the log, or
\* an error; the window, unless a link to the present address began its overlay.
ViewsCatchUp == OutputIsShownBelowCap /\ View!ViewCatchesUp /\ Shell!OverlayEnds

=============================================================================
