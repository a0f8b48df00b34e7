----------------------------- MODULE MCDesktop -----------------------------
(***************************************************************************)
(* The parts of the window in which the user works: the connection wizard, *)
(* the pages of application data and the file view.  They share no state   *)
(* here, so an instance is one of them, chosen at the start, while the     *)
(* others stand still.                                                     *)
(***************************************************************************)
EXTENDS Wizard

CONSTANTS
  Text, MaxEntries, MaxActs, MaxCrashes,                            \* AppData
  Dir, Root, MaxListings                                            \* UseSftp

VARIABLES
  part,                                                             \* which of them it is
  tauri, stored, queue, answers, page, visit, data, error, dialog, cached,
  acts, crashes, issued, wanted, hasty,                             \* AppData
  localPath, localShown, localLoading, localCalls, remoteDraft, remotePath, remote,
  remoteLoading, remoteCalls, listings, overtaken, asked, loose     \* UseSftp

Lists == INSTANCE AppData
Files == INSTANCE UseSftp WITH draft <- remoteDraft, asks <- listings, MaxAsks <- MaxListings

ASSUME DesktopAssumption ==
  WizardAssumption /\ Lists!AppDataAssumption /\ Files!UseSftpAssumption

listVars ==
  <<tauri, stored, queue, answers, page, visit, data, error, dialog, cached,
    acts, crashes, issued, wanted, hasty>>
fileVars ==
  <<localPath, localShown, localLoading, localCalls, remoteDraft, remotePath, remote,
    remoteLoading, remoteCalls, listings, overtaken, asked, loose>>
allVars == <<part, vars, listVars, fileVars>>

OnWizard(A) == part = "wizard" /\ A /\ UNCHANGED <<part, listVars, fileVars>>
OnLists(A) == part = "lists" /\ A /\ UNCHANGED <<part, vars, fileVars>>
OnFiles(A) == part = "files" /\ A /\ UNCHANGED <<part, vars, listVars>>

\* What stands still starts in one way, but for the host, which is the same for all.
DesktopInit ==
  /\ part \in {"wizard", "lists", "files"}
  /\ Init /\ Lists!Init /\ Files!Init
  /\ \A e \in servers : e.host = remoteDraft /\ (part = "wizard" \/ e.secret = None)
  /\ part = "lists" \/ tauri

DesktopNext == OnWizard(Next) \/ OnLists(Lists!Next) \/ OnFiles(Files!Next)

DesktopSpec == DesktopInit /\ [][DesktopNext]_allVars

\* Nothing distinguishes one host, secret or text from another.
Symmetry == Permutations(Host) \cup Permutations(Secret) \cup Permutations(Text)

\* The types of the wizard, the pages and the file view.
DesktopTypesOK == TypeOK /\ Lists!TypeOK /\ Files!TypeOK

\* AppData: what is edited on a calm page is kept, and a calm page shows what is
\* stored.
CalmListsAreKept == Lists!CalmEditsAreKept /\ Lists!CalmPageIsCurrent

\* UseSftp: the entries on the left are those of the path above them, the pane on
\* the right shows the host it names, and one that waits has a listing to wait for.
PanesShowTheirPlace ==
  Files!LocalEntriesAreOfPath /\ Files!RemoteIsAsSaid /\ Files!LoadingHasACall

=============================================================================
