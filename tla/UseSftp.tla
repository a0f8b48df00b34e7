------------------------------- MODULE UseSftp -------------------------------
(***************************************************************************)
(* The two panes of the file view                                          *)
(* (app-client/src-ui/hooks/useSftp.ts, components/sftp-view.tsx).  A pane *)
(* asks for a listing and goes on: listings overlap, and their answers     *)
(* (app-client/src-tauri/src/commands/filesystem.rs) come in any order.    *)
(* Every remote listing is a session of its own, to the host of the form   *)
(* as it was when the listing was asked for.                               *)
(***************************************************************************)
EXTENDS Naturals, Sequences, SequencesExt

CONSTANTS
  Host,     \* what the form may hold
  Dir,      \* directories: Root and those in it
  Root,
  MaxAsks,  \* bound: listings asked for
  None

UseSftpAssumption ==
  Root \in Dir /\ None \notin Dir \cup [host : Host, path : Dir] /\ MaxAsks \in Nat \ {0}

VARIABLES
  localPath, localShown,   \* the path of the pane and the directory its entries are of
  localLoading,
  localCalls,              \* the paths of the listings on their way, oldest first
  draft,                   \* remoteDraft.host
  remotePath,
  remote,                  \* the listing shown, or None: not connected
  remoteLoading,
  remoteCalls,
  asks,                    \* history: the number of listings
  overtaken,               \* history: the last local answer was older than one before it
  asked,                   \* history: connect was the last said, not disconnect
  loose                    \* history: the form changed, or disconnect was said, with a
                           \* listing on its way, and the pane was not idle since

vars == <<localPath, localShown, localLoading, localCalls, draft, remotePath, remote,
          remoteLoading, remoteCalls, asks, overtaken, asked, loose>>

localVars == <<localPath, localShown, localLoading, localCalls, overtaken>>
remoteVars == <<draft, remotePath, remote, remoteLoading, remoteCalls, asked, loose>>

Listing == [host : Host, path : Dir]

TypeOK ==
  /\ localPath \in Dir /\ localShown \in Dir \cup {None}
  /\ localLoading \in BOOLEAN /\ remoteLoading \in BOOLEAN
  /\ \A i \in DOMAIN localCalls : localCalls[i] \in [path : Dir, newest : BOOLEAN]
  /\ draft \in Host
  /\ remotePath \in Dir /\ remote \in Listing \cup {None}
  /\ remote # None => remotePath = remote.path
  /\ \A i \in DOMAIN remoteCalls : remoteCalls[i] \in Listing
  /\ asks \in 0..MaxAsks
  /\ overtaken \in BOOLEAN /\ asked \in BOOLEAN /\ loose \in BOOLEAN

-----------------------------------------------------------------------------
\* Mounting asks for the first local listing.
Init ==
  /\ localPath = Root /\ localShown = None
  /\ localLoading = TRUE
  /\ localCalls = <<[path |-> Root, newest |-> TRUE]>>
  /\ draft \in Host
  /\ remotePath = Root /\ remote = None
  /\ remoteLoading = FALSE
  /\ remoteCalls = <<>>
  /\ asks = 1
  /\ overtaken = FALSE /\ asked = FALSE /\ loose = FALSE

Ask == asks < MaxAsks /\ asks' = asks + 1

Parent(d) == IF d \in {None, Root} THEN None ELSE Root
Folders(d) == IF d = Root THEN Dir \ {Root} ELSE {}

(* The local pane.                                                         *)

\* fetchLocalDirectory, which runs when the path changed or a reload was asked for.
FetchLocal(path) ==
  /\ Ask
  /\ localPath' = path
  /\ localLoading' = TRUE
  /\ localCalls' = Append([i \in DOMAIN localCalls |-> [localCalls[i] EXCEPT !.newest = FALSE]],
                          [path |-> path, newest |-> TRUE])
  /\ UNCHANGED <<localShown, overtaken, remoteVars>>

\* A mutant: the path changes, and no listing is asked for.
NavigateLocalOnly ==
  /\ localShown # None
  /\ localPath' \in Folders(localShown) \ {localPath}
  /\ UNCHANGED <<localShown, localLoading, localCalls, asks, overtaken, remoteVars>>

\* A double click on a folder that is shown.
NavigateLocal ==
  /\ localShown # None
  /\ \E d \in Folders(localShown) \ {localPath} : FetchLocal(d)

\* The parent is that of the listing shown; it may be where the pane already is.
NavigateLocalUp ==
  /\ Parent(localShown) \notin {None, localPath}
  /\ FetchLocal(Parent(localShown))

RefreshLocal == FetchLocal(localPath)

\* The newest listing has no mark any more once it was answered.
TakeLocal(i) ==
  /\ localShown' \in {localCalls[i].path, None}
  /\ localLoading' = FALSE
  /\ overtaken' = (~localCalls[i].newest
                     /\ (overtaken \/ \A j \in DOMAIN localCalls : ~localCalls[j].newest))
  /\ localCalls' = RemoveAt(localCalls, i)
  /\ UNCHANGED <<localPath, asks, remoteVars>>

(* The remote pane.                                                        *)

FetchRemote(path) ==
  /\ Ask
  /\ remoteLoading' = TRUE
  /\ remoteCalls' = Append(remoteCalls, [host |-> draft, path |-> path])
  /\ UNCHANGED <<draft, remotePath, remote, loose, localVars>>

\* The form is there while the pane is not connected, also while it connects.
EditDraft ==
  /\ remote = None
  /\ draft' \in Host \ {draft}
  /\ loose' = (remoteCalls # <<>>)
  /\ UNCHANGED <<remotePath, remote, remoteLoading, remoteCalls, asks, asked, localVars>>

\* To the start path of the form, or where the pane was.
ConnectRemote ==
  /\ remote = None /\ ~remoteLoading
  /\ \E start \in Dir \cup {None} : FetchRemote(IF start = None THEN remotePath ELSE start)
  /\ asked' = TRUE

NavigateRemote ==
  /\ remote # None
  /\ \E d \in Folders(remote.path) : FetchRemote(d)
  /\ UNCHANGED asked

NavigateRemoteUp ==
  /\ remote # None /\ Parent(remote.path) # None
  /\ FetchRemote(Parent(remote.path))
  /\ UNCHANGED asked

RefreshRemote ==
  /\ remote # None
  /\ FetchRemote(remotePath)
  /\ UNCHANGED asked

\* A mutant: the entries stay.
DisconnectKeepsEntries ==
  /\ remote # None
  /\ remotePath' = Root
  /\ asked' = FALSE
  /\ loose' = (remoteCalls # <<>>)
  /\ UNCHANGED <<draft, remote, remoteLoading, remoteCalls, asks, localVars>>

\* Nothing is called off.
DisconnectRemote ==
  /\ remote # None
  /\ remote' = None
  /\ remotePath' = Root
  /\ asked' = FALSE
  /\ loose' = (remoteCalls # <<>>)
  /\ UNCHANGED <<draft, remoteLoading, remoteCalls, asks, localVars>>

\* A mutant: only a listing that came ends the wait.
TakeRemoteKeepsLoading(i) ==
  /\ \/ remote' = remoteCalls[i] /\ remotePath' = remote'.path /\ remoteLoading' = FALSE
     \/ remote' = None /\ UNCHANGED <<remotePath, remoteLoading>>
  /\ remoteCalls' = RemoveAt(remoteCalls, i)
  /\ loose' = (loose /\ (remoteCalls' # <<>> \/ remote' # None))
  /\ UNCHANGED <<draft, asks, asked, localVars>>

\* The answer connects the pane, its failure disconnects it.
TakeRemote(i) ==
  /\ \/ remote' = remoteCalls[i] /\ remotePath' = remote'.path
     \/ remote' = None /\ UNCHANGED remotePath
  /\ remoteLoading' = FALSE
  /\ remoteCalls' = RemoveAt(remoteCalls, i)
  /\ loose' = (loose /\ (remoteCalls' # <<>> \/ remote' # None))
  /\ UNCHANGED <<draft, asks, asked, localVars>>

(* What the view offers.                                                   *)

LocalPane == NavigateLocal \/ NavigateLocalUp \/ RefreshLocal

\* Once a directory is shown its buttons are there whatever is on its way.
RemoteButtons == NavigateRemoteUp \/ RefreshRemote

RemoteForm == EditDraft \/ ConnectRemote

RemoteList == NavigateRemote \/ DisconnectRemote

-----------------------------------------------------------------------------
Next ==
  \/ LocalPane \/ RemoteButtons \/ RemoteForm \/ RemoteList
  \/ \E i \in DOMAIN localCalls : TakeLocal(i)
  \/ \E i \in DOMAIN remoteCalls : TakeRemote(i)

Spec == Init /\ [][Next]_vars

-----------------------------------------------------------------------------
(* Properties.                                                             *)

\* A local pane that waits for nothing shows the entries of its path, or none,
\* unless the answer to an older listing came after the newest one's.
LocalEntriesAreOfPath == localCalls = <<>> /\ ~overtaken => localShown \in {localPath, None}

\* The remote pane shows a directory of the host that the form, the label and the
\* next listing name, and only after a connect that was not taken back, unless
\* the user changed the form or disconnected with a listing on its way.
RemoteIsAsSaid == remote # None /\ ~loose => asked /\ remote.host = draft

\* A button that waits for a listing has one to wait for: no answer, in whatever
\* order, leaves the form locked.
LoadingHasACall ==
  (remoteLoading => remoteCalls # <<>>) /\ (localLoading => localCalls # <<>>)

=============================================================================
