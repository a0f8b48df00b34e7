------------------------------ MODULE AppShell ------------------------------
(***************************************************************************)
(* The window of the application around its pages: which of them is shown, *)
(* which stay mounted unseen, the overlay between them and the panel of    *)
(* messages beside them (app-client/src-ui/app/page.tsx, app/(modules)/    *)
(* layout.tsx, components/app-sidebar.tsx, app-header.tsx,                 *)
(* main-content.tsx, collaboration-panel.tsx).  The links of the sidebar   *)
(* change the state at once and the address later; the effect that reads   *)
(* the address then changes the state again.  Of what the pages do only    *)
(* whether they hold a connection is seen here.                            *)
(***************************************************************************)
EXTENDS Naturals

CONSTANTS
  Section,      \* the management sections; "hosts" is the address "/"
  MaxClicks,    \* bound: clicks that navigate
  MaxMessages,  \* bound: messages written
  None

AppShellAssumption ==
  /\ "hosts" \in Section
  /\ Section \cap {"sftp", "ssh", "add-ssh", "sessions"} = {}
  /\ MaxClicks \in Nat /\ MaxMessages \in Nat
  /\ None \notin Section \cup {"sftp", "ssh", "add-ssh", "idle", "connected"}

Tab == {"sftp", "ssh"}

\* /?section=..., /?tab=... and /?action=add-ssh
Address == Section \cup Tab \cup {"add-ssh"}

VARIABLES
  place,      \* what is mounted: nothing yet, a page of (modules), or the dashboard
  url,        \* the address the dashboard's effect has seen, or None
  arriving,   \* the address a navigation goes to, or None
  activeTab, activeSection, viewMode,
  persistent, \* sshWorkspacePersistent
  loading,    \* isSystemLoading
  timer,      \* whether loadingTimerRef is armed
  collaborationOpen,
  ssh, sftp,  \* SshConnectWizard and SftpView: None, "idle" or "connected"
  messages,   \* what the mounted panel holds, as a number
  stored,     \* what localStorage holds
  clicks,     \* history: the number of clicks
  said,       \* history: the number of messages sent
  wanted,     \* history: the screen last asked for
  raced,      \* history: it was asked for with a navigation on its way
  silent      \* history: the overlay was last begun by a link to the present address

screen == <<activeTab, activeSection, viewMode, persistent>>
overlay == <<loading, timer>>
panel == <<collaborationOpen, messages, stored, said>>
vars == <<place, url, arriving, screen, overlay, panel, ssh, sftp, clicks, wanted, raced,
          silent>>

Work == {None, "idle", "connected"}

ShowSsh == place = "dashboard" /\ viewMode = "sessions" /\ activeTab = "ssh"
ShowSftp == place = "dashboard" /\ viewMode = "sessions" /\ activeTab = "sftp"
Screen == IF viewMode = "management" THEN activeSection ELSE activeTab

TypeOK ==
  /\ place \in {"start", "module", "dashboard"}
  /\ url \in Address \cup {None} /\ arriving \in Address \cup {None}
  /\ activeTab \in Tab /\ activeSection \in Section \cup {"sessions"}
  /\ viewMode \in {"sessions", "management"}
  /\ viewMode = "management" => activeSection \in Section
  /\ persistent \in BOOLEAN /\ loading \in BOOLEAN /\ timer \in BOOLEAN
  /\ collaborationOpen \in BOOLEAN
  /\ ssh \in Work /\ sftp \in Work
  /\ ShowSsh => ssh # None
  /\ ShowSftp => sftp # None
  /\ messages \in 0..MaxMessages /\ stored \in 0..MaxMessages /\ said \in 0..MaxMessages
  /\ clicks \in 0..MaxClicks
  /\ wanted \in Address
  /\ raced \in BOOLEAN /\ silent \in BOOLEAN

-----------------------------------------------------------------------------
\* The window opens on some address, or on a page of (modules).
Init ==
  /\ \/ place = "start" /\ arriving \in Address
     \/ place = "module" /\ arriving = None
  /\ url = None
  /\ activeTab = "ssh" /\ activeSection = "hosts" /\ viewMode = "management"
  /\ persistent = FALSE
  /\ loading = FALSE /\ timer = FALSE
  /\ collaborationOpen = FALSE
  /\ ssh = None /\ sftp = None
  /\ messages = 0 /\ stored = 0 /\ said = 0
  /\ clicks = 0
  /\ wanted = "hosts"
  /\ raced = FALSE /\ silent = FALSE

Click ==
  /\ clicks < MaxClicks
  /\ clicks' = clicks + 1

BeginSystemLoading ==
  /\ loading' = TRUE
  /\ timer' = FALSE

BeginAndFinish ==
  /\ loading' = TRUE
  /\ timer' = TRUE
  /\ silent' = FALSE

Show(t, s, v) ==
  /\ activeTab' = t
  /\ activeSection' = s
  /\ viewMode' = v

Kept(work, keep) == IF ~keep THEN None ELSE IF work = None THEN "idle" ELSE work

\* A mutant: the panel does not read what is stored.
FollowForgets ==
  /\ ssh' = Kept(ssh, persistent' \/ ShowSsh')
  /\ sftp' = Kept(sftp, ShowSftp' \/ sftp = "connected")
  /\ collaborationOpen' = (collaborationOpen /\ ~ShowSsh' /\ place' = place)
  /\ messages' = IF ShowSsh \/ place' # place THEN 0 ELSE messages
  /\ UNCHANGED <<stored, said>>

\* What the change of the screen mounts, keeps or unmounts.  The SFTP view stays
\* while it has a title, which is while it is connected; the panel is not
\* there beside the SSH screen, and it is closed and reads what is stored when it
\* comes back, on the dashboard also after a page of (modules).
Follow ==
  /\ ssh' = Kept(ssh, persistent' \/ ShowSsh')
  /\ sftp' = Kept(sftp, ShowSftp' \/ sftp = "connected")
  /\ collaborationOpen' = (collaborationOpen /\ ~ShowSsh' /\ place' = place)
  /\ messages' = IF ShowSsh \/ place' # place THEN stored ELSE messages
  /\ UNCHANGED <<stored, said>>

Asked(what) ==
  /\ wanted' = what
  /\ raced' = (arriving # None)

(* The sidebar.                                                            *)

\* A mutant: the section counts as shown whatever the view.
SectionLinkInAnyView(s) ==
  /\ place = "dashboard"
  /\ Click
  /\ UNCHANGED <<place, url>>
  /\ arriving' = IF s = url THEN None ELSE s
  /\ wanted' = s
  /\ raced' = FALSE
  /\ IF activeSection = s
     THEN UNCHANGED <<screen, overlay, silent, ssh, sftp, panel>>
     ELSE /\ BeginSystemLoading
          /\ silent' = (s = url)
          /\ Show(activeTab, s, "management")
          /\ UNCHANGED persistent
          /\ Follow

\* The state changes, unless the section is shown already, and the link is
\* followed.  To the present address there is no way to go.
SectionLink(s) ==
  /\ place = "dashboard"
  /\ Click
  /\ UNCHANGED <<place, url>>
  /\ arriving' = IF s = url THEN None ELSE s
  /\ wanted' = s
  /\ raced' = FALSE
  /\ IF viewMode = "management" /\ activeSection = s
     THEN UNCHANGED <<screen, overlay, silent, ssh, sftp, panel>>
     ELSE /\ BeginSystemLoading
          /\ silent' = (s = url)
          /\ Show(activeTab, s, "management")
          /\ UNCHANGED persistent
          /\ Follow

(* The header.                                                             *)

TabClick(t) ==
  /\ place = "dashboard"
  /\ ~(viewMode = "sessions" /\ activeTab = t)
  /\ Click
  /\ Asked(t)
  /\ BeginAndFinish
  /\ Show(t, activeSection, "sessions")
  /\ UNCHANGED <<place, url, arriving, persistent>>
  /\ Follow

OpenWorkspace(s) ==
  /\ BeginAndFinish
  /\ persistent' = TRUE
  /\ Show("ssh", s, "sessions")

HandleAddSsh ==
  /\ place = "dashboard"
  /\ Click
  /\ Asked("ssh")
  /\ OpenWorkspace(activeSection)
  /\ UNCHANGED <<place, url, arriving>>
  /\ Follow

(* The list of hosts.                                                      *)

\* The wizard takes the preset in the same turn.
HandleOpenSshFromHost ==
  /\ place = "dashboard" /\ Screen = "hosts"
  /\ Click
  /\ Asked("ssh")
  /\ OpenWorkspace("sessions")
  /\ UNCHANGED <<place, url, arriving>>
  /\ Follow

(* A page of (modules), which is left by every one of these.               *)

LayoutNavigates(a) ==
  /\ place = "module"
  /\ Click
  /\ arriving' = a
  /\ wanted' = a
  /\ raced' = FALSE
  /\ UNCHANGED <<place, url, screen, overlay, panel, ssh, sftp, silent>>

(* The effect on the address, which also mounts the dashboard.             *)

\* A mutant: the end of the overlay is forgotten.
ArriveUnfinished ==
  /\ arriving \in Section
  /\ Show(activeTab, arriving, "management")
  /\ UNCHANGED <<persistent, overlay, silent>>

ArriveAtTab ==
  /\ arriving \in Tab
  /\ Show(arriving, "hosts", "sessions")
  /\ persistent' = (persistent \/ arriving = "ssh")
  /\ timer' = TRUE
  /\ silent' = FALSE
  /\ UNCHANGED loading

ArriveAtAddSsh ==
  /\ arriving = "add-ssh"
  /\ OpenWorkspace("hosts")

ArriveAtSection ==
  /\ arriving \in Section
  /\ Show(activeTab, arriving, "management")
  /\ timer' = TRUE
  /\ silent' = FALSE
  /\ UNCHANGED <<persistent, loading>>

Arrive ==
  /\ arriving # None
  /\ place' = "dashboard"
  /\ url' = arriving
  /\ arriving' = None
  /\ ArriveAtSection \/ ArriveAtTab \/ ArriveAtAddSsh
  /\ Follow
  /\ wanted' = IF place = "start" THEN Screen' ELSE IF wanted = "add-ssh" THEN "ssh" ELSE wanted
  /\ UNCHANGED <<raced, clicks>>

LoadingTimer ==
  /\ timer
  /\ loading' = FALSE
  /\ timer' = FALSE
  /\ silent' = FALSE
  /\ UNCHANGED <<place, url, arriving, screen, panel, ssh, sftp, clicks, wanted, raced>>

(* The pages.                                                              *)

\* In view or not, a wizard connects and loses its session.
SshSessionChanges ==
  /\ ssh # None
  /\ ssh' \in {"idle", "connected"} \ {ssh}
  /\ UNCHANGED <<place, url, arriving, screen, overlay, panel, sftp, clicks, wanted, raced,
                 silent>>

\* A view that loses its connection unseen loses its title and goes.
SftpSessionChanges ==
  /\ sftp # None
  /\ \E now \in {"idle", "connected"} \ {sftp} :
       sftp' = Kept(now, ShowSftp \/ now = "connected")
  /\ UNCHANGED <<place, url, arriving, screen, overlay, panel, ssh, clicks, wanted, raced,
                 silent>>

(* The panel of messages.                                                  *)

PanelMounted == place # "start" /\ ~ShowSsh

ToggleCollaboration ==
  /\ PanelMounted
  /\ collaborationOpen' = ~collaborationOpen
  /\ UNCHANGED <<place, url, arriving, screen, overlay, messages, stored, said, ssh, sftp, clicks,
                 wanted, raced, silent>>

\* The list that the panel holds, with the message, is shown and stored.
HandleSendMessage ==
  /\ PanelMounted
  /\ said < MaxMessages
  /\ said' = said + 1
  /\ messages' = messages + 1
  /\ stored' = messages'
  /\ UNCHANGED <<place, url, arriving, screen, overlay, collaborationOpen, ssh, sftp, clicks,
                 wanted, raced, silent>>

(* What there is to click.                                                 *)

Sidebar == \E s \in Section : SectionLink(s)

Header == HandleAddSsh \/ \E t \in Tab : TabClick(t)

HostsList == HandleOpenSshFromHost

\* Only an open panel can be closed or written in.
CollaborationPanel == collaborationOpen /\ (ToggleCollaboration \/ HandleSendMessage)

ModulesLayout == \E a \in Address : LayoutNavigates(a)

-----------------------------------------------------------------------------
Next ==
  \/ Sidebar \/ Header \/ HostsList \/ CollaborationPanel \/ ModulesLayout
  \/ Arrive \/ LoadingTimer
  \/ SshSessionChanges \/ SftpSessionChanges \/ ToggleCollaboration

\* The router comes to every address and a timer fires.
Fairness == WF_vars(Arrive) /\ WF_vars(LoadingTimer)

Spec == Init /\ [][Next]_vars

FairSpec == Spec /\ Fairness

-----------------------------------------------------------------------------
(* Properties.                                                             *)

\* The overlay ends, unless it was last begun by a link of the sidebar to the
\* address the window already has: no effect follows that could end it.
OverlayEnds == loading /\ ~silent ~> ~loading \/ silent

\* Once no navigation is on its way the window shows what was last asked for,
\* unless that was asked for while one was: it arrives later and wins.
ScreenIsWanted == place = "dashboard" /\ arriving = None /\ ~raced => Screen = wanted

\* Leaving a screen does not unmount a live SSH session.
ConnectionsAreKept ==
  [][screen' # screen /\ ssh = "connected" => ssh' = "connected"]_vars

\* The panel shows every message that was sent, however often it was away.
MessagesAreKept == PanelMounted => messages = said

=============================================================================
