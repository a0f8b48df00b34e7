------------------------------- MODULE Wizard -------------------------------
(***************************************************************************)
(* The steps of the connection wizard, the draft they fill and the vault   *)
(* entry that is saved on the way                                          *)
(* (app-client/src-ui/components/ssh-connect-wizard.tsx, hooks/useSsh.ts,  *)
(* components/hosts-list.tsx).  Every connect first awaits the save; a     *)
(* connected wizard saves its draft whenever it changes.  Only the latest  *)
(* attempt is seen here, with its timer, the answer of open_session and    *)
(* the events of its session, which come before or after the answer and    *)
(* the timeout; several attempts at once are UseSsh, and how two saves     *)
(* overlap in the vault is LocalVault.                                     *)
(***************************************************************************)
EXTENDS Naturals, Sequences, SequencesExt

CONSTANTS
  Host,      \* a host with its port and user: what identifies an entry
  Secret,    \* passwords and keys
  MaxAsks,   \* bound: connects asked for, hosts opened
  MaxMounts, \* bound: times the wizard is mounted
  MaxSaves,  \* bound: saves on their way
  None

Draft == [host : Host \cup {None}, secret : Secret \cup {None}]
Entry == [host : Host, secret : Secret \cup {None}]
Blank == [host |-> None, secret |-> None]

WizardAssumption ==
  /\ None \notin Host \cup Secret \cup Entry
  /\ MaxAsks \in Nat /\ MaxMounts \in Nat /\ MaxSaves \in Nat

VARIABLES
  mounted, mounts,
  activeStep,
  draft,          \* draftConnection
  status,         \* sessionStatus
  session,        \* whether there is an activeSessionId
  armed,          \* whether the timeout of the latest attempt is set
  flow,           \* the connect under way, with the draft it resolved, or None
  live,           \* the session the backend has for the latest attempt, or None
  saves,          \* the upserts on their way and what each goes on with
  servers,        \* the entries of the vault
  asks,           \* history: connects and hosts opened
  confirmed,      \* history: the entries there first, or connected with
  crossed,        \* history: the draft was changed under a session or a connect
  everCrossed     \* history: crossed was set once

hook == <<activeStep, draft, status, session, armed, flow, live>>
history == <<asks, confirmed, crossed, everCrossed>>
vars == <<mounted, mounts, hook, saves, servers, history>>

\* A save of the wizard mounted as number mount, after which a connect follows
\* with the entry of a preset, with the draft of that moment, or not at all.
Save == [mount : 1..MaxMounts, entry : Entry, next : {"preset", "draft", "nothing"}]

TypeOK ==
  /\ mounted \in BOOLEAN /\ mounts \in 0..MaxMounts
  /\ activeStep \in {"search", "ip", "user", "password", "connecting", "connected"}
  /\ draft \in Draft
  /\ status \in {"idle", "connecting", "connected", "closed", "error"}
  /\ session \in BOOLEAN /\ armed \in BOOLEAN
  /\ flow \in [stage : {"closing", "opening", "answering"}, entry : Entry] \cup {None}
  /\ live \in [stage : {"opening", "connected", "failed"}, entry : Entry] \cup {None}
  /\ \A i \in DOMAIN saves : saves[i] \in Save
  /\ servers \subseteq Entry
  /\ \A x, y \in servers : x.host = y.host => x = y
  /\ asks \in 0..MaxAsks
  /\ confirmed \subseteq Entry
  /\ crossed \in BOOLEAN /\ everCrossed \in BOOLEAN

-----------------------------------------------------------------------------
\* Hosts were saved before, each with a secret or none.
Init ==
  /\ mounted = FALSE /\ mounts = 0
  /\ activeStep = "search" /\ draft = Blank /\ status = "idle"
  /\ session = FALSE /\ armed = FALSE /\ flow = None /\ live = None
  /\ saves = <<>>
  /\ \E s \in Secret \cup {None}, h \in Host : servers = {[host |-> h, secret |-> s]}
  /\ asks = 0
  /\ confirmed = servers
  /\ crossed = FALSE /\ everCrossed = FALSE

StartOver ==
  /\ activeStep' = "search"
  /\ draft' = Blank
  /\ status' = "idle"
  /\ session' = FALSE
  /\ armed' = FALSE
  /\ flow' = None
  /\ live' = None

Ask ==
  /\ mounted
  /\ asks < MaxAsks /\ Len(saves) < MaxSaves
  /\ asks' = asks + 1

\* A connect or a session is under way, or a save after which one is.
Connecting == \E i \in DOMAIN saves : saves[i].mount = mounts /\ saves[i].next # "nothing"
Busy == session \/ live # None \/ flow # None \/ Connecting

Crossing(now) ==
  /\ crossed' = (crossed \/ now)
  /\ everCrossed' = (everCrossed \/ now)

\* A mutant: the effect does not look at the status.
PersistAlways(s) ==
  saves' = IF draft' \in Entry /\ draft' # draft
           THEN Append(s, [mount |-> mounts, entry |-> draft', next |-> "nothing"])
           ELSE s

\* The effect that saves the draft of a connected wizard.
Persist(s) ==
  saves' = IF /\ status' = "connected" /\ session' /\ draft' \in Entry
              /\ <<status, session, draft>>' # <<status, session, draft>>
           THEN Append(s, [mount |-> mounts, entry |-> draft', next |-> "nothing"])
           ELSE s

(* The wizard comes and goes with its screen.                              *)

Mount ==
  /\ ~mounted /\ mounts < MaxMounts
  /\ mounted' = TRUE
  /\ mounts' = mounts + 1
  /\ crossed' = FALSE
  /\ UNCHANGED <<hook, saves, servers, asks, confirmed, everCrossed>>

\* The cleanup closes the session and outdates the attempt, whose session is
\* closed when its identifier arrives.
Unmount ==
  /\ mounted
  /\ mounted' = FALSE
  /\ StartOver
  /\ UNCHANGED <<mounts, saves, servers, asks, confirmed, crossed, everCrossed>>

\* The list of hosts makes a preset of every entry, whole.
Presets == servers

\* The effect on a preset.  Without a secret the wizard asks for one.
TakePreset ==
  /\ Ask
  /\ \E e \in Presets :
       /\ draft' = e
       /\ IF e.secret # None
          THEN /\ confirmed' = confirmed \cup {e}
               /\ UNCHANGED <<activeStep, status, session>>
               /\ Persist(Append(saves, [mount |-> mounts, entry |-> e, next |-> "preset"]))
          ELSE /\ activeStep' = "password"
               /\ UNCHANGED <<confirmed, status, session>>
               /\ Persist(saves)
  /\ Crossing(Busy)
  /\ UNCHANGED <<mounted, mounts, armed, flow, live, servers>>

(* The steps.                                                              *)

\* Neither the host nor the user may be empty.
NextStep ==
  /\ mounted
  /\ \/ activeStep = "search" /\ activeStep' = "ip"
     \/ activeStep = "ip" /\ draft.host # None /\ activeStep' = "user"
     \/ activeStep = "user" /\ activeStep' = "password"
  /\ UNCHANGED <<mounted, mounts, draft, status, session, armed, flow, live, saves, servers, history>>

PrevStep ==
  /\ mounted
  /\ \/ activeStep = "ip" /\ activeStep' = "search"
     \/ activeStep = "user" /\ activeStep' = "ip"
     \/ activeStep = "password" /\ activeStep' = "user"
     \/ activeStep = "connecting" /\ activeStep' = "password"
  /\ UNCHANGED <<mounted, mounts, draft, status, session, armed, flow, live, saves, servers, history>>

UpdateDraft ==
  /\ mounted
  /\ Len(saves) < MaxSaves
  /\ \/ activeStep = "ip" /\ \E h \in Host \cup {None} : draft' = [draft EXCEPT !.host = h]
     \/ activeStep = "password" /\ \E s \in Secret : draft' = [draft EXCEPT !.secret = s]
  /\ draft' # draft
  /\ UNCHANGED <<activeStep, status, session, armed, flow, live>>
  /\ Persist(saves)
  /\ Crossing(Busy)
  /\ UNCHANGED <<mounted, mounts, servers, asks, confirmed>>

\* Cancel, before connecting.
ResetWizard ==
  /\ mounted
  /\ activeStep \in {"ip", "user", "password"}
  /\ StartOver
  /\ crossed' = (crossed /\ Connecting)
  /\ UNCHANGED <<mounted, mounts, saves, servers, asks, confirmed, everCrossed>>

\* Connect, retry and reconnect save the draft, and nothing more for now.
ConnectAndPersist ==
  /\ Ask
  /\ draft \in Entry
  /\ saves' = Append(saves, [mount |-> mounts, entry |-> draft, next |-> "draft"])
  /\ confirmed' = confirmed \cup {draft}
  /\ UNCHANGED <<mounted, mounts, hook, servers, crossed, everCrossed>>

Disconnect ==
  /\ mounted /\ activeStep = "connected" /\ session
  /\ session' = FALSE
  /\ armed' = FALSE
  /\ UNCHANGED <<mounted, mounts, activeStep, draft, status, flow, live, saves, servers, history>>

(* What the screens offer.  While it connects there is nothing to click.   *)

FormScreen == NextStep \/ UpdateDraft \/ (activeStep = "password" /\ ConnectAndPersist)

StepButtons == activeStep # "connecting" /\ (PrevStep \/ ResetWizard)

ConnectingScreen ==
  activeStep = "connecting" /\ status \in {"error", "closed"} /\ (PrevStep \/ ConnectAndPersist)

ConnectedScreen ==
  activeStep = "connected" /\ ((status # "connected" /\ ConnectAndPersist) \/ Disconnect)

(* Saves, answered in any order.                                           *)

\* The timeout of the attempt before is cleared.  Without a session to close
\* nothing comes between a connect and its start.
Start(d) ==
  IF session
  THEN /\ flow' = [stage |-> "closing", entry |-> d]
       /\ armed' = FALSE
       /\ UNCHANGED <<activeStep, status>>
  ELSE /\ flow' = [stage |-> "opening", entry |-> d]
       /\ armed' = TRUE
       /\ activeStep' = "connecting"
       /\ status' = "connecting"

\* A mutant: the draft stays as it is.
ConnectKeepsDraft(d) ==
  /\ Start(d)
  /\ session' = FALSE
  /\ live' = None
  /\ confirmed' = confirmed \cup {d}
  /\ crossed' = FALSE
  /\ UNCHANGED <<draft, asks, everCrossed>>

\* connect: the draft it resolved is the wizard's from now on, and the session
\* there was is closed.
Connect(d) ==
  /\ draft' = d
  /\ Start(d)
  /\ session' = FALSE
  /\ live' = None
  /\ confirmed' = confirmed \cup {d}
  /\ crossed' = FALSE
  /\ UNCHANGED <<asks, everCrossed>>

\* The promise goes on although its wizard is gone.  What it opens is seen by no
\* wizard: nobody shows or closes it.
ConnectUnmounted == UNCHANGED <<hook, history>>

Saved(i) ==
  LET s == saves[i]
      own == mounted /\ s.mount = mounts
  IN  /\ saves' = RemoveAt(saves, i)
      /\ servers' = {x \in servers : x.host # s.entry.host} \cup {s.entry}
      /\ \/ s.next = "nothing" /\ UNCHANGED <<hook, history>>
         \/ s.next # "nothing" /\ ~own /\ ConnectUnmounted
         \/ s.next = "preset" /\ own /\ Connect(s.entry)
         \/ s.next = "draft" /\ own /\ draft \in Entry /\ Connect(draft)
         \/ s.next = "draft" /\ own /\ draft \notin Entry /\ UNCHANGED <<hook, history>>
      /\ UNCHANGED <<mounted, mounts>>

\* Nobody catches the refusal, and no connect follows.
SaveRefused(i) ==
  /\ saves' = RemoveAt(saves, i)
  /\ UNCHANGED <<mounted, mounts, hook, servers, history>>

(* The connect goes on: the answer of open_session and the events of the   *)
(* session it opens come in any order.                                     *)

Resume ==
  /\ flow # None /\ flow.stage = "closing"
  /\ flow' = [flow EXCEPT !.stage = "opening"]
  /\ armed' = TRUE
  /\ status' = "connecting"
  /\ activeStep' = "connecting"
  /\ UNCHANGED <<mounted, mounts, draft, session, live, saves, servers, history>>

OpenRejected ==
  /\ flow # None /\ flow.stage = "opening"
  /\ flow' = None
  /\ armed' = FALSE
  /\ status' = "error"
  /\ UNCHANGED <<mounted, mounts, activeStep, draft, session, live, saves, servers, history>>

\* The command registers the session, starts its task and answers.
BackendOpens ==
  /\ flow # None /\ flow.stage = "opening"
  /\ flow' = [flow EXCEPT !.stage = "answering"]
  /\ live' = [stage |-> "opening", entry |-> flow.entry]
  /\ UNCHANGED <<mounted, mounts, activeStep, draft, status, session, armed, saves, servers,
                 history>>

\* Whatever came before the answer, its identifier is the active one.
Answered ==
  /\ flow # None /\ flow.stage = "answering" /\ Len(saves) < MaxSaves
  /\ flow' = None
  /\ session' = TRUE
  /\ UNCHANGED <<activeStep, draft, status>>
  /\ Persist(saves)
  /\ UNCHANGED <<mounted, mounts, armed, live, servers, history>>

\* The session is asked to close, if its identifier is known, and not given up.
Timeout ==
  /\ armed
  /\ armed' = FALSE
  /\ status' = "error"
  /\ UNCHANGED <<mounted, mounts, activeStep, draft, session, flow, live, saves, servers, history>>

\* Taken after the timeout as well, and whatever the draft is by then.
Connected ==
  /\ live # None /\ live.stage = "opening" /\ Len(saves) < MaxSaves
  /\ live' = [live EXCEPT !.stage = "connected"]
  /\ armed' = FALSE
  /\ session' = TRUE
  /\ status' = "connected"
  /\ activeStep' = "connected"
  /\ UNCHANGED draft
  /\ Persist(saves)
  /\ UNCHANGED <<mounted, mounts, flow, servers, history>>

ErrorEvent ==
  /\ live # None /\ live.stage # "failed"
  /\ live' = [live EXCEPT !.stage = "failed"]
  /\ armed' = FALSE
  /\ status' = "error"
  /\ UNCHANGED <<mounted, mounts, activeStep, draft, session, flow, saves, servers, history>>

\* A session closes at the end of its connection, when it is asked to, and after
\* an error.
Closed ==
  /\ live # None
  /\ live' = None
  /\ armed' = FALSE
  /\ session' = FALSE
  /\ status' = IF status = "error" THEN status ELSE "closed"
  /\ UNCHANGED <<mounted, mounts, activeStep, draft, flow, saves, servers, history>>

-----------------------------------------------------------------------------
Next ==
  \/ Mount \/ Unmount \/ TakePreset
  \/ FormScreen \/ StepButtons \/ ConnectingScreen \/ ConnectedScreen
  \/ \E i \in DOMAIN saves : Saved(i) \/ SaveRefused(i)
  \/ Resume \/ OpenRejected \/ BackendOpens \/ Answered \/ Timeout
  \/ Connected \/ ErrorEvent \/ Closed

Spec == Init /\ [][Next]_vars

-----------------------------------------------------------------------------
(* Properties.                                                             *)

\* The terminal names the host it is connected to, unless another was opened or
\* typed while the connect or the session was under way, and no connect came
\* of it since: its save may be on the way, or was refused.
LabelIsHost ==
  activeStep = "connected" /\ live # None /\ ~crossed => draft.host = live.entry.host

\* The vault holds what was there or what the user asked to connect with, unless
\* a wizard that was connected or connecting had its draft changed: then every
\* key that is typed is saved.
SavedWasConfirmed == ~everCrossed => servers \subseteq confirmed

=============================================================================
