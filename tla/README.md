# OzyTerminal: a TLA+ verification project

OzyTerminal is a Tauri SSH workstation: a desktop client (Rust backend, React
UI), a control-plane (HTTP API, certificate authority, TCP relay) and an
agent-node that reaches the relay from behind a NAT.  These modules model the
parts of it whose correctness depends on the order in which things happen.
Paths below are relative to the repository.

## 1. Inventory

### Control-plane (`control-plane/src`)

| Part | State | Operations | Hard because |
|---|---|---|---|
| relay (`relay/mod.rs`) | one `Mutex<RelayState>`: registered nodes, leases, token index, two maps of pending oneshot senders | `register_node`, `create_lease`, `claim_lease`, `snapshot`, `attach_connection` for each TCP connection, `fail_lease`, `cleanup_expired` | `attach_connection` takes the lock three times and pairs the connections outside it; timeouts race with the counterpart; every handler sweeps; everything is lost at a restart |
| HTTP handlers (`main.rs`) | map of issued certificates, audit log | `issue_certificate`, relay endpoints, `authenticate` | issue, remember and audit are three steps, each of which can fail |
| CA (`ca/mod.rs`) | key files, serial counter (memory and file) | `bootstrap`, `issue`, `next_serial` | the counter is written non-atomically and read back with a default of 0 |
| audit (`audit/mod.rs`) | JSONL file | `record` | appends from several requests |
| auth (`auth/mod.rs`) | none | `authenticate` | pure decision table |

### Agent-node (`agent-node/src/reverse_ssh.rs`)

State: the instant of the last registration, the bridge tasks.  Operations:
`run_reverse_connector` (register when due, claim, sleep), `bridge_claimed_lease`.
Hard: it re-claims a lease it has not attached to yet, a restart of the
control-plane forgets its registration, the upstream may refuse after the
agent seat was taken.

### Desktop backend (`app-client/src-tauri/src`)

| Part | State | Operations | Hard because |
|---|---|---|---|
| interactive session (`commands/session.rs`, `core/ssh_client.rs`, `app_state.rs`) | table of sessions, an mpsc channel of inputs, a broadcast channel of events | `open_session`, `send_input`, `resize_session`, `close_session`; tasks `connect_ssh` and forwarder | three kinds of task over two bounded channels; close queued behind unfinished work; a lagging receiver |
| session mirror (`collab/session_mirror.rs`) | per session: status, participants, transcript | `register_session`, `share_with_actor`, `append_stdout`, `mark_*` | concurrent share and event; transcript trimming |
| shared vault (`collab/shared_vault.rs`) | one JSON file with a version, a JSONL history | `save`, `upsert`, `delete`, effective permissions | copies that are saved long after they were loaded; replacement of the file by remove and rename, then a line of history; denials, permissions and fresh starts along a path |
| local vault (`commands/vault.rs`, `crypto/envelope.rs`) | one encrypted JSON file | `save`, `load`, `rotate` | read-modify-write without a lock; master password rotation |
| application data (`commands/storage.rs`, `core/recent_connections.rs`) | JSON files | `save_*`, `record` | whole-file read-modify-write without a lock |
| activity log, collaboration audit (`activity.rs`, `collab/audit.rs`) | JSONL files | append, list, clear | unsynchronised appends |
| control-plane client (`core/control_plane.rs`, relay and certificate resolution in `core/ssh_client.rs`) | none | decide whether to reuse or to request | expiry margins |
| files, host discovery, credential import (`commands/filesystem.rs`, `core/host_discovery.rs`, `core/credential_import.rs`) | none | pure I/O and parsing | |

### UI (`app-client/src-ui`)

| Part | State | Operations | Hard because |
|---|---|---|---|
| session hook (`hooks/useSsh.ts`) | attempt counter, timer, session id, status | `connect`, `resetWizard`, `closeActiveSession`, the channel's events | awaits in `connect`; answers and events of superseded attempts |
| terminal (`components/live-ssh-terminal.tsx`) | chunks, an index into them | buffer, flush on a frame, write | the chunk list is cut while the index only grows |
| wizard (`components/ssh-connect-wizard.tsx`, `components/hosts-list.tsx`) | step, draft | steps, presets, connect, retry | every connect awaits a save of the vault first; an effect saves the draft of a connected session |
| hosts (`hooks/useServers.ts`, known hosts page) | copy of the vault | load, upsert, edit | whole lists are computed from React state |
| lists (`hooks/useAppDataStore.ts`, keychain, snippets, port forwards pages) | copy of the application data, an open dialog | load, create, edit, delete, toggle | whole lists are computed from React state; dialogs close before the save is answered |
| file view (`hooks/useSftp.ts`, `components/sftp-view.tsx`) | path, entries and waiting of two panes | navigate, refresh, connect, disconnect | listings overlap and nothing is called off |
| log page (`hooks/useActivityLogs.ts`, logs page) | copy of the log | list every 4 s, clear | answers of earlier visits and earlier lists |
| window (`app/page.tsx`, `app/(modules)/layout.tsx`, `components/main-content.tsx`, sidebar, header, collaboration panel) | tab, section, address, overlay, what stays mounted | links, tabs, Add SSH, open a host, messages | state changes at once, the address later, and an effect on it changes the state again |

### What makes each part correct

| Part | Properties |
|---|---|
| relay | each seat of a lease is given once; client and agent of a lease never both wait; a paired lease and its token are gone for good; streams are spliced only between a client and an agent of one lease that the target node claimed; every admitted connection is spliced or closed; a waiting task does not lose its sender while its lease lives |
| agent-node | its registration comes back within a bounded time after the last fault, and then lapses for no longer than a renewal exceeds its lifetime by; a lease is attached or expires |
| certificate authority | serial numbers are unique; every certificate a client holds is in the audit log |
| interactive session | the table holds the session as long as it can take input; a close ends it and no command hangs, unless it waits for its server for ever; the mirror's status follows the life of the session; the end is reported |
| `useSsh` | input goes to the session of the current attempt only; sessions of older attempts are asked to end; a connected session has no timeout armed; an attempt leaves "connecting"; the end is shown |
| terminal | output is shown in order, none of it twice, and all of it |
| logs | a recorded entry can be read back |
| local vault | an edit that succeeded is not undone by another; a vault under another password is not overwritten |
| shared vault | what a client was told is saved stays until somebody deletes, replaces or overrides it or a folder it is in; a version tells the content; a denial wins over every permission |
| session mirror | only participants see a transcript; the status follows the session |
| application data | an edit made on a page at rest is kept, and the page shows it |
| file view | what is listed belongs to the path and the host shown; no form stays locked |
| wizard | the label names the host of the session; only what the user asked to connect with is saved |
| log page | it comes to show what is logged |
| window | it comes to show what was asked for last, without an overlay; leaving a screen ends no connection |

## 2. Modules

| Module | Stands for | State ↔ code |
|---|---|---|
| `Rendezvous` | the abstract relay: leases with two seats | no code; implemented by `Relay` |
| `Relay` | `control-plane/src/relay/mod.rs` | `nodes`, `live`, `lease`, `pending` are the fields of `RelayState`; `conn` is the task of each TCP connection, its `pc` the await or lock it stands at; `clock` is `unix_timestamp()` |
| `AgentNode` | `agent-node/src/reverse_ssh.rs` against a control plane | `pc`, `since`, `left` are the await of the loop, `last_registration` and the time that is left of the await; `expires`, `lease` the control plane's side; `bridges` the spawned tasks |
| `CertificateAuthority` | `ca/mod.rs`, `audit/mod.rs`, `issue_certificate` of `main.rs` | `disk` is `ca.serial`, `counter` and `lock` the `RwLock<u64>`, `issued` the map of certificates, `audited` the audit log |
| `SshSession` | `commands/session.rs`, `connect_ssh` of `core/ssh_client.rs`, forwarder task | `handle` is the entry of `state.sessions`, `torn` a transcript cut that panicked, `inbox` the mpsc channel, `events`/`lagged` the broadcast channel, `pc` and `relaying` the two tasks |
| `UseSsh` | `hooks/useSsh.ts` | `attempt`, `session`, `timer`, `mounted` are the refs, `timers` the timeouts that are armed, `flow` is where each call of `connect` stands, `channel` the Tauri channels, `closing` the closes on their way |
| `TerminalView` | `useSsh.ts` (output), `live-ssh-terminal.tsx` | `pending`, `frame`, `chunks`, `index` are the buffer, the scheduled frame, the React state and `chunkIndexRef` |
| `JsonlLog` | `activity.rs`, `collab/audit.rs`, `control-plane/src/audit/mod.rs` | `file` is the log line by line; `pc`, `handle` are the calls and the file each has open |
| `LocalVault` | `commands/vault.rs`, `hooks/useServers.ts`, the known hosts page | `file` is the encrypted file, `queue`/`writing` the main thread, `screen`, `cache` React state and `memoryVaultCache` |
| `SharedVault` | `collab/shared_vault.rs`, the file | `file` is the vault, a tree whose nodes name the folders above them, `history` the versions in its history, `call` the save under way, `copy` what each client loaded last |
| `VaultPermissions` | `collab/shared_vault.rs`, `resolve_effective_permissions` | `allowed`, `denied` are the two sets of the walk from the root to a server, one node or rule a step |
| `Wizard` | `ssh-connect-wizard.tsx`, `hosts-list.tsx`, the draft in `useSsh.ts` | `activeStep`, `draft`, `status` are React state; `saves` the upserts a connect awaits, `flow`, `live`, `armed` the latest attempt: its call of `open_session`, its session, its timeout |
| `AppData` | `commands/storage.rs`, `useAppDataStore.ts`, three pages | `stored` is the file, `queue` the main thread, `answers` what is on its way back, `data`, `cached`, `dialog` what the page holds |
| `UseSftp` | `commands/filesystem.rs`, `useSftp.ts`, `sftp-view.tsx` | `localPath`, `remote`, `localLoading`, ... are the hook's state, `localCalls`, `remoteCalls` the listings on their way |
| `ActivityView` | `useActivityLogs.ts`, logs page, `activity.rs` | `log` is what the file lists, `shown`, `failed`, `cached` the hook's state |
| `AppShell` | `app/page.tsx`, layout, sidebar, header, `main-content.tsx`, collaboration panel | `url` and `arriving` are the address seen and the one the router goes to; `activeTab`, `viewMode`, ... the page's state; `ssh`, `sftp` what is mounted |

`MCRelayLive`, `MCStateFiles`, `MCViews` and `MCDesktop` each instantiate several of these.  They share no
variable, so a behaviour is one of them (`part`, chosen at the start) while the others stand
still: such a run explores the sum of their states and asks the questions of all of them.

Each action is a handler, or the part of it between two points where another
task can run: an await, a lock that is given back, a system call that can fail
or be the last before a crash.  `PROJECT.json` maps every definition to its lines.
`AgentNode` and `UseSsh` are composed with the systems they talk to (the relay's
tables for one node; the backend session's outline) inside the module, because
the interesting steps are theirs: an answer that is lost after it took effect,
an event that arrives before the answer.  The outline in `UseSsh` is the part
of `SshSession` that the hook sees; `audited` in `CertificateAuthority` means a
line appended, whose fate `JsonlLog` describes.

Definitions marked "A mutant" (`AdmissibleAgain`, `DrawUnlocked`, ...) are plausible
bugs; no specification uses them.  They show that each property fails when the
code is changed that way.

## 3. Runs

Run with `tlc -config <run>.cfg MC<module>.tla`.

| Configuration | Question and result |
|---|---|
| `MCRelay` | safety of the relay with 2 nodes, 2 leases, 3 connections: holds (996 k states) |
| `MCRelayLive` | `Relay`: it implements `Rendezvous` and settles every connection, also with stale clock readings; `AgentNode`: registration and service of leases with slow and lost calls and restarts. All hold |
| `MCSshSession` | safety of a session with three commands, termination unless it waits for its server for ever, and the report of its end unless the forwarder lagged or panicked: holds |
| `MCSshSessionLag` | is the end of every session logged? **No**: a burst of output beyond the broadcast capacity ends the forwarder |
| `MCUseSsh` | two connects, a reset, disconnects and an unmount at any time, overlapping connects included, against backends that may stay silent for ever: holds |
| `MCLocalVault` | wizard, page, edits, rotation and a crash: entries are lost only to stale saves; a foreign vault is kept |
| `MCLocalVaultLost` | are edits atomic? **No**: two quick edits of known hosts undo one another |
| `MCStateFiles` | `CertificateAuthority`: three requests, two crashes, failing writes; `JsonlLog`: four calls, two crashes, one clear; `SharedVault`: four edits of two clients, two crashes, a write failing at any step; `VaultPermissions`: walks of five nodes and rules. All hold (295 k states) |
| `MCViews` | `TerminalView`: output is shown in order, and all of it below the cap; `ActivityView`: the page catches up with the log; `AppShell`: five clicks anywhere in the window. All hold (80 k states) |
| `MCViewsConnections` | does a connected session survive a change of view? **No**: a workspace that was entered by its tab is unmounted by the next section |
| `MCTerminalViewFreeze` | is all output shown? **No**: at the cap on chunks the effect sees no growth and writes nothing more |
| `MCDesktop` | `Wizard`: two connects or hosts opened over two visits; `AppData`: four visits and edits, a crash; `UseSftp`: five listings answered in any order. All hold (3.5 M states) |

A property of a module with several parts is the conjunction of that module's named
properties (`SharedVaultIsKept`, `CalmListsAreKept`, `PanesShowTheirPlace`,
`WindowIsAsLeft`, `LossesAreExplained`, `ViewsCatchUp`), each of which the module states and explains.
Properties that hold only up to some event name it: a history variable marks it (`wiped`,
`hasty`, `crossed`, `loose`, `raced`, `silent`, `torn`, ...) and section 6 says what happens then.

The four runs that fail are expected to: each contradicts a statement of the
repository's documents, quoted in `findings`.

### Bounds and why they are enough

- **Relay.** Three connections are a client, an agent and one that comes again or
  belongs to a second lease; two leases let a step touch the wrong one; two nodes let the
  wrong node claim.  Lifetimes of 1 and `Horizon` 2 let a lease expire at every
  point of a rendezvous and the next be issued after it.  After `Horizon` the clock
  passes only to let timers fire.  `MCRelayLive` has `Lag` 1: a handler may use a
  clock reading that is one second old.  The proofs have none of these bounds.
  In `MCRelayLive` one node, one lease and its two connections are enough to meet or to miss
  each other.
- **AgentNode.** Units of 5 s make the default configuration `Ttl` 12 (60 s) with calls of
  two, the client's timeout of 10 s.  Two leases compete for the oldest-first claim, and two bridges of a
  lease are under way at once; at `MaxBridges` a further one counts as failing at once.
- **CertificateAuthority.** Three requests let two race after a third advanced the
  counter; two crashes let a start follow a damaged file and be followed by another.
- **SshSession.** `InputCap` 1 with three commands reaches a full channel with a
  command waiting behind a write.  `EventCap` 4, the most that one step emits, lets the
  forwarder lag at every stage or nowhere.  In `MCSshSessionLag` it is 16: the events of the
  opening and of the end fill 12 places, so only output can overflow it, as with the real 1024.
- **UseSsh.** Two connects and a reset: an attempt is superseded by a connect that waits for
  its close or that overlaps, and by one without a session.
- **TerminalView.** `Cap` 4 instead of 500 chunks with 7 pieces of output goes well beyond the cap.
- **JsonlLog.** Losses need two calls that mix, and a third and a fourth that follow.
- **LocalVault.** Two mounts and two edits let an edit overlap with an edit, with
  another mount's load and with the wizard's load and save, in any order.
  One host, added and removed, is enough for a loss; `MCLocalVaultLost` has two.
- **SharedVault.** Four edits let a client save a copy that two others overtook, or come back
  after a save that ended between the removal and the renaming; a second client is the other.
  They also make a folder with a server in it and replace or delete it: a tree of three levels.
- **VaultPermissions.** Two rights and five steps contain every order of a permission, a denial
  and a fresh start, twice; the rules are about the actor or somebody else.
- **Wizard.** Two connects and two saves on their way let a save be answered after another
  was asked for; two mounts let it be answered in a later wizard.  Two hosts and two
  secrets are enough to be mistaken for one another.
- **AppData.** Four acts are a visit, an edit, another visit and an edit there.
- **UseSftp.** Five listings let two panes each have two under way, after the first; the
  root with two folders lets a listing be for another path, a parent or the same one.
- **ActivityView.** Two lists wait for an answer when the next is asked for: one more than
  the interval and a mount can have without a slow answer.
- **AppShell.** Five clicks go to a section, a tab, a host and back; three sections contain the
  present address, another, and the one of "/".  `MCViewsConnections` needs two.

`CHECK_DEADLOCK FALSE` is set wherever the calls of an instance are finite, or the
clock stops at its horizon; `AgentNode` runs for ever and is checked for deadlock.

## 4. Fairness

- *Relay*: the clock advances, and each connection's task goes on (tokio
  schedules every ready task; its timer is armed before it waits).
- *AgentNode*: the loop and time go on.  A call that is made again and again is
  eventually served and answered (strong fairness): with every call lost nothing
  can be promised.  So is, in the end, one bridge of a lease that keeps being claimed.
- *SshSession*: what depends on the program alone goes on: input that waits is taken, a failure
  is reported, a task that is done removes its session, the forwarder receives.  Nothing is assumed
  of the server: `client::connect` has no timeout, and `channel.data()` waits for as long as the
  remote window is 0.  `CloseEndsSession` and `CallersReturn` name this case (`[]AwaitsServer`): there
  the close stays in the queue and blocked commands do not return.  A sender that waits for
  room gets it (strong fairness): tokio's channel serves waiting senders in order.
- *UseSsh*: promises that were answered resolve, timers fire, channels deliver.  A backend may wait
  for ever, and with it `close_session`, which a connect awaits.
- *TerminalView*: a scheduled frame runs, React commits, the terminal's code loads.
- *ActivityView*: the interval fires, the main thread goes on, the oldest answer arrives.
- *AppShell*: the router comes to every address, an armed timer fires.
- The other modules need none; their properties are safety.

## 5. Proofs

All theorems hold for every value of the constants that satisfies the named assumptions.

- **`RelayProofs`** (`RelayAssumption`): any number of nodes, leases, connections, any
  lifetimes and any lag.  None of the properties is inductive by itself: that both parties
  do not wait at once needs that a sender in a map belongs to a task that still waits, and that a
  taken sender leaves none behind.  `IInv` in `Relay.tla` adds the shape of leases
  (`LeasesWellFormed`), of seats (`SeatsWellFormed`: the flag of a taken seat is up while the lease
  lives, so it is never given again), of peers (`PeersWellFormed`) and of the maps
  (`TakenOutOfMap`).  One lemma for each action shows that it keeps `IInv`; the theorems read their parts from it.
  `RelayImplementsRendezvous`, in the same module, is the refinement: every step of `Relay` is a
  step of `Rendezvous` or a stutter.  Offered leases are those issued; seats are read from the
  tasks; two are joined when one receives the other's stream.
- **`AgentNodeProofs`** (`RelayLiveAssumption`): a potential,
  `ToNext`, bounds the time to the next registration; steps of the loop do not raise it
  and time lowers it.  So from one registration served to the next there is at most a
  `Renewal` (half the lifetime, three calls and the longest sleep, less the unit in which the loop
  looks), or the last fault is recent.  `AgentNodeReregisters` says this for every configuration;
  `AgentNodeStaysRegistered` concludes that a lifetime longer than a renewal never lapses without a fault.
  The defaults are not such: with calls that succeed after almost the client's 10 s a renewal takes
  65 s and the lifetime is 60 s, so the node may be unregistered for 5 s.  A lifetime of
  30 s with polls of 30 s, which `from_env` accepts, lapses for longer.
- **`SshSessionProofs`** (`SshSessionAssumption`): what is on its way through the broadcast channel is
  the part of a life that the mirror has not seen: it is in order (`Orderly`) and neither beyond nor
  short of what the connect task has done (`Behind`), until the forwarder lags or panics.  So the status of
  the mirror moves along the life of the session (an action property), whatever is cut or lost.
  `RunningSessionIsFound` is inductive with the types.
- **`UseSshProofs`** (`UseSshAssumption`): all invariants for any number of attempts, overlapping
  connects included.  What a superseded connect that goes on overwrites (`overwritten`) is the
  exception of `ConnectedDisarmsTimeout` and `EndIsShown`.  For the others: the timer that is armed is the one
  `timeoutRef` holds, or was overwritten, and the last event of a session that is over is its
  close.  `SessionsAreTracked` is the safety part of `StaleSessionsAreClosed`: a session that runs is
  the active one, or its id is still to come, or its close is on the way.
- **`StateFilesProofs`** (`CaAssumption`, `StateFilesAssumption`):
  - *certificate authority*: numbers in use are below what the file or, while the process is up, the
    counter says (`Numbering`), which holds because both are changed under one lock (`Holding`), unless
    the file was cut;
  - *shared vault* (`VaultInv`): versions known to the history or to a client are not ahead of the file, and
    a save under way is ahead of them all (`VersionsGrow`); what clients were told is saved is in the
    file, in whatever a save that was checked is about to put there, or among what it takes out
    (`SavedIsCarried`), until a save ends with the file removed (`wiped`);
  - *logs* (`LogInv`): where each call's entry stands (`Placed`), that a call which nothing mixed with has a
    line of its own (`Unmixed`), and for calls one after the other that a line is of calls that were cut
    and at most one that was not (`Sequential`), from which the count of losses follows;
  - *permissions*: `DenialsWin` with `denied = refused`, for walks of any length.
- **`DesktopProofs`** (`DesktopAssumption`):
  - *lists* (`ListsInv`): commands are served in their order and a page asks for the lists when it is mounted, so a
    page that waits for nothing has nothing of an earlier visit left in the queue.  A list that is only
    edited on calm pages has at most one save that waits, computed from what is stored (`SavesOfCalm`),
    and its page shows that or waits for what will tell it (`CalmPage`).  The difficulty is a save
    from an earlier visit in the queue before the load of this one: the load answers after it;
  - *file view* (`FilesInv`): while nothing is `loose`, each listing on its way is of the host the form names;
    on the left the newest is the one of the path;
  - *wizard* (`WizardInv`): what is being opened, what connects or is connected, in time or after the timeout,
    and what waits to be saved, was confirmed, until the draft was changed under it (`crossed`).
- **`ViewsProofs`** (`ViewsAssumption`, `TerminalViewAssumption`):
  - *terminal* (`TermInv`): what is shown, the chunks from the index on and what is buffered follow one
    another, each in the order in which it was produced.  A cut to `Cap` moves chunks to lower
    positions only, so none that was written comes to stand behind the index again.  `FlattenRises` says
    what a render writes: chunks that rise and follow one another join to one sequence that rises and holds
    nothing else.  It is proved by induction over the number of chunks; the library's induction theorems take an operator, so
    `SetInduction` is derived, for sets, from the well-foundedness of the natural numbers;
  - *log page* (`LogsInv`): at most one clear waits, and there is room for it; a page that is away shows nothing;
  - *window* (`ShellInv`): without a race the address on its way is the one asked for, or none is and the
    screen is; localStorage holds every message.
- **`LocalVaultProofs`** (`LocalVaultAssumption`): what a caller sends is its base
  merged with its change, and a command that writes was let in by the file as it
  still is, because the queue serves one command at a time.  So a save that knew the
  content makes exactly its change, and one without the password never gets to write.

So all invariants and action properties of the passing runs are proved, the refinement included, and
so are type invariants that no run checks.  Only model-checked is liveness, for which
the prover has no rules here (`EveryConnectionSettles`, `CloseEndsSession`, `CallersReturn`, `EndIsReported`,
`ConnectingSettles`, `StaleSessionsAreClosed`, `LeaseIsServed`, `ViewsCatchUp`); the four properties that are
expected to fail are refuted by TLC.

## 6. What the models leave out, and what they show besides

- *Relay*: purposes, ports, last-seen times and the text of tokens.  A waiting
  peer that disconnects is not noticed while it waits; a sender may be left for a lease that a
  sweep removed in between, and its task then waits for its own timeout (at least a
  second); a stream sent between the firing of the timer and the drop of the
  receiver is closed without a word to its sender.  The re-checks of expiry after a sweep are dead
  code, and `claimed_by` is redundant with the target.
- *AgentNode*: the upstream connection, which is made only after the agent's
  seat was taken; effects of a call that arrive after its timeout.
- *CertificateAuthority*: certificate contents and authentication.  A torn
  `ca.serial` counts from zero again; a torn CA key stops every later start.
- *SshSession*: the opening is four stages, any of which can fail, for all awaits of
  `connect_ssh`; the first tells of its lease, certificate and fallback.  The `None => break`
  branch of its `select!` is unreachable (`RunningSessionIsFound`).  A server that is silent in the opening or
  takes no more input keeps the task, a close in the queue and the commands behind it for ever;
  the repository lists timeouts and cancellation as backlog.  When the transcript passes
  200 000 bytes and the cut falls inside a character, `drain` panics and ends the forwarder with
  the same effect as a lag; any burst of output may be the one, if `WideText`.  Which bytes
  stand in the transcript is not modelled.
- *UseSsh*: the steps and drafts of the wizard (see `Wizard`), the browser without Tauri.  When connects
  overlap, `timeoutRef` is overwritten and a connected session can be timed out, and the superseded
  connect puts its own "connecting" over the other's status (`overwritten`); when the timeout comes before `open_session` resolved, the session is not closed
  and the status may go from error to connected; after a session that ended before it was
  known, the id of a session that is over stays active.
- *TerminalView*: output that arrives before the terminal's code waits for the
  next chunk; a reconnect that brings as many chunks as were there skips its first lines.
- *JsonlLog*: `writeln!` on a `File` is two writes; clearing unlinks the file, as
  on Unix.  Entries are their identity.
- *LocalVault*: an entry is its merge key; encryption is a password that fits or
  not.  The interface always sends the empty password and has no caller of
  rotation, nor of the hook's own edits of servers.  Synchronous Tauri commands run one
  after the other on the main thread, answers reach the page in any order.
- *SharedVault*: what is in a node, its permissions among it, is the edit that made it;
  validation and the audit records are left out.  An upsert with the identifier of a node replaces
  it whole: permissions are empty afterwards and, if it was a folder or the root, all below it is
  gone.  A save that ends between remove and rename leaves no vault, the next
  starts over, and versions no longer tell contents (`wiped`).  A save whose line of
  history fails is reported as an error although it happened.
- *Wizard*: one attempt at a time (`UseSsh` has several).  A host opened while a session is
  connected changes the label before it connects, and if its save is refused the label stays
  wrong; with a session connected every key typed in a form is saved; a wizard that is left
  before the save of a connect was answered goes on to open a session that nobody shows, which
  the model lets belong to no wizard.  A session that connects after its timeout is shown as connected.
- *AppData*: an entry is a text and a switch.  A form holds a copy of its entry: a toggle
  made meanwhile is undone by its save (`hasty`).  A port that does not fit is refused with
  the whole list, after the dialog closed and without a message.
- *UseSftp*: hidden files and the listing itself.  A late listing shows its entries under another
  path, connects a pane that was disconnected, or shows another host than the form (`loose`).
- *ActivityView*: filters, export, the browser without a backend.  A list asked for before a
  clear and answered after it brings the old entries back until the next.
- *AppShell*: the browser's history, notifications, window buttons, and grid or list.  A link of
  the sidebar to the present address, after a host was opened, starts an overlay that nothing
  ends (`silent`); an address that arrives late changes the screen back (`raced`); an SSH
  workspace that was entered by its tab is unmounted with its session (`MCViewsConnections`).

### Not modelled

- Recent connections: nothing in the interface calls them.
- Host discovery and credential import: text into records, no state.
- What `establish_authenticated_session` decides (relay or direct, certificate, key or password):
  tests of one request, without state, over before the session is connected.
- Roles in session mirrors: one table under one lock, changed by one command.
- Vendored components, toasts, the legacy interface that nothing imports, entry points, stubs.

`components` in `PROJECT.json` gives the reason for each.

## 7. Plan

Modelled, the most important first: relay and its refinement, interactive session, its hook,
agent-node, certificate authority, logs, terminal, local vault, shared vault, application data,
wizard, file view, log page, window.

Proofs to come: steps that liveness rests on and that need no temporal rule, such as that
a waiting connection's timer is always armed, and that a session which was closed has
something left to do until it ends; and abstract specifications of the shared vault
(a register with versions) and of the terminal (a log that is shown up to a point), to be
implemented by the modules as `Relay` implements `Rendezvous`.
