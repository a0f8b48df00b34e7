----------------------------- MODULE LocalVault -----------------------------
(***************************************************************************)
(* The local vault from its file to the screen.  The backend's commands    *)
(* (app-client/src-tauri/src/commands/vault.rs) run one after the other on *)
(* the main thread; a save replaces the whole content.  Two users write to *)
(* it, with functions of app-client/src-ui/hooks/useServers.ts: the        *)
(* connection wizard, which loads, merges its server and saves, and the    *)
(* page of known hosts, which saves what it holds from its own load on.    *)
(* An entry is the key it is merged by; its other fields are left out.     *)
(***************************************************************************)
EXTENDS Sequences, FiniteSets, Naturals

CONSTANTS
  Wizard,    \* calls of upsertServerEntry
  Page,      \* mounts of a component that uses useServers
  Edit,      \* edits made on a page
  Rotation,  \* calls of rotate_local_vault_password
  Server,    \* keys of server entries
  Host,      \* keys of known hosts
  Password,
  Blank,     \* the password that the user interface sends
  MaxCrashes, \* bound: crashes of the application
  None

Caller == Wizard \cup Page \cup Edit \cup Rotation
Content == [servers : SUBSET Server, hosts : SUBSET Host]

ASSUME LocalVaultAssumption ==
  /\ Wizard \cap Page = {} /\ Wizard \cap Edit = {} /\ Wizard \cap Rotation = {}
  /\ Page \cap Edit = {} /\ Page \cap Rotation = {} /\ Edit \cap Rotation = {}
  /\ Blank \in Password
  /\ MaxCrashes \in Nat
  /\ None \notin [password : Password, content : Content]
  /\ None \notin Page

VARIABLES
  file,      \* the vault file: its password and content, or None
  queue,     \* the callers whose command waits for the main thread or runs on it
  writing,   \* whether the command at the head has written its temporary file
  pc,        \* how far each caller came
  carried,   \* the content in the request or the answer of each caller
  change,    \* what each caller set out to change
  page,      \* the mounted component, or None
  screen,    \* the state of that component: the content it shows and edits
  owner,     \* the component an edit was made on
  cache,     \* memoryVaultCache and its copy in localStorage
  crashes,   \* history: the number of crashes
  base,      \* history: the content that each save was computed from
  intended,  \* history: the content if every change had been made in one step
  stale      \* history: whether a save ever replaced a content it did not know

vars == <<file, queue, writing, pc, carried, change, page, screen, owner, cache,
          crashes, base, intended, stale>>

ui == <<page, screen, owner, cache>>
ghosts == <<base, intended, stale>>

Empty == [servers |-> {}, hosts |-> {}]

EntryChange ==
  [op : {"server"}, item : Server] \cup [op : {"host", "unhost"}, item : Host]
PasswordChange == [op : {"rotate"}, from : Password, to : Password]

\* What the file holds, to a reader with its password.
Stored == IF file = None THEN Empty ELSE file.content

\* The queue holds each caller that waits for a command once.
QueueOK ==
  /\ queue \in Seq(Caller)
  /\ \A i, j \in DOMAIN queue : queue[i] = queue[j] => i = j
  /\ \A c \in Caller : (\E i \in DOMAIN queue : queue[i] = c) <=> pc[c] \in {"load", "save"}

TypeOK ==
  /\ file \in [password : Password, content : Content] \cup {None}
  /\ QueueOK
  /\ writing \in BOOLEAN
  /\ writing => queue # <<>> /\ pc[Head(queue)] = "save"
  /\ pc \in [Caller -> {"idle", "load", "loaded", "save", "saved", "refused", "done", "failed"}]
  /\ carried \in [Caller -> Content]
  /\ change \in [Caller -> EntryChange \cup PasswordChange \cup {None}]
  /\ page \in Page \cup {None}
  /\ screen \in Content
  /\ owner \in [Edit -> Page \cup {None}]
  /\ cache \in Content
  /\ crashes \in 0..MaxCrashes
  /\ base \in [Caller -> Content]
  /\ intended \in Content
  /\ stale \in BOOLEAN

-----------------------------------------------------------------------------
Init ==
  /\ file = None
  /\ queue = <<>>
  /\ writing = FALSE
  /\ pc = [c \in Caller |-> "idle"]
  /\ carried = [c \in Caller |-> Empty]
  /\ change = [c \in Caller |-> None]
  /\ page = None
  /\ screen = Empty
  /\ owner = [e \in Edit |-> None]
  /\ cache = Empty
  /\ crashes = 0
  /\ base = [c \in Caller |-> Empty]
  /\ intended = Empty
  /\ stale = FALSE

Goto(c, where) == pc' = [pc EXCEPT ![c] = where]

\* What a call knew is gone when it returned.
Return(c, where) ==
  /\ Goto(c, where)
  /\ carried' = [carried EXCEPT ![c] = Empty]
  /\ change' = [change EXCEPT ![c] = None]
  /\ base' = [base EXCEPT ![c] = Empty]

\* mergeServerEntry, mergeKnownHostEntry and the filter of removeKnownHost.
Merge(ch, content) ==
  CASE ch.op = "server" -> [content EXCEPT !.servers = @ \cup {ch.item}]
    [] ch.op = "host" -> [content EXCEPT !.hosts = @ \cup {ch.item}]
    [] ch.op = "unhost" -> [content EXCEPT !.hosts = @ \ {ch.item}]
    [] OTHER -> content

Invoke(c, command) ==
  /\ Goto(c, command)
  /\ queue' = Append(queue, c)

\* c sends content merged with its change.
InvokeSave(c, ch, content) ==
  /\ Invoke(c, "save")
  /\ carried' = [carried EXCEPT ![c] = Merge(ch, content)]
  /\ base' = [base EXCEPT ![c] = content]

(* The connection wizard.                                                  *)

Upsert(w) ==
  /\ pc[w] = "idle"
  /\ \E s \in Server : change' = [change EXCEPT ![w] = [op |-> "server", item |-> s]]
  /\ Invoke(w, "load")
  /\ UNCHANGED <<file, writing, carried, crashes, ui, ghosts>>

\* A mutant: the known hosts are not passed on.
UpsertLoadedForgets(w) ==
  /\ pc[w] = "loaded"
  /\ cache' = carried[w]
  /\ Invoke(w, "save")
  /\ carried' = [carried EXCEPT ![w] = [Merge(change[w], carried[w]) EXCEPT !.hosts = {}]]
  /\ base' = [base EXCEPT ![w] = carried[w]]
  /\ UNCHANGED <<file, writing, change, page, screen, owner, crashes, intended, stale>>

UpsertLoaded(w) ==
  /\ pc[w] = "loaded"
  /\ cache' = carried[w]
  /\ InvokeSave(w, change[w], carried[w])
  /\ UNCHANGED <<file, writing, change, page, screen, owner, crashes, intended, stale>>

UpsertSaved(w) ==
  /\ pc[w] = "saved"
  /\ Return(w, "done")
  /\ cache' = carried[w]
  /\ UNCHANGED <<file, queue, writing, page, screen, owner, crashes, intended, stale>>

(* A page.                                                                 *)

\* The component starts from the cache, which is empty before the first load.
Mount(p) ==
  /\ page = None
  /\ pc[p] = "idle"
  /\ page' = p
  /\ screen' = cache
  /\ Invoke(p, "load")
  /\ UNCHANGED <<file, writing, carried, change, owner, cache, crashes, ghosts>>

PageLoaded(p) ==
  /\ pc[p] = "loaded"
  /\ Return(p, "done")
  /\ cache' = carried[p]
  /\ screen' = IF page = p THEN carried[p] ELSE screen
  /\ UNCHANGED <<file, queue, writing, page, owner, crashes, intended, stale>>

Unmount ==
  /\ page # None
  /\ page' = None
  /\ screen' = Empty
  /\ UNCHANGED <<file, queue, writing, pc, carried, change, owner, cache, crashes, ghosts>>

\* What the page lets the user do: its dialog saves any host, its list deletes one
\* that is shown.
HostChange == [op : {"host"}, item : Host] \cup [op : {"unhost"}, item : screen.hosts]

\* Neither waits for the page's load, nor for an earlier edit.
EditHosts(e) ==
  /\ page # None
  /\ pc[e] = "idle"
  /\ \E ch \in HostChange :
       /\ change' = [change EXCEPT ![e] = ch]
       /\ InvokeSave(e, ch, screen)
  /\ owner' = [owner EXCEPT ![e] = page]
  /\ UNCHANGED <<file, writing, page, screen, cache, crashes, intended, stale>>

EditSaved(e) ==
  /\ pc[e] = "saved"
  /\ Return(e, "done")
  /\ cache' = carried[e]
  /\ screen' = IF page = owner[e] THEN carried[e] ELSE screen
  /\ owner' = [owner EXCEPT ![e] = None]
  /\ UNCHANGED <<file, queue, writing, page, crashes, intended, stale>>

(* Any caller.                                                             *)

Rotate(r) ==
  /\ pc[r] = "idle"
  /\ \E from, to \in Password :
       change' = [change EXCEPT ![r] = [op |-> "rotate", from |-> from, to |-> to]]
  /\ Invoke(r, "save")
  /\ UNCHANGED <<file, writing, carried, crashes, ui, ghosts>>

RotationSaved(r) ==
  /\ pc[r] = "saved"
  /\ Return(r, "done")
  /\ UNCHANGED <<file, queue, writing, crashes, ui, intended, stale>>

TakeError(c) ==
  /\ pc[c] = "refused"
  /\ Return(c, "failed")
  /\ UNCHANGED <<file, queue, writing, crashes, ui, intended, stale>>

(* The main thread.                                                        *)

Answer(c, where) ==
  /\ Goto(c, where)
  /\ queue' = Tail(queue)

\* load_local_vault, which may also fail to read the file.
ServeLoad ==
  /\ queue # <<>>
  /\ LET c == Head(queue)
     IN  /\ pc[c] = "load"
         /\ \/ /\ file # None => file.password = Blank
               /\ carried' = [carried EXCEPT ![c] = Stored]
               /\ Answer(c, "loaded")
            \/ Answer(c, "refused") /\ UNCHANGED carried
  /\ UNCHANGED <<file, writing, change, crashes, ui, ghosts>>

\* A mutant: a save does not look at the password.
ReadableAnyway(c) == c \in Rotation => file # None /\ file.password = change[c].from

\* Whether the command of c can read what the file has: a save needs no file.
Readable(c) ==
  IF c \in Rotation
  THEN file # None /\ file.password = change[c].from
  ELSE file # None => file.password = Blank

\* load_existing_context and persist_local_vault up to the temporary file, and
\* the same for a rotation.
StartSave ==
  /\ queue # <<>> /\ ~writing
  /\ pc[Head(queue)] = "save"
  /\ Readable(Head(queue))
  /\ writing' = TRUE
  /\ UNCHANGED <<file, queue, pc, carried, change, crashes, ui, ghosts>>

\* The password does not fit, or a write or the rename fails.
RefuseSave ==
  /\ queue # <<>>
  /\ pc[Head(queue)] = "save"
  /\ Answer(Head(queue), "refused")
  /\ writing' = FALSE
  /\ UNCHANGED <<file, carried, change, crashes, ui, ghosts>>

\* The rename at the end of atomic_write, and the answer.
Replace ==
  /\ writing
  /\ LET c == Head(queue)
     IN  /\ Answer(c, "saved")
         /\ \/ /\ c \in Rotation
               /\ file' = [password |-> change[c].to, content |-> file.content]
               /\ UNCHANGED <<intended, stale>>
            \/ /\ c \notin Rotation
               /\ file' = [password |-> Blank, content |-> carried[c]]
               /\ intended' = Merge(change[c], intended)
               /\ stale' = (stale \/ base[c] # Stored)
  /\ writing' = FALSE
  /\ UNCHANGED <<carried, change, crashes, ui, base>>

\* The application ends at any point; the file and localStorage stay.
Crash ==
  /\ crashes < MaxCrashes
  /\ crashes' = crashes + 1
  /\ queue' = <<>>
  /\ writing' = FALSE
  /\ pc' = [c \in Caller |-> IF pc[c] \in {"idle", "done"} THEN pc[c] ELSE "failed"]
  /\ carried' = [c \in Caller |-> Empty]
  /\ change' = [c \in Caller |-> None]
  /\ base' = [c \in Caller |-> Empty]
  /\ page' = None
  /\ screen' = Empty
  /\ UNCHANGED <<file, owner, cache, intended, stale>>

-----------------------------------------------------------------------------
Next ==
  \/ ServeLoad \/ StartSave \/ RefuseSave \/ Replace \/ Crash \/ Unmount
  \/ \E w \in Wizard : Upsert(w) \/ UpsertLoaded(w) \/ UpsertSaved(w)
  \/ \E p \in Page : Mount(p) \/ PageLoaded(p)
  \/ \E e \in Edit : EditHosts(e) \/ EditSaved(e)
  \/ \E r \in Rotation : Rotate(r) \/ RotationSaved(r)
  \/ \E c \in Caller : TakeError(c)

Spec == Init /\ [][Next]_vars

-----------------------------------------------------------------------------
(* Properties.                                                             *)

\* Every entry that was saved and not removed is in the file, and nothing else:
\* each edit that succeeded acts on the vault as it then is.
EditsAreAtomic == Stored = intended

\* Edits are lost or undone only by a save computed from a content that another
\* save had replaced, whatever crashes, fails, is rotated or unmounted.
LossNeedsStaleSave == ~stale => Stored = intended

\* What a caller sends is its base merged with its change, and pages only load.
RequestsOK ==
  /\ \A c \in Wizard \cup Edit :
       /\ pc[c] \notin {"idle", "done", "failed"} => change[c] \in EntryChange
       /\ pc[c] = "save" => carried[c] = Merge(change[c], base[c])
  /\ \A c \in Rotation :
       pc[c] \notin {"idle", "done", "failed"} => change[c] \in PasswordChange
  /\ \A c \in Page : pc[c] # "save"

\* The inductive invariant behind LossNeedsStaleSave: the command that writes
\* was let in by the file as it still is.
IInv ==
  /\ TypeOK
  /\ RequestsOK
  /\ writing => Readable(Head(queue))
  /\ LossNeedsStaleSave

\* A vault under another password than the user interface's is not overwritten:
\* its content stays until a rotation gives it back.
ForeignVaultIsKept ==
  [][file # None /\ file.password # Blank
       => file' # None /\ file'.content = file.content]_vars

=============================================================================
