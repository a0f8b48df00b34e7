----------------------------- MODULE SharedVault -----------------------------
(***************************************************************************)
(* The shared vault, a file with a tree of nodes and a version, and its    *)
(* history of revisions (app-client/src-tauri/src/collab/shared_vault.rs). *)
(* Commands run one after the other; a save writes a temporary file,       *)
(* removes the vault, renames the one to the other and appends a revision, *)
(* and may fail or the process end before any of these.  Clients save      *)
(* copies that they loaded earlier, with or without naming the version     *)
(* they expect; an upsert and a delete work on the file as it is.          *)
(***************************************************************************)
EXTENDS Naturals, Sequences

CONSTANTS
  Client,
  MaxEdits,    \* bound: commands that save
  MaxCrashes,  \* bound: ends of the process
  None

\* Every command that saves is an edit.  A node has the identifier of the edit that
\* put it into the tree; what is in it, its permissions among it, is that of the
\* edit that made it; and above it are the folders it is in.
Edit == 1..MaxEdits
Node == [id : Edit, made : Edit, folder : BOOLEAN, above : SUBSET Edit]
Vault == [version : Edit, nodes : SUBSET Node]

VARIABLES
  file,     \* shared-vault.json, or None
  history,  \* the versions in the history of revisions
  call,     \* the save under way, or None
  copy,     \* what each client loaded last, or None
  edits,    \* history: the number of edits
  done,     \* history: what was made and its client was told that it is saved
  taken,    \* history: what a command that was to do so took out
  wiped,    \* history: a save ended between the removal and the renaming
  crashes   \* history: the number of ends

vars == <<file, history, call, copy, edits, done, taken, wiped, crashes>>

Saving == [client : Client, stage : {"write", "remove", "rename", "append"},
           vault : Vault, edit : Edit, out : SUBSET Edit]

SharedVaultAssumption ==
  /\ MaxEdits \in Nat /\ MaxCrashes \in Nat
  /\ None \notin Vault /\ None \notin Saving

TypeOK ==
  /\ file \in Vault \cup {None}
  /\ history \in Seq(Edit)
  /\ call \in Saving \cup {None}
  /\ copy \in [Client -> Vault \cup {None}]
  /\ edits \in 0..MaxEdits
  /\ done \subseteq Edit /\ taken \subseteq Edit
  /\ wiped \in BOOLEAN
  /\ crashes \in 0..MaxCrashes

-----------------------------------------------------------------------------
Init ==
  /\ file = None
  /\ history = <<>>
  /\ call = None
  /\ copy = [c \in Client |-> None]
  /\ edits = 0
  /\ done = {} /\ taken = {}
  /\ wiped = FALSE
  /\ crashes = 0

Nodes(v) == IF v = None THEN {} ELSE v.nodes
Version(v) == IF v = None THEN 0 ELSE v.version
Contents(nodes) == {n.made : n \in nodes}

\* A node and all that is below it.
Subtree(nodes, n) == {x \in nodes : x.id = n.id \/ n.id \in x.above}

Folders(nodes) == {n \in nodes : n.folder}

\* A new node below another, and the root of a new vault.
Child(folder, parent) ==
  [id |-> edits + 1, made |-> edits + 1, folder |-> folder,
   above |-> parent.above \cup {parent.id}]
Root == [id |-> edits + 1, made |-> edits + 1, folder |-> TRUE, above |-> {}]

\* A mutant: the version is the client's, not that of the file.
StampCopy(given) == Version(given) + 1

\* The version follows that of the file, or starts with the client's.
Stamp(given) ==
  IF file # None THEN file.version + 1 ELSE IF Version(given) > 1 THEN Version(given) ELSE 1

\* save_shared_vault up to its first write; out is what the command takes out.
SaveBegins(c, given, nodes, out) ==
  /\ call = None
  /\ edits < MaxEdits
  /\ edits' = edits + 1
  /\ call' = [client |-> c, stage |-> "write", edit |-> edits + 1, out |-> out,
              vault |-> [version |-> Stamp(given), nodes |-> nodes]]
  /\ UNCHANGED <<file, history, copy, done, taken, wiped, crashes>>

(* Commands.                                                               *)

\* Without a file there is an error.
Load(c) ==
  /\ call = None /\ file # None
  /\ copy' = [copy EXCEPT ![c] = file]
  /\ UNCHANGED <<file, history, call, edits, done, taken, wiped, crashes>>

\* A mutant: an older version than the current one will do.
SaveIfNewer(c) ==
  /\ copy[c] # None
  /\ copy[c].version <= Version(file)
  /\ \E parent \in Folders(copy[c].nodes), folder \in BOOLEAN :
       SaveBegins(c, copy[c], copy[c].nodes \cup {Child(folder, parent)}, {})

\* The client's copy with a node of its own.  Another version is an error.
SaveExpected(c) ==
  /\ copy[c] # None
  /\ copy[c].version = Version(file)
  /\ \E parent \in Folders(copy[c].nodes), folder \in BOOLEAN :
       SaveBegins(c, copy[c], copy[c].nodes \cup {Child(folder, parent)}, {})

\* No version is named: whatever the file has and the vault that is saved has not
\* goes.  It is the client's copy with a node of its own, or a new vault, as in
\* the first save and the demo vault.
Unchecked(c, given, nodes) ==
  SaveBegins(c, given, nodes, Contents(Nodes(file)) \ Contents(nodes))

SaveUnchecked(c) ==
  \/ Unchecked(c, None, {Root})
  \/ \E parent \in Folders(Nodes(copy[c])), folder \in BOOLEAN :
       Unchecked(c, copy[c], copy[c].nodes \cup {Child(folder, parent)})

\* A mutant: the tree is the one the client loaded.
UpsertOfCopy(c) ==
  /\ file # None /\ copy[c] # None
  /\ \E parent \in Folders(copy[c].nodes) :
       SaveBegins(c, file, copy[c].nodes \cup {Child(FALSE, parent)}, {})

\* Loads, adds a server below a folder, and saves; naming the version the client
\* expects only refuses more.
Insert(c) ==
  /\ file # None
  /\ \E parent \in Folders(file.nodes) :
       SaveBegins(c, file, file.nodes \cup {Child(FALSE, parent)}, {})

\* replace_node: the server takes the place of the node with its identifier, also
\* of a folder or the root, and all that was below that node goes with it.
Replace(c) ==
  /\ file # None
  /\ \E n \in file.nodes :
       LET gone == Subtree(file.nodes, n)
           server == [n EXCEPT !.made = edits + 1, !.folder = FALSE]
       IN  SaveBegins(c, file, (file.nodes \ gone) \cup {server}, Contents(gone))

Upsert(c) == Insert(c) \/ Replace(c)

\* Any node but the root, with all that is below it.
Delete(c) ==
  /\ file # None
  /\ \E n \in file.nodes :
       LET gone == Subtree(file.nodes, n)
       IN  n.above # {} /\ SaveBegins(c, file, file.nodes \ gone, Contents(gone))

(* The writes.                                                             *)

AtStage(stage) == call # None /\ call.stage = stage
GoOn(stage) == call' = [call EXCEPT !.stage = stage]

WriteTemporary ==
  /\ AtStage("write")
  /\ GoOn("remove")
  /\ UNCHANGED <<file, history, copy, edits, done, taken, wiped, crashes>>

RemoveOld ==
  /\ AtStage("remove")
  /\ GoOn("rename")
  /\ file' = None
  /\ UNCHANGED <<history, copy, edits, done, taken, wiped, crashes>>

RenameNew ==
  /\ AtStage("rename")
  /\ GoOn("append")
  /\ file' = call.vault
  /\ taken' = taken \cup call.out
  /\ UNCHANGED <<history, copy, edits, done, wiped, crashes>>

\* The answer brings the vault that was saved.
AppendRevision ==
  /\ AtStage("append")
  /\ history' = Append(history, call.vault.version)
  /\ done' = done \cup ({call.edit} \cap Contents(call.vault.nodes))
  /\ copy' = [copy EXCEPT ![call.client] = call.vault]
  /\ call' = None
  /\ UNCHANGED <<file, edits, taken, wiped, crashes>>

Interrupted == wiped' = (wiped \/ AtStage("rename"))

\* A write fails, and the client gets an error.
Fail ==
  /\ call # None
  /\ Interrupted
  /\ call' = None
  /\ UNCHANGED <<file, history, copy, edits, done, taken, crashes>>

\* The files stay.
Crash ==
  /\ crashes < MaxCrashes
  /\ crashes' = crashes + 1
  /\ Interrupted
  /\ call' = None
  /\ copy' = [c \in Client |-> None]
  /\ UNCHANGED <<file, history, edits, done, taken>>

-----------------------------------------------------------------------------
Next ==
  \/ \E c \in Client :
       Load(c) \/ SaveExpected(c) \/ SaveUnchecked(c) \/ Upsert(c) \/ Delete(c)
  \/ WriteTemporary \/ RemoveOld \/ RenameNew \/ AppendRevision \/ Fail \/ Crash

Spec == Init /\ [][Next]_vars

-----------------------------------------------------------------------------
(* Properties.                                                             *)

\* A node that a client was told is saved stays as it was saved, whoever saves a
\* copy, fails or ends, until a save that names no version leaves it out, or a delete
\* or an upsert takes the place of it or of a node above it; unless a save ended
\* after it removed the file.
SavedNodesStay ==
  call = None /\ ~wiped => done \subseteq Contents(Nodes(file)) \cup taken

\* A version stands for one content, so that expecting it means having seen all
\* that the vault holds; unless a save ended after it removed the file.
VersionTellsContent ==
  ~wiped => \A c \in Client :
              /\ copy[c] # None /\ file # None /\ copy[c].version = file.version
              => copy[c].nodes = file.nodes

\* Unless versions started over, the history names them in their order, none
\* twice, and none that the vault did not reach.
RevisionsAreInOrder ==
  ~wiped => /\ \A i, j \in DOMAIN history : i < j => history[i] < history[j]
            /\ call = None => \A i \in DOMAIN history : history[i] <= Version(file)

=============================================================================
