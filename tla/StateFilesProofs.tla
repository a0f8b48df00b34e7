-------------------------- MODULE StateFilesProofs --------------------------
(***************************************************************************)
(* The certificate authority, the shared vault, the logs and the walk over *)
(* permissions, for any number of requests, clients, edits, calls, rules   *)
(* and ends of the process.                                                *)
(***************************************************************************)
EXTENDS MCStateFiles, SequenceTheorems, FiniteSetTheorems, TLAPS

filesVars == <<part, vars, logVars, vaultVars, walkVars>>

LEMMA Assumptions ==
  /\ Log!JsonlLogAssumption
  /\ Shared!SharedVaultAssumption
  /\ Rights!VaultPermissionsAssumption
BY StateFilesAssumption

-----------------------------------------------------------------------------
(* The certificate authority: types, unique serial numbers, and the audit  *)
(* record of every certificate held.  Uniqueness is not inductive: what    *)
(* makes a number new is that the counter in memory is at or above every   *)
(* number given away, and what carries that over a crash is that ca.serial *)
(* is too, as long as it was not cut.  Both hold because one request at a  *)
(* time is between the two.                                                *)

\* One request at a time holds the lock, and its number is the counter's.
Holding ==
  \A r \in Request : pc[r] \in Locked => up /\ lock = r /\ serial[r] = counter

\* The counter is at or above every number given away, above it while the next
\* one is being written.
Counting ==
  \A s \in Request : up /\ pc[s] \in Numbered =>
    /\ serial[s] <= counter
    /\ \A r \in Request : pc[r] \in Locked => serial[s] < serial[r]

\* So is the number in the file, unless the file was cut.
Persisting == disk = 0 \/ \A s \in Request : pc[s] \in Numbered => serial[s] <= disk

Distinct ==
  \A r, s \in Request :
    r # s /\ pc[r] \in Numbered /\ pc[s] \in Numbered => serial[r] # serial[s]

Numbering == reset \/ (Counting /\ Persisting /\ Distinct)

Auditing == \A r \in Request : pc[r] \in {"recorded", "answered"} => r \in audited

IInv == TypeOK /\ Holding /\ Numbering /\ Auditing

-----------------------------------------------------------------------------
LEMMA InitEstablishesInv == Init => IInv
<1> SUFFICES ASSUME Init PROVE IInv
  OBVIOUS
<1>1. \A r \in Request : pc[r] = "idle"
  BY DEF Init
<1>2. TypeOK
  <2>1. pc \in [Request -> Pc] /\ serial \in [Request -> Nat]
    BY DEF Init, Pc
  <2>2. crashes \in 0..MaxCrashes /\ disk \in Nat /\ counter \in Nat
    BY CaAssumption DEF Init
  <2>3. up \in BOOLEAN /\ reset \in BOOLEAN /\ caKey \in {"none", "cut", "whole"}
    BY DEF Init
  <2>4. lock = None /\ issued = {} /\ audited = {}
    BY DEF Init
  <2> QED
    BY <2>1, <2>2, <2>3, <2>4 DEF TypeOK
<1>3. Holding /\ Numbering /\ Auditing
  BY <1>1 DEF Holding, Numbering, Counting, Persisting, Distinct, Auditing, Locked, Numbered
<1> QED
  BY <1>2, <1>3 DEF IInv

LEMMA TypeIsKept == ASSUME TypeOK, [Next]_vars PROVE TypeOK'
<1> USE CaAssumption DEF TypeOK, Goto, Locked, Numbered, Pc
<1>1. CASE Bootstrap
  <2>1. reset' \in BOOLEAN
    BY <1>1, Zenon DEF Bootstrap
  <2> QED
    BY <1>1, <2>1 DEF Bootstrap
<1>2. CASE BootstrapDies
  BY <1>2 DEF BootstrapDies
<1>3. CASE Crash
  <2>1. pc' \in [Request -> Pc]
    <3> DEFINE After(r) == CASE pc[r] \in Locked -> "refused"
                             [] pc[r] \in {"numbered", "inserted", "recorded"} -> "void"
                             [] OTHER -> pc[r]
    <3>1. pc' = [r \in Request |-> After(r)]
      BY <1>3 DEF Crash
    <3>2. \A r \in Request : After(r) \in Pc
      OBVIOUS
    <3> HIDE DEF After
    <3> QED
      BY <3>1, <3>2
  <2>2. crashes \in Nat /\ crashes < MaxCrashes /\ crashes' = crashes + 1
    BY <1>3 DEF Crash
  <2>3. crashes' \in 0..MaxCrashes
    BY <2>2
  <2>4. up' = FALSE /\ counter' = 0
    BY <1>3 DEF Crash
  <2>5. lock' = None /\ issued' = {} /\ UNCHANGED <<caKey, disk, serial, audited, reset>>
    BY <1>3 DEF Crash
  <2> QED
    BY <2>1, <2>3, <2>4, <2>5
<1>4. ASSUME NEW r \in Request, Draw(r) PROVE TypeOK'
  BY <1>4 DEF Draw
<1>5. ASSUME NEW r \in Request, Reject(r) PROVE TypeOK'
  BY <1>5 DEF Reject
<1>6. ASSUME NEW r \in Request, Truncate(r) PROVE TypeOK'
  BY <1>6 DEF Truncate
<1>7. ASSUME NEW r \in Request, Persist(r) PROVE TypeOK'
  BY <1>7 DEF Persist
<1>8. ASSUME NEW r \in Request, PersistFails(r) PROVE TypeOK'
  BY <1>8 DEF PersistFails
<1>9. ASSUME NEW r \in Request, BadKey(r) \/ Insert(r) \/ Record(r) \/ RecordFails(r) \/ Answer(r)
      PROVE  TypeOK'
  BY <1>9 DEF BadKey, Insert, Record, RecordFails, Answer
<1>10. CASE UNCHANGED vars
  BY <1>10 DEF vars
<1> QED
  BY <1>1, <1>2, <1>3, <1>4, <1>5, <1>6, <1>7, <1>8, <1>9, <1>10 DEF Next

LEMMA HoldingIsKept == ASSUME TypeOK, Holding, [Next]_vars PROVE Holding'
<1> USE CaAssumption DEF TypeOK, Holding, Goto, Locked, Numbered, Pc
<1>1. CASE Bootstrap
  BY <1>1 DEF Bootstrap
<1>2. CASE BootstrapDies
  BY <1>2 DEF BootstrapDies
<1>3. CASE Crash
  BY <1>3 DEF Crash
<1>4. ASSUME NEW r \in Request, Draw(r) PROVE Holding'
  BY <1>4 DEF Draw
<1>5. ASSUME NEW r \in Request, Reject(r) PROVE Holding'
  BY <1>5 DEF Reject
<1>6. ASSUME NEW r \in Request, Truncate(r) PROVE Holding'
  BY <1>6 DEF Truncate
<1>7. ASSUME NEW r \in Request, Persist(r) PROVE Holding'
  BY <1>7 DEF Persist
<1>8. ASSUME NEW r \in Request, PersistFails(r) PROVE Holding'
  BY <1>8 DEF PersistFails
<1>9. ASSUME NEW r \in Request, BadKey(r) \/ Insert(r) \/ Record(r) \/ RecordFails(r) \/ Answer(r)
      PROVE  Holding'
  BY <1>9 DEF BadKey, Insert, Record, RecordFails, Answer
<1>10. CASE UNCHANGED vars
  BY <1>10 DEF vars
<1> QED
  BY <1>1, <1>2, <1>3, <1>4, <1>5, <1>6, <1>7, <1>8, <1>9, <1>10 DEF Next

\* A step that moves a request within its stage (under the lock, numbered, or
\* neither) and leaves numbers and counters alone.
Moving ==
  /\ UNCHANGED <<up, counter, serial, reset>>
  /\ disk' \in {disk, 0}
  /\ \A s \in Request : /\ pc'[s] \in Numbered => pc[s] \in Numbered
                        /\ pc'[s] \in Locked => pc[s] \in Locked

LEMMA MovingKeepsNumbers == ASSUME Numbering, Moving PROVE Numbering'
  BY DEF Numbering, Counting, Persisting, Distinct, Moving

\* The lock makes the counter, the file and the numbers advance together.
LEMMA NumberingIsKept ==
  ASSUME TypeOK, Holding, Numbering, [Next]_vars
  PROVE  Numbering'
<1>1. CASE Bootstrap
  BY <1>1 DEF Bootstrap, TypeOK, Holding, Numbering, Counting, Persisting, Distinct, Locked, Numbered
<1>2. CASE BootstrapDies
  BY <1>2, MovingKeepsNumbers DEF BootstrapDies, Moving
<1>3. CASE Crash
  BY <1>3 DEF Crash, TypeOK, Numbering, Counting, Persisting, Distinct, Locked, Numbered, Pc
<1>4. ASSUME NEW r \in Request, Draw(r) PROVE Numbering'
  <2>1. /\ UNCHANGED <<disk, reset>> /\ counter' = counter + 1 /\ lock = None
        /\ pc' = [pc EXCEPT ![r] = "numbering"]
        /\ serial' = [serial EXCEPT ![r] = counter + 1]
        /\ up /\ up' = up /\ pc[r] = "idle"
    BY <1>4 DEF Draw, Goto
  <2>2. \A s \in Request : s # r => pc'[s] = pc[s] /\ serial'[s] = serial[s]
    BY <2>1 DEF TypeOK
  <2>3. pc'[r] = "numbering" /\ serial'[r] = counter + 1
    BY <2>1 DEF TypeOK
  <2>4. \A s \in Request : pc'[s] \in Numbered => s # r
    BY <2>3 DEF Numbered
  <2>5. \A s \in Request : pc'[s] \in Locked => s = r
    BY <2>1, <2>2, CaAssumption DEF Holding
  <2> QED
    BY <2>1, <2>2, <2>3, <2>4, <2>5
       DEF TypeOK, Numbering, Counting, Persisting, Distinct
<1>5. ASSUME NEW r \in Request, Reject(r) PROVE Numbering'
  BY <1>5, MovingKeepsNumbers DEF Reject, Goto, TypeOK, Moving, Locked, Numbered
<1>6. ASSUME NEW r \in Request, Truncate(r) PROVE Numbering'
  BY <1>6, MovingKeepsNumbers DEF Truncate, Goto, TypeOK, Moving, Locked, Numbered
<1>7. ASSUME NEW r \in Request, Persist(r) PROVE Numbering'
  <2>1. /\ UNCHANGED <<up, counter, serial, reset>> /\ disk' = serial[r]
        /\ pc' = [pc EXCEPT ![r] = "numbered"] /\ pc[r] = "writing"
    BY <1>7 DEF Persist, Goto
  <2>2. \A s \in Request : s # r => pc'[s] = pc[s]
    BY <2>1 DEF TypeOK
  <2>3. pc'[r] = "numbered" /\ pc[r] \in Locked
    BY <2>1 DEF TypeOK, Locked
  <2>4. up /\ lock = r /\ serial[r] = counter
    BY <2>3 DEF Holding
  <2>5. \A s \in Request : pc'[s] \notin Locked
    BY <2>2, <2>3, <2>4 DEF Holding, Locked
  <2> QED
    BY <2>1, <2>2, <2>3, <2>4, <2>5
       DEF TypeOK, Numbering, Counting, Persisting, Distinct
<1>8. ASSUME NEW r \in Request, PersistFails(r) PROVE Numbering'
  BY <1>8, MovingKeepsNumbers DEF PersistFails, Goto, TypeOK, Moving, Locked, Numbered
<1>9. ASSUME NEW r \in Request, BadKey(r) \/ Insert(r) \/ Record(r) \/ RecordFails(r) \/ Answer(r)
      PROVE  Numbering'
  BY <1>9, MovingKeepsNumbers
     DEF BadKey, Insert, Record, RecordFails, Answer, Goto, TypeOK, Moving, Locked, Numbered
<1>10. CASE UNCHANGED vars
  BY <1>10, MovingKeepsNumbers DEF vars, Moving
<1> QED
  BY <1>1, <1>2, <1>3, <1>4, <1>5, <1>6, <1>7, <1>8, <1>9, <1>10 DEF Next

LEMMA AuditingIsKept == ASSUME TypeOK, Auditing, [Next]_vars PROVE Auditing'
<1> USE DEF TypeOK, Auditing, Goto, Locked
<1>1. CASE Bootstrap \/ BootstrapDies
  BY <1>1 DEF Bootstrap, BootstrapDies
<1>2. CASE Crash
  BY <1>2 DEF Crash, Pc, Numbered
<1>3. ASSUME NEW r \in Request,
             Draw(r) \/ Reject(r) \/ Truncate(r) \/ Persist(r) \/ PersistFails(r)
      PROVE  Auditing'
  BY <1>3 DEF Draw, Reject, Truncate, Persist, PersistFails
<1>4. ASSUME NEW r \in Request,
             BadKey(r) \/ Insert(r) \/ Record(r) \/ RecordFails(r) \/ Answer(r)
      PROVE  Auditing'
  BY <1>4 DEF BadKey, Insert, Record, RecordFails, Answer
<1>5. CASE UNCHANGED vars
  BY <1>5 DEF vars
<1> QED
  BY <1>1, <1>2, <1>3, <1>4, <1>5 DEF Next

\* The invariant that the theorems below read their parts from.
THEOREM CaInvariant == Spec => []IInv
<1>1. IInv /\ [Next]_vars => IInv'
  BY TypeIsKept, HoldingIsKept, NumberingIsKept, AuditingIsKept DEF IInv
<1> QED
  BY InitEstablishesInv, <1>1, PTL DEF Spec

\* Every variable keeps its type, and the lock a holder that is under it.
THEOREM CaTypeOK == Spec => []TypeOK
<1>1. IInv => TypeOK
  BY DEF IInv
<1> QED
  BY CaInvariant, <1>1, PTL

\* Serial numbers are unique for any number of concurrent requests and crashes
\* as long as ca.serial was not cut.
THEOREM CaSerialsAreUnique == Spec => []SerialsAreUnique
<1>1. IInv => SerialsAreUnique
  BY DEF IInv, Numbering, Distinct, SerialsAreUnique
<1> QED
  BY CaInvariant, <1>1, PTL

\* Every certificate that a client holds is in the audit log.
THEOREM CaHeldIsAudited == Spec => []HeldIsAudited
<1>1. IInv => HeldIsAudited
  BY DEF IInv, Auditing, HeldIsAudited
<1> QED
  BY CaInvariant, <1>1, PTL

-----------------------------------------------------------------------------
(* Permissions: the walk has refused what the rules refuse.                *)

WalkInv == Rights!TypeOK /\ Rights!DenialsWin /\ denied = refused

LEMMA WalkStep ==
  ASSUME WalkInv, Rights!Next
  PROVE  WalkInv'
<1> USE DEF WalkInv, Rights!TypeOK, Rights!DenialsWin, Rights!Step
<1>1. steps < MaxSteps /\ steps' = steps + 1
  BY DEF Rights!Next, Rights!EnterFresh, Rights!Allow, Rights!Deny
<1>2. steps' \in 0..MaxSteps
  BY <1>1, Assumptions DEF Rights!VaultPermissionsAssumption
<1>3. CASE Rights!EnterFresh
  BY <1>2, <1>3 DEF Rights!EnterFresh
<1>4. ASSUME NEW subject \in Subject, NEW rights \in SUBSET Right, Rights!Allow(subject, rights)
      PROVE  WalkInv'
  BY <1>2, <1>4 DEF Rights!Allow
<1>5. ASSUME NEW subject \in Subject, NEW rights \in SUBSET Right, Rights!Deny(subject, rights)
      PROVE  WalkInv'
  BY <1>2, <1>5 DEF Rights!Deny
<1> QED
  BY <1>3, <1>4, <1>5 DEF Rights!Next

LEMMA WalkInvariant == FilesSpec => []WalkInv
<1>1. FilesInit => WalkInv
  BY Assumptions
     DEF FilesInit, Rights!Init, WalkInv, Rights!TypeOK, Rights!DenialsWin,
         Rights!VaultPermissionsAssumption
<1>2. WalkInv /\ [FilesNext]_filesVars => WalkInv'
  <2> SUFFICES ASSUME WalkInv, [FilesNext]_filesVars
               PROVE  WalkInv'
    OBVIOUS
  <2>1. CASE UNCHANGED walkVars
    BY <2>1 DEF walkVars, WalkInv, Rights!TypeOK, Rights!DenialsWin
  <2> QED
    BY <2>1, WalkStep DEF FilesNext, filesVars
<1> QED
  BY <1>1, <1>2, PTL DEF FilesSpec, filesVars

\* Of the rules since the last fresh start, those that deny win over those that
\* allow, in whatever order resolve_effective_permissions meets them.
THEOREM DenialsAlwaysWin == FilesSpec => []DenialsWin
<1>1. WalkInv => DenialsWin
  BY DEF WalkInv, DenialsWin
<1> QED
  BY <1>1, WalkInvariant, PTL

-----------------------------------------------------------------------------
(* The shared vault: what is said of it.                                   *)

\* A version that the edits so far can have reached.
Made(v) == v.version \in 1..edits

MadeByEdits ==
  /\ vaultFile # None => Made(vaultFile)
  /\ saving # None => Made(saving.vault)
  /\ \A c \in Client : copy[c] # None => Made(copy[c])

\* The file is away only while a save renames, and is the new vault after that.
SaveIsWhole ==
  /\ Shared!AtStage("rename") => vaultFile = None
  /\ Shared!AtStage("append") => vaultFile = saving.vault

\* A version is known if the history names it or a client has a copy of it.
Known == {history[i] : i \in DOMAIN history} \cup
         {copy[c].version : c \in {d \in Client : copy[d] # None}}

\* The versions in use are not ahead of the file, and a save goes ahead of them all.
VersionsGrow ==
  /\ ~Shared!AtStage("rename") => \A v \in Known : v <= Shared!Version(vaultFile)
  /\ saving # None => \A v \in Known : v < saving.vault.version

\* What clients were told is saved is in the file, or was taken out, and a save takes
\* out what it is to take out and no more.
SavedIsCarried ==
  LET kept(nodes) == done \subseteq Shared!Contents(nodes) \cup taken
  IN  /\ ~Shared!AtStage("rename") => kept(Shared!Nodes(vaultFile))
      /\ saving # None =>
           done \subseteq Shared!Contents(saving.vault.nodes) \cup taken \cup saving.out

InOrder == \A i, j \in DOMAIN history : i < j => history[i] < history[j]

VaultInv ==
  /\ SaveIsWhole
  /\ wiped \/ (VersionsGrow /\ SavedIsCarried /\ Shared!VersionTellsContent /\ InOrder)

-----------------------------------------------------------------------------
(* The shared vault: types.                                                *)

VaultTypes == Shared!TypeOK /\ MadeByEdits

LEMMA EditsInRange ==
  ASSUME Shared!TypeOK, edits < MaxEdits
  PROVE  /\ edits \in Nat /\ edits + 1 \in 0..MaxEdits /\ edits + 1 \in Shared!Edit
         /\ 1..edits \subseteq 1..(edits + 1) /\ edits + 1 \in 1..(edits + 1)
         /\ 1..(edits + 1) \subseteq Shared!Edit
BY Assumptions DEF Shared!SharedVaultAssumption, Shared!TypeOK, Shared!Edit

\* The nodes that commands add, and what is in nodes.
LEMMA NodeTypes ==
  ASSUME Shared!TypeOK, edits < MaxEdits
  PROVE  /\ Shared!Root \in Shared!Node
         /\ \A parent \in Shared!Node, folder \in BOOLEAN :
              Shared!Child(folder, parent) \in Shared!Node
         /\ \A n \in Shared!Node :
              [n EXCEPT !.made = edits + 1, !.folder = FALSE] \in Shared!Node
BY EditsInRange DEF Shared!Root, Shared!Child, Shared!Node

LEMMA ContentTypes ==
  ASSUME NEW nodes \in SUBSET Shared!Node
  PROVE  Shared!Contents(nodes) \subseteq Shared!Edit
BY DEF Shared!Contents, Shared!Node

\* The version that a save is stamped with.
LEMMA StampType ==
  ASSUME VaultTypes, edits < MaxEdits,
         NEW given \in Shared!Vault \cup {None}, given # None => Made(given)
  PROVE  Shared!Stamp(given) \in 1..(edits + 1)
<1>1. edits \in Nat
  BY EditsInRange DEF VaultTypes
<1>2. CASE vaultFile # None
  <2>1. vaultFile.version \in 1..edits
    BY <1>2 DEF VaultTypes, MadeByEdits, Made
  <2> QED
    BY <1>1, <1>2, <2>1 DEF Shared!Stamp
<1>3. CASE vaultFile = None /\ given = None
  BY <1>1, <1>3 DEF Shared!Stamp, Shared!Version
<1>4. CASE vaultFile = None /\ given # None
  <2>1. given.version \in 1..edits
    BY <1>4 DEF Made
  <2> QED
    BY <1>1, <1>4, <2>1 DEF Shared!Stamp, Shared!Version
<1> QED
  BY <1>2, <1>3, <1>4

LEMMA SaveBeginsTypes ==
  ASSUME VaultTypes, NEW c \in Client,
         NEW given \in Shared!Vault \cup {None}, given # None => Made(given),
         NEW nodes \in SUBSET Shared!Node, NEW out \in SUBSET Shared!Edit,
         Shared!SaveBegins(c, given, nodes, out)
  PROVE  VaultTypes'
<1>1. edits < MaxEdits /\ edits' = edits + 1
  BY DEF Shared!SaveBegins
<1> DEFINE new == [version |-> Shared!Stamp(given), nodes |-> nodes]
           begun == [client |-> c, stage |-> "write", edit |-> edits + 1, out |-> out,
                     vault |-> new]
<1>2. Shared!Stamp(given) \in 1..(edits + 1)
  BY <1>1, StampType
<1>3. new \in Shared!Vault /\ new.version \in 1..edits'
  BY <1>1, <1>2, EditsInRange DEF Shared!Vault, VaultTypes
<1> HIDE DEF new
<1>4. begun \in Shared!Saving /\ begun.vault = new
  BY <1>1, <1>3, EditsInRange DEF Shared!Saving, VaultTypes
<1>5. saving' = begun
  BY DEF Shared!SaveBegins, new
<1> HIDE DEF begun
<1>6. /\ 1..edits \subseteq 1..edits' /\ edits' \in 0..MaxEdits
      /\ UNCHANGED <<vaultFile, history, copy, done, taken, wiped, vaultCrashes>>
  BY <1>1, EditsInRange DEF VaultTypes, Shared!SaveBegins
<1>7. Shared!TypeOK'
  BY <1>4, <1>5, <1>6 DEF VaultTypes, Shared!TypeOK
<1>8. MadeByEdits'
  BY <1>3, <1>4, <1>5, <1>6 DEF VaultTypes, MadeByEdits, Made
<1> QED
  BY <1>7, <1>8 DEF VaultTypes

\* The commands that save.
Commanded(c) ==
  Shared!SaveExpected(c) \/ Shared!SaveUnchecked(c) \/ Shared!Upsert(c) \/ Shared!Delete(c)

LEMMA CommandTypes ==
  ASSUME VaultTypes, NEW c \in Client, Commanded(c)
  PROVE  VaultTypes'
<1>1. edits < MaxEdits
  BY DEF Commanded, Shared!SaveExpected, Shared!SaveUnchecked, Shared!Unchecked, Shared!Upsert,
         Shared!Insert, Shared!Replace, Shared!Delete, Shared!SaveBegins
<1>2. /\ copy[c] \in Shared!Vault \cup {None} /\ (copy[c] # None => Made(copy[c]))
      /\ vaultFile \in Shared!Vault \cup {None} /\ (vaultFile # None => Made(vaultFile))
  BY DEF VaultTypes, Shared!TypeOK, MadeByEdits
<1>3. \A v \in Shared!Vault \cup {None} : Shared!Nodes(v) \subseteq Shared!Node
  BY DEF Shared!Vault, Shared!Nodes
<1>4. \A v \in Shared!Vault \cup {None} :
        \A parent \in Shared!Folders(Shared!Nodes(v)), folder \in BOOLEAN :
          Shared!Nodes(v) \cup {Shared!Child(folder, parent)} \subseteq Shared!Node
  BY <1>1, <1>3, NodeTypes DEF VaultTypes, Shared!Folders
<1>5. {} \in SUBSET Shared!Edit /\ {Shared!Root} \in SUBSET Shared!Node
  BY <1>1, NodeTypes DEF VaultTypes
<1>6. CASE Shared!SaveExpected(c)
  <2>1. PICK parent \in Shared!Folders(copy[c].nodes), folder \in BOOLEAN :
          Shared!SaveBegins(c, copy[c], copy[c].nodes \cup {Shared!Child(folder, parent)}, {})
    BY <1>6 DEF Shared!SaveExpected
  <2>2. copy[c].nodes = Shared!Nodes(copy[c])
    BY <1>6 DEF Shared!SaveExpected, Shared!Nodes
  <2>3. copy[c].nodes \cup {Shared!Child(folder, parent)} \in SUBSET Shared!Node
    BY <1>2, <1>4, <2>1, <2>2
  <2> QED
    BY <1>2, <1>5, <2>1, <2>3, SaveBeginsTypes
<1>7. ASSUME NEW given \in {None, copy[c]}, NEW nodes \in SUBSET Shared!Node,
             Shared!Unchecked(c, given, nodes)
      PROVE  VaultTypes'
  <2>1. Shared!Contents(Shared!Nodes(vaultFile)) \ Shared!Contents(nodes) \in SUBSET Shared!Edit
    BY <1>2, <1>3, ContentTypes
  <2> QED
    BY <1>2, <1>7, <2>1, SaveBeginsTypes DEF Shared!Unchecked
<1>8. CASE Shared!SaveUnchecked(c)
  <2>1. CASE Shared!Unchecked(c, None, {Shared!Root})
    BY <1>5, <1>7, <2>1
  <2>2. ASSUME NEW parent \in Shared!Folders(Shared!Nodes(copy[c])), NEW folder \in BOOLEAN,
               Shared!Unchecked(c, copy[c], copy[c].nodes \cup {Shared!Child(folder, parent)})
        PROVE  VaultTypes'
    <3>1. copy[c].nodes = Shared!Nodes(copy[c])
      BY <2>2 DEF Shared!Folders, Shared!Nodes
    <3>2. copy[c].nodes \cup {Shared!Child(folder, parent)} \in SUBSET Shared!Node
      BY <1>2, <1>4, <3>1
    <3> QED
      BY <1>7, <2>2, <3>2
  <2> QED
    BY <1>8, <2>1, <2>2 DEF Shared!SaveUnchecked
<1>9. CASE Shared!Insert(c)
  <2>1. PICK parent \in Shared!Folders(vaultFile.nodes) :
          Shared!SaveBegins(c, vaultFile,
                            vaultFile.nodes \cup {Shared!Child(FALSE, parent)}, {})
    BY <1>9 DEF Shared!Insert
  <2>2. vaultFile.nodes = Shared!Nodes(vaultFile)
    BY <1>9 DEF Shared!Insert, Shared!Nodes
  <2>3. vaultFile.nodes \cup {Shared!Child(FALSE, parent)} \in SUBSET Shared!Node
    BY <1>2, <1>4, <2>1, <2>2
  <2> QED
    BY <1>2, <1>5, <2>1, <2>3, SaveBeginsTypes
<1>10. ASSUME vaultFile # None, NEW n \in vaultFile.nodes
       PROVE  /\ vaultFile.nodes \subseteq Shared!Node /\ n \in Shared!Node
              /\ Shared!Contents(Shared!Subtree(vaultFile.nodes, n)) \in SUBSET Shared!Edit
  <2>1. vaultFile.nodes \subseteq Shared!Node
    BY <1>2, <1>10 DEF Shared!Vault
  <2> QED
    BY <1>10, <2>1, ContentTypes DEF Shared!Subtree
<1>11. CASE Shared!Replace(c)
  <2>1. PICK n \in vaultFile.nodes :
          Shared!SaveBegins(c, vaultFile,
            (vaultFile.nodes \ Shared!Subtree(vaultFile.nodes, n))
              \cup {[n EXCEPT !.made = edits + 1, !.folder = FALSE]},
            Shared!Contents(Shared!Subtree(vaultFile.nodes, n)))
    BY <1>11 DEF Shared!Replace
  <2>2. /\ vaultFile.nodes \subseteq Shared!Node /\ n \in Shared!Node
        /\ Shared!Contents(Shared!Subtree(vaultFile.nodes, n)) \in SUBSET Shared!Edit
    BY <1>10, <1>11, <2>1 DEF Shared!Replace
  <2>3. [n EXCEPT !.made = edits + 1, !.folder = FALSE] \in Shared!Node
    BY <1>1, <2>2, NodeTypes DEF VaultTypes
  <2>4. (vaultFile.nodes \ Shared!Subtree(vaultFile.nodes, n))
          \cup {[n EXCEPT !.made = edits + 1, !.folder = FALSE]} \in SUBSET Shared!Node
    BY <2>2, <2>3
  <2> QED
    BY <1>2, <2>1, <2>2, <2>4, SaveBeginsTypes
<1>12. CASE Shared!Delete(c)
  <2>1. PICK n \in vaultFile.nodes :
          Shared!SaveBegins(c, vaultFile,
            vaultFile.nodes \ Shared!Subtree(vaultFile.nodes, n),
            Shared!Contents(Shared!Subtree(vaultFile.nodes, n)))
    BY <1>12 DEF Shared!Delete
  <2>2. /\ vaultFile.nodes \ Shared!Subtree(vaultFile.nodes, n) \in SUBSET Shared!Node
        /\ Shared!Contents(Shared!Subtree(vaultFile.nodes, n)) \in SUBSET Shared!Edit
    BY <1>10, <1>12, <2>1 DEF Shared!Delete
  <2> QED
    BY <1>2, <2>1, <2>2, SaveBeginsTypes
<1> QED
  BY <1>6, <1>8, <1>9, <1>11, <1>12 DEF Commanded, Shared!Upsert

LEMMA VaultTypeStep ==
  ASSUME VaultTypes, Shared!Next
  PROVE  VaultTypes'
<1> USE DEF VaultTypes
<1>1. ASSUME NEW c \in Client, Shared!Load(c)
      PROVE  VaultTypes'
  BY <1>1 DEF Shared!Load, Shared!TypeOK, MadeByEdits, Made
<1>2. ASSUME NEW c \in Client, Commanded(c)
      PROVE  VaultTypes'
  BY <1>2, CommandTypes
<1>3. ASSUME NEW stage \in {"remove", "rename", "append"}, saving # None, Shared!GoOn(stage)
      PROVE  /\ saving' \in Shared!Saving /\ saving' # None
             /\ saving'.vault = saving.vault
  BY <1>3, Assumptions
     DEF Shared!GoOn, Shared!TypeOK, Shared!Saving, Shared!SharedVaultAssumption
<1>4. CASE Shared!WriteTemporary
  BY <1>3, <1>4 DEF Shared!WriteTemporary, Shared!AtStage, Shared!TypeOK, MadeByEdits, Made
<1>5. CASE Shared!RemoveOld
  BY <1>3, <1>5 DEF Shared!RemoveOld, Shared!AtStage, Shared!TypeOK, MadeByEdits, Made
<1>6. CASE Shared!RenameNew
  <2>1. saving.vault \in Shared!Vault /\ saving.out \subseteq Shared!Edit
    BY <1>6 DEF Shared!RenameNew, Shared!AtStage, Shared!TypeOK, Shared!Saving
  <2> QED
    BY <1>3, <1>6, <2>1 DEF Shared!RenameNew, Shared!AtStage, Shared!TypeOK, MadeByEdits, Made
<1>7. CASE Shared!AppendRevision
  <2>1. /\ saving \in Shared!Saving /\ saving.vault \in Shared!Vault
        /\ saving.vault.version \in Shared!Edit /\ saving.edit \in Shared!Edit
        /\ Made(saving.vault)
    BY <1>7
       DEF Shared!AppendRevision, Shared!AtStage, Shared!TypeOK, Shared!Saving, Shared!Vault,
           MadeByEdits
  <2>2. history' \in Seq(Shared!Edit)
    BY <1>7, <2>1, AppendProperties DEF Shared!AppendRevision, Shared!TypeOK
  <2>3. /\ copy' \in [Client -> Shared!Vault \cup {None}]
        /\ \A c \in Client : copy'[c] # None => Made(copy'[c])
    BY <1>7, <2>1 DEF Shared!AppendRevision, Shared!TypeOK, MadeByEdits
  <2> QED
    BY <1>7, <2>1, <2>2, <2>3 DEF Shared!AppendRevision, Shared!TypeOK, MadeByEdits, Made
<1>8. CASE Shared!Fail
  BY <1>8 DEF Shared!Fail, Shared!Interrupted, Shared!TypeOK, MadeByEdits, Made
<1>9. CASE Shared!Crash
  <2>1. vaultCrashes' \in 0..MaxCrashes
    BY <1>9, Assumptions DEF Shared!Crash, Shared!TypeOK, Shared!SharedVaultAssumption
  <2> QED
    BY <1>9, <2>1 DEF Shared!Crash, Shared!Interrupted, Shared!TypeOK, MadeByEdits, Made
<1> QED
  BY <1>1, <1>2, <1>4, <1>5, <1>6, <1>7, <1>8, <1>9 DEF Shared!Next, Commanded

LEMMA VaultTypesInvariant == FilesSpec => []VaultTypes
<1>1. FilesInit => VaultTypes
  <2> SUFFICES ASSUME Shared!Init
               PROVE  VaultTypes
    BY DEF FilesInit
  <2>1. <<>> \in Seq(Shared!Edit) /\ 0 \in 0..MaxEdits /\ 0 \in 0..MaxCrashes
    BY Assumptions DEF Shared!SharedVaultAssumption
  <2>2. Shared!TypeOK
    BY <2>1 DEF Shared!Init, Shared!TypeOK
  <2>3. MadeByEdits
    BY DEF Shared!Init, MadeByEdits
  <2> QED
    BY <2>2, <2>3 DEF VaultTypes
<1>2. VaultTypes /\ [FilesNext]_filesVars => VaultTypes'
  <2> SUFFICES ASSUME VaultTypes, [FilesNext]_filesVars
               PROVE  VaultTypes'
    OBVIOUS
  <2>1. CASE UNCHANGED vaultVars
    BY <2>1 DEF vaultVars, VaultTypes, Shared!TypeOK, MadeByEdits, Made
  <2> QED
    BY <2>1, VaultTypeStep DEF FilesNext, filesVars
<1> QED
  BY <1>1, <1>2, PTL DEF FilesSpec, filesVars

-----------------------------------------------------------------------------
(* The shared vault: what is saved is kept.                                *)

LEMMA KnownAreEdits ==
  ASSUME VaultTypes
  PROVE  Known \subseteq 1..MaxEdits
<1>1. \A i \in DOMAIN history : history[i] \in Shared!Edit
  <2>1. history \in Seq(Shared!Edit)
    BY DEF VaultTypes, Shared!TypeOK
  <2> QED
    BY <2>1, LenProperties, ElementOfSeq
<1>2. \A c \in Client : copy[c] # None => copy[c].version \in Shared!Edit
  BY DEF VaultTypes, Shared!TypeOK, Shared!Vault
<1> QED
  BY <1>1, <1>2 DEF Known, Shared!Edit

\* Without a file nothing was ever saved, unless a save is about to put it there.
LEMMA NothingKnown ==
  ASSUME VaultTypes, VersionsGrow, vaultFile = None, ~Shared!AtStage("rename")
  PROVE  Known = {}
BY KnownAreEdits DEF VersionsGrow, Shared!Version

LEMMA SaveBeginsKeeps ==
  ASSUME VaultTypes, VaultInv, NEW c \in Client, NEW given, NEW nodes, NEW out,
         Shared!SaveBegins(c, given, nodes, out),
         ~wiped => done \subseteq Shared!Contents(nodes) \cup taken \cup out
  PROVE  VaultInv'
<1>1. /\ saving = None
      /\ saving' # None => /\ saving'.stage = "write" /\ saving'.out = out
                            /\ saving'.vault.version = Shared!Stamp(given)
                            /\ saving'.vault.nodes = nodes
      /\ UNCHANGED <<vaultFile, history, copy, done, taken, wiped>>
  BY DEF Shared!SaveBegins
<1>2. /\ ~Shared!AtStage("rename") /\ ~Shared!AtStage("append")
      /\ ~Shared!AtStage("rename")' /\ ~Shared!AtStage("append")'
  BY <1>1 DEF Shared!AtStage
<1>3. SaveIsWhole'
  BY <1>2 DEF SaveIsWhole
<1>4. ASSUME ~wiped
      PROVE  VersionsGrow'
  <2>1. Known' = Known
    BY <1>1 DEF Known
  <2>2. VersionsGrow
    BY <1>4 DEF VaultInv
  <2>3. ASSUME NEW v \in Known
        PROVE  v < Shared!Stamp(given)
    <3>1. vaultFile # None
      BY <1>2, <2>2, <2>3, NothingKnown
    <3>2. v <= vaultFile.version
      BY <1>2, <2>2, <3>1 DEF VersionsGrow, Shared!Version
    <3>3. v \in Nat /\ vaultFile.version \in Nat
      BY <3>1, KnownAreEdits, Assumptions
         DEF VaultTypes, Shared!TypeOK, Shared!Vault, Shared!Edit, Shared!SharedVaultAssumption
    <3> QED
      BY <3>1, <3>2, <3>3 DEF Shared!Stamp
  <2> QED
    BY <1>1, <1>2, <2>1, <2>2, <2>3 DEF VersionsGrow, Shared!Version
<1>5. ASSUME ~wiped
      PROVE  SavedIsCarried'
  <2>1. SavedIsCarried
    BY <1>5 DEF VaultInv
  <2>2. done' \subseteq Shared!Contents(Shared!Nodes(vaultFile))' \cup taken'
    BY <1>1, <1>2, <2>1 DEF SavedIsCarried, Shared!Nodes, Shared!Contents
  <2> QED
    BY <1>1, <1>5, <2>2 DEF SavedIsCarried
<1>6. ASSUME ~wiped
      PROVE  Shared!VersionTellsContent' /\ InOrder'
  BY <1>1, <1>6 DEF VaultInv, Shared!VersionTellsContent, InOrder
<1> QED
  BY <1>1, <1>3, <1>4, <1>5, <1>6 DEF VaultInv

\* Nodes that are left, with what was taken out, are all there was.
LEMMA WithoutSubtree ==
  ASSUME NEW nodes, NEW more, NEW n
  PROVE  Shared!Contents(nodes) \subseteq
           Shared!Contents((nodes \ Shared!Subtree(nodes, n)) \cup more)
             \cup Shared!Contents(Shared!Subtree(nodes, n))
BY DEF Shared!Contents

LEMMA MoreContents ==
  ASSUME NEW nodes, NEW more
  PROVE  Shared!Contents(nodes) \subseteq Shared!Contents(nodes \cup more)
BY DEF Shared!Contents

LEMMA CommandKeeps ==
  ASSUME VaultTypes, VaultInv, NEW c \in Client, Commanded(c)
  PROVE  VaultInv'
<1>1. saving = None
  BY DEF Commanded, Shared!SaveExpected, Shared!SaveUnchecked, Shared!Unchecked, Shared!Upsert,
         Shared!Insert, Shared!Replace, Shared!Delete, Shared!SaveBegins
<1>2. ~wiped => done \subseteq Shared!Contents(Shared!Nodes(vaultFile)) \cup taken
  BY <1>1 DEF VaultInv, SavedIsCarried, Shared!AtStage
<1>3. CASE Shared!SaveExpected(c)
  <2>1. PICK parent \in Shared!Folders(copy[c].nodes), folder \in BOOLEAN :
          Shared!SaveBegins(c, copy[c], copy[c].nodes \cup {Shared!Child(folder, parent)}, {})
    BY <1>3 DEF Shared!SaveExpected
  <2>2. vaultFile # None
    <3>1. copy[c].version \in 1..edits /\ copy[c].version = Shared!Version(vaultFile)
      BY <1>3 DEF Shared!SaveExpected, VaultTypes, MadeByEdits, Made
    <3> QED
      BY <3>1 DEF Shared!Version
  <2>3. ~wiped => copy[c].nodes = Shared!Nodes(vaultFile)
    BY <1>3, <2>2
       DEF Shared!SaveExpected, VaultInv, Shared!VersionTellsContent, Shared!Version, Shared!Nodes
  <2>4. ~wiped => done \subseteq
                    Shared!Contents(copy[c].nodes \cup {Shared!Child(folder, parent)})
                      \cup taken \cup {}
    BY <1>2, <2>3, MoreContents
  <2> QED
    BY <2>1, <2>4, SaveBeginsKeeps
<1>4. ASSUME NEW given, NEW nodes, Shared!Unchecked(c, given, nodes)
      PROVE  VaultInv'
  <2>1. ~wiped => done \subseteq
          Shared!Contents(nodes) \cup taken
            \cup (Shared!Contents(Shared!Nodes(vaultFile)) \ Shared!Contents(nodes))
    BY <1>2
  <2> QED
    BY <1>4, <2>1, SaveBeginsKeeps DEF Shared!Unchecked
<1>5. CASE Shared!SaveUnchecked(c)
  BY <1>4, <1>5 DEF Shared!SaveUnchecked
<1>6. vaultFile # None => Shared!Nodes(vaultFile) = vaultFile.nodes
  BY DEF Shared!Nodes
<1>7. CASE Shared!Insert(c)
  <2>1. PICK parent \in Shared!Folders(vaultFile.nodes) :
          Shared!SaveBegins(c, vaultFile,
                            vaultFile.nodes \cup {Shared!Child(FALSE, parent)}, {})
    BY <1>7 DEF Shared!Insert
  <2>2. ~wiped => done \subseteq
                    Shared!Contents(vaultFile.nodes \cup {Shared!Child(FALSE, parent)})
                      \cup taken \cup {}
    BY <1>2, <1>6, <1>7, MoreContents DEF Shared!Insert
  <2> QED
    BY <2>1, <2>2, SaveBeginsKeeps
<1>8. CASE Shared!Replace(c)
  <2>1. PICK n \in vaultFile.nodes :
          Shared!SaveBegins(c, vaultFile,
            (vaultFile.nodes \ Shared!Subtree(vaultFile.nodes, n))
              \cup {[n EXCEPT !.made = edits + 1, !.folder = FALSE]},
            Shared!Contents(Shared!Subtree(vaultFile.nodes, n)))
    BY <1>8 DEF Shared!Replace
  <2>2. ~wiped => done \subseteq
          Shared!Contents((vaultFile.nodes \ Shared!Subtree(vaultFile.nodes, n))
                            \cup {[n EXCEPT !.made = edits + 1, !.folder = FALSE]})
            \cup taken \cup Shared!Contents(Shared!Subtree(vaultFile.nodes, n))
    BY <1>2, <1>6, <1>8, WithoutSubtree DEF Shared!Replace
  <2> QED
    BY <2>1, <2>2, SaveBeginsKeeps
<1>9. CASE Shared!Delete(c)
  <2>1. PICK n \in vaultFile.nodes :
          Shared!SaveBegins(c, vaultFile,
            vaultFile.nodes \ Shared!Subtree(vaultFile.nodes, n),
            Shared!Contents(Shared!Subtree(vaultFile.nodes, n)))
    BY <1>9 DEF Shared!Delete
  <2>2. Shared!Contents(vaultFile.nodes) \subseteq
          Shared!Contents((vaultFile.nodes \ Shared!Subtree(vaultFile.nodes, n)) \cup {})
            \cup Shared!Contents(Shared!Subtree(vaultFile.nodes, n))
    BY WithoutSubtree
  <2>3. (vaultFile.nodes \ Shared!Subtree(vaultFile.nodes, n)) \cup {}
          = vaultFile.nodes \ Shared!Subtree(vaultFile.nodes, n)
    OBVIOUS
  <2>4. ~wiped => done \subseteq
          Shared!Contents(vaultFile.nodes \ Shared!Subtree(vaultFile.nodes, n))
            \cup taken \cup Shared!Contents(Shared!Subtree(vaultFile.nodes, n))
    BY <1>2, <1>6, <1>9, <2>2, <2>3 DEF Shared!Delete
  <2> QED
    BY <2>1, <2>4, SaveBeginsKeeps
<1> QED
  BY <1>3, <1>5, <1>7, <1>8, <1>9 DEF Commanded, Shared!Upsert

LEMMA LoadKeeps ==
  ASSUME VaultTypes, VaultInv, NEW c \in Client, Shared!Load(c)
  PROVE  VaultInv'
<1>1. /\ saving = None /\ vaultFile # None
      /\ \A d \in Client : copy'[d] = IF d = c THEN vaultFile ELSE copy[d]
      /\ UNCHANGED <<vaultFile, history, saving, edits, done, taken, wiped>>
  BY DEF Shared!Load, VaultTypes, Shared!TypeOK
<1>2. Known' \subseteq Known \cup {vaultFile.version}
  BY <1>1 DEF Known
<1>3. vaultFile.version \in Nat
  BY <1>1, Assumptions
     DEF VaultTypes, Shared!TypeOK, Shared!Vault, Shared!Edit, Shared!SharedVaultAssumption
<1>4. VersionsGrow => VersionsGrow'
  BY <1>1, <1>2, <1>3 DEF VersionsGrow, Shared!Version, Shared!AtStage
<1>5. SaveIsWhole' /\ (SavedIsCarried => SavedIsCarried')
  BY <1>1 DEF SaveIsWhole, SavedIsCarried, Shared!AtStage, Shared!Nodes, Shared!Contents
<1>6. /\ ~wiped => Shared!VersionTellsContent'
      /\ InOrder => InOrder'
  BY <1>1 DEF VaultInv, Shared!VersionTellsContent, InOrder
<1> QED
  BY <1>1, <1>4, <1>5, <1>6 DEF VaultInv

\* A save goes on to a stage with the vault it began with.
LEMMA GoesOn ==
  ASSUME VaultTypes, saving # None, NEW stage \in {"remove", "rename", "append"},
         Shared!GoOn(stage)
  PROVE  /\ saving' # None /\ saving'.stage = stage
         /\ saving'.vault = saving.vault /\ saving'.out = saving.out
BY Assumptions
   DEF VaultTypes, Shared!GoOn, Shared!TypeOK, Shared!Saving, Shared!SharedVaultAssumption

LEMMA WriteKeeps ==
  ASSUME VaultTypes, VaultInv, Shared!WriteTemporary
  PROVE  VaultInv'
<1>1. /\ saving # None /\ saving.stage = "write"
      /\ saving' # None /\ saving'.stage = "remove"
      /\ saving'.vault = saving.vault /\ saving'.out = saving.out
      /\ UNCHANGED <<vaultFile, history, copy, done, taken, wiped>>
  BY GoesOn DEF Shared!WriteTemporary, Shared!AtStage
<1>2. Known' = Known
  BY <1>1 DEF Known
<1>3. /\ ~Shared!AtStage("rename") /\ ~Shared!AtStage("append")
      /\ ~Shared!AtStage("rename")' /\ ~Shared!AtStage("append")'
  BY <1>1 DEF Shared!AtStage
<1>4. SaveIsWhole' /\ (VersionsGrow => VersionsGrow')
  BY <1>1, <1>2, <1>3 DEF SaveIsWhole, VersionsGrow, Shared!Version
<1>5. SavedIsCarried => SavedIsCarried'
  BY <1>1, <1>3 DEF SavedIsCarried, Shared!Nodes, Shared!Contents
<1>6. ~wiped => Shared!VersionTellsContent' /\ InOrder'
  BY <1>1 DEF VaultInv, Shared!VersionTellsContent, InOrder
<1> QED
  BY <1>1, <1>4, <1>5, <1>6 DEF VaultInv

LEMMA RemoveKeeps ==
  ASSUME VaultTypes, VaultInv, Shared!RemoveOld
  PROVE  VaultInv'
<1>1. /\ saving # None /\ saving.stage = "remove"
      /\ saving' # None /\ saving'.stage = "rename"
      /\ saving'.vault = saving.vault /\ saving'.out = saving.out
      /\ UNCHANGED <<history, copy, done, taken, wiped>>
      /\ vaultFile' = None
  BY GoesOn DEF Shared!RemoveOld, Shared!AtStage
<1>2. Known' = Known
  BY <1>1 DEF Known
<1>3. /\ ~Shared!AtStage("rename")
      /\ Shared!AtStage("rename")' /\ ~Shared!AtStage("append")'
  BY <1>1 DEF Shared!AtStage
<1>4. SaveIsWhole' /\ (VersionsGrow => VersionsGrow')
  BY <1>1, <1>2, <1>3 DEF SaveIsWhole, VersionsGrow
<1>5. SavedIsCarried => SavedIsCarried'
  BY <1>1, <1>3 DEF SavedIsCarried, Shared!Contents
<1>6. ~wiped => Shared!VersionTellsContent' /\ InOrder'
  BY <1>1 DEF VaultInv, Shared!VersionTellsContent, InOrder
<1> QED
  BY <1>1, <1>4, <1>5, <1>6 DEF VaultInv

LEMMA RenameKeeps ==
  ASSUME VaultTypes, VaultInv, Shared!RenameNew
  PROVE  VaultInv'
<1>1. /\ saving # None /\ saving.stage = "rename"
      /\ saving' # None /\ saving'.stage = "append"
      /\ saving'.vault = saving.vault /\ saving'.out = saving.out
      /\ UNCHANGED <<history, copy, done, wiped>>
      /\ vaultFile' = saving.vault /\ taken' = taken \cup saving.out
  BY GoesOn DEF Shared!RenameNew, Shared!AtStage
<1>2. Known' = Known
  BY <1>1 DEF Known
<1>3. ~Shared!AtStage("rename")' /\ SaveIsWhole'
  BY <1>1 DEF SaveIsWhole, Shared!AtStage
<1>4. saving.vault \in Shared!Vault /\ saving.vault # None /\ saving.vault.version \in Nat
  BY <1>1, Assumptions
     DEF VaultTypes, Shared!TypeOK, Shared!Saving, Shared!Vault, Shared!Edit,
         Shared!SharedVaultAssumption
<1>5. ASSUME VersionsGrow
      PROVE  VersionsGrow'
  <2>1. \A v \in Known : v < saving.vault.version /\ v \in Nat
    BY <1>1, <1>5, KnownAreEdits, Assumptions DEF VersionsGrow, Shared!SharedVaultAssumption
  <2>2. \A v \in Known : v <= saving.vault.version
    BY <1>4, <2>1
  <2> QED
    BY <1>1, <1>2, <1>4, <2>1, <2>2 DEF VersionsGrow, Shared!Version
<1>6. ASSUME SavedIsCarried
      PROVE  SavedIsCarried'
  <2>1. done' \subseteq Shared!Contents(saving.vault.nodes) \cup taken'
    BY <1>1, <1>6 DEF SavedIsCarried
  <2> QED
    BY <1>1, <1>4, <2>1 DEF SavedIsCarried, Shared!Nodes, Shared!Contents
<1>7. ASSUME VersionsGrow
      PROVE  Shared!VersionTellsContent'
  <2>1. \A c \in Client : copy[c] # None => copy[c].version \in Known
    BY DEF Known
  <2>2. \A c \in Client : copy[c] # None => copy[c].version < saving.vault.version
    BY <1>1, <1>7, <2>1 DEF VersionsGrow
  <2>3. \A c \in Client : copy[c] # None => copy[c].version # saving.vault.version
    BY <1>4, <2>1, <2>2, KnownAreEdits
  <2> QED
    BY <1>1, <2>3 DEF Shared!VersionTellsContent
<1>8. InOrder => InOrder'
  BY <1>1 DEF InOrder
<1> QED
  BY <1>1, <1>3, <1>5, <1>6, <1>7, <1>8 DEF VaultInv

LEMMA AppendKeeps ==
  ASSUME VaultTypes, VaultInv, Shared!AppendRevision
  PROVE  VaultInv'
<1> DEFINE v == saving.vault.version
<1>1. /\ saving # None /\ saving.stage = "append" /\ saving' = None
      /\ vaultFile = saving.vault
      /\ history' = Append(history, v)
      /\ done' = done \cup ({saving.edit} \cap Shared!Contents(saving.vault.nodes))
      /\ UNCHANGED <<vaultFile, taken, wiped>>
  BY DEF Shared!AppendRevision, Shared!AtStage, VaultInv, SaveIsWhole
<1>2. saving.vault \in Shared!Vault /\ saving.vault # None /\ v \in Nat /\ v \in Shared!Edit
  BY <1>1, Assumptions
     DEF VaultTypes, Shared!TypeOK, Shared!Saving, Shared!Vault, Shared!Edit,
         Shared!SharedVaultAssumption
<1>3. \/ \A d \in Client : copy'[d] = copy[d] \/ copy'[d] = saving.vault
  BY DEF Shared!AppendRevision, VaultTypes, Shared!TypeOK
<1>4. /\ DOMAIN history' = DOMAIN history \cup {Len(history) + 1}
      /\ Len(history) \in Nat /\ DOMAIN history = 1..Len(history)
      /\ \A i \in DOMAIN history : history'[i] = history[i]
      /\ history'[Len(history) + 1] = v
  <2>1. history \in Seq(Shared!Edit)
    BY DEF VaultTypes, Shared!TypeOK
  <2>2. /\ history' \in Seq(Shared!Edit) /\ Len(history') = Len(history) + 1
        /\ \A i \in 1..Len(history) : history'[i] = history[i]
        /\ history'[Len(history) + 1] = v
    BY <1>1, <1>2, <2>1, AppendProperties
  <2>3. /\ Len(history) \in Nat /\ DOMAIN history = 1..Len(history)
        /\ DOMAIN history' = 1..(Len(history) + 1)
    BY <2>1, <2>2, LenProperties
  <2> QED
    BY <2>2, <2>3
<1>5. Known' \subseteq Known \cup {v}
  <2>1. \A i \in DOMAIN history' : history'[i] \in Known \cup {v}
    BY <1>4 DEF Known
  <2>2. \A d \in Client : copy'[d] # None => copy'[d].version \in Known \cup {v}
    BY <1>3 DEF Known
  <2> QED
    BY <2>1, <2>2 DEF Known
<1>6. ASSUME VersionsGrow
      PROVE  \A k \in Known : k < v /\ k \in Nat
  BY <1>1, <1>6, KnownAreEdits, Assumptions DEF VersionsGrow, Shared!SharedVaultAssumption
<1> HIDE DEF v
<1>7. SaveIsWhole'
  BY <1>1 DEF SaveIsWhole, Shared!AtStage
<1>8. ASSUME VersionsGrow
      PROVE  VersionsGrow'
  <2>1. \A k \in Known' : k <= v
    BY <1>2, <1>5, <1>6, <1>8
  <2>2. Shared!Version(vaultFile)' = v
    BY <1>1, <1>2 DEF Shared!Version, v
  <2> QED
    BY <1>1, <2>1, <2>2 DEF VersionsGrow
<1>9. ASSUME SavedIsCarried
      PROVE  SavedIsCarried'
  <2>1. done \subseteq Shared!Contents(saving.vault.nodes) \cup taken
    BY <1>1, <1>2, <1>9 DEF SavedIsCarried, Shared!AtStage, Shared!Nodes
  <2> QED
    BY <1>1, <1>2, <2>1 DEF SavedIsCarried, Shared!Nodes, Shared!Contents
<1>10. ~wiped => Shared!VersionTellsContent'
  BY <1>1, <1>3 DEF VaultInv, Shared!VersionTellsContent
<1>11. ASSUME VersionsGrow, InOrder
       PROVE  InOrder'
  <2>1. \A i \in DOMAIN history : history[i] < v
    BY <1>6, <1>11 DEF Known
  <2> QED
    BY <1>4, <1>11, <2>1 DEF InOrder
<1> QED
  BY <1>1, <1>7, <1>8, <1>9, <1>10, <1>11 DEF VaultInv

\* A save that ends before its last write.
LEMMA EndKeeps ==
  ASSUME VaultTypes, VaultInv, Shared!Interrupted, saving' = None,
         \A c \in Client : copy'[c] \in {copy[c], None},
         UNCHANGED <<vaultFile, history, done, taken>>
  PROVE  VaultInv'
<1>1. SaveIsWhole'
  BY DEF SaveIsWhole, Shared!AtStage
<1>2. ASSUME ~wiped'
      PROVE  ~wiped /\ ~Shared!AtStage("rename")
  BY <1>2 DEF Shared!Interrupted
<1>3. Known' \subseteq Known
  BY DEF Known
<1>4. ASSUME ~wiped'
      PROVE  VersionsGrow' /\ SavedIsCarried'
  BY <1>2, <1>3, <1>4 DEF VaultInv, VersionsGrow, SavedIsCarried, Shared!Version, Shared!Nodes,
                            Shared!Contents
<1>5. ASSUME ~wiped'
      PROVE  Shared!VersionTellsContent' /\ InOrder'
  BY <1>2, <1>5 DEF VaultInv, Shared!VersionTellsContent, InOrder
<1> QED
  BY <1>1, <1>4, <1>5 DEF VaultInv

LEMMA VaultStep ==
  ASSUME VaultTypes, VaultInv, Shared!Next
  PROVE  VaultInv'
<1>1. CASE Shared!Fail
  BY <1>1, EndKeeps DEF Shared!Fail
<1>2. CASE Shared!Crash
  BY <1>2, EndKeeps DEF Shared!Crash
<1> QED
  BY <1>1, <1>2, LoadKeeps, CommandKeeps, WriteKeeps, RemoveKeeps, RenameKeeps, AppendKeeps
     DEF Shared!Next, Commanded

LEMMA VaultInvariant == FilesSpec => []VaultInv
<1>1. FilesInit => VaultInv
  <2> SUFFICES ASSUME Shared!Init
               PROVE  VaultInv
    BY DEF FilesInit
  <2>1. Known = {} /\ InOrder
    BY DEF Shared!Init, Known, InOrder
  <2> QED
    BY <2>1
       DEF Shared!Init, VaultInv, SaveIsWhole, VersionsGrow, SavedIsCarried,
           Shared!AtStage, Shared!VersionTellsContent
<1>2. VaultTypes /\ VaultInv /\ [FilesNext]_filesVars => VaultInv'
  <2> SUFFICES ASSUME VaultTypes, VaultInv, [FilesNext]_filesVars
               PROVE  VaultInv'
    OBVIOUS
  <2>1. CASE UNCHANGED vaultVars
    BY <2>1
       DEF vaultVars, VaultInv, SaveIsWhole, VersionsGrow, SavedIsCarried, Known, InOrder,
           Shared!AtStage, Shared!VersionTellsContent, Shared!Version, Shared!Nodes,
           Shared!Contents
  <2> QED
    BY <2>1, VaultStep DEF FilesNext, filesVars
<1> QED
  BY <1>1, <1>2, VaultTypesInvariant, PTL DEF FilesSpec, filesVars

\* What save_shared_vault, upsert and delete answered stays in the file, a version
\* stands for one content, and the history names them in order, for any number of
\* clients, whose copies may be as old as they like.
THEOREM SharedVaultIsAlwaysKept == FilesSpec => []SharedVaultIsKept
<1>1. VaultTypes /\ VaultInv => SharedVaultIsKept
  <2> SUFFICES ASSUME VaultInv, ~wiped
               PROVE  SharedVaultIsKept
    BY DEF SharedVaultIsKept, Shared!SavedNodesStay, Shared!VersionTellsContent,
           Shared!RevisionsAreInOrder
  <2>1. VersionsGrow /\ SavedIsCarried /\ Shared!VersionTellsContent /\ InOrder
    BY DEF VaultInv
  <2>2. Shared!SavedNodesStay
    BY <2>1 DEF SavedIsCarried, Shared!SavedNodesStay, Shared!AtStage
  <2>3. Shared!RevisionsAreInOrder
    BY <2>1 DEF VersionsGrow, InOrder, Known, Shared!RevisionsAreInOrder, Shared!AtStage
  <2> QED
    BY <2>1, <2>2, <2>3 DEF SharedVaultIsKept
<1> QED
  BY <1>1, VaultTypesInvariant, VaultInvariant, PTL

-----------------------------------------------------------------------------
(* The logs: what is said of them.                                         *)

\* c is on the line.
On(c, line) == \E k \in DOMAIN line : line[k] = c

LogBasics ==
  /\ logFile \in Seq(Seq(Call)) /\ logFile # <<>>
  /\ logPc \in [Call -> {"idle", "opened", "half", "recorded", "cut", "failed", "cleared"}]
  /\ handle \in [Call -> 0..MaxClears]
  /\ clears \in 0..MaxClears
  /\ logCrashes \in 0..MaxCrashes
  /\ mixed \subseteq Call
  /\ overlaps \in BOOLEAN

\* A call is on one line at most, of the file that it opened, and the last line is
\* of calls that did not write a newline.
Placed ==
  /\ \A c \in Call : \A i, j \in DOMAIN logFile :
       On(c, logFile[i]) /\ On(c, logFile[j]) => i = j
  /\ \A c \in Call : \A i \in DOMAIN logFile :
       On(c, logFile[i]) => logPc[c] \in {"half", "recorded", "cut"} /\ handle[c] = clears
  /\ \A c \in Call : On(c, logFile[Len(logFile)]) => logPc[c] \in {"half", "cut"}

\* A call that is not marked has the current file open, and its line is its own.
Unmixed ==
  \A c \in Call \ mixed :
    /\ logPc[c] \in {"opened", "half"} => handle[c] = clears
    /\ logPc[c] \in {"half", "recorded"} => \E i \in DOMAIN logFile : logFile[i] = <<c>>

\* Only finitely many calls have begun.
Begun == {c \in Call : logPc[c] # "idle"}

\* Without overlap a line ends with the call that wrote its newline, or is about to,
\* after some that were cut.
Sequential ==
  /\ \A c, d \in Log!InFlight : c = d
  /\ \A c \in Log!InFlight : handle[c] = clears
  /\ \A i \in DOMAIN logFile : \A k \in DOMAIN logFile[i] :
       k < Len(logFile[i]) => logPc[logFile[i][k]] = "cut"
  /\ \A c \in Call : logPc[c] = "half" =>
       LET line == logFile[Len(logFile)] IN line # <<>> /\ line[Len(line)] = c
  /\ \A c \in Call : logPc[c] = "recorded" =>
       \E i \in DOMAIN logFile : LET line == logFile[i] IN line # <<>> /\ line[Len(line)] = c

LogInv ==
  /\ LogBasics
  /\ Placed
  /\ Unmixed
  /\ IsFiniteSet(Begun)
  /\ overlaps \/ Sequential

-----------------------------------------------------------------------------
(* The logs: lines.                                                        *)

LEMMA FileShape ==
  ASSUME LogBasics
  PROVE  /\ Len(logFile) \in Nat \ {0} /\ DOMAIN logFile = 1..Len(logFile)
         /\ Len(logFile) \in DOMAIN logFile
         /\ \A i \in DOMAIN logFile :
              /\ logFile[i] \in Seq(Call) /\ Len(logFile[i]) \in Nat
              /\ DOMAIN logFile[i] = 1..Len(logFile[i])
              /\ \A k \in DOMAIN logFile[i] : logFile[i][k] \in Call
<1>1. logFile \in Seq(Seq(Call)) /\ logFile # <<>>
  BY DEF LogBasics
<1>2. Len(logFile) \in Nat \ {0} /\ DOMAIN logFile = 1..Len(logFile)
  BY <1>1, EmptySeq, LenProperties
<1>3. \A i \in DOMAIN logFile : logFile[i] \in Seq(Call)
  BY <1>1, <1>2, ElementOfSeq
<1>4. \A line \in Seq(Call) :
        /\ Len(line) \in Nat /\ DOMAIN line = 1..Len(line)
        /\ \A k \in DOMAIN line : line[k] \in Call
  BY LenProperties, ElementOfSeq
<1> QED
  BY <1>2, <1>3, <1>4

\* A line with a call added to it.
LEMMA LongerLine ==
  ASSUME NEW line \in Seq(Call), NEW c \in Call
  PROVE  LET new == Append(line, c)
         IN  /\ new \in Seq(Call) /\ new # <<>> /\ Len(new) = Len(line) + 1
             /\ Len(line) \in Nat /\ DOMAIN line = 1..Len(line)
             /\ DOMAIN new = 1..(Len(line) + 1)
             /\ \A k \in DOMAIN line : new[k] = line[k]
             /\ new[Len(new)] = c
             /\ \A d : On(d, new) <=> On(d, line) \/ d = c
<1> DEFINE new == Append(line, c)
<1>1. /\ new \in Seq(Call) /\ new # <<>> /\ Len(new) = Len(line) + 1
      /\ \A k \in 1..Len(line) : new[k] = line[k]
      /\ new[Len(line) + 1] = c
  BY AppendProperties
<1>2. Len(line) \in Nat /\ DOMAIN line = 1..Len(line) /\ DOMAIN new = 1..Len(new)
  BY <1>1, LenProperties
<1> HIDE DEF new
<1>3. \A d : On(d, new) <=> On(d, line) \/ d = c
  <2>1. DOMAIN new = DOMAIN line \cup {Len(line) + 1}
    BY <1>1, <1>2
  <2> QED
    BY <1>1, <1>2, <2>1 DEF On
<1> QED
  BY <1>1, <1>2, <1>3 DEF new

\* The file after the write of a line.
LEMMA FileWithLine ==
  ASSUME LogBasics, NEW c \in Call,
         logFile' = Append(Log!Front(logFile), Append(Log!Last(logFile), c))
  PROVE  /\ logFile' \in Seq(Seq(Call)) /\ logFile' # <<>>
         /\ Len(logFile') = Len(logFile) /\ DOMAIN logFile' = DOMAIN logFile
         /\ \A i \in DOMAIN logFile : i # Len(logFile) => logFile'[i] = logFile[i]
         /\ logFile'[Len(logFile)] = Append(logFile[Len(logFile)], c)
<1> DEFINE n == Len(logFile)
           front == Log!Front(logFile)
           new == Append(logFile[n], c)
<1>1. n \in Nat \ {0} /\ DOMAIN logFile = 1..n /\ n \in 1..n
  BY FileShape
<1>2. logFile[n] \in Seq(Call) /\ \A i \in 1..n : logFile[i] \in Seq(Call)
  BY <1>1, FileShape
<1>3. new \in Seq(Call)
  BY <1>2, AppendProperties
<1>4. /\ front \in Seq(Seq(Call)) /\ Len(front) = n - 1
      /\ \A i \in 1..(n - 1) : front[i] = logFile[i]
  <2>1. /\ 1 \in Int /\ n - 1 \in Int
        /\ \A i \in 1..(n - 1) : logFile[i] \in Seq(Call)
    BY <1>1, <1>2
  <2> DEFINE s == SubSeq(logFile, 1, n - 1)
  <2>2. /\ s \in Seq(Seq(Call)) /\ Len(s) = IF 1 <= n - 1 THEN (n - 1) - 1 + 1 ELSE 0
        /\ \A i \in 1..((n - 1) - 1 + 1) : s[i] = logFile[1 + i - 1]
    BY <2>1, SubSeqProperties
  <2> HIDE DEF s
  <2>3. \A m \in Nat \ {0} :
          /\ (IF 1 <= m - 1 THEN (m - 1) - 1 + 1 ELSE 0) = m - 1
          /\ \A i \in 1..(m - 1) : i \in 1..((m - 1) - 1 + 1) /\ 1 + i - 1 = i
    OBVIOUS
  <2>4. Len(s) = n - 1
    BY <1>1, <2>2, <2>3
  <2>5. ASSUME NEW i \in 1..(n - 1)
        PROVE  s[i] = logFile[i]
    <3>1. i \in 1..((n - 1) - 1 + 1) /\ 1 + i - 1 = i
      BY <1>1, <2>3
    <3>2. s[i] = logFile[1 + i - 1]
      BY <2>2, <3>1
    <3> QED
      BY <3>1, <3>2
  <2> QED
    BY <2>2, <2>4, <2>5 DEF s, Log!Front
<1>5. logFile' = Append(front, new)
  BY DEF Log!Last
<1> HIDE DEF front, new
<1>6. /\ logFile' \in Seq(Seq(Call)) /\ logFile' # <<>> /\ Len(logFile') = Len(front) + 1
      /\ \A i \in 1..Len(front) : logFile'[i] = front[i]
      /\ logFile'[Len(front) + 1] = new
  BY <1>3, <1>4, <1>5, AppendProperties
<1>7. DOMAIN logFile' = 1..Len(logFile')
  BY <1>6, LenProperties
<1> HIDE DEF n
<1>8. /\ Len(logFile') = n /\ DOMAIN logFile' = 1..n /\ logFile'[n] = new
      /\ \A i \in 1..n : i # n => logFile'[i] = logFile[i]
  <2>1. Len(front) + 1 = n
    BY <1>1, <1>4
  <2>2. \A i \in 1..n : i # n => i \in 1..(n - 1) /\ i \in 1..Len(front)
    BY <1>1, <1>4
  <2> QED
    BY <1>4, <1>6, <1>7, <2>1, <2>2
<1> QED
  BY <1>1, <1>6, <1>8 DEF n, new

\* The file after the write of a newline.
LEMMA FileWithNewline ==
  ASSUME LogBasics, logFile' = Append(logFile, <<>>)
  PROVE  /\ logFile' \in Seq(Seq(Call)) /\ logFile' # <<>>
         /\ Len(logFile') = Len(logFile) + 1
         /\ DOMAIN logFile' = DOMAIN logFile \cup {Len(logFile')}
         /\ \A i \in DOMAIN logFile : logFile'[i] = logFile[i] /\ i # Len(logFile')
         /\ logFile'[Len(logFile')] = <<>>
<1>1. logFile \in Seq(Seq(Call)) /\ <<>> \in Seq(Call)
  BY DEF LogBasics
<1>2. /\ logFile' \in Seq(Seq(Call)) /\ logFile' # <<>> /\ Len(logFile') = Len(logFile) + 1
      /\ \A i \in 1..Len(logFile) : logFile'[i] = logFile[i]
      /\ logFile'[Len(logFile) + 1] = <<>>
  BY <1>1, AppendProperties
<1>3. DOMAIN logFile' = 1..Len(logFile') /\ DOMAIN logFile = 1..Len(logFile) /\ Len(logFile) \in Nat
  BY <1>1, <1>2, LenProperties
<1> QED
  BY <1>2, <1>3

LEMMA NobodyOnEmpty == \A c : ~On(c, <<>>)
<1>1. DOMAIN <<>> = {}
  OBVIOUS
<1> QED
  BY <1>1 DEF On

-----------------------------------------------------------------------------
(* The logs: steps.                                                        *)

\* One call goes to another stage.
LEMMA LogGoto ==
  ASSUME LogBasics, NEW c \in Call,
         NEW where \in {"opened", "half", "recorded", "cut", "failed"}, Log!Goto(c, where)
  PROVE  /\ logPc' \in [Call -> {"idle", "opened", "half", "recorded", "cut", "failed", "cleared"}]
         /\ \A d \in Call : logPc'[d] = IF d = c THEN where ELSE logPc[d]
         /\ Begun' = Begun \cup {c}
<1>1. /\ logPc' \in [Call -> {"idle", "opened", "half", "recorded", "cut", "failed", "cleared"}]
      /\ \A d \in Call : logPc'[d] = IF d = c THEN where ELSE logPc[d]
  BY DEF LogBasics, Log!Goto
<1> QED
  BY <1>1 DEF Begun

LEMMA BeginsFinite ==
  ASSUME IsFiniteSet(Begun), NEW c, Begun' = Begun \cup {c}
  PROVE  IsFiniteSet(Begun)'
BY FS_AddElement

LEMMA OpenKeeps ==
  ASSUME LogInv, NEW c \in Call, Log!Open(c)
  PROVE  LogInv'
<1>1. /\ logPc[c] = "idle"
      /\ \A d \in Call : logPc'[d] = IF d = c THEN "opened" ELSE logPc[d]
      /\ \A d \in Call : handle'[d] = IF d = c THEN clears ELSE handle[d]
      /\ overlaps' = (overlaps \/ Log!InFlight # {})
      /\ UNCHANGED <<logFile, clears, logCrashes, mixed>>
  BY LogGoto DEF Log!Open, Log!Overlap, LogInv, LogBasics
<1>2. LogBasics'
  BY LogGoto DEF Log!Open, Log!Overlap, LogInv, LogBasics
<1>3. Placed'
  BY <1>1, FileShape DEF LogInv, Placed
<1>4. Unmixed'
  BY <1>1 DEF LogInv, Unmixed
<1>5. IsFiniteSet(Begun)'
  BY LogGoto, BeginsFinite DEF LogInv, Log!Open
<1>6. ASSUME ~overlaps'
      PROVE  Sequential'
  <2>1. ~overlaps /\ Sequential /\ Log!InFlight = {}
    BY <1>1, <1>6 DEF LogInv
  <2>2. Log!InFlight' = {c}
    BY <1>1, <2>1 DEF Log!InFlight
  <2>3. \A i \in DOMAIN logFile : \A k \in DOMAIN logFile[i] :
          k < Len(logFile[i]) => logPc'[logFile[i][k]] = "cut"
    BY <1>1, <2>1, FileShape DEF LogInv, Sequential
  <2>4. \A d \in Call : logPc'[d] \in {"half", "recorded"} => logPc'[d] = logPc[d]
    BY <1>1
  <2> QED
    BY <1>1, <2>1, <2>2, <2>3, <2>4 DEF Sequential
<1> QED
  BY <1>2, <1>3, <1>4, <1>5, <1>6 DEF LogInv

\* A call writes to a file that clear unlinked.
LEMMA LateWriteKeeps ==
  ASSUME LogInv, NEW c \in Call, logPc[c] \in {"opened", "half"}, handle[c] # clears,
         NEW where \in {"half", "recorded"}, Log!Goto(c, where),
         UNCHANGED <<logFile, mixed, handle, clears, logCrashes, overlaps>>
  PROVE  LogInv'
<1>1. \A d \in Call : logPc'[d] = IF d = c THEN where ELSE logPc[d]
  BY LogGoto DEF LogInv
<1>2. LogBasics'
  BY LogGoto DEF LogInv, LogBasics
<1>3. \A i \in DOMAIN logFile : ~On(c, logFile[i])
  BY DEF LogInv, Placed
<1>4. c \in mixed /\ overlaps
  BY DEF LogInv, Unmixed, Sequential, Log!InFlight, LogBasics
<1>5. Placed'
  BY <1>1, <1>3, FileShape DEF LogInv, Placed
<1>6. Unmixed'
  BY <1>1, <1>4 DEF LogInv, Unmixed
<1>7. IsFiniteSet(Begun)'
  BY LogGoto, BeginsFinite DEF LogInv
<1> QED
  BY <1>2, <1>4, <1>5, <1>6, <1>7 DEF LogInv

LEMMA LineKeeps ==
  ASSUME LogInv, NEW c \in Call, Log!WriteLine(c)
  PROVE  LogInv'
<1>1. CASE handle[c] # clears
  BY <1>1, LateWriteKeeps DEF Log!WriteLine
<1>2. CASE handle[c] = clears
  <2> DEFINE n == Len(logFile)
             last == logFile[n]
  <2>1. /\ logPc[c] = "opened"
        /\ \A d \in Call : logPc'[d] = IF d = c THEN "half" ELSE logPc[d]
        /\ mixed' = IF Log!HalfDone = {} THEN mixed ELSE mixed \cup Log!HalfDone \cup {c}
        /\ UNCHANGED <<handle, clears, logCrashes, overlaps>>
    BY <1>2, LogGoto DEF Log!WriteLine, LogInv
  <2>2. /\ logFile' \in Seq(Seq(Call)) /\ logFile' # <<>>
        /\ Len(logFile') = n /\ DOMAIN logFile' = DOMAIN logFile /\ n \in DOMAIN logFile
        /\ \A i \in DOMAIN logFile : i # n => logFile'[i] = logFile[i]
        /\ logFile'[n] = Append(last, c)
    BY <1>2, FileWithLine, FileShape DEF Log!WriteLine, LogInv
  <2>3. last \in Seq(Call)
    BY FileShape DEF LogInv
  <2>4. /\ logFile'[n] # <<>> /\ Len(logFile'[n]) = Len(last) + 1
        /\ Len(last) \in Nat /\ DOMAIN last = 1..Len(last)
        /\ DOMAIN logFile'[n] = 1..(Len(last) + 1)
        /\ \A k \in DOMAIN last : logFile'[n][k] = last[k]
        /\ logFile'[n][Len(logFile'[n])] = c
        /\ \A d : On(d, logFile'[n]) <=> On(d, last) \/ d = c
    BY <2>2, <2>3, LongerLine
  <2>5. \A i \in DOMAIN logFile : ~On(c, logFile[i])
    BY <2>1 DEF LogInv, Placed
  <2>6. \A d : On(d, last) => d \in Call /\ logPc[d] \in {"half", "cut"}
    <3>1. \A d : On(d, last) => d \in Call
      BY FileShape DEF On, LogInv
    <3> QED
      BY <3>1 DEF LogInv, Placed
  <2>7. \A d : d \in Log!HalfDone <=> On(d, last)
    BY <2>6 DEF Log!HalfDone, Log!Last, Log!ToSet, On
  <2>8. LogBasics'
    <3>1. Log!HalfDone \subseteq Call
      BY DEF Log!HalfDone
    <3> QED
      BY <2>1, <2>2, <3>1, LogGoto DEF Log!WriteLine, LogInv, LogBasics
  <2>9. Placed'
    <3>1. \A d \in Call : \A i \in DOMAIN logFile :
            On(d, logFile'[i]) <=> On(d, logFile[i]) \/ (d = c /\ i = n)
      BY <2>2, <2>4
    <3>2. \A d \in Call : \A i, j \in DOMAIN logFile' :
            On(d, logFile'[i]) /\ On(d, logFile'[j]) => i = j
      BY <2>2, <2>5, <3>1 DEF LogInv, Placed
    <3>3. \A d \in Call : \A i \in DOMAIN logFile' :
            On(d, logFile'[i]) => logPc'[d] \in {"half", "recorded", "cut"} /\ handle'[d] = clears'
      BY <1>2, <2>1, <2>2, <3>1 DEF LogInv, Placed
    <3>4. \A d \in Call : On(d, logFile'[Len(logFile')]) => logPc'[d] \in {"half", "cut"}
      BY <2>1, <2>2, <2>4, <2>6
    <3> QED
      BY <3>2, <3>3, <3>4 DEF Placed
  <2>10. Unmixed'
    <3> SUFFICES ASSUME NEW d \in Call \ mixed'
                 PROVE  /\ logPc'[d] \in {"opened", "half"} => handle'[d] = clears'
                        /\ logPc'[d] \in {"half", "recorded"} =>
                             \E i \in DOMAIN logFile' : logFile'[i] = <<d>>
      BY DEF Unmixed
    <3>1. d \notin mixed
      BY <2>1
    <3>2. logPc'[d] \in {"opened", "half"} => handle'[d] = clears'
      BY <1>2, <2>1, <3>1 DEF LogInv, Unmixed
    <3>3. CASE d = c
      <4>1. Log!HalfDone = {}
        BY <2>1, <3>3
      <4>2. last = <<>>
        <5>1. Len(last) # 0 => Len(last) \in DOMAIN last
          BY <2>4
        <5>2. Len(last) = 0
          BY <2>7, <4>1, <5>1 DEF On
        <5> QED
          BY <2>3, <5>2, EmptySeq
      <4>3. Append(<<>>, c) = <<c>>
        OBVIOUS
      <4> QED
        BY <2>2, <3>2, <3>3, <4>2, <4>3
    <3>4. CASE d # c /\ logPc[d] \in {"half", "recorded"}
      <4>1. PICK i \in DOMAIN logFile : logFile[i] = <<d>>
        BY <3>1, <3>4 DEF LogInv, Unmixed
      <4>2. On(d, logFile[i])
        <5>1. 1 \in DOMAIN <<d>> /\ <<d>>[1] = d
          OBVIOUS
        <5> QED
          BY <4>1, <5>1 DEF On
      <4>3. i # n
        BY <2>1, <2>7, <4>2
      <4> QED
        BY <2>2, <3>2, <4>1, <4>3
    <3> QED
      BY <2>1, <3>2, <3>3, <3>4
  <2>11. IsFiniteSet(Begun)'
    BY LogGoto, BeginsFinite DEF LogInv, Log!WriteLine
  <2>12. ASSUME ~overlaps'
         PROVE  Sequential'
    <3>1. Sequential
      BY <2>1, <2>12 DEF LogInv
    <3>2. Log!InFlight = {c} /\ Log!InFlight' = {c}
      <4>1. c \in Log!InFlight
        BY <2>1 DEF Log!InFlight
      <4>2. Log!InFlight = {c}
        BY <3>1, <4>1 DEF Sequential
      <4> QED
        BY <2>1, <4>2 DEF Log!InFlight
    <3>3. \A k \in DOMAIN last : logPc[last[k]] = "cut"
      <4> SUFFICES ASSUME NEW k \in DOMAIN last
                   PROVE  logPc[last[k]] = "cut"
        OBVIOUS
      <4>1. last[k] \in Call /\ logPc[last[k]] \in {"half", "cut"}
        BY <2>6 DEF On
      <4>2. last[k] # c
        BY <2>1, <4>1
      <4>3. last[k] \notin Log!InFlight
        BY <3>2, <4>2
      <4> QED
        BY <4>1, <4>3 DEF Log!InFlight
    <3>4. \A i \in DOMAIN logFile' : \A k \in DOMAIN logFile'[i] :
            k < Len(logFile'[i]) => logPc'[logFile'[i][k]] = "cut"
      <4>1. ASSUME NEW k \in DOMAIN logFile'[n], k < Len(logFile'[n])
            PROVE  logPc'[logFile'[n][k]] = "cut"
        <5>1. k \in DOMAIN last /\ logFile'[n][k] = last[k]
          BY <2>4, <4>1
        <5>2. last[k] \in Call /\ logPc[last[k]] = "cut"
          BY <2>6, <3>3, <5>1 DEF On
        <5> QED
          BY <2>1, <5>1, <5>2
      <4>2. ASSUME NEW i \in DOMAIN logFile, i # n,
                   NEW k \in DOMAIN logFile[i], k < Len(logFile[i])
            PROVE  logPc'[logFile[i][k]] = "cut"
        <5>1. logPc[logFile[i][k]] = "cut" /\ logFile[i][k] \in Call
          BY <3>1, <4>2, FileShape DEF Sequential, LogInv
        <5> QED
          BY <2>1, <5>1
      <4> SUFFICES ASSUME NEW i \in DOMAIN logFile, NEW k \in DOMAIN logFile'[i],
                          k < Len(logFile'[i])
                   PROVE  logPc'[logFile'[i][k]] = "cut"
        BY <2>2
      <4>3. CASE i = n
        BY <4>1, <4>3
      <4>4. CASE i # n
        <5>1. logFile'[i] = logFile[i]
          BY <2>2, <4>4
        <5> QED
          BY <4>2, <4>4, <5>1
      <4> QED
        BY <4>3, <4>4
    <3>5. \A d \in Call : logPc'[d] = "half" => d = c
      BY <2>1, <3>2 DEF Log!InFlight
    <3>6. \A d \in Call : logPc'[d] = "recorded" =>
            \E i \in DOMAIN logFile' : logFile'[i] # <<>> /\ logFile'[i][Len(logFile'[i])] = d
      <4> SUFFICES ASSUME NEW d \in Call, logPc'[d] = "recorded"
                   PROVE  \E i \in DOMAIN logFile' :
                            logFile'[i] # <<>> /\ logFile'[i][Len(logFile'[i])] = d
        OBVIOUS
      <4>1. logPc[d] = "recorded"
        BY <2>1
      <4>2. PICK i \in DOMAIN logFile : logFile[i] # <<>> /\ logFile[i][Len(logFile[i])] = d
        BY <3>1, <4>1 DEF Sequential
      <4>3. On(d, logFile[i])
        <5>1. Len(logFile[i]) \in DOMAIN logFile[i]
          BY <4>2, FileShape, EmptySeq DEF LogInv
        <5> QED
          BY <4>2, <5>1 DEF On
      <4>4. i # n
        BY <2>6, <4>1, <4>3
      <4> QED
        BY <2>2, <4>2, <4>4
    <3>7. /\ \A d, e \in Log!InFlight' : d = e
          /\ \A d \in Log!InFlight' : handle'[d] = clears'
      BY <1>2, <2>1, <3>2
    <3>8. \A d \in Call : logPc'[d] = "half" =>
            logFile'[Len(logFile')] # <<>>
            /\ logFile'[Len(logFile')][Len(logFile'[Len(logFile')])] = d
      BY <2>2, <2>4, <3>5
    <3> QED
      BY <3>4, <3>6, <3>7, <3>8 DEF Sequential
  <2> QED
    BY <2>8, <2>9, <2>10, <2>11, <2>12 DEF LogInv
<1> QED
  BY <1>1, <1>2

LEMMA NewlineKeeps ==
  ASSUME LogInv, NEW c \in Call, Log!WriteNewline(c)
  PROVE  LogInv'
<1>1. CASE handle[c] # clears
  BY <1>1, LateWriteKeeps DEF Log!WriteNewline
<1>2. CASE handle[c] = clears
  <2>1. /\ logPc[c] = "half"
        /\ \A d \in Call : logPc'[d] = IF d = c THEN "recorded" ELSE logPc[d]
        /\ UNCHANGED <<mixed, handle, clears, logCrashes, overlaps>>
    BY LogGoto DEF Log!WriteNewline, LogInv
  <2>2. /\ logFile' \in Seq(Seq(Call)) /\ logFile' # <<>>
        /\ DOMAIN logFile' = DOMAIN logFile \cup {Len(logFile')}
        /\ \A i \in DOMAIN logFile : logFile'[i] = logFile[i] /\ i # Len(logFile')
        /\ logFile'[Len(logFile')] = <<>>
    BY <1>2, FileWithNewline DEF Log!WriteNewline, LogInv
  <2>3. \A d : ~On(d, logFile'[Len(logFile')])
    BY <2>2, NobodyOnEmpty
  <2>4. LogBasics'
    BY <2>1, <2>2, LogGoto DEF Log!WriteNewline, LogInv, LogBasics
  <2>5. Placed'
    <3>1. \A d \in Call : \A i, j \in DOMAIN logFile' :
            On(d, logFile'[i]) /\ On(d, logFile'[j]) => i = j
      BY <2>2, <2>3 DEF LogInv, Placed
    <3>2. \A d \in Call : \A i \in DOMAIN logFile' :
            On(d, logFile'[i]) => logPc'[d] \in {"half", "recorded", "cut"} /\ handle'[d] = clears'
      BY <2>1, <2>2, <2>3 DEF LogInv, Placed
    <3> QED
      BY <2>3, <3>1, <3>2 DEF Placed
  <2>6. Unmixed'
    <3> SUFFICES ASSUME NEW d \in Call \ mixed'
                 PROVE  /\ logPc'[d] \in {"opened", "half"} => handle'[d] = clears'
                        /\ logPc'[d] \in {"half", "recorded"} =>
                             \E i \in DOMAIN logFile' : logFile'[i] = <<d>>
      BY DEF Unmixed
    <3>1. /\ logPc'[d] \in {"opened", "half"} => logPc[d] \in {"opened", "half"}
          /\ logPc'[d] \in {"half", "recorded"} => logPc[d] \in {"half", "recorded"}
      BY <2>1
    <3>2. logPc[d] \in {"half", "recorded"} => \E i \in DOMAIN logFile : logFile[i] = <<d>>
      BY <2>1 DEF LogInv, Unmixed
    <3> QED
      BY <2>1, <2>2, <3>1, <3>2 DEF LogInv, Unmixed
  <2>7. IsFiniteSet(Begun)'
    BY LogGoto, BeginsFinite DEF LogInv, Log!WriteNewline
  <2>8. ASSUME ~overlaps'
        PROVE  Sequential'
    <3>1. Sequential
      BY <2>1, <2>8 DEF LogInv
    <3>2. Log!InFlight' = {} /\ \A d \in Call : logPc'[d] # "half"
      <4>1. c \in Log!InFlight
        BY <2>1 DEF Log!InFlight
      <4>2. Log!InFlight = {c}
        BY <3>1, <4>1 DEF Sequential
      <4> QED
        BY <2>1, <4>2 DEF Log!InFlight
    <3>3. \A i \in DOMAIN logFile' : \A k \in DOMAIN logFile'[i] :
            k < Len(logFile'[i]) => logPc'[logFile'[i][k]] = "cut"
      <4>1. ASSUME NEW i \in DOMAIN logFile, NEW k \in DOMAIN logFile[i], k < Len(logFile[i])
            PROVE  logPc'[logFile[i][k]] = "cut"
        <5>1. logPc[logFile[i][k]] = "cut" /\ logFile[i][k] \in Call
          BY <3>1, <4>1, FileShape DEF Sequential, LogInv
        <5> QED
          BY <2>1, <5>1
      <4>2. DOMAIN <<>> = {}
        OBVIOUS
      <4> SUFFICES ASSUME NEW i \in DOMAIN logFile', NEW k \in DOMAIN logFile'[i],
                          k < Len(logFile'[i])
                   PROVE  logPc'[logFile'[i][k]] = "cut"
        OBVIOUS
      <4>3. i \in DOMAIN logFile /\ logFile'[i] = logFile[i]
        BY <2>2, <4>2
      <4> QED
        BY <4>1, <4>3
    <3>4. \A d \in Call : logPc'[d] = "recorded" =>
            \E i \in DOMAIN logFile' : logFile'[i] # <<>> /\ logFile'[i][Len(logFile'[i])] = d
      <4> SUFFICES ASSUME NEW d \in Call, logPc'[d] = "recorded"
                   PROVE  \E i \in DOMAIN logFile :
                            logFile[i] # <<>> /\ logFile[i][Len(logFile[i])] = d
        BY <2>2
      <4>1. CASE d = c
        <5>1. Len(logFile) \in DOMAIN logFile
          BY FileShape DEF LogInv
        <5> QED
          BY <2>1, <3>1, <4>1, <5>1 DEF Sequential
      <4>2. CASE d # c
        BY <2>1, <3>1, <4>2 DEF Sequential
      <4> QED
        BY <4>1, <4>2
    <3> QED
      BY <3>2, <3>3, <3>4 DEF Sequential
  <2> QED
    BY <2>4, <2>5, <2>6, <2>7, <2>8 DEF LogInv
<1> QED
  BY <1>1, <1>2

\* Calls that stop, one or all.
Stops ==
  /\ logPc' \in [Call -> {"idle", "opened", "half", "recorded", "cut", "failed", "cleared"}]
  /\ \A c \in Call : \/ logPc'[c] = logPc[c]
                     \/ logPc[c] = "opened" /\ logPc'[c] = "failed"
                     \/ logPc[c] = "half" /\ logPc'[c] = "cut"
  /\ logCrashes' \in 0..MaxCrashes
  /\ UNCHANGED <<logFile, handle, clears, mixed, overlaps>>

LEMMA StopKeeps ==
  ASSUME LogInv, Stops
  PROVE  LogInv'
<1> USE DEF Stops
<1>1. LogBasics'
  BY DEF LogInv, LogBasics
<1>2. Placed'
  <2>1. \A c \in Call :
          logPc[c] \in {"half", "recorded", "cut"} => logPc'[c] \in {"half", "recorded", "cut"}
    OBVIOUS
  <2>2. \A c \in Call : logPc[c] \in {"half", "cut"} => logPc'[c] \in {"half", "cut"}
    OBVIOUS
  <2> QED
    BY <2>1, <2>2 DEF LogInv, Placed
<1>3. \A c \in Call : logPc'[c] \in {"opened", "half", "recorded"} => logPc'[c] = logPc[c]
  OBVIOUS
<1>4. Unmixed'
  BY <1>3 DEF LogInv, Unmixed
<1>5. IsFiniteSet(Begun)'
  <2>1. Begun' = Begun
    BY DEF Begun
  <2> QED
    BY <2>1 DEF LogInv
<1>6. ASSUME ~overlaps'
      PROVE  Sequential'
  <2>1. Sequential
    BY <1>6 DEF LogInv
  <2>2. Log!InFlight' \subseteq Log!InFlight
    BY <1>3 DEF Log!InFlight
  <2>3. \A i \in DOMAIN logFile : \A k \in DOMAIN logFile[i] :
          k < Len(logFile[i]) => logPc'[logFile[i][k]] = "cut"
    <3>1. \A i \in DOMAIN logFile : \A k \in DOMAIN logFile[i] :
            k < Len(logFile[i]) => logPc[logFile[i][k]] = "cut" /\ logFile[i][k] \in Call
      BY <2>1, FileShape DEF Sequential, LogInv
    <3>2. \A c \in Call : logPc[c] = "cut" => logPc'[c] = "cut"
      OBVIOUS
    <3> QED
      BY <3>1, <3>2
  <2> QED
    BY <1>3, <2>1, <2>2, <2>3 DEF Sequential
<1> QED
  BY <1>1, <1>2, <1>4, <1>5, <1>6 DEF LogInv

LEMMA ClearKeeps ==
  ASSUME LogInv, Log!Clear
  PROVE  LogInv'
<1>1. /\ logFile' = <<<<>>>> /\ clears' = clears + 1 /\ clears < MaxClears
      /\ \A c \in Call : logPc'[c] = IF logPc[c] = "recorded" THEN "cleared" ELSE logPc[c]
      /\ mixed' = mixed \cup Log!InFlight
      /\ overlaps' = (overlaps \/ Log!InFlight # {})
      /\ UNCHANGED <<handle, logCrashes>>
  BY DEF Log!Clear, Log!Overlap
<1>2. /\ <<<<>>>> \in Seq(Seq(Call)) /\ <<<<>>>> # <<>>
      /\ DOMAIN <<<<>>>> = {1} /\ <<<<>>>>[1] = <<>> /\ Len(<<<<>>>>) = 1
      /\ DOMAIN <<>> = {}
  OBVIOUS
<1>3. LogBasics'
  <2>1. clears + 1 \in 0..MaxClears
    BY <1>1, Assumptions DEF LogInv, LogBasics, Log!JsonlLogAssumption
  <2>2. Log!InFlight \subseteq Call
    BY DEF Log!InFlight
  <2>3. logPc' \in [Call -> {"idle", "opened", "half", "recorded", "cut", "failed", "cleared"}]
    BY DEF Log!Clear, LogInv, LogBasics
  <2>4. overlaps' \in BOOLEAN
    BY <1>1
  <2> QED
    BY <1>1, <1>2, <2>1, <2>2, <2>3, <2>4 DEF LogInv, LogBasics
<1>4. Placed'
  BY <1>1, <1>2, NobodyOnEmpty DEF Placed
<1>5. Unmixed'
  BY <1>1 DEF Unmixed, Log!InFlight
<1>6. IsFiniteSet(Begun)'
  <2>1. Begun' = Begun
    BY <1>1 DEF Begun
  <2> QED
    BY <2>1 DEF LogInv
<1>7. ASSUME ~overlaps'
      PROVE  Sequential'
  <2>1. Log!InFlight = {}
    BY <1>1, <1>7
  <2>2. Log!InFlight' = {} /\ \A c \in Call : logPc'[c] \notin {"half", "recorded"}
    BY <1>1, <2>1 DEF Log!InFlight
  <2>3. \A i \in DOMAIN logFile' : logFile'[i] = <<>>
    BY <1>1, <1>2
  <2> QED
    BY <1>2, <2>2, <2>3 DEF Sequential
<1> QED
  BY <1>3, <1>4, <1>5, <1>6, <1>7 DEF LogInv

LEMMA LogStep ==
  ASSUME LogInv, Log!Next
  PROVE  LogInv'
<1>1. ASSUME NEW c \in Call, Log!Fail(c)
      PROVE  LogInv'
  <2>1. PICK where \in {"cut", "failed"} :
          /\ Log!Goto(c, where)
          /\ where = IF logPc[c] = "half" THEN "cut" ELSE "failed"
    BY <1>1 DEF Log!Fail
  <2>2. /\ logPc' \in [Call -> {"idle", "opened", "half", "recorded", "cut", "failed", "cleared"}]
        /\ \A d \in Call : logPc'[d] = IF d = c THEN where ELSE logPc[d]
    BY <2>1, LogGoto DEF LogInv
  <2>3. /\ logPc[c] \in {"opened", "half"} /\ logCrashes \in 0..MaxCrashes
        /\ UNCHANGED <<logFile, handle, clears, logCrashes, mixed, overlaps>>
    BY <1>1 DEF Log!Fail, LogInv, LogBasics
  <2>4. \A d \in Call : \/ logPc'[d] = logPc[d]
                        \/ logPc[d] = "opened" /\ logPc'[d] = "failed"
                        \/ logPc[d] = "half" /\ logPc'[d] = "cut"
    BY <2>1, <2>2, <2>3
  <2>5. logCrashes' \in 0..MaxCrashes /\ UNCHANGED <<logFile, handle, clears, mixed, overlaps>>
    BY <2>3
  <2>6. Stops
    BY <2>2, <2>4, <2>5 DEF Stops
  <2> QED
    BY <2>6, StopKeeps
<1>2. CASE Log!Crash
  <2>1. /\ logPc' = [c \in Call |-> CASE logPc[c] = "opened" -> "failed"
                                     [] logPc[c] = "half" -> "cut"
                                     [] OTHER -> logPc[c]]
        /\ logCrashes < MaxCrashes /\ logCrashes' = logCrashes + 1
    BY <1>2 DEF Log!Crash
  <2>2. logCrashes' \in 0..MaxCrashes
    BY <2>1, Assumptions DEF LogInv, LogBasics, Log!JsonlLogAssumption
  <2>3. logPc' \in [Call -> {"idle", "opened", "half", "recorded", "cut", "failed", "cleared"}]
    BY <2>1 DEF LogInv, LogBasics
  <2>4. \A c \in Call : \/ logPc'[c] = logPc[c]
                        \/ logPc[c] = "opened" /\ logPc'[c] = "failed"
                        \/ logPc[c] = "half" /\ logPc'[c] = "cut"
    BY <2>1
  <2>5. UNCHANGED <<logFile, handle, clears, mixed, overlaps>>
    BY <1>2 DEF Log!Crash
  <2>6. Stops
    BY <2>2, <2>3, <2>4, <2>5 DEF Stops
  <2> QED
    BY <2>6, StopKeeps
<1> QED
  BY <1>1, <1>2, OpenKeeps, LineKeeps, NewlineKeeps, ClearKeeps DEF Log!Next

LEMMA LogInvariant == FilesSpec => []LogInv
<1>1. FilesInit => LogInv
  <2> SUFFICES ASSUME Log!Init
               PROVE  LogInv
    BY DEF FilesInit
  <2>1. /\ <<<<>>>> \in Seq(Seq(Call)) /\ <<<<>>>> # <<>>
        /\ DOMAIN <<<<>>>> = {1} /\ <<<<>>>>[1] = <<>> /\ Len(<<<<>>>>) = 1
        /\ DOMAIN <<>> = {}
    OBVIOUS
  <2>2. LogBasics
    <3>1. 0 \in 0..MaxClears /\ 0 \in 0..MaxCrashes
      BY Assumptions DEF Log!JsonlLogAssumption
    <3>2. logFile \in Seq(Seq(Call)) /\ logFile # <<>>
      BY <2>1, Zenon DEF Log!Init
    <3> QED
      BY <3>1, <3>2 DEF Log!Init, LogBasics
  <2>3. Placed
    BY <2>1, NobodyOnEmpty DEF Log!Init, Placed
  <2>4. Unmixed
    BY DEF Log!Init, Unmixed
  <2>5. IsFiniteSet(Begun)
    <3>1. Begun = {}
      BY DEF Log!Init, Begun
    <3> QED
      BY <3>1, FS_EmptySet
  <2>6. Sequential
    BY <2>1 DEF Log!Init, Sequential, Log!InFlight
  <2> QED
    BY <2>2, <2>3, <2>4, <2>5, <2>6 DEF LogInv
<1>2. LogInv /\ [FilesNext]_filesVars => LogInv'
  <2> SUFFICES ASSUME LogInv, [FilesNext]_filesVars
               PROVE  LogInv'
    OBVIOUS
  <2>1. CASE UNCHANGED logVars
    BY <2>1
       DEF logVars, LogInv, LogBasics, Placed, Unmixed, Begun, Sequential, Log!InFlight
  <2> QED
    BY <2>1, LogStep DEF FilesNext, filesVars
<1> QED
  BY <1>1, <1>2, PTL DEF FilesSpec, filesVars

-----------------------------------------------------------------------------
(* The logs: losses.                                                       *)

LEMMA AtMostOne ==
  ASSUME NEW S, \A x, y \in S : x = y
  PROVE  IsFiniteSet(S) /\ Cardinality(S) <= 1
<1>1. CASE S = {}
  BY <1>1, FS_EmptySet
<1>2. CASE S # {}
  <2>1. PICK x : S = {x}
    BY <1>2
  <2>2. IsFiniteSet({x}) /\ Cardinality({x}) = 1
    BY FS_Singleton
  <2> QED
    BY <2>1, <2>2
<1> QED
  BY <1>1, <1>2

\* The size of a set, in this module and in the instance of the logs.
LEMMA SameSize == \A S : Log!Cardinality(S) = Cardinality(S)
BY DEF Log!Cardinality, Cardinality

LEMMA LogTyped ==
  ASSUME LogInv
  PROVE  Log!TypeOK
<1>1. ASSUME NEW c \in Call
      PROVE  Cardinality({i \in DOMAIN logFile : c \in Log!ToSet(logFile[i])}) <= 1
  <2> DEFINE S == {i \in DOMAIN logFile : c \in Log!ToSet(logFile[i])}
  <2>1. \A i \in S : i \in DOMAIN logFile /\ On(c, logFile[i])
    BY DEF Log!ToSet, On
  <2>2. \A i, j \in S : i = j
    BY <2>1 DEF LogInv, Placed
  <2> HIDE DEF S
  <2>3. Cardinality(S) <= 1
    BY <2>2, AtMostOne
  <2> QED
    BY <2>3 DEF S
<1> DEFINE Few == Log!Cardinality(Log!InFlight) <= 1
           Once == \A c \in Call : Log!Cardinality({i \in DOMAIN logFile : c \in Log!ToSet(logFile[i])}) <= 1
<1>2. overlaps \/ Few
  <2>1. CASE \A c, d \in Log!InFlight : c = d
    BY <2>1, AtMostOne, SameSize
  <2> HIDE DEF Few
  <2>2. overlaps \/ \A c, d \in Log!InFlight : c = d
    BY Zenon DEF LogInv, Sequential
  <2> QED
    BY <2>1, <2>2, Zenon
<1>3. /\ logFile \in Seq(Seq(Call)) /\ logFile # <<>>
      /\ logPc \in [Call -> {"idle", "opened", "half", "recorded", "cut", "failed", "cleared"}]
      /\ handle \in [Call -> 0..MaxClears]
      /\ clears \in 0..MaxClears
      /\ logCrashes \in 0..MaxCrashes
      /\ mixed \subseteq Call
      /\ overlaps \in BOOLEAN
  BY Zenon DEF LogInv, LogBasics
<1>4. Once
  BY <1>1, SameSize
<1>5. Log!TypeOK <=> (Once /\ (overlaps \/ Few) /\
        (/\ logFile \in Seq(Seq(Call)) /\ logFile # <<>>
      /\ logPc \in [Call -> {"idle", "opened", "half", "recorded", "cut", "failed", "cleared"}]
      /\ handle \in [Call -> 0..MaxClears]
      /\ clears \in 0..MaxClears
      /\ logCrashes \in 0..MaxCrashes
      /\ mixed \subseteq Call
      /\ overlaps \in BOOLEAN))
  BY Zenon DEF Log!TypeOK
<1> HIDE DEF Few, Once
<1> QED
  BY <1>2, <1>3, <1>4, <1>5, Zenon

LEMMA LossMixes ==
  ASSUME LogInv
  PROVE  Log!LossNeedsMixing
<1> SUFFICES ASSUME NEW c \in Call, logPc[c] = "recorded", c \notin mixed
             PROVE  c \in Log!Listed
  BY DEF Log!LossNeedsMixing, Log!Recorded
<1> QED
  BY DEF LogInv, Unmixed, Log!Listed

\* A lost entry is charged to the first call on its line, which was cut.
LEMMA LossesAreFew ==
  ASSUME LogInv
  PROVE  Log!LossIsBounded
<1> DEFINE Bounded == Log!Cardinality(Log!Recorded \ Log!Listed) <=
                        Log!Cardinality({c \in Call : logPc[c] = "cut"})
<1>a. Log!LossIsBounded <=> (~overlaps => Bounded)
  BY Zenon DEF Log!LossIsBounded
<1> HIDE DEF Bounded
<1> SUFFICES ASSUME ~overlaps
             PROVE  Bounded
  BY <1>a, Zenon
<1> USE DEF Bounded
<1> DEFINE Lost == Log!Recorded \ Log!Listed
           Cut == {c \in Call : logPc[c] = "cut"}
           EndsWith(i, c) == logFile[i] # <<>> /\ logFile[i][Len(logFile[i])] = c
           line == [c \in Lost |-> CHOOSE i \in DOMAIN logFile : EndsWith(i, c)]
           blamed == [c \in Lost |-> logFile[line[c]][1]]
<1>1. \A c \in Lost : c \in Call /\ logPc[c] = "recorded" /\ c \notin Log!Listed
  BY DEF Log!Recorded
<1>2. \A c \in Lost : line[c] \in DOMAIN logFile /\ EndsWith(line[c], c)
  <2> SUFFICES ASSUME NEW c \in Lost
               PROVE  line[c] \in DOMAIN logFile /\ EndsWith(line[c], c)
    OBVIOUS
  <2>1. \E i \in DOMAIN logFile : EndsWith(i, c)
    BY <1>1 DEF LogInv, Sequential
  <2>2. line[c] = CHOOSE i \in DOMAIN logFile : EndsWith(i, c)
    OBVIOUS
  <2> HIDE DEF line, EndsWith
  <2> QED
    BY <2>1, <2>2
<1> HIDE DEF line
<1>3. ASSUME NEW c \in Lost
      PROVE  /\ blamed[c] \in Cut /\ On(blamed[c], logFile[line[c]])
  <2> DEFINE i == line[c]
  <2>1. /\ i \in DOMAIN logFile /\ logFile[i] # <<>> /\ logFile[i][Len(logFile[i])] = c
        /\ c \in Call /\ c \notin Log!Listed
    BY <1>1, <1>2
  <2>2. /\ logFile[i] \in Seq(Call) /\ Len(logFile[i]) \in Nat \ {0}
        /\ DOMAIN logFile[i] = 1..Len(logFile[i])
        /\ \A k \in DOMAIN logFile[i] : logFile[i][k] \in Call
    BY <2>1, FileShape, EmptySeq DEF LogInv
  <2> HIDE DEF i
  <2>3. Len(logFile[i]) # 1
    <3> SUFFICES ASSUME Len(logFile[i]) = 1
                 PROVE  logFile[i] = <<c>>
      BY <2>1 DEF Log!Listed
    <3>1. logFile[i] \in [1..1 -> Call] /\ logFile[i][1] = c
      BY <2>1, <2>2, LenProperties
    <3> QED
      BY <3>1
  <2>4. 1 \in DOMAIN logFile[i] /\ 1 < Len(logFile[i])
    <3>1. \A n \in Nat \ {0} : n # 1 => 1 \in 1..n /\ 1 < n
      OBVIOUS
    <3>2. Len(logFile[i]) \in Nat \ {0} /\ DOMAIN logFile[i] = 1..Len(logFile[i])
      BY <2>2
    <3> QED
      BY <2>3, <3>1, <3>2
  <2>5. logPc[logFile[i][1]] = "cut" /\ logFile[i][1] \in Call
    BY <2>1, <2>2, <2>4 DEF LogInv, Sequential
  <2>6. blamed[c] = logFile[i][1]
    BY DEF i
  <2>7. On(blamed[c], logFile[i])
    BY <2>4, <2>6 DEF On
  <2> QED
    BY <2>5, <2>6, <2>7 DEF i
<1>4. ASSUME NEW c \in Lost, NEW d \in Lost, blamed[c] = blamed[d]
      PROVE  c = d
  <2>1. line[c] = line[d]
    BY <1>2, <1>3, <1>4 DEF LogInv, Placed
  <2> QED
    BY <1>2, <2>1
<1>5. blamed \in [Lost -> Cut]
  BY <1>3
<1>6. IsFiniteSet(Cut)
  <2>1. Cut \in SUBSET Begun
    BY DEF Begun
  <2>2. IsFiniteSet(Begun)
    BY DEF LogInv
  <2> QED
    BY <2>1, <2>2, FS_Subset
<1> HIDE DEF Lost, Cut, blamed
<1>7. blamed \in Injection(Lost, Cut)
  BY <1>4, <1>5 DEF Injection, IsInjective
<1>8. Cardinality(Lost) <= Cardinality(Cut)
  BY <1>6, <1>7, FS_Injection
<1> QED
  BY <1>8, SameSize DEF Lost, Cut

\* For any number of calls on a log, clears and crashes: an entry of record is lost
\* to a call half done next to it or to a clear, and calls that come one after the
\* other lose at most one to each that stopped between its line and the newline.
THEOREM LossesAreAlwaysExplained == FilesSpec => []LossesAreExplained
<1>1. LogInv => LossesAreExplained
  BY LossMixes, LossesAreFew DEF LossesAreExplained
<1> QED
  BY <1>1, LogInvariant, PTL

-----------------------------------------------------------------------------
(* All four.                                                               *)

\* The invariant of the certificate authority, next to the other three.
LEMMA CaInvariantOfFiles == FilesSpec => []IInv
<1>1. FilesInit => IInv
  BY InitEstablishesInv DEF FilesInit
<1>2. IInv /\ [FilesNext]_filesVars => IInv'
  <2> SUFFICES ASSUME IInv, [FilesNext]_filesVars
               PROVE  IInv'
    OBVIOUS
  <2>1. [Next]_vars
    BY DEF FilesNext, filesVars
  <2> QED
    BY <2>1, TypeIsKept, HoldingIsKept, NumberingIsKept, AuditingIsKept DEF IInv
<1> QED
  BY <1>1, <1>2, PTL DEF FilesSpec, filesVars

\* Every variable of the four keeps its type; an entry of a log is on at most
\* one line, and while calls come one after the other at most one is under way.
THEOREM FilesTypesAreKept == FilesSpec => []FilesTypesOK
<1>1. IInv /\ LogInv /\ VaultTypes /\ WalkInv => FilesTypesOK
  BY LogTyped DEF IInv, VaultTypes, WalkInv, FilesTypesOK
<1> QED
  BY <1>1, CaInvariantOfFiles, LogInvariant, VaultTypesInvariant, WalkInvariant, PTL

=============================================================================
