---------------------------- MODULE MCStateFiles ----------------------------
(***************************************************************************)
(* The files that outlive their process: what the certificate authority,   *)
(* the JSONL logs and the shared vault promise of them, and how the rules  *)
(* in the shared vault are read.  The four share no state, so an instance  *)
(* is one of them, chosen at the start, while the others stand still: the  *)
(* run explores the sum of their states.                                   *)
(***************************************************************************)
EXTENDS CertificateAuthority, TLC

CONSTANTS Call, MaxClears, Client, MaxEdits, Right, Subject, Actors, MaxSteps

VARIABLES
  part,                                                        \* which of them it is
  logFile, logPc, handle, clears, logCrashes, mixed, overlaps, \* JsonlLog
  vaultFile, history, saving, copy, edits, done, taken, wiped,
  vaultCrashes,                                                \* SharedVault
  allowed, denied, granted, refused, steps                     \* VaultPermissions

Log == INSTANCE JsonlLog WITH file <- logFile, pc <- logPc, crashes <- logCrashes
Shared == INSTANCE SharedVault WITH
  file <- vaultFile, call <- saving, crashes <- vaultCrashes
Rights == INSTANCE VaultPermissions

ASSUME StateFilesAssumption ==
  Log!JsonlLogAssumption /\ Shared!SharedVaultAssumption /\ Rights!VaultPermissionsAssumption

logVars == <<logFile, logPc, handle, clears, logCrashes, mixed, overlaps>>
vaultVars ==
  <<vaultFile, history, saving, copy, edits, done, taken, wiped, vaultCrashes>>
walkVars == <<allowed, denied, granted, refused, steps>>

FilesInit ==
  /\ part \in {"certificates", "log", "vault", "permissions"}
  /\ Init /\ Log!Init /\ Shared!Init /\ Rights!Init

FilesNext ==
  /\ \/ /\ part = "certificates" /\ Next
        /\ UNCHANGED <<logVars, vaultVars, walkVars>>
     \/ /\ part = "log" /\ Log!Next
        /\ UNCHANGED <<vars, vaultVars, walkVars>>
     \/ /\ part = "vault" /\ Shared!Next
        /\ UNCHANGED <<vars, logVars, walkVars>>
     \/ /\ part = "permissions" /\ Rights!Next
        /\ UNCHANGED <<vars, logVars, vaultVars>>
  /\ UNCHANGED part

FilesSpec ==
  FilesInit /\ [][FilesNext]_<<part, vars, logVars, vaultVars, walkVars>>

\* The calls of a log are interchangeable, and so are the clients of the vault.
Symmetry == Permutations(Call) \cup Permutations(Client)

\* The types of all four.
FilesTypesOK == TypeOK /\ Log!TypeOK /\ Shared!TypeOK /\ Rights!TypeOK

\* JsonlLog: an entry is lost only to a call half done next to it or to a clear,
\* and commands that come one after the other lose at most one to each that
\* stopped between its line and the newline.
LossesAreExplained == Log!LossNeedsMixing /\ Log!LossIsBounded

\* SharedVault: what a client was told is saved stays until a delete or an upsert
\* names it or a node above it, or a save that names no version leaves it out; a
\* version stands for one content, and the history names the versions in order.
SharedVaultIsKept ==
  Shared!SavedNodesStay /\ Shared!VersionTellsContent /\ Shared!RevisionsAreInOrder

\* VaultPermissions: a denial wins over every permission, up to a fresh start.
DenialsWin == Rights!DenialsWin

=============================================================================
