----------------------- MODULE CertificateAuthority -------------------------
(***************************************************************************)
(* Issuing SSH certificates in the control plane: the handler in           *)
(* control-plane/src/main.rs, the CA with its serial counter               *)
(* (control-plane/src/ca/mod.rs) and the audit log                         *)
(* (control-plane/src/audit/mod.rs).  Requests are served concurrently;    *)
(* the counter's lock is held over a plain, two-step fs::write; any write  *)
(* may fail and the process may crash between any two steps.               *)
(***************************************************************************)
EXTENDS Naturals

CONSTANTS
  Request,     \* certificate requests
  MaxCrashes,  \* bound: crashes of the process
  None

ASSUME CaAssumption == None \notin Request /\ MaxCrashes \in Nat

VARIABLES
  up,        \* whether the process serves
  caKey,     \* the CA key file
  disk,      \* the number in ca.serial; 0 when the file is absent or was cut
  counter,   \* serial_counter, in memory
  lock,      \* who holds its write lock
  pc,        \* how far the handler of each request came
  serial,    \* the number each request drew
  issued,    \* the certificates in memory
  audited,   \* the requests with a line in audit.log
  reset,     \* history: a start found ca.serial cut after numbers were used
  crashes    \* history: the number of crashes

vars == <<up, caKey, disk, counter, lock, pc, serial, issued, audited, reset, crashes>>

(***************************************************************************)
(* "numbering" and "writing": under the lock, before the truncation and    *)
(* before the write of ca.serial; "numbered": the number is its own;       *)
(* "inserted"; "recorded": the audit line is written; "answered": the      *)
(* client holds the certificate; "refused": it never got a number;         *)
(* "void": its number is spent but the client holds nothing.               *)
(***************************************************************************)
Locked == {"numbering", "writing"}
Numbered == {"numbered", "inserted", "recorded", "answered", "void"}
Pc == {"idle", "refused"} \cup Locked \cup Numbered

TypeOK ==
  /\ up \in BOOLEAN
  /\ caKey \in {"none", "cut", "whole"}
  /\ disk \in Nat
  /\ counter \in Nat
  /\ lock \in {r \in Request : pc[r] \in Locked} \cup {None}
  /\ pc \in [Request -> Pc]
  /\ serial \in [Request -> Nat]
  /\ issued \subseteq Request
  /\ audited \subseteq Request
  /\ reset \in BOOLEAN
  /\ crashes \in 0..MaxCrashes

-----------------------------------------------------------------------------
Init ==
  /\ up = FALSE
  /\ caKey = "none"
  /\ disk = 0
  /\ counter = 0
  /\ lock = None
  /\ pc = [r \in Request |-> "idle"]
  /\ serial = [r \in Request |-> 0]
  /\ issued = {}
  /\ audited = {}
  /\ reset = FALSE
  /\ crashes = 0

Goto(r, where) == pc' = [pc EXCEPT ![r] = where]

(* The start of the process.                                               *)

\* A key file that is there but cut is an error, and the start ends.
Bootstrap ==
  /\ ~up
  /\ caKey # "cut"
  /\ up' = TRUE
  /\ caKey' = "whole"
  /\ counter' = disk
  /\ reset' = (reset \/ (disk = 0 /\ \E r \in Request : pc[r] \in Numbered))
  /\ UNCHANGED <<disk, lock, pc, serial, issued, audited, crashes>>

\* The process dies while it writes the key it generated.
BootstrapDies ==
  /\ ~up
  /\ caKey = "none"
  /\ crashes < MaxCrashes
  /\ caKey' = "cut"
  /\ crashes' = crashes + 1
  /\ UNCHANGED <<up, disk, counter, lock, pc, serial, issued, audited, reset>>

(* next_serial.                                                            *)

\* A mutant: the number is drawn atomically but the file written without the
\* lock.
DrawUnlocked(r) ==
  /\ up /\ pc[r] = "idle"
  /\ counter' = counter + 1
  /\ serial' = [serial EXCEPT ![r] = counter + 1]
  /\ Goto(r, "numbering")
  /\ UNCHANGED <<up, caKey, disk, lock, issued, audited, reset, crashes>>

\* The request is authenticated and takes the lock.
Draw(r) ==
  /\ up /\ pc[r] = "idle" /\ lock = None
  /\ lock' = r
  /\ counter' = counter + 1
  /\ serial' = [serial EXCEPT ![r] = counter + 1]
  /\ Goto(r, "numbering")
  /\ UNCHANGED <<up, caKey, disk, issued, audited, reset, crashes>>

Reject(r) ==
  /\ up /\ pc[r] = "idle"
  /\ Goto(r, "refused")
  /\ UNCHANGED <<up, caKey, disk, counter, lock, serial, issued, audited, reset, crashes>>

Truncate(r) ==
  /\ pc[r] = "numbering"
  /\ disk' = 0
  /\ Goto(r, "writing")
  /\ UNCHANGED <<up, caKey, counter, lock, serial, issued, audited, reset, crashes>>

Persist(r) ==
  /\ pc[r] = "writing"
  /\ disk' = serial[r]
  /\ lock' = None
  /\ Goto(r, "numbered")
  /\ UNCHANGED <<up, caKey, counter, serial, issued, audited, reset, crashes>>

\* A mutant: the lock is not given back on the error path.
PersistFailsLocked(r) ==
  /\ pc[r] \in Locked
  /\ Goto(r, "refused")
  /\ UNCHANGED <<up, caKey, disk, counter, lock, serial, issued, audited, reset, crashes>>

\* Either step of the write fails; the number is skipped.
PersistFails(r) ==
  /\ pc[r] \in Locked
  /\ lock' = None
  /\ Goto(r, "refused")
  /\ UNCHANGED <<up, caKey, disk, counter, serial, issued, audited, reset, crashes>>

(* The rest of the handler.                                                *)

\* The subject's key is looked at only now.
BadKey(r) ==
  /\ pc[r] = "numbered"
  /\ Goto(r, "void")
  /\ UNCHANGED <<up, caKey, disk, counter, lock, serial, issued, audited, reset, crashes>>

Insert(r) ==
  /\ pc[r] = "numbered"
  /\ issued' = issued \cup {r}
  /\ Goto(r, "inserted")
  /\ UNCHANGED <<up, caKey, disk, counter, lock, serial, audited, reset, crashes>>

Record(r) ==
  /\ pc[r] = "inserted"
  /\ audited' = audited \cup {r}
  /\ Goto(r, "recorded")
  /\ UNCHANGED <<up, caKey, disk, counter, lock, serial, issued, reset, crashes>>

\* A mutant: an error of the audit log is ignored.
RecordFailsSilently(r) ==
  /\ pc[r] = "inserted"
  /\ Goto(r, "recorded")
  /\ UNCHANGED <<up, caKey, disk, counter, lock, serial, issued, audited, reset, crashes>>

\* The certificate stays in memory although the client gets an error.
RecordFails(r) ==
  /\ pc[r] = "inserted"
  /\ Goto(r, "void")
  /\ UNCHANGED <<up, caKey, disk, counter, lock, serial, issued, audited, reset, crashes>>

Answer(r) ==
  /\ pc[r] = "recorded"
  /\ Goto(r, "answered")
  /\ UNCHANGED <<up, caKey, disk, counter, lock, serial, issued, audited, reset, crashes>>

Crash ==
  /\ up
  /\ crashes < MaxCrashes
  /\ crashes' = crashes + 1
  /\ up' = FALSE
  /\ counter' = 0
  /\ lock' = None
  /\ pc' = [r \in Request |->
              CASE pc[r] \in Locked -> "refused"
                [] pc[r] \in {"numbered", "inserted", "recorded"} -> "void"
                [] OTHER -> pc[r]]
  /\ issued' = {}
  /\ UNCHANGED <<caKey, disk, serial, audited, reset>>

-----------------------------------------------------------------------------
Next ==
  \/ Bootstrap \/ BootstrapDies \/ Crash
  \/ \E r \in Request :
       \/ Draw(r) \/ Reject(r) \/ Truncate(r) \/ Persist(r) \/ PersistFails(r)
       \/ BadKey(r) \/ Insert(r) \/ Record(r) \/ RecordFails(r) \/ Answer(r)

Spec == Init /\ [][Next]_vars

-----------------------------------------------------------------------------
(* Properties.                                                             *)

\* A certificate that a client holds is in the audit log, whatever failed or
\* crashed on the way.
HeldIsAudited == \A r \in Request : pc[r] = "answered" => r \in audited

\* No two certificates carry the same serial number, whatever requests run at
\* once and whatever crashes happen between them, unless a crash or an error
\* cut ca.serial and a later start counted from zero.
SerialsAreUnique ==
  reset \/ \A r, s \in Request :
             /\ r # s
             /\ pc[r] \in Numbered /\ pc[s] \in Numbered
             => serial[r] # serial[s]

=============================================================================
