-------------------------- MODULE VaultPermissions --------------------------
(***************************************************************************)
(* What an actor may do with a server of the shared vault: the walk from   *)
(* the root along the path to it that resolve_effective_permissions makes  *)
(* (app-client/src-tauri/src/collab/shared_vault.rs), one node or rule a   *)
(* step, over every path.  A node that does not inherit starts over.       *)
(***************************************************************************)
EXTENDS Naturals

CONSTANTS
  Right,    \* actions, such as connect
  Subject,  \* those a rule may be about
  Actors,   \* those of them that the request is for, or that match anyone
  MaxSteps  \* bound: nodes and rules on a path

VaultPermissionsAssumption == Actors \subseteq Subject /\ MaxSteps \in Nat

VARIABLES
  allowed, denied,   \* the two sets of the walk
  granted, refused,  \* history: what the rules since the last fresh start name
  steps              \* history: nodes and rules so far

walk == <<allowed, denied, granted, refused, steps>>

TypeOK ==
  /\ allowed \subseteq Right /\ denied \subseteq Right
  /\ granted \subseteq Right /\ refused \subseteq Right
  /\ steps \in 0..MaxSteps

Init ==
  /\ allowed = {} /\ denied = {}
  /\ granted = {} /\ refused = {}
  /\ steps = 0

Step ==
  /\ steps < MaxSteps
  /\ steps' = steps + 1

\* A mutant: what was denied above stays denied.
EnterKeepsDenied ==
  /\ Step
  /\ allowed' = {}
  /\ granted' = {} /\ refused' = {}
  /\ UNCHANGED denied

\* A node with inherit_permissions = false; the others change nothing.
EnterFresh ==
  /\ Step
  /\ allowed' = {} /\ denied' = {}
  /\ granted' = {} /\ refused' = {}

Allow(subject, rights) ==
  /\ Step
  /\ IF subject \in Actors
     THEN /\ allowed' = allowed \cup (rights \ denied)
          /\ granted' = granted \cup rights
     ELSE UNCHANGED <<allowed, granted>>
  /\ UNCHANGED <<denied, refused>>

Deny(subject, rights) ==
  /\ Step
  /\ IF subject \in Actors
     THEN /\ allowed' = allowed \ rights
          /\ denied' = denied \cup rights
          /\ refused' = refused \cup rights
     ELSE UNCHANGED <<allowed, denied, refused>>
  /\ UNCHANGED granted

Next ==
  \/ EnterFresh
  \/ \E subject \in Subject, rights \in SUBSET Right : Allow(subject, rights) \/ Deny(subject, rights)

Spec == Init /\ [][Next]_walk

-----------------------------------------------------------------------------
(* Properties.                                                             *)

\* An actor may do what some rule since the last fresh start allows and none
\* denies, wherever on the path and in whatever order they come.
DenialsWin == allowed = granted \ refused

=============================================================================
