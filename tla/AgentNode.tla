----------------------------- MODULE AgentNode ------------------------------
(***************************************************************************)
(* The agent's connector loop (agent-node/src/reverse_ssh.rs) against the  *)
(* control plane it polls: it keeps its registration alive, claims leases  *)
(* and starts a bridge for each answer.  Calls may fail, lose their        *)
(* answer, or hit a control plane that restarted with empty tables.        *)
(*                                                                         *)
(* Time is counted in whole units.  A unit passes only while a call or a   *)
(* sleep of the loop has time left, so a sleep takes exactly and a call at *)
(* most what it was given.                                                 *)
(***************************************************************************)
EXTENDS Integers

CONSTANTS
  Ttl,        \* registration_ttl_seconds
  MinHalf,    \* the 10 s below which the loop never re-registers
  Call,       \* the client's timeout: the longest call
  ErrorSleep, \* sleep after a failed call
  Poll,       \* sleep after a claim that found nothing
  Pause,      \* sleep after a claim that found a lease
  MaxLeases,  \* bound: leases that clients ask for
  MaxBridges, \* bound: bridges of a lease on their way to the relay
  Faults      \* the faults that may happen: "register", "claim", "restart"

MaxOf(a, b) == IF a >= b THEN a ELSE b

Half == MaxOf(Ttl \div 2, MinHalf)
Sleep == MaxOf(ErrorSleep, MaxOf(Poll, Pause))

\* In the order they are issued, none of them in the same second; 0 stands for none.
NodeLease == 1..MaxLeases

AgentNodeAssumption ==
  /\ Ttl \in Nat /\ MinHalf \in Nat \ {0} /\ Call \in Nat \ {0}
  /\ ErrorSleep \in Nat /\ Poll \in Nat /\ Pause \in Nat
  /\ MaxLeases \in Nat /\ MaxBridges \in Nat
  /\ Faults \subseteq {"register", "claim", "restart"}

\* The time since the last answer at which the loop is past its next look at
\* it, the longest time without a registration after the last fault, and the
\* longest time between two registrations served when there is none.
LastLook == Half - 1 + Call + Sleep
Recovery == LastLook + Call
Renewal == Call + LastLook + Call

\* No registration stays out for longer without a fault.
Floor == -MaxOf(Renewal - Ttl, 0) - 1

VARIABLES
  pc,       \* the await the loop is in
  left,     \* the time left for it
  since,    \* the time since last_registration; LastLook stands for longer or never
  request,  \* how far the current call came
  reply,    \* the lease in the answer to a claim
  expires,  \* control plane: time left of the node's registration, negative since it
            \* lapsed; Floor stands for longer ago or never
  lease,    \* control plane: the leases for this node
  bridges,  \* bridge tasks of each lease that have not reached the relay
  calm      \* history: time since the last fault; Recovery + 1 stands for longer

vars == <<pc, left, since, request, reply, expires, lease, bridges, calm>>

loop == <<pc, left, since, request, reply>>
plane == <<expires, lease>>

TypeOK ==
  /\ pc \in {"registering", "claiming", "sleeping"}
  /\ left \in 0..MaxOf(Call, Sleep)
  /\ since \in 0..LastLook
  /\ request \in {"none", "sent", "served", "refused", "lost"}
  /\ reply \in NodeLease \cup {0}
  /\ expires \in Floor..Ttl
  /\ lease \in [NodeLease -> {"none", "open", "claimed", "attached", "gone"}]
  /\ bridges \in [NodeLease -> 0..MaxBridges]
  /\ calm \in 0..Recovery + 1

-----------------------------------------------------------------------------
Init ==
  /\ pc = "sleeping"
  /\ left = 0
  /\ since = LastLook
  /\ request = "none"
  /\ reply = 0
  /\ expires = Floor
  /\ lease = [l \in NodeLease |-> "none"]
  /\ bridges = [l \in NodeLease |-> 0]
  /\ calm = 0

Await(where, time) ==
  /\ pc' = where
  /\ left' = time
  /\ request' = IF where = "sleeping" THEN "none" ELSE "sent"
  /\ reply' = 0

(* The loop.                                                               *)

\* The top of the loop: register when the last registration is old, else claim.
StartRegister ==
  /\ pc = "sleeping" /\ left = 0 /\ since >= Half
  /\ Await("registering", Call)
  /\ UNCHANGED <<since, plane, bridges, calm>>

\* A mutant: the loop may claim without a look at its registration.
StartClaimAnyway ==
  /\ pc = "sleeping" /\ left = 0
  /\ Await("claiming", Call)
  /\ UNCHANGED <<since, plane, bridges, calm>>

StartClaim ==
  /\ pc = "sleeping" /\ left = 0 /\ since < Half
  /\ Await("claiming", Call)
  /\ UNCHANGED <<since, plane, bridges, calm>>

RegisterAnswered ==
  /\ pc = "registering" /\ request = "served"
  /\ since' = 0
  /\ Await("claiming", Call)
  /\ UNCHANGED <<plane, bridges, calm>>

RegisterFails ==
  /\ pc = "registering"
  /\ request = "lost" \/ "register" \in Faults
  /\ Await("sleeping", ErrorSleep)
  /\ calm' = 0
  /\ UNCHANGED <<since, plane, bridges>>

\* Beyond MaxBridges a new bridge fails at once.
ClaimAnswered ==
  /\ pc = "claiming" /\ request = "served"
  /\ Await("sleeping", IF reply = 0 THEN Poll ELSE Pause)
  /\ bridges' = [l \in NodeLease |-> IF l = reply /\ bridges[l] < MaxBridges
                                     THEN bridges[l] + 1 ELSE bridges[l]]
  /\ UNCHANGED <<since, plane, calm>>

ClaimFails ==
  /\ pc = "claiming"
  /\ request \in {"lost", "refused"} \/ "claim" \in Faults
  /\ Await("sleeping", ErrorSleep)
  /\ UNCHANGED <<since, plane, bridges, calm>>

(* The control plane.                                                      *)

ServeRegister ==
  /\ pc = "registering" /\ request = "sent"
  /\ request' = "served"
  /\ expires' = Ttl
  /\ UNCHANGED <<pc, left, since, reply, lease, bridges, calm>>

\* A mutant: what this node has claimed already is not offered again.
ClaimableOnce == {l \in NodeLease : lease[l] = "open"}

Claimable == {l \in NodeLease : lease[l] \in {"open", "claimed"}}

\* The oldest lease that no agent is attached to, claimed before or not.
ServeClaim ==
  /\ pc = "claiming" /\ request = "sent" /\ expires > 0
  /\ request' = "served"
  /\ \/ Claimable = {} /\ UNCHANGED <<reply, lease>>
     \/ \E l \in Claimable :
          /\ \A m \in Claimable : l <= m
          /\ reply' = l
          /\ lease' = [lease EXCEPT ![l] = "claimed"]
  /\ UNCHANGED <<pc, left, since, expires, bridges, calm>>

RefuseClaim ==
  /\ pc = "claiming" /\ request = "sent" /\ expires <= 0
  /\ request' = "refused"
  /\ UNCHANGED <<pc, left, since, reply, plane, bridges, calm>>

\* A client obtains the next lease, which takes a registered node.
CreateLease(l) ==
  /\ expires > 0
  /\ lease[l] = "none"
  /\ \A m \in NodeLease : m < l => lease[m] # "none"
  /\ lease' = [lease EXCEPT ![l] = "open"]
  /\ UNCHANGED <<loop, expires, bridges, calm>>

ExpireLease(l) ==
  /\ lease[l] \in {"open", "claimed"}
  /\ lease' = [lease EXCEPT ![l] = "gone"]
  /\ UNCHANGED <<loop, expires, bridges, calm>>

\* Every table is in memory and every call in flight breaks.
Restart ==
  /\ "restart" \in Faults
  /\ expires' = Floor
  /\ lease' = [l \in NodeLease |-> IF lease[l] = "none" THEN "none" ELSE "gone"]
  /\ request' = IF request = "none" THEN "none" ELSE "lost"
  /\ calm' = 0
  /\ UNCHANGED <<pc, left, since, reply, bridges>>

(* The bridges.                                                            *)

\* The relay accepts the hello; the upstream connection comes after it.
BridgeAttaches(l) ==
  /\ bridges[l] > 0
  /\ lease[l] = "claimed"
  /\ bridges' = [bridges EXCEPT ![l] = @ - 1]
  /\ lease' = [lease EXCEPT ![l] = "attached"]
  /\ UNCHANGED <<loop, expires, calm>>

\* The relay is not reached, or refuses a hello for a seat taken or a lease gone.
BridgeFails(l) ==
  /\ bridges[l] > 0
  /\ bridges' = [bridges EXCEPT ![l] = @ - 1]
  /\ UNCHANGED <<loop, plane, calm>>

Tick ==
  /\ left > 0
  /\ left' = left - 1
  /\ since' = IF since < LastLook THEN since + 1 ELSE since
  /\ expires' = IF expires > Floor THEN expires - 1 ELSE expires
  /\ calm' = IF calm <= Recovery THEN calm + 1 ELSE calm
  /\ UNCHANGED <<pc, request, reply, lease, bridges>>

-----------------------------------------------------------------------------
Loop == StartRegister \/ StartClaim

Next ==
  \/ Loop \/ RegisterAnswered \/ RegisterFails \/ ClaimAnswered \/ ClaimFails
  \/ ServeRegister \/ ServeClaim \/ RefuseClaim \/ Restart \/ Tick
  \/ \E l \in NodeLease :
       CreateLease(l) \/ ExpireLease(l) \/ BridgeAttaches(l) \/ BridgeFails(l)

Spec == Init /\ [][Next]_vars

\* The loop and time go on.  A call that is tried again and again is at last
\* served and answered, and so a bridge at last reaches the relay.
Fairness ==
  /\ WF_vars(Tick) /\ WF_vars(Loop) /\ WF_vars(RegisterFails) /\ WF_vars(ClaimFails)
  /\ WF_vars(RefuseClaim)
  /\ SF_vars(ServeRegister) /\ SF_vars(RegisterAnswered)
  /\ SF_vars(ServeClaim) /\ SF_vars(ClaimAnswered)
  /\ \A l \in NodeLease : SF_vars(BridgeAttaches(l))

FairSpec == Spec /\ Fairness

-----------------------------------------------------------------------------
(* Properties.                                                             *)

\* Once the last fault (a restart of the control plane, a failed registration) is
\* longer ago than Recovery, the control plane served a registration no longer ago
\* than Renewal: so the node is registered, or it lapsed no longer ago than what
\* Renewal exceeds the lifetime by, which is nothing if it does not.
ReregistersInTime == calm > Recovery => expires >= Ttl - Renewal

\* A lease for this node is attached or runs out, even when the answer to the
\* claim that marked it was lost, or older leases come first.
LeaseIsServed == \A l \in NodeLease : lease[l] = "open" ~> lease[l] \in {"attached", "gone"}

=============================================================================
