-------------------------- MODULE AgentNodeProofs ---------------------------
(***************************************************************************)
(* AgentNode keeps its registration: type correctness and the bound on the *)
(* time without one, for every configuration that from_env accepts.        *)
(*                                                                         *)
(* The argument is a potential.  ToNext bounds the time until the control  *)
(* plane serves the next registration: no step of the loop may raise it    *)
(* and every unit of time lowers it.  So either what is left of the        *)
(* registration outlives it but for the excess of Renewal over the         *)
(* lifetime, or the last fault is so recent that Recovery is not over by   *)
(* then.                                                                   *)
(***************************************************************************)
EXTENDS MCRelayLive, Integers, TLAPS

\* The longest time until the next registration is served, or fails.
ToNext ==
  IF pc = "registering"
  THEN IF request = "sent" THEN left
       ELSE IF request = "served" THEN left + Agent!LastLook + Call
       ELSE left + Agent!LastLook
  ELSE IF pc = "claiming" THEN Agent!MaxOf(left + Agent!Sleep, Agent!LastLook - since) + Call
  ELSE Agent!MaxOf(left, Agent!LastLook - since) + Call

\* A call has no more time left than a call takes, a sleep than a sleep.
Waiting ==
  /\ pc \in {"registering", "claiming"} => left <= Call
  /\ pc = "sleeping" => left <= Agent!Sleep

Scheduled == expires - ToNext >= Ttl - Agent!Renewal \/ calm + ToNext <= Agent!Recovery

-----------------------------------------------------------------------------
(* What the constants amount to. *)

\* The larger of two numbers.
LEMMA MaxOfFacts ==
  ASSUME NEW a \in Int, NEW b \in Int
  PROVE  Agent!MaxOf(a, b) \in Int /\ Agent!MaxOf(a, b) >= a /\ Agent!MaxOf(a, b) >= b
         /\ Agent!MaxOf(a, b) \in {a, b}
  BY DEF Agent!MaxOf

\* Every sleep fits in Sleep, and Floor is below what a fault-free loop can reach.
LEMMA ConstantFacts ==
  /\ Ttl \in Nat /\ Call \in Nat /\ Call >= 1 /\ Agent!Half \in Nat /\ Agent!Half >= 1
  /\ Agent!Sleep \in Nat /\ ErrorSleep \in 0..Agent!Sleep /\ Poll \in 0..Agent!Sleep
  /\ Pause \in 0..Agent!Sleep
  /\ Agent!LastLook = Agent!Half - 1 + Call + Agent!Sleep /\ Agent!LastLook \in Nat
  /\ Agent!Recovery = Agent!LastLook + Call /\ Agent!Recovery \in Nat
  /\ Agent!Renewal = Agent!LastLook + 2 * Call /\ Agent!Renewal \in Nat
  /\ Agent!Floor \in Int /\ Agent!Floor < 0 /\ Agent!Floor < Ttl - Agent!Renewal
<1>1. Ttl \in Nat /\ MinHalf \in Nat \ {0} /\ Call \in Nat \ {0}
      /\ ErrorSleep \in Nat /\ Poll \in Nat /\ Pause \in Nat
  BY RelayLiveAssumption DEF Agent!AgentNodeAssumption
<1>2. Agent!Half \in Nat /\ Agent!Half >= 1
  <2>1. Ttl \div 2 \in Int
    BY <1>1
  <2> QED
    BY <1>1, <2>1, MaxOfFacts DEF Agent!Half
<1>3. Agent!Sleep \in Nat /\ ErrorSleep <= Agent!Sleep /\ Poll <= Agent!Sleep
      /\ Pause <= Agent!Sleep
  BY <1>1 DEF Agent!Sleep, Agent!MaxOf
<1>4. Agent!LastLook \in Nat /\ Agent!LastLook = Agent!Half - 1 + Call + Agent!Sleep
      /\ Agent!Recovery = Agent!LastLook + Call
      /\ Agent!Renewal = Agent!LastLook + 2 * Call
  BY <1>1, <1>2, <1>3 DEF Agent!LastLook, Agent!Recovery, Agent!Renewal
<1>5. Agent!Renewal - Ttl \in Int
  BY <1>1, <1>4
<1>6. Agent!Floor \in Int /\ Agent!Floor < 0 /\ Agent!Floor < Ttl - Agent!Renewal
  BY <1>1, <1>4, <1>5 DEF Agent!Floor, Agent!MaxOf
<1> QED
  BY <1>1, <1>2, <1>3, <1>4, <1>6

-----------------------------------------------------------------------------
(* Type correctness. *)

\* Every variable of the loop, of the control plane and of the history keeps
\* its type, the durations their bounds.
THEOREM AgentNodeTypeOK == Agent!Spec => []Agent!TypeOK
<1>1. Agent!Init => Agent!TypeOK
  BY ConstantFacts, RelayLiveAssumption DEF Agent!AgentNodeAssumption, Agent!Init,
      Agent!TypeOK, Agent!MaxOf
<1>2. Agent!TypeOK /\ [Agent!Next]_(Agent!vars) => Agent!TypeOK'
  <2> SUFFICES ASSUME Agent!TypeOK, [Agent!Next]_(Agent!vars) PROVE Agent!TypeOK'
    OBVIOUS
  <2> USE ConstantFacts, RelayLiveAssumption DEF Agent!AgentNodeAssumption, Agent!TypeOK,
      Agent!plane, Agent!loop, Agent!MaxOf
  <2>1. CASE Agent!StartRegister
    BY <2>1 DEF Agent!StartRegister, Agent!Await
  <2>2. CASE Agent!StartClaim
    BY <2>2 DEF Agent!StartClaim, Agent!Await
  <2>3. CASE Agent!RegisterAnswered
    BY <2>3 DEF Agent!RegisterAnswered, Agent!Await
  <2>4. CASE Agent!RegisterFails
    BY <2>4 DEF Agent!RegisterFails, Agent!Await
  <2>5. CASE Agent!ClaimAnswered
    BY <2>5 DEF Agent!ClaimAnswered, Agent!Await
  <2>6. CASE Agent!ClaimFails
    BY <2>6 DEF Agent!ClaimFails, Agent!Await
  <2>7. CASE Agent!ServeRegister
    BY <2>7 DEF Agent!ServeRegister
  <2>8. CASE Agent!ServeClaim
    BY <2>8 DEF Agent!ServeClaim, Agent!Claimable
  <2>9. CASE Agent!RefuseClaim
    BY <2>9 DEF Agent!RefuseClaim
  <2>10. CASE Agent!Restart
    BY <2>10 DEF Agent!Restart
  <2>11. CASE Agent!Tick
    BY <2>11 DEF Agent!Tick
  <2>12. ASSUME NEW l \in Agent!NodeLease,
                Agent!CreateLease(l) \/ Agent!ExpireLease(l) \/ Agent!BridgeAttaches(l)
                \/ Agent!BridgeFails(l)
         PROVE  Agent!TypeOK'
    BY <2>12 DEF Agent!CreateLease, Agent!ExpireLease, Agent!BridgeAttaches, Agent!BridgeFails
  <2>13. CASE UNCHANGED Agent!vars
    BY <2>13 DEF Agent!vars
  <2> QED
    BY <2>1, <2>2, <2>3, <2>4, <2>5, <2>6, <2>7, <2>8, <2>9, <2>10, <2>11,
       <2>12, <2>13 DEF Agent!Next, Agent!Loop
<1> QED
  BY <1>1, <1>2, PTL DEF Agent!Spec

-----------------------------------------------------------------------------
(* The registration. *)

\* The part of the state that the argument looks at.
Quiet == UNCHANGED <<pc, left, since, request, expires, calm>>

\* A step that moves neither the loop nor time nor the registration keeps the
\* schedule.
LEMMA QuietKeepsSchedule ==
  ASSUME Waiting, Scheduled, Quiet
  PROVE  Waiting' /\ Scheduled'
  BY DEF Waiting, Scheduled, ToNext, Quiet

\* No step of the loop puts the next registration off, a service leaves more
\* lifetime than the next one can take, and a fault restarts the count.
LEMMA ScheduleIsKept ==
  ASSUME Agent!TypeOK, Agent!TypeOK', Waiting, Scheduled, [Agent!Next]_(Agent!vars)
  PROVE  Waiting' /\ Scheduled'
<1> USE ConstantFacts DEF Agent!TypeOK, Waiting
<1>1. CASE Agent!StartRegister
  BY <1>1 DEF Agent!StartRegister, Agent!Await, Agent!plane, Scheduled, ToNext, Agent!MaxOf
<1>2. CASE Agent!StartClaim
  BY <1>2 DEF Agent!StartClaim, Agent!Await, Agent!plane, Scheduled, ToNext, Agent!MaxOf
<1>3. CASE Agent!RegisterAnswered
  BY <1>3 DEF Agent!RegisterAnswered, Agent!Await, Agent!plane, Scheduled, ToNext, Agent!MaxOf
<1>4. CASE Agent!RegisterFails
  BY <1>4 DEF Agent!RegisterFails, Agent!Await, Agent!plane, Scheduled, ToNext, Agent!MaxOf
<1>5. CASE Agent!ClaimAnswered
  BY <1>5 DEF Agent!ClaimAnswered, Agent!Await, Agent!plane, Scheduled, ToNext, Agent!MaxOf
<1>6. CASE Agent!ClaimFails
  BY <1>6 DEF Agent!ClaimFails, Agent!Await, Agent!plane, Scheduled, ToNext, Agent!MaxOf
<1>7. CASE Agent!ServeRegister
  BY <1>7 DEF Agent!ServeRegister, Scheduled, ToNext, Agent!MaxOf
<1>8. CASE Agent!ServeClaim
  BY <1>8 DEF Agent!ServeClaim, Scheduled, ToNext, Agent!MaxOf
<1>9. CASE Agent!RefuseClaim
  BY <1>9 DEF Agent!RefuseClaim, Agent!plane, Scheduled, ToNext, Agent!MaxOf
<1>10. CASE Agent!Restart
  BY <1>10 DEF Agent!Restart, Scheduled, ToNext, Agent!MaxOf
<1>11. CASE Agent!Tick
  BY <1>11 DEF Agent!Tick, Scheduled, ToNext, Agent!MaxOf
<1>12. ASSUME NEW l \in Agent!NodeLease,
              Agent!CreateLease(l) \/ Agent!ExpireLease(l) \/ Agent!BridgeAttaches(l)
              \/ Agent!BridgeFails(l)
       PROVE  Waiting' /\ Scheduled'
  BY <1>12, QuietKeepsSchedule
     DEF Agent!CreateLease, Agent!ExpireLease, Agent!BridgeAttaches, Agent!BridgeFails,
         Agent!loop, Agent!plane, Quiet
<1>13. CASE UNCHANGED Agent!vars
  BY <1>13, QuietKeepsSchedule DEF Agent!vars, Quiet
<1> QED
  BY <1>1, <1>2, <1>3, <1>4, <1>5, <1>6, <1>7, <1>8, <1>9, <1>10, <1>11,
     <1>12, <1>13 DEF Agent!Next, Agent!Loop

\* For every configuration, once the last fault is longer ago than Recovery a
\* registration was served no longer ago than Renewal.
THEOREM AgentNodeReregisters == Agent!Spec => []ReregistersInTime
<1>1. Agent!Init => Waiting /\ Scheduled
  BY ConstantFacts DEF Agent!Init, Waiting, Scheduled, ToNext, Agent!MaxOf
<1>2. Agent!TypeOK /\ Agent!TypeOK' /\ Waiting /\ Scheduled
      /\ [Agent!Next]_(Agent!vars) => Waiting' /\ Scheduled'
  BY ScheduleIsKept
<1>3. Agent!TypeOK /\ Waiting /\ Scheduled => ReregistersInTime
  BY ConstantFacts DEF Agent!TypeOK, Waiting, Scheduled, ToNext, ReregistersInTime,
                       Agent!ReregistersInTime, Agent!MaxOf
<1>4. Agent!Spec => []Agent!TypeOK
  BY AgentNodeTypeOK
<1> QED
  BY <1>1, <1>2, <1>3, <1>4, PTL DEF Agent!Spec

\* A configuration whose lifetime is longer than Renewal never lets the
\* registration lapse, but for Recovery after a fault.
THEOREM AgentNodeStaysRegistered ==
  ASSUME Agent!Renewal < Ttl
  PROVE  Agent!Spec => [](calm > Agent!Recovery => expires > 0)
<1>1. Agent!TypeOK /\ ReregistersInTime => (calm > Agent!Recovery => expires > 0)
  BY ConstantFacts DEF Agent!TypeOK, ReregistersInTime, Agent!ReregistersInTime
<1> QED
  BY <1>1, AgentNodeTypeOK, AgentNodeReregisters, PTL

=============================================================================
