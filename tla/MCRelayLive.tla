---------------------------- MODULE MCRelayLive -----------------------------
(***************************************************************************)
(* What the relay and the agent's connector bring about in the end.  The   *)
(* two share no state here, so an instance is one of them, chosen at the   *)
(* start, while the other stands still, and only the one that was chosen   *)
(* is treated fairly.                                                      *)
(***************************************************************************)
EXTENDS Relay

CONSTANTS
  Ttl, MinHalf, Call, ErrorSleep, Poll, Pause, MaxLeases, MaxBridges, Faults \* AgentNode

VARIABLES
  part,                                                     \* which of them it is
  pc, left, since, request, reply, expires, claims, bridges, calm \* AgentNode

Agent == INSTANCE AgentNode WITH lease <- claims

ASSUME RelayLiveAssumption == Agent!AgentNodeAssumption

agentVars == <<pc, left, since, request, reply, expires, claims, bridges, calm>>
bothVars == <<part, vars, agentVars>>

AllFaults == {"register", "claim", "restart"}

OnAgent(A) == part = "agent" /\ A /\ UNCHANGED <<part, vars>>
OnRelay(A) == part = "relay" /\ A /\ UNCHANGED <<part, agentVars>>

BothInit == part \in {"agent", "relay"} /\ Init /\ Agent!Init

BothNext == OnRelay(Next) \/ OnAgent(Agent!Next)

\* The fairness of the two modules, each for its own part.
BothFairness ==
  /\ WF_bothVars(OnRelay(Tick))
  /\ \A c \in Conn : WF_bothVars(OnRelay(Task(c)))
  /\ WF_bothVars(OnAgent(Agent!Tick)) /\ WF_bothVars(OnAgent(Agent!Loop))
  /\ WF_bothVars(OnAgent(Agent!RegisterFails)) /\ WF_bothVars(OnAgent(Agent!ClaimFails))
  /\ WF_bothVars(OnAgent(Agent!RefuseClaim))
  /\ SF_bothVars(OnAgent(Agent!ServeRegister)) /\ SF_bothVars(OnAgent(Agent!RegisterAnswered))
  /\ SF_bothVars(OnAgent(Agent!ServeClaim)) /\ SF_bothVars(OnAgent(Agent!ClaimAnswered))
  /\ \A l \in Agent!NodeLease : SF_bothVars(OnAgent(Agent!BridgeAttaches(l)))

BothSpec == BothInit /\ [][BothNext]_bothVars /\ BothFairness

\* AgentNode: after the last fault the registration is served again in time.
ReregistersInTime == Agent!ReregistersInTime

\* AgentNode: a lease for the node is attached or runs out.
LeaseIsServed == Agent!LeaseIsServed

=============================================================================
