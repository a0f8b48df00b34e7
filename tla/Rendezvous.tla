----------------------------- MODULE Rendezvous -----------------------------
(***************************************************************************)
(* What the relay promises, without its clock, its locks or its channels:  *)
(* a lease is offered once for one target node, it has one client seat and *)
(* one agent seat, each given to one connection for ever, the agent seat   *)
(* only after the target node claimed the lease, and the two seated        *)
(* connections are joined at most once.  Relay.tla implements it.          *)
(***************************************************************************)
EXTENDS Naturals

CONSTANTS Node, Lease, Conn, None

Role == {"client", "agent"}

VARIABLES
  offered,  \* the node each lease is addressed to, None before it exists
  claimed,  \* the leases their target node has claimed
  seat,     \* the connection that holds each seat of each lease
  joined    \* the leases whose two connections were spliced together

vars == <<offered, claimed, seat, joined>>

Init ==
  /\ offered = [l \in Lease |-> None]
  /\ claimed = {}
  /\ seat = [l \in Lease |-> [r \in Role |-> None]]
  /\ joined = {}

Offer(l, n) ==
  /\ offered[l] = None
  /\ offered' = [offered EXCEPT ![l] = n]
  /\ UNCHANGED <<claimed, seat, joined>>

Claim(l) ==
  /\ offered[l] # None
  /\ claimed' = claimed \cup {l}
  /\ UNCHANGED <<offered, seat, joined>>

Sit(l, r, c) ==
  /\ offered[l] # None
  /\ seat[l][r] = None
  /\ r = "agent" => l \in claimed
  /\ \A m \in Lease, s \in Role : seat[m][s] # c
  /\ seat' = [seat EXCEPT ![l][r] = c]
  /\ UNCHANGED <<offered, claimed, joined>>

Join(l) ==
  /\ l \notin joined
  /\ \A r \in Role : seat[l][r] # None
  /\ joined' = joined \cup {l}
  /\ UNCHANGED <<offered, claimed, seat>>

Next ==
  \/ \E l \in Lease, n \in Node : Offer(l, n)
  \/ \E l \in Lease : Claim(l)
  \/ \E l \in Lease, r \in Role, c \in Conn : Sit(l, r, c)
  \/ \E l \in Lease : Join(l)

Spec == Init /\ [][Next]_vars

=============================================================================
