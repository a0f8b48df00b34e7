---------------------------- MODULE RelayProofs -----------------------------
(***************************************************************************)
(* TLAPS proofs about Relay: the inductive invariant IInv holds for every  *)
(* set of nodes, leases and connections and every lifetime, with it the    *)
(* safety properties the runs check, and every step is one of Rendezvous.  *)
(***************************************************************************)
EXTENDS Relay, TLAPS

LEMMA InitInv == Init => IInv
<1> SUFFICES ASSUME Init PROVE IInv
  OBVIOUS
<1> USE RelayAssumption DEF Init, Idle, NoLease, Seated
<1>1. TypeOK
  BY DEF TypeOK, LeaseRecord, ConnRecord, Pc, Role
<1>2. /\ LeasesWellFormed /\ SeatsWellFormed /\ PeersWellFormed
      /\ TakenOutOfMap /\ SeatsGivenOnce
  BY DEF LeasesWellFormed, SeatsWellFormed, PeersWellFormed, TakenOutOfMap,
         SeatsGivenOnce
<1>3. PendingOwned /\ NeverBothPending /\ SpentLeaseGone /\ WaiterKeepsItsSender
  BY DEF PendingOwned, NeverBothPending, SpentLeaseGone, WaiterKeepsItsSender, Role
<1> QED
  BY <1>1, <1>2, <1>3 DEF IInv

(* What removing the senders of a set of leases does to the map.           *)
LEMMA WithoutPendingType ==
  ASSUME TypeOK, NEW L
  PROVE  WithoutPending(L) \in [Role -> [Lease -> Conn \cup {None}]]
  BY DEF TypeOK, WithoutPending

LEMMA WithoutSubset ==
  ASSUME TypeOK, NEW L
  PROVE  \A r \in Role, l \in Lease :
           /\ WithoutPending(L)[r][l] \in {None, pending[r][l]}
           /\ l \notin L => WithoutPending(L)[r][l] = pending[r][l]
           /\ l \in L => WithoutPending(L)[r][l] = None
           /\ pending[r][l] \in Conn \cup {None}
  BY DEF TypeOK, WithoutPending

(* Sweeping a set of leases, whatever happens to the nodes and the clock.  *)
LEMMA RemoveLeasesInv ==
  ASSUME IInv, NEW L, RemoveLeases(L),
         UNCHANGED <<issued, lease, conn>>,
         clock' \in Nat, nodes' \in [Node -> Nat]
  PROVE  IInv'
<1> USE RelayAssumption DEF IInv, RemoveLeases, WithoutPending
<1>1. TypeOK'
  BY DEF TypeOK
<1>2. LeasesWellFormed'
  BY DEF LeasesWellFormed
<1>3. SeatsWellFormed'
  BY DEF SeatsWellFormed, Seated
<1>4. PeersWellFormed'
  BY DEF PeersWellFormed, Met, Seated, SameLease
<1>5. SeatsGivenOnce'
  BY DEF SeatsGivenOnce, Seated, SameLease
<1>6. PendingOwned'
  BY DEF PendingOwned
<1>7. NeverBothPending'
  BY DEF NeverBothPending
<1>8. SpentLeaseGone'
  BY DEF SpentLeaseGone
<1>9. WaiterKeepsItsSender'
  BY DEF WaiterKeepsItsSender, SenderAlive, SeatsWellFormed, Seated, TypeOK, ConnRecord
<1>10. TakenOutOfMap'
  BY WithoutSubset DEF TakenOutOfMap, SeatsWellFormed, Seated, TypeOK
<1> QED
  BY <1>1, <1>2, <1>3, <1>4, <1>5, <1>6, <1>7, <1>8, <1>9, <1>10

LEMMA RetainedNodesType ==
  ASSUME TypeOK, NEW now PROVE RetainedNodes(now) \in [Node -> Nat]
  BY DEF TypeOK, RetainedNodes

LEMMA RegisterNodeInv ==
  ASSUME IInv, NEW n \in Node, NEW ttl \in NodeTtls, RegisterNode(n, ttl)
  PROVE  IInv'
<1> PICK now \in Readings :
      /\ nodes' = [RetainedNodes(now) EXCEPT ![n] = now + ttl]
      /\ CleanupExpired(now)
      /\ UNCHANGED <<clock, issued, lease, conn>>
  BY DEF RegisterNode
<1>1. clock' \in Nat /\ nodes' \in [Node -> Nat]
  BY RelayAssumption, RetainedNodesType DEF IInv, TypeOK, Readings
<1> QED
  BY <1>1, RemoveLeasesInv DEF CleanupExpired

LEMMA SweepInv == IInv /\ Sweep => IInv'
  BY RetainedNodesType, RemoveLeasesInv DEF Sweep, CleanupExpired, IInv, TypeOK

LEMMA CreateLeaseInv ==
  ASSUME IInv, NEW l \in Lease, NEW n \in Node, NEW ttl \in LeaseTtls,
         CreateLease(l, n, ttl)
  PROVE  IInv'
<1> PICK now \in Readings :
      /\ l \notin issued
      /\ nodes' = RetainedNodes(now)
      /\ issued' = issued \cup {l}
      /\ lease' = [lease EXCEPT ![l] =
                     [target |-> n, issuedAt |-> now, expiresAt |-> now + ttl,
                      claimedBy |-> None, connected |-> {}]]
      /\ live' = Unexpired(now) \cup {l}
      /\ pending' = WithoutPending(Expired(now))
      /\ UNCHANGED <<clock, conn>>
  BY DEF CreateLease
<1> USE RelayAssumption DEF IInv
<1>1. TypeOK'
  BY RetainedNodesType
     DEF TypeOK, LeaseRecord, Readings, Unexpired, WithoutPending, Role
<1>2. \A c \in Conn : Seated(c) => conn[c].lease # l /\ conn[c].lease \in issued
  BY DEF SeatsWellFormed
<1>3. LeasesWellFormed'
  BY DEF LeasesWellFormed, TypeOK
<1>4. SeatsWellFormed'
  BY <1>2 DEF SeatsWellFormed, Seated, Unexpired, TypeOK
<1>5. PeersWellFormed'
  BY DEF PeersWellFormed, Met, Seated, SameLease
<1>6. SeatsGivenOnce'
  BY DEF SeatsGivenOnce, Seated, SameLease
<1>7. PendingOwned' /\ NeverBothPending'
  BY DEF PendingOwned, NeverBothPending, WithoutPending
<1>8. SpentLeaseGone'
  BY <1>2 DEF SpentLeaseGone, Seated, Unexpired
<1>9. WaiterKeepsItsSender'
  BY <1>2 DEF WaiterKeepsItsSender, SenderAlive, Seated, Unexpired, WithoutPending, TypeOK, ConnRecord
<1>10. TakenOutOfMap'
  BY WithoutSubset DEF TakenOutOfMap, SeatsWellFormed, Seated, TypeOK
<1> QED
  BY <1>1, <1>3, <1>4, <1>5, <1>6, <1>7, <1>8, <1>9, <1>10

LEMMA ClaimedRecord ==
  ASSUME NEW rec \in LeaseRecord, NEW n \in Node
  PROVE  LET new == [rec EXCEPT !.claimedBy = n]
         IN  /\ new \in LeaseRecord
             /\ new.target = rec.target
             /\ new.connected = rec.connected
             /\ new.claimedBy = n
  BY DEF LeaseRecord

LEMMA AttachedRecord ==
  ASSUME NEW rec \in LeaseRecord, NEW r \in Role
  PROVE  LET new == [rec EXCEPT !.connected = @ \cup {r}]
         IN  /\ new \in LeaseRecord
             /\ new.target = rec.target
             /\ new.claimedBy = rec.claimedBy
             /\ new.connected = rec.connected \cup {r}
  BY DEF LeaseRecord

LEMMA ClaimLeaseInv ==
  ASSUME IInv, NEW n \in Node, ClaimLease(n)
  PROVE  IInv'
<1>1. PICK now \in Readings : \E l \in Claimable(n, now) :
        /\ lease' = [lease EXCEPT ![l].claimedBy = n]
        /\ nodes' = RetainedNodes(now)
        /\ CleanupExpired(now)
        /\ UNCHANGED <<clock, issued, conn>>
  BY DEF ClaimLease
<1>2. PICK l \in Claimable(n, now) :
        /\ lease' = [lease EXCEPT ![l].claimedBy = n]
        /\ nodes' = RetainedNodes(now)
        /\ CleanupExpired(now)
        /\ UNCHANGED <<clock, issued, conn>>
  BY <1>1
<1> USE RelayAssumption DEF IInv
<1>3. l \in Lease /\ l \in issued /\ lease[l].target = n
  BY DEF Claimable, Unexpired, TypeOK
<1>4. /\ lease' \in [Lease -> LeaseRecord]
      /\ \A m \in Lease : /\ lease'[m].target = lease[m].target
                          /\ lease'[m].connected = lease[m].connected
                          /\ m # l => lease'[m].claimedBy = lease[m].claimedBy
                          /\ m = l => lease'[m].claimedBy = n
  <2> DEFINE new == [lease[l] EXCEPT !.claimedBy = n]
  <2>1. lease' = [lease EXCEPT ![l] = new]
    BY <1>2
  <2>2. /\ new \in LeaseRecord
        /\ new.target = lease[l].target
        /\ new.connected = lease[l].connected
        /\ new.claimedBy = n
    BY <1>3, ClaimedRecord DEF TypeOK
  <2> HIDE DEF new
  <2> QED
    BY <1>3, <2>1, <2>2 DEF TypeOK
<1>5. /\ nodes' = RetainedNodes(now)
      /\ live' = live \ Expired(now)
      /\ pending' = WithoutPending(Expired(now))
      /\ UNCHANGED <<clock, issued, conn>>
  BY <1>2 DEF CleanupExpired, RemoveLeases
<1>6. TypeOK'
  BY <1>4, <1>5, RetainedNodesType, WithoutPendingType DEF TypeOK
<1>7. LeasesWellFormed'
  BY <1>3, <1>4, <1>5 DEF LeasesWellFormed, TypeOK
<1>8. SeatsWellFormed'
  BY <1>3, <1>4, <1>5 DEF SeatsWellFormed, Seated, TypeOK
<1>9. PeersWellFormed' /\ SeatsGivenOnce'
  BY <1>5 DEF PeersWellFormed, Met, SeatsGivenOnce, Seated, SameLease
<1>10. PendingOwned' /\ NeverBothPending'
  BY <1>5 DEF PendingOwned, NeverBothPending, WithoutPending
<1>11. SpentLeaseGone'
  BY <1>5 DEF SpentLeaseGone
<1>12. WaiterKeepsItsSender'
  BY <1>5 DEF WaiterKeepsItsSender, SenderAlive, SeatsWellFormed, Seated,
              WithoutPending, TypeOK, ConnRecord
<1>13. TakenOutOfMap'
  BY <1>5, WithoutSubset DEF TakenOutOfMap, SeatsWellFormed, Seated, TypeOK
<1> QED
  BY <1>6, <1>7, <1>8, <1>9, <1>10, <1>11, <1>12, <1>13

(* The record of one connection replaced by another.                       *)
LEMMA ConnReplaced ==
  ASSUME TypeOK, NEW c \in Conn, NEW rec \in ConnRecord,
         conn' = [conn EXCEPT ![c] = rec]
  PROVE  /\ conn' \in [Conn -> ConnRecord]
         /\ conn'[c] = rec
         /\ \A d \in Conn : d # c => conn'[d] = conn[d]
  BY DEF TypeOK

(* What changing single fields of the record of a connection yields.       *)
LEMMA RecordWithPc ==
  ASSUME NEW rec \in ConnRecord, NEW pc \in Pc
  PROVE  LET new == [rec EXCEPT !.pc = pc]
         IN  /\ new \in ConnRecord
             /\ new.pc = pc /\ new.role = rec.role /\ new.lease = rec.lease
             /\ new.peer = rec.peer /\ new.deadline = rec.deadline
  BY DEF ConnRecord

(* The same for the record of a lease.                                      *)
LEMMA LeaseReplaced ==
  ASSUME TypeOK, NEW l \in Lease, NEW rec \in LeaseRecord,
         lease' = [lease EXCEPT ![l] = rec]
  PROVE  /\ lease' \in [Lease -> LeaseRecord]
         /\ lease'[l] = rec
         /\ \A m \in Lease : m # l => lease'[m] = lease[m]
  BY DEF TypeOK

LEMMA AttachInv ==
  ASSUME IInv, NEW c \in Conn, NEW r \in Role, NEW l \in Lease,
         NEW n \in Node, NEW target \in Node, Attach(c, r, l, n, target)
  PROVE  IInv'
<1> PICK now \in Readings :
      /\ conn[c].pc = "idle"
      /\ l \in issued
      /\ Admissible(r, l, n, target, now)
      /\ lease' = [lease EXCEPT ![l].connected = @ \cup {r}]
      /\ conn' = [conn EXCEPT ![c] = [pc |-> "admitted", role |-> r, lease |-> l,
                                      peer |-> None, deadline |-> 0]]
      /\ nodes' = RetainedNodes(now)
      /\ CleanupExpired(now)
      /\ UNCHANGED <<clock, issued>>
  BY DEF Attach
<1> USE RelayAssumption DEF IInv, CleanupExpired, RemoveLeases
<1>1. /\ l \in live
      /\ r \notin lease[l].connected
      /\ r = "agent" => lease[l].claimedBy = n
  BY DEF Admissible, Unexpired
<1>2. /\ lease' \in [Lease -> LeaseRecord]
      /\ \A m \in Lease : /\ lease'[m].target = lease[m].target
                          /\ lease'[m].claimedBy = lease[m].claimedBy
                          /\ m # l => lease'[m].connected = lease[m].connected
                          /\ m = l => lease'[m].connected = lease[m].connected \cup {r}
  <2> DEFINE new == [lease[l] EXCEPT !.connected = @ \cup {r}]
  <2>1. lease' = [lease EXCEPT ![l] = new]
    OBVIOUS
  <2>2. /\ new \in LeaseRecord
        /\ new.target = lease[l].target
        /\ new.claimedBy = lease[l].claimedBy
        /\ new.connected = lease[l].connected \cup {r}
    BY AttachedRecord DEF TypeOK
  <2> HIDE DEF new
  <2>3. /\ lease' \in [Lease -> LeaseRecord]
        /\ lease'[l] = new
        /\ \A m \in Lease : m # l => lease'[m] = lease[m]
    BY <2>1, <2>2, LeaseReplaced
  <2> QED
    BY <2>2, <2>3
<1>3. /\ conn' \in [Conn -> ConnRecord]
      /\ conn'[c] = [pc |-> "admitted", role |-> r, lease |-> l,
                     peer |-> None, deadline |-> 0]
      /\ \A d \in Conn : d # c => conn'[d] = conn[d]
  <2>1. [pc |-> "admitted", role |-> r, lease |-> l, peer |-> None, deadline |-> 0]
          \in ConnRecord
    BY DEF TypeOK, ConnRecord, Pc
  <2> QED
    BY <2>1, ConnReplaced
\* The seat was free: a seated connection would have raised the flag.
<1>4. \A d \in Conn : Seated(d) /\ conn[d].lease = l => conn[d].role # r
  BY <1>1 DEF SeatsWellFormed
\* No one refers to a connection that was idle.
<1>5. /\ \A s \in Role, m \in Lease : pending[s][m] # c
      /\ \A d \in Conn : conn[d].pc \in {"taking", "handed", "bridging"}
                           => conn[d].peer # c
  <2>1. c # None
    OBVIOUS
  <2>2. \A s \in Role, m \in Lease : pending[s][m] # c
    BY <2>1 DEF PendingOwned
  <2>3. \A d \in Conn : conn[d].pc \in {"taking", "handed", "bridging"}
                           => conn[d].peer # c
    BY DEF PeersWellFormed, Met, Seated
  <2> QED
    BY <2>2, <2>3
<1>6. TypeOK'
  BY <1>2, <1>3, RetainedNodesType, WithoutPendingType DEF TypeOK
<1>7. LeasesWellFormed'
  BY <1>2 DEF LeasesWellFormed, TypeOK
<1>8. SeatsWellFormed'
  BY <1>1, <1>2, <1>3 DEF SeatsWellFormed, Seated, TypeOK
<1>9. PeersWellFormed'
  BY <1>3, <1>5 DEF PeersWellFormed, Met, Seated, SameLease
<1>10. SeatsGivenOnce'
  BY <1>3, <1>4 DEF SeatsGivenOnce, Seated, SameLease
<1>11. PendingOwned'
  BY <1>3, <1>5 DEF PendingOwned, WithoutPending
<1>12. NeverBothPending'
  BY DEF NeverBothPending, WithoutPending
<1>13. SpentLeaseGone'
  BY <1>3 DEF SpentLeaseGone
<1>14. WaiterKeepsItsSender'
  <2> SUFFICES ASSUME NEW w \in Conn, conn'[w].pc = "waiting",
                      conn'[w].lease \in live'
               PROVE  SenderAlive(w)'
    BY DEF WaiterKeepsItsSender
  <2>1. w # c /\ conn'[w] = conn[w] /\ SenderAlive(w)
    BY <1>3 DEF WaiterKeepsItsSender
  <2>2. \A d \in Conn : conn[d].pc = "taking" => d # c
    OBVIOUS
  <2> QED
    BY <1>3, <2>1, <2>2
       DEF SenderAlive, WithoutPending, TypeOK, ConnRecord, SeatsWellFormed, Seated
<1>15. TakenOutOfMap'
  BY <1>3, WithoutSubset DEF TakenOutOfMap, SeatsWellFormed, Seated, TypeOK
<1> QED
  BY <1>6, <1>7, <1>8, <1>9, <1>10, <1>11, <1>12, <1>13, <1>14, <1>15

(* A step that only moves one connection to pc, leaving every other field. *)
LEMMA GotoType ==
  ASSUME TypeOK, NEW c \in Conn, NEW pc \in Pc, Goto(c, pc)
  PROVE  /\ conn' \in [Conn -> ConnRecord]
         /\ \A d \in Conn : /\ conn'[d].role = conn[d].role
                            /\ conn'[d].lease = conn[d].lease
                            /\ conn'[d].peer = conn[d].peer
                            /\ conn'[d].deadline = conn[d].deadline
                            /\ conn'[d].pc = IF d = c THEN pc ELSE conn[d].pc
  BY DEF TypeOK, Goto, ConnRecord

\* A step that also sets the deadline of that connection, or its peer.
LEMMA WaitType ==
  ASSUME TypeOK, NEW c \in Conn, NEW t \in Nat,
         conn' = [conn EXCEPT ![c].pc = "waiting", ![c].deadline = t]
  PROVE  /\ conn' \in [Conn -> ConnRecord]
         /\ \A d \in Conn : /\ conn'[d].role = conn[d].role
                            /\ conn'[d].lease = conn[d].lease
                            /\ conn'[d].peer = conn[d].peer
                            /\ conn'[d].pc = IF d = c THEN "waiting" ELSE conn[d].pc
<1> DEFINE new == [conn[c] EXCEPT !.pc = "waiting", !.deadline = t]
<1>1. conn' = [conn EXCEPT ![c] = new]
  OBVIOUS
<1>2. conn[c] \in ConnRecord /\ "waiting" \in Pc
  BY DEF TypeOK, Pc
<1>3. /\ new \in ConnRecord
      /\ new.pc = "waiting" /\ new.role = conn[c].role /\ new.lease = conn[c].lease
      /\ new.peer = conn[c].peer
  BY <1>2 DEF ConnRecord
<1> HIDE DEF new
<1>4. conn' \in [Conn -> ConnRecord] /\ conn'[c] = new
      /\ \A d \in Conn : d # c => conn'[d] = conn[d]
  BY <1>1, <1>3, ConnReplaced
<1> QED
  BY <1>3, <1>4

LEMMA TakeType ==
  ASSUME TypeOK, NEW c \in Conn, NEW w \in Conn,
         conn' = [conn EXCEPT ![c].pc = "taking", ![c].peer = w]
  PROVE  /\ conn' \in [Conn -> ConnRecord]
         /\ \A d \in Conn : /\ conn'[d].role = conn[d].role
                            /\ conn'[d].lease = conn[d].lease
                            /\ conn'[d].peer = IF d = c THEN w ELSE conn[d].peer
                            /\ conn'[d].pc = IF d = c THEN "taking" ELSE conn[d].pc
<1> DEFINE new == [conn[c] EXCEPT !.pc = "taking", !.peer = w]
<1>1. conn' = [conn EXCEPT ![c] = new]
  OBVIOUS
<1>2. conn[c] \in ConnRecord /\ "taking" \in Pc
  BY DEF TypeOK, Pc
<1>3. /\ new \in ConnRecord
      /\ new.pc = "taking" /\ new.role = conn[c].role /\ new.lease = conn[c].lease
      /\ new.peer = w
  BY <1>2 DEF ConnRecord
<1> HIDE DEF new
<1>4. conn' \in [Conn -> ConnRecord] /\ conn'[c] = new
      /\ \A d \in Conn : d # c => conn'[d] = conn[d]
  BY <1>1, <1>3, ConnReplaced
<1> QED
  BY <1>3, <1>4

LEMMA AttachRefusedInv ==
  ASSUME IInv, NEW c \in Conn, NEW r \in Role, NEW l \in Lease,
         NEW n \in Node, NEW target \in Node, AttachRefused(c, r, l, n, target)
  PROVE  IInv'
<1>1. PICK now \in Readings :
        /\ conn[c].pc = "idle"
        /\ Goto(c, "rejected")
        /\ nodes' = RetainedNodes(now)
        /\ CleanupExpired(now)
        /\ UNCHANGED <<clock, issued, lease>>
  BY DEF AttachRefused
<1> USE RelayAssumption DEF IInv
<1>2. /\ live' = live \ Expired(now)
      /\ pending' = WithoutPending(Expired(now))
  BY <1>1 DEF CleanupExpired, RemoveLeases
<1>3. /\ conn' \in [Conn -> ConnRecord]
      /\ \A d \in Conn : /\ conn'[d].role = conn[d].role
                         /\ conn'[d].lease = conn[d].lease
                         /\ conn'[d].peer = conn[d].peer
                         /\ conn'[d].pc = IF d = c THEN "rejected" ELSE conn[d].pc
  <2>1. "rejected" \in Pc
    BY DEF Pc
  <2> QED
    BY <1>1, <2>1, GotoType
<1>4. /\ \A s \in Role, m \in Lease : pending[s][m] # c
      /\ \A d \in Conn : conn[d].pc \in {"taking", "handed", "bridging"}
                           => conn[d].peer # c
  BY <1>1 DEF PendingOwned, PeersWellFormed, Met, Seated
<1>5. TypeOK'
  BY <1>1, <1>2, <1>3, RetainedNodesType, WithoutPendingType DEF TypeOK
<1>6. LeasesWellFormed' /\ SeatsWellFormed' /\ SeatsGivenOnce'
  BY <1>1, <1>2, <1>3
     DEF LeasesWellFormed, SeatsWellFormed, SeatsGivenOnce, Seated, SameLease
<1>7. PeersWellFormed'
  BY <1>3, <1>4 DEF PeersWellFormed, Met, Seated, SameLease
<1>8. PendingOwned' /\ NeverBothPending'
  BY <1>2, <1>3, <1>4, WithoutSubset DEF PendingOwned, NeverBothPending
<1>9. SpentLeaseGone'
  BY <1>2, <1>3 DEF SpentLeaseGone
<1>10. WaiterKeepsItsSender'
  <2> SUFFICES ASSUME NEW w \in Conn, conn'[w].pc = "waiting",
                      conn'[w].lease \in live'
               PROVE  SenderAlive(w)'
    BY DEF WaiterKeepsItsSender
  <2>1. /\ w # c /\ conn[w].pc = "waiting" /\ SenderAlive(w)
        /\ conn[w].role \in Role /\ conn[w].lease \in Lease \ Expired(now)
    BY <1>2, <1>3 DEF WaiterKeepsItsSender, TypeOK, ConnRecord
  <2> QED
    BY <1>1, <1>2, <1>3, <2>1, WithoutSubset DEF SenderAlive
<1>11. TakenOutOfMap'
  BY <1>2, <1>3, WithoutSubset DEF TakenOutOfMap, SeatsWellFormed, Seated, TypeOK
<1> QED
  BY <1>5, <1>6, <1>7, <1>8, <1>9, <1>10, <1>11

LEMMA MeetWaiterInv ==
  ASSUME IInv, NEW c \in Conn, MeetWaiter(c)
  PROVE  IInv'
<1> DEFINE l == conn[c].lease
           w == pending[Other(conn[c].role)][l]
<1> USE RelayAssumption DEF IInv
<1>1. /\ conn[c].pc = "admitted"
      /\ w # None
      /\ live' = live \ {l}
      /\ pending' = WithoutPending({l})
      /\ conn' = [conn EXCEPT ![c].pc = "taking", ![c].peer = w]
      /\ UNCHANGED <<clock, nodes, issued, lease>>
  BY DEF MeetWaiter, RemoveLeases
<1>2. l \in issued /\ l \in Lease /\ Other(conn[c].role) \in Role
  BY <1>1 DEF SeatsWellFormed, Seated, TypeOK, Other, Role
<1>3. /\ w \in Conn
      /\ conn[w].pc \in {"waiting", "elapsed", "failing"}
      /\ conn[w].role = Other(conn[c].role)
      /\ conn[w].lease = l
  BY <1>1, <1>2 DEF PendingOwned, TypeOK
<1> HIDE DEF l, w
<1>4. /\ conn' \in [Conn -> ConnRecord]
      /\ \A d \in Conn : /\ conn'[d].role = conn[d].role
                         /\ conn'[d].lease = conn[d].lease
                         /\ conn'[d].peer = IF d = c THEN w ELSE conn[d].peer
                         /\ conn'[d].pc = IF d = c THEN "taking" ELSE conn[d].pc
  BY <1>1, <1>3, TakeType
<1>5. conn[c].lease = l
  BY DEF l
<1>6. TypeOK'
  BY <1>1, <1>4, WithoutPendingType DEF TypeOK
<1>7. LeasesWellFormed' /\ SeatsWellFormed' /\ SeatsGivenOnce'
  BY <1>1, <1>4
     DEF LeasesWellFormed, SeatsWellFormed, SeatsGivenOnce, Seated, SameLease
<1>8. PeersWellFormed'
  BY <1>1, <1>3, <1>4, <1>5 DEF PeersWellFormed, Met, Seated, SameLease
\* c was admitted and so has no sender in the map.
<1>9. PendingOwned' /\ NeverBothPending'
  <2>1. \A s \in Role, m \in Lease : pending[s][m] # c
    BY <1>1 DEF PendingOwned
  <2> QED
    BY <1>1, <1>4, <2>1, WithoutSubset DEF PendingOwned, NeverBothPending
<1>10. SpentLeaseGone'
  BY <1>1, <1>4, <1>5 DEF SpentLeaseGone
<1>11. WaiterKeepsItsSender'
  <2> SUFFICES ASSUME NEW x \in Conn, conn'[x].pc = "waiting",
                      conn'[x].lease \in live'
               PROVE  SenderAlive(x)'
    BY DEF WaiterKeepsItsSender
  <2>1. /\ x # c /\ conn[x].pc = "waiting" /\ SenderAlive(x)
        /\ conn[x].role \in Role /\ conn[x].lease \in Lease \ {l}
    BY <1>1, <1>4 DEF WaiterKeepsItsSender, TypeOK, ConnRecord
  <2> QED
    BY <1>1, <1>4, <2>1, WithoutSubset DEF SenderAlive
<1>12. TakenOutOfMap'
  BY <1>1, <1>2, <1>4, <1>5, WithoutSubset
     DEF TakenOutOfMap, SeatsWellFormed, Seated, TypeOK
<1> QED
  BY <1>6, <1>7, <1>8, <1>9, <1>10, <1>11, <1>12

LEMMA MeetNobodyInv ==
  ASSUME IInv, NEW c \in Conn, MeetNobody(c)
  PROVE  IInv'
<1> DEFINE l == conn[c].lease
           r == conn[c].role
           d0 == MaxOf(lease[l].expiresAt, clock + 1)
<1> USE RelayAssumption DEF IInv
<1>1. /\ conn[c].pc = "admitted"
      /\ pending[Other(r)][l] = None
      /\ pending' = [pending EXCEPT ![r][l] = c]
      /\ conn' = [conn EXCEPT ![c].pc = "waiting", ![c].deadline = d0]
      /\ UNCHANGED <<clock, nodes, issued, live, lease>>
  BY DEF MeetNobody
<1>2. l \in issued /\ l \in Lease /\ r \in Role
  BY <1>1 DEF SeatsWellFormed, Seated, TypeOK, ConnRecord
<1>3. d0 \in Nat
  BY <1>2 DEF MaxOf, TypeOK, LeaseRecord
<1>4. conn[c].lease = l /\ conn[c].role = r
  OBVIOUS
<1> HIDE DEF l, r, d0
<1>5. /\ conn' \in [Conn -> ConnRecord]
      /\ \A d \in Conn : /\ conn'[d].role = conn[d].role
                         /\ conn'[d].lease = conn[d].lease
                         /\ conn'[d].peer = conn[d].peer
                         /\ conn'[d].pc = IF d = c THEN "waiting" ELSE conn[d].pc
  BY <1>1, <1>3, WaitType
<1>6. \A s \in Role, m \in Lease :
        pending'[s][m] = IF s = r /\ m = l THEN c ELSE pending[s][m]
  BY <1>1, <1>2 DEF TypeOK
<1>7. TypeOK'
  <2>1. pending' \in [Role -> [Lease -> Conn \cup {None}]]
    BY <1>1, <1>2 DEF TypeOK
  <2> QED
    BY <1>1, <1>5, <2>1 DEF TypeOK
<1>8. LeasesWellFormed' /\ SeatsWellFormed' /\ SeatsGivenOnce'
  BY <1>1, <1>5
     DEF LeasesWellFormed, SeatsWellFormed, SeatsGivenOnce, Seated, SameLease
<1>9. PeersWellFormed'
  BY <1>1, <1>5 DEF PeersWellFormed, Met, Seated, SameLease
<1>10. PendingOwned'
  <2>1. \A s \in Role, m \in Lease : pending[s][m] # c
    BY <1>1 DEF PendingOwned
  <2> QED
    BY <1>1, <1>4, <1>5, <1>6, <2>1 DEF PendingOwned, TypeOK
<1>11. NeverBothPending'
  BY <1>1, <1>2, <1>6 DEF NeverBothPending, Other, Role
<1>12. SpentLeaseGone'
  BY <1>1, <1>5 DEF SpentLeaseGone
<1>13. WaiterKeepsItsSender'
  <2> SUFFICES ASSUME NEW w \in Conn, conn'[w].pc = "waiting",
                      conn'[w].lease \in live'
               PROVE  SenderAlive(w)'
    BY DEF WaiterKeepsItsSender
  <2>1. CASE w = c
    BY <1>2, <1>4, <1>5, <1>6, <2>1 DEF SenderAlive
  <2>2. CASE w # c
    <3>1. conn[w].role \in Role /\ conn[w].lease \in Lease
      BY <1>1, <1>5, <2>2 DEF TypeOK, ConnRecord
    \* Nobody else holds the seat of c, so no sender is overwritten.
    <3>2. ~(conn[w].role = r /\ conn[w].lease = l)
      BY <1>1, <1>4, <1>5, <2>2 DEF SeatsGivenOnce, Seated, SameLease
    <3>3. SenderAlive(w)
      BY <1>1, <1>5, <2>2 DEF WaiterKeepsItsSender
    <3> QED
      BY <1>1, <1>5, <1>6, <3>1, <3>2, <3>3 DEF SenderAlive
  <2> QED
    BY <2>1, <2>2
<1>14. TakenOutOfMap'
  <2> SUFFICES ASSUME NEW d \in Conn, conn'[d].pc \in {"taking", "handed"},
                      NEW s \in Role
               PROVE  pending'[s][conn'[d].lease] = None
    BY DEF TakenOutOfMap
  <2>1. /\ d # c /\ conn[d].pc \in {"taking", "handed"}
        /\ conn[d].lease \in Lease /\ conn'[d].lease = conn[d].lease
        /\ pending[s][conn[d].lease] = None
    BY <1>1, <1>5 DEF TakenOutOfMap, SeatsWellFormed, Seated, TypeOK
  \* d and its peer hold the two seats of their lease; c holds another's.
  <2>2. conn[d].lease # l
    BY <1>1, <1>2, <1>4, <1>5, <2>1
       DEF PeersWellFormed, Met, SeatsGivenOnce, Seated, SameLease, TypeOK,
           ConnRecord, Other, Role
  <2> QED
    BY <1>6, <2>1, <2>2
<1> QED
  BY <1>7, <1>8, <1>9, <1>10, <1>11, <1>12, <1>13, <1>14

(* Steps that move one connection, or the two ends of a bridge, on: they   *)
(* keep the tables, the seats and the leases of all connections.           *)
LEMMA HandOverInv ==
  ASSUME IInv, NEW c \in Conn, HandOver(c)
  PROVE  IInv'
<1> DEFINE to == IF conn[conn[c].peer].pc \in {"waiting", "elapsed"}
                 THEN "handed" ELSE "failed"
<1> USE RelayAssumption DEF IInv
<1>1. /\ conn[c].pc = "taking"
      /\ Goto(c, to)
      /\ UNCHANGED <<clock, nodes, issued, live, lease, pending>>
  BY DEF HandOver
<1>2. to \in {"handed", "failed"} /\ to \in Pc
  BY DEF Pc
<1> HIDE DEF to
<1>3. /\ conn' \in [Conn -> ConnRecord]
      /\ \A d \in Conn : /\ conn'[d].role = conn[d].role
                         /\ conn'[d].lease = conn[d].lease
                         /\ conn'[d].peer = conn[d].peer
                         /\ conn'[d].pc = IF d = c THEN to ELSE conn[d].pc
  BY <1>1, <1>2, GotoType
<1>4. TypeOK'
  BY <1>1, <1>3 DEF TypeOK
<1>5. LeasesWellFormed' /\ SeatsWellFormed' /\ SeatsGivenOnce'
  BY <1>1, <1>2, <1>3
     DEF LeasesWellFormed, SeatsWellFormed, SeatsGivenOnce, Seated, SameLease
<1>6. PeersWellFormed'
  BY <1>1, <1>2, <1>3 DEF PeersWellFormed, Met, Seated, SameLease
<1>7. PendingOwned' /\ NeverBothPending'
  <2>1. \A r \in Role, l \in Lease : pending[r][l] # None =>
          /\ pending[r][l] \in Conn \ {c}
          /\ pending'[r][l] = pending[r][l]
    BY <1>1 DEF PendingOwned, TypeOK
  <2>2. PendingOwned'
    BY <1>1, <1>3, <2>1 DEF PendingOwned
  <2> QED
    BY <1>1, <2>2 DEF NeverBothPending
<1>8. SpentLeaseGone'
  BY <1>1, <1>2, <1>3 DEF SpentLeaseGone
\* The counterpart of c waits on a lease that c has removed.
<1>9. WaiterKeepsItsSender'
  <2> SUFFICES ASSUME NEW w \in Conn, conn'[w].pc = "waiting",
                      conn'[w].lease \in live'
               PROVE  SenderAlive(w)'
    BY DEF WaiterKeepsItsSender
  <2>1. conn[w].pc = "waiting" /\ conn[w].lease \in live /\ SenderAlive(w)
    BY <1>1, <1>2, <1>3 DEF WaiterKeepsItsSender
  <2>2. conn[c].peer # w
    BY <1>1, <2>1 DEF SpentLeaseGone, PeersWellFormed, SameLease
  <2> QED
    BY <1>1, <1>3, <2>1, <2>2 DEF SenderAlive
<1>10. TakenOutOfMap'
  BY <1>1, <1>2, <1>3 DEF TakenOutOfMap
<1> QED
  BY <1>4, <1>5, <1>6, <1>7, <1>8, <1>9, <1>10

LEMMA GiveUpInv ==
  ASSUME IInv, NEW w \in Conn, SenderGone(w) \/ Elapse(w)
  PROVE  IInv'
<1> USE RelayAssumption DEF IInv
<1>1. PICK to \in {"failing", "elapsed"} :
        /\ conn[w].pc = "waiting"
        /\ Goto(w, to)
        /\ UNCHANGED <<clock, nodes, issued, live, lease, pending>>
  BY DEF SenderGone, Elapse
<1>2. /\ conn' \in [Conn -> ConnRecord]
      /\ \A d \in Conn : /\ conn'[d].role = conn[d].role
                         /\ conn'[d].lease = conn[d].lease
                         /\ conn'[d].peer = conn[d].peer
                         /\ conn'[d].pc = IF d = w THEN to ELSE conn[d].pc
  <2>1. to \in Pc
    BY DEF Pc
  <2> QED
    BY <1>1, <2>1, GotoType
<1>3. TypeOK'
  BY <1>1, <1>2 DEF TypeOK
<1>4. LeasesWellFormed' /\ SeatsWellFormed' /\ SeatsGivenOnce'
  BY <1>1, <1>2
     DEF LeasesWellFormed, SeatsWellFormed, SeatsGivenOnce, Seated, SameLease
<1>5. PeersWellFormed'
  BY <1>1, <1>2 DEF PeersWellFormed, Met, Seated, SameLease
<1>6. PendingOwned' /\ NeverBothPending'
  BY <1>1, <1>2 DEF PendingOwned, NeverBothPending, TypeOK
<1>7. SpentLeaseGone'
  BY <1>1, <1>2 DEF SpentLeaseGone
<1>8. WaiterKeepsItsSender'
  BY <1>1, <1>2 DEF WaiterKeepsItsSender, SenderAlive
<1>9. TakenOutOfMap'
  BY <1>1, <1>2 DEF TakenOutOfMap
<1> QED
  BY <1>3, <1>4, <1>5, <1>6, <1>7, <1>8, <1>9

LEMMA ReceiveInv ==
  ASSUME IInv, NEW w \in Conn, Receive(w)
  PROVE  IInv'
<1>1. PICK c \in Inbox(w) :
        /\ conn[w].pc = "waiting"
        /\ conn' = [conn EXCEPT ![w].pc = "bridging", ![w].peer = c,
                                ![c].pc = "spliced"]
        /\ UNCHANGED <<clock, nodes, issued, live, lease, pending>>
  BY DEF Receive
<1> USE RelayAssumption DEF IInv
<1>2. /\ c \in Conn /\ c # w
      /\ conn[c].pc = "handed"
      /\ conn[c].peer = w
      /\ SameLease(c, w)
      /\ conn[w].role = Other(conn[c].role)
      /\ conn[c].lease \notin live
  BY <1>1 DEF Inbox, PeersWellFormed, SpentLeaseGone
<1>3. conn[c].role = Other(conn[w].role)
  BY <1>2 DEF TypeOK, ConnRecord, Other, Role
<1>4. /\ conn' \in [Conn -> ConnRecord]
      /\ \A d \in Conn : /\ conn'[d].role = conn[d].role
                         /\ conn'[d].lease = conn[d].lease
                         /\ conn'[d].peer = IF d = w THEN c ELSE conn[d].peer
                         /\ conn'[d].pc = IF d = w THEN "bridging"
                                          ELSE IF d = c THEN "spliced"
                                          ELSE conn[d].pc
  <2> DEFINE joined == [conn[w] EXCEPT !.pc = "bridging", !.peer = c]
             spliced == [conn[c] EXCEPT !.pc = "spliced"]
  <2>1. conn' = [conn EXCEPT ![w] = joined, ![c] = spliced]
    BY <1>1, <1>2
  <2>2. conn[w] \in ConnRecord /\ conn[c] \in ConnRecord
        /\ "bridging" \in Pc /\ "spliced" \in Pc
    BY <1>2 DEF TypeOK, Pc
  <2>3. /\ joined \in ConnRecord
        /\ joined.pc = "bridging" /\ joined.role = conn[w].role
        /\ joined.lease = conn[w].lease /\ joined.peer = c
    BY <1>2, <2>2 DEF ConnRecord
  <2>4. /\ spliced \in ConnRecord
        /\ spliced.pc = "spliced" /\ spliced.role = conn[c].role
        /\ spliced.lease = conn[c].lease /\ spliced.peer = conn[c].peer
    BY <2>2, RecordWithPc
  <2> HIDE DEF joined, spliced
  <2> QED
    BY <1>2, <2>1, <2>3, <2>4 DEF TypeOK
\* c took the sender of w out of the map, so nobody else can take it.
<1>5. \A s \in Role, m \in Lease : pending[s][m] \notin {c, w}
  <2>1. \A s \in Role, m \in Lease : pending[s][m] # c
    BY <1>2 DEF PendingOwned
  <2>2. \A s \in Role, m \in Lease : pending[s][m] = w => m = conn[c].lease
    BY <1>2 DEF PendingOwned, SameLease
  <2> QED
    BY <1>2, <2>1, <2>2 DEF TakenOutOfMap
<1>6. TypeOK'
  BY <1>1, <1>4 DEF TypeOK
<1>7. LeasesWellFormed' /\ SeatsWellFormed' /\ SeatsGivenOnce'
  BY <1>1, <1>2, <1>4
     DEF LeasesWellFormed, SeatsWellFormed, SeatsGivenOnce, Seated, SameLease
<1>8. PeersWellFormed'
  <2> SUFFICES ASSUME NEW d \in Conn,
                      conn'[d].pc \in {"taking", "handed", "bridging"}
               PROVE  (LET v == conn[d].peer
                       IN  /\ v \in Conn
                           /\ Met(v)
                           /\ SameLease(d, v)
                           /\ conn[v].role = Other(conn[d].role)
                           /\ conn[d].pc = "bridging" => conn[v].pc = "spliced")'
    BY DEF PeersWellFormed
  <2>1. CASE d = w
    BY <1>2, <1>3, <1>4, <2>1 DEF Met, Seated, SameLease
  <2>2. CASE d # w
    <3>1. d # c /\ conn[d].pc = conn'[d].pc /\ conn[d].peer = conn'[d].peer
      BY <1>1, <1>2, <1>4, <2>2
    <3>2. PICK v \in Conn :
            /\ v = conn[d].peer /\ v = conn'[d].peer
            /\ Met(v) /\ SameLease(d, v)
            /\ conn[v].role = Other(conn[d].role)
            /\ conn[d].pc = "bridging" => conn[v].pc = "spliced"
      BY <2>2, <3>1 DEF PeersWellFormed
    <3>3. Met(v)'
      BY <1>4, <3>2 DEF Met, Seated
    <3>4. SameLease(d, v)' /\ conn'[v].role = Other(conn'[d].role)
      BY <1>4, <3>2 DEF SameLease
    <3>5. conn'[d].pc = "bridging" => conn'[v].pc = "spliced"
      BY <1>1, <1>4, <3>1, <3>2
    <3> QED
      BY <3>2, <3>3, <3>4, <3>5
  <2> QED
    BY <2>1, <2>2
<1>9. SpentLeaseGone'
  BY <1>1, <1>2, <1>4 DEF SpentLeaseGone, SameLease
<1>10. PendingOwned' /\ NeverBothPending'
  BY <1>1, <1>2, <1>4, <1>5 DEF PendingOwned, NeverBothPending, TypeOK
<1>11. WaiterKeepsItsSender'
  BY <1>1, <1>2, <1>4 DEF WaiterKeepsItsSender, SenderAlive
<1>12. TakenOutOfMap'
  BY <1>1, <1>4 DEF TakenOutOfMap
<1> QED
  BY <1>6, <1>7, <1>8, <1>9, <1>10, <1>11, <1>12

LEMMA DropReceiverInv ==
  ASSUME IInv, NEW w \in Conn, DropReceiver(w)
  PROVE  IInv'
<1> USE RelayAssumption DEF IInv
<1>1. /\ conn[w].pc = "elapsed"
      /\ conn' = [c \in Conn |->
                    IF c = w THEN [conn[c] EXCEPT !.pc = "failing"]
                    ELSE IF c \in Inbox(w) THEN [conn[c] EXCEPT !.pc = "failed"]
                    ELSE conn[c]]
      /\ UNCHANGED <<clock, nodes, issued, live, lease, pending>>
  BY DEF DropReceiver
<1>2. /\ conn' \in [Conn -> ConnRecord]
      /\ \A d \in Conn : /\ conn'[d].role = conn[d].role
                         /\ conn'[d].lease = conn[d].lease
                         /\ conn'[d].peer = conn[d].peer
                         /\ conn'[d].pc = IF d = w THEN "failing"
                                          ELSE IF d \in Inbox(w) THEN "failed"
                                          ELSE conn[d].pc
  BY <1>1 DEF TypeOK, ConnRecord, Pc
<1>3. \A d \in Inbox(w) : conn[d].pc = "handed"
  BY DEF Inbox
<1>4. TypeOK'
  BY <1>1, <1>2 DEF TypeOK
<1>5. LeasesWellFormed' /\ SeatsWellFormed' /\ SeatsGivenOnce'
  BY <1>1, <1>2, <1>3
     DEF LeasesWellFormed, SeatsWellFormed, SeatsGivenOnce, Seated, SameLease
<1>6. PeersWellFormed'
  BY <1>1, <1>2, <1>3 DEF PeersWellFormed, Met, Seated, SameLease
<1>7. TakenOutOfMap'
  BY <1>1, <1>2, <1>3 DEF TakenOutOfMap
<1>8. PendingOwned' /\ NeverBothPending'
  BY <1>1, <1>2, <1>3 DEF PendingOwned, NeverBothPending, TypeOK
<1>9. SpentLeaseGone'
  BY <1>1, <1>2, <1>3 DEF SpentLeaseGone
<1>10. WaiterKeepsItsSender'
  BY <1>1, <1>2, <1>3 DEF WaiterKeepsItsSender, SenderAlive
<1> QED
  BY <1>4, <1>5, <1>6, <1>7, <1>8, <1>9, <1>10

LEMMA FailLeaseInv ==
  ASSUME IInv, NEW w \in Conn, FailLease(w)
  PROVE  IInv'
<1> USE RelayAssumption DEF IInv
<1>1. /\ conn[w].pc = "failing"
      /\ live' = live \ {conn[w].lease}
      /\ pending' = WithoutPending({conn[w].lease})
      /\ Goto(w, "failed")
      /\ UNCHANGED <<clock, nodes, issued, lease>>
  BY DEF FailLease, RemoveLeases
<1>2. /\ conn' \in [Conn -> ConnRecord]
      /\ \A d \in Conn : /\ conn'[d].role = conn[d].role
                         /\ conn'[d].lease = conn[d].lease
                         /\ conn'[d].peer = conn[d].peer
                         /\ conn'[d].pc = IF d = w THEN "failed" ELSE conn[d].pc
  <2>1. "failed" \in Pc
    BY DEF Pc
  <2> QED
    BY <1>1, <2>1, GotoType
<1>3. TypeOK'
  BY <1>1, <1>2, WithoutPendingType DEF TypeOK
<1>4. LeasesWellFormed' /\ SeatsWellFormed' /\ SeatsGivenOnce'
  BY <1>1, <1>2
     DEF LeasesWellFormed, SeatsWellFormed, SeatsGivenOnce, Seated, SameLease
<1>5. PeersWellFormed'
  BY <1>1, <1>2 DEF PeersWellFormed, Met, Seated, SameLease
<1>6. TakenOutOfMap'
  BY <1>1, <1>2, WithoutSubset DEF TakenOutOfMap, SeatsWellFormed, Seated, TypeOK
\* fail_lease removed whatever sender w still had in the map.
<1>7. PendingOwned' /\ NeverBothPending'
  <2>1. \A s \in Role, m \in Lease : pending[s][m] = w => m = conn[w].lease
    BY DEF PendingOwned
  <2>2. \A s \in Role, m \in Lease : pending'[s][m] # w
    BY <1>1, <2>1, WithoutSubset
  <2> QED
    BY <1>1, <1>2, <2>2, WithoutSubset DEF PendingOwned, NeverBothPending
<1>8. SpentLeaseGone'
  BY <1>1, <1>2 DEF SpentLeaseGone
<1>9. WaiterKeepsItsSender'
  <2> SUFFICES ASSUME NEW x \in Conn, conn'[x].pc = "waiting",
                      conn'[x].lease \in live'
               PROVE  SenderAlive(x)'
    BY DEF WaiterKeepsItsSender
  <2>1. /\ x # w /\ conn[x].pc = "waiting" /\ SenderAlive(x)
        /\ conn[x].role \in Role /\ conn[x].lease \in Lease \ {conn[w].lease}
    BY <1>1, <1>2 DEF WaiterKeepsItsSender, TypeOK, ConnRecord
  <2> QED
    BY <1>1, <1>2, <2>1, WithoutSubset DEF SenderAlive
<1> QED
  BY <1>3, <1>4, <1>5, <1>6, <1>7, <1>8, <1>9

LEMMA EndBridgeInv ==
  ASSUME IInv, NEW w \in Conn, EndBridge(w)
  PROVE  IInv'
<1> USE RelayAssumption DEF IInv
<1> DEFINE p == conn[w].peer
<1>1. /\ conn[w].pc = "bridging"
      /\ conn' = [conn EXCEPT ![w].pc = "ended", ![p].pc = "ended"]
      /\ UNCHANGED <<clock, nodes, issued, live, lease, pending>>
  BY DEF EndBridge
<1>2. /\ p \in Conn /\ conn[p].pc = "spliced" /\ p # w
      /\ SameLease(w, p) /\ conn[p].role = Other(conn[w].role)
      /\ conn[w].lease \notin live
  BY <1>1 DEF PeersWellFormed, SpentLeaseGone
<1> HIDE DEF p
<1>3. /\ conn' \in [Conn -> ConnRecord]
      /\ \A d \in Conn : /\ conn'[d].role = conn[d].role
                         /\ conn'[d].lease = conn[d].lease
                         /\ conn'[d].peer = conn[d].peer
                         /\ conn'[d].pc = IF d \in {w, p} THEN "ended" ELSE conn[d].pc
  BY <1>1, <1>2 DEF TypeOK, ConnRecord, Pc
\* No other bridge copies to p: it would hold the seat of w.
<1>4. \A d \in Conn : d # w /\ conn[d].pc = "bridging" => conn[d].peer \notin {p, w}
  <2> SUFFICES ASSUME NEW d \in Conn, d # w, conn[d].pc = "bridging",
                      conn[d].peer \in {p, w}
               PROVE  FALSE
    OBVIOUS
  <2>1. conn[d].peer = p
    BY <1>1 DEF PeersWellFormed
  <2>2. SameLease(d, p) /\ conn[p].role = Other(conn[d].role)
    BY <2>1 DEF PeersWellFormed
  <2>3. SameLease(d, w) /\ conn[d].role = conn[w].role
    BY <1>2, <2>2 DEF SameLease, Other, TypeOK, ConnRecord, Role
  <2> QED
    BY <1>1, <2>3 DEF SeatsGivenOnce, Seated
<1>5. TypeOK'
  BY <1>1, <1>3 DEF TypeOK
<1>6. LeasesWellFormed' /\ SeatsWellFormed' /\ SeatsGivenOnce'
  BY <1>1, <1>2, <1>3
     DEF LeasesWellFormed, SeatsWellFormed, SeatsGivenOnce, Seated, SameLease
<1>7. PeersWellFormed'
  BY <1>1, <1>2, <1>3, <1>4 DEF PeersWellFormed, Met, Seated, SameLease
<1>8. TakenOutOfMap'
  BY <1>1, <1>3 DEF TakenOutOfMap
<1>9. PendingOwned' /\ NeverBothPending'
  BY <1>1, <1>2, <1>3 DEF PendingOwned, NeverBothPending, TypeOK
<1>10. SpentLeaseGone'
  BY <1>1, <1>2, <1>3 DEF SpentLeaseGone, SameLease
<1>11. WaiterKeepsItsSender'
  BY <1>1, <1>2, <1>3 DEF WaiterKeepsItsSender, SenderAlive
<1> QED
  BY <1>5, <1>6, <1>7, <1>8, <1>9, <1>10, <1>11

LEMMA RestartInv ==
  ASSUME IInv, Restart
  PROVE  IInv'
<1> USE RelayAssumption DEF IInv
<1>1. /\ nodes' = [n \in Node |-> 0]
      /\ live' = {}
      /\ pending' = WithoutPending(Lease)
      /\ UNCHANGED <<clock, issued, lease>>
  BY DEF Restart
<1>2. /\ conn' \in [Conn -> ConnRecord]
      /\ \A d \in Conn :
           /\ conn'[d].role = conn[d].role
           /\ conn'[d].lease = conn[d].lease
           /\ conn'[d].peer = conn[d].peer
           /\ conn'[d].pc \in {"idle", "rejected", "ended", "failed"}
           /\ conn'[d].pc \in {"idle", "rejected"} <=> conn[d].pc \in {"idle", "rejected"}
  <2>1. conn \in [Conn -> ConnRecord] /\ {"ended", "failed"} \subseteq Pc
    BY DEF TypeOK, Pc
  <2>2. ASSUME NEW d \in Conn
        PROVE  conn'[d] \in {conn[d], [conn[d] EXCEPT !.pc = "ended"],
                                      [conn[d] EXCEPT !.pc = "failed"]}
    BY <2>2 DEF Restart
  <2>3. ASSUME NEW d \in Conn, NEW pc \in {"ended", "failed"}
        PROVE  LET new == [conn[d] EXCEPT !.pc = pc]
               IN  /\ new \in ConnRecord
                   /\ new.pc = pc /\ new.role = conn[d].role
                   /\ new.lease = conn[d].lease /\ new.peer = conn[d].peer
    BY <2>1, RecordWithPc
  <2>4. ASSUME NEW d \in Conn
        PROVE  /\ conn'[d] \in ConnRecord
               /\ conn'[d].role = conn[d].role
               /\ conn'[d].lease = conn[d].lease
               /\ conn'[d].peer = conn[d].peer
    BY <2>1, <2>2, <2>3
  <2>5. ASSUME NEW d \in Conn
        PROVE  /\ conn'[d].pc \in {"idle", "rejected", "ended", "failed"}
               /\ conn'[d].pc \in {"idle", "rejected"} <=> conn[d].pc \in {"idle", "rejected"}
    <3>1. CASE conn[d].pc \in {"idle", "rejected", "ended", "failed"}
      BY <3>1 DEF Restart
    <3>2. CASE conn[d].pc \notin {"idle", "rejected", "ended", "failed"}
      <4>1. conn'[d] \in {[conn[d] EXCEPT !.pc = "ended"], [conn[d] EXCEPT !.pc = "failed"]}
        BY <3>2 DEF Restart
      <4> QED
        BY <2>3, <3>2, <4>1
    <3> QED
      BY <3>1, <3>2
  <2>6. conn' = [d \in Conn |-> conn'[d]]
    BY DEF Restart
  <2> QED
    BY <2>4, <2>5, <2>6
<1>3. \A s \in Role, m \in Lease : pending'[s][m] = None
  BY <1>1, WithoutSubset
<1>4. TypeOK'
  BY <1>1, <1>2, WithoutPendingType DEF TypeOK
<1>5. LeasesWellFormed' /\ SeatsWellFormed' /\ SeatsGivenOnce'
  BY <1>1, <1>2
     DEF LeasesWellFormed, SeatsWellFormed, SeatsGivenOnce, Seated, SameLease
<1>6. PeersWellFormed' /\ TakenOutOfMap'
  BY <1>2 DEF PeersWellFormed, TakenOutOfMap
<1>7. PendingOwned' /\ NeverBothPending'
  BY <1>3 DEF PendingOwned, NeverBothPending, Role
<1>8. SpentLeaseGone' /\ WaiterKeepsItsSender'
  BY <1>1 DEF SpentLeaseGone, WaiterKeepsItsSender
<1> QED
  BY <1>4, <1>5, <1>6, <1>7, <1>8

LEMMA TickInv == IInv /\ (Tick \/ UNCHANGED vars) => IInv'
<1> SUFFICES ASSUME IInv, Tick \/ UNCHANGED vars PROVE IInv'
  OBVIOUS
<1>1. clock' \in Nat /\ UNCHANGED <<nodes, issued, live, lease, pending, conn>>
  BY DEF IInv, TypeOK, Tick, vars
<1> QED
  BY <1>1
     DEF IInv, TypeOK, LeasesWellFormed, SeatsWellFormed, PeersWellFormed, Met,
         TakenOutOfMap, SeatsGivenOnce, Seated, SameLease, PendingOwned,
         NeverBothPending, SpentLeaseGone, WaiterKeepsItsSender, SenderAlive

LEMMA NextInv == IInv /\ [Next]_vars => IInv'
<1> SUFFICES ASSUME IInv, [Next]_vars PROVE IInv'
  OBVIOUS
<1>1. ASSUME NEW n \in Node, NEW ttl \in NodeTtls, RegisterNode(n, ttl) PROVE IInv'
  BY <1>1, RegisterNodeInv
<1>2. ASSUME NEW l \in Lease, NEW n \in Node, NEW ttl \in LeaseTtls, CreateLease(l, n, ttl)
      PROVE  IInv'
  BY <1>2, CreateLeaseInv
<1>3. ASSUME NEW n \in Node, ClaimLease(n) PROVE IInv'
  BY <1>3, ClaimLeaseInv
<1>4. CASE Sweep
  BY <1>4, SweepInv
<1>5. ASSUME NEW c \in Conn, NEW r \in Role, NEW l \in Lease, NEW n \in Node,
             NEW target \in Node,
             Attach(c, r, l, n, target) \/ AttachRefused(c, r, l, n, target)
      PROVE  IInv'
  BY <1>5, AttachInv, AttachRefusedInv
<1>6. ASSUME NEW c \in Conn, Task(c) \/ EndBridge(c) PROVE IInv'
  BY <1>6, MeetWaiterInv, MeetNobodyInv, HandOverInv, ReceiveInv, GiveUpInv,
     DropReceiverInv, FailLeaseInv, EndBridgeInv DEF Task
<1>7. CASE Restart
  BY <1>7, RestartInv
<1>8. CASE Tick \/ UNCHANGED vars
  BY <1>8, TickInv
<1> QED
  BY <1>1, <1>2, <1>3, <1>4, <1>5, <1>6, <1>7, <1>8 DEF Next

\* Whatever the handlers, the tasks of the connections, the timers and a
\* restart of the control-plane do, in any order: the inductive invariant.
THEOREM RelayInvariant == Spec => []IInv
<1>1. Init => IInv
  BY InitInv
<1>2. IInv /\ [Next]_vars => IInv'
  BY NextInv
<1> QED
  BY <1>1, <1>2, PTL DEF Spec

\* Every variable of the relay keeps its type: no map ever holds a sender of
\* something that is not a connection.
THEOREM RelayTypeCorrect == Spec => []TypeOK
<1>1. IInv => TypeOK
  BY DEF IInv
<1> QED
  BY <1>1, RelayInvariant, PTL

\* A lease never admits a second client nor a second agent (attach_connection
\* sets each flag under the lock and nothing resets it).
THEOREM SeatsAreGivenOnce == Spec => []SeatsGivenOnce
<1>1. IInv => SeatsGivenOnce
  BY DEF IInv
<1> QED
  BY <1>1, RelayInvariant, PTL

\* Client and agent of one lease never both wait in the pending maps: the
\* rendezvous cannot be missed.
THEOREM RendezvousNotMissed == Spec => [](NeverBothPending /\ PendingOwned)
<1>1. IInv => NeverBothPending /\ PendingOwned
  BY DEF IInv
<1> QED
  BY <1>1, RelayInvariant, PTL

\* A paired lease is gone from the tables for good: its token is single-use.
THEOREM PairedLeaseIsSpent == Spec => []SpentLeaseGone
<1>1. IInv => SpentLeaseGone
  BY DEF IInv
<1> QED
  BY <1>1, RelayInvariant, PTL

\* A waiting connection whose lease is in the table still has its sender.
THEOREM WaitersAreNotAbandoned == Spec => []WaiterKeepsItsSender
<1>1. IInv => WaiterKeepsItsSender
  BY DEF IInv
<1> QED
  BY <1>1, RelayInvariant, PTL

\* The relay only splices a client and an agent of the same lease, claimed by
\* the node the lease is addressed to.
THEOREM BridgesAreSound == Spec => []BridgeSound
<1>1. IInv => BridgeSound
  <2> SUFFICES ASSUME IInv, NEW w \in Conn, conn[w].pc = "bridging"
               PROVE  LET c == conn[w].peer
                      IN  /\ c # None
                          /\ conn[c].pc = "spliced"
                          /\ SameLease(w, c)
                          /\ conn[c].role = Other(conn[w].role)
                          /\ lease[conn[w].lease].claimedBy = lease[conn[w].lease].target
    BY DEF BridgeSound
  <2> DEFINE c == conn[w].peer
  <2>1. /\ c \in Conn /\ Seated(c) /\ SameLease(w, c)
        /\ conn[c].role = Other(conn[w].role) /\ conn[c].pc = "spliced"
    BY DEF IInv, PeersWellFormed, Met
  <2>2. conn[c].role = "agent" \/ conn[w].role = "agent"
    BY <2>1 DEF IInv, TypeOK, ConnRecord, Other, Role
  <2>3. conn[w].lease \in issued /\ lease[conn[w].lease].claimedBy # None
    BY <2>1, <2>2 DEF IInv, SeatsWellFormed, Seated, SameLease
  <2>4. lease[conn[w].lease].claimedBy = lease[conn[w].lease].target
    BY <2>3 DEF IInv, LeasesWellFormed
  <2> QED
    BY <2>1, <2>4, RelayAssumption
<1> QED
  BY <1>1, RelayInvariant, PTL

-----------------------------------------------------------------------------
(* Relay implements Rendezvous: every step of the relay is one step of the *)
(* two-seat table or leaves it alone.                                      *)

\* SeatOf returns the holder of the seat, and None when nobody holds it.
SeatsFunctional ==
  \A l \in Lease, r \in Role :
    /\ \A c \in Conn : Holds(c, l, r) => SeatOf(l, r) = c
    /\ (\A c \in Conn : ~Holds(c, l, r)) => SeatOf(l, r) = None

LEMMA SeatOfHolder == SeatsGivenOnce => SeatsFunctional
<1> SUFFICES ASSUME SeatsGivenOnce, NEW l \in Lease, NEW r \in Role
             PROVE  /\ \A c \in Conn : Holds(c, l, r) => SeatOf(l, r) = c
                    /\ (\A c \in Conn : ~Holds(c, l, r)) => SeatOf(l, r) = None
  BY DEF SeatsFunctional
<1>1. ASSUME NEW c \in Conn, Holds(c, l, r) PROVE SeatOf(l, r) = c
  <2> DEFINE x == CHOOSE d \in Conn : Holds(d, l, r)
  <2>1. x \in Conn /\ Holds(x, l, r)
    BY <1>1
  <2>2. x = c
    BY <1>1, <2>1 DEF Holds, SeatsGivenOnce, SameLease
  <2> QED
    BY <1>1, <2>2 DEF SeatOf
<1> QED
  BY <1>1 DEF SeatOf

LEMMA SeatOfHolderPrimed == SeatsGivenOnce' => SeatsFunctional'
<1>1. SeatsGivenOnce => SeatsFunctional
  BY SeatOfHolder
<1> QED
  BY <1>1, PTL

\* A step that moves no connection onto or off a seat leaves the seats alone.
LEMMA SeatsUnchanged ==
  ASSUME SeatsFunctional, SeatsFunctional',
         \A c \in Conn : /\ Seated(c)' = Seated(c)
                         /\ Seated(c) => /\ conn'[c].lease = conn[c].lease
                                         /\ conn'[c].role = conn[c].role
  PROVE  \A l \in Lease, r \in Role : SeatOf(l, r)' = SeatOf(l, r)
<1> SUFFICES ASSUME NEW l \in Lease, NEW r \in Role PROVE SeatOf(l, r)' = SeatOf(l, r)
  OBVIOUS
<1>1. \A c \in Conn : Holds(c, l, r)' <=> Holds(c, l, r)
  BY DEF Holds
<1> QED
  BY <1>1 DEF SeatsFunctional

Spliced(c) == conn[c].pc \in {"bridging", "spliced", "ended"}

\* What a step leaves alone when the abstract specification stutters.
SameLeases ==
  /\ issued' = issued
  /\ \A l \in issued : /\ lease'[l].target = lease[l].target
                       /\ lease'[l].claimedBy = lease[l].claimedBy

SameSeats ==
  \A c \in Conn : /\ Seated(c)' = Seated(c)
                  /\ Seated(c) => /\ conn'[c].lease = conn[c].lease
                                  /\ conn'[c].role = conn[c].role

SameBridges == \A c \in Conn : Spliced(c)' = Spliced(c)

LEMMA OfferedUnchanged ==
  ASSUME SameLeases
  PROVE  /\ UNCHANGED [l \in Lease |-> IF l \in issued THEN lease[l].target ELSE None]
         /\ UNCHANGED {l \in issued : lease[l].claimedBy # None}
  BY DEF SameLeases

LEMMA SeatUnchanged ==
  ASSUME SeatsGivenOnce, SeatsGivenOnce', SameSeats
  PROVE  UNCHANGED [l \in Lease |-> [r \in Role |-> SeatOf(l, r)]]
<1>1. SeatsFunctional /\ SeatsFunctional'
  BY SeatOfHolder, SeatOfHolderPrimed
<1> QED
  BY <1>1, SeatsUnchanged DEF SameSeats

LEMMA JoinedUnchanged ==
  ASSUME SameSeats, SameBridges
  PROVE  UNCHANGED Joined
<1> SUFFICES ASSUME NEW l \in Lease
             PROVE  (\E c \in Conn : conn[c].lease = l /\ Spliced(c))'
                      <=> \E c \in Conn : conn[c].lease = l /\ Spliced(c)
  BY DEF Joined, Spliced
<1> QED
  BY DEF SameSeats, SameBridges, Seated, Spliced

LEMMA StutterStep ==
  ASSUME SeatsGivenOnce, SeatsGivenOnce', SameLeases, SameSeats, SameBridges
  PROVE  UNCHANGED Abs!vars
  BY OfferedUnchanged, SeatUnchanged, JoinedUnchanged DEF Abs!vars

\* A connection whose pc moves among the stages of an admitted connection.
LEMMA PcStep ==
  ASSUME SeatsGivenOnce, SeatsGivenOnce', UNCHANGED <<issued, lease>>,
         \A c \in Conn : /\ conn'[c].role = conn[c].role
                         /\ conn'[c].lease = conn[c].lease
                         /\ Seated(c)' = Seated(c)
                         /\ Spliced(c)' = Spliced(c)
  PROVE  UNCHANGED Abs!vars
  BY StutterStep DEF SameLeases, SameSeats, SameBridges

-----------------------------------------------------------------------------
LEMMA InitRefines == Init => Abs!Init
<1> SUFFICES ASSUME Init PROVE Abs!Init
  OBVIOUS
<1>1. \A l \in Lease, r \in Role : SeatOf(l, r) = None
  BY DEF Init, Idle, SeatOf, Holds, Seated
<1>2. Joined = {}
  BY DEF Init, Idle, Joined
<1> QED
  BY <1>1, <1>2 DEF Init, Abs!Init, Role, Abs!Role

LEMMA CreateRefines ==
  ASSUME IInv, IInv', NEW l \in Lease, NEW n \in Node, NEW ttl \in LeaseTtls,
         CreateLease(l, n, ttl)
  PROVE  Abs!Offer(l, n)
<1>1. PICK now \in Readings :
        /\ l \notin issued
        /\ issued' = issued \cup {l}
        /\ lease' = [lease EXCEPT ![l] =
                       [target |-> n, issuedAt |-> now, expiresAt |-> now + ttl,
                        claimedBy |-> None, connected |-> {}]]
        /\ UNCHANGED conn
  BY DEF CreateLease
<1>2. \A m \in Lease : /\ m # l => lease'[m] = lease[m]
                       /\ m = l => lease'[m].target = n /\ lease'[m].claimedBy = None
  BY <1>1 DEF IInv, TypeOK
<1>3. SameSeats /\ SameBridges
  BY <1>1 DEF SameSeats, SameBridges, Seated, Spliced
<1>4. /\ UNCHANGED Joined
      /\ UNCHANGED [m \in Lease |-> [r \in Role |-> SeatOf(m, r)]]
  BY <1>3, SeatUnchanged, JoinedUnchanged DEF IInv
<1>5. UNCHANGED {m \in issued : lease[m].claimedBy # None}
  BY <1>1, <1>2 DEF IInv, TypeOK
<1> DEFINE offered == [m \in Lease |-> IF m \in issued THEN lease[m].target ELSE None]
<1>6. offered[l] = None
  BY <1>1
<1>7. offered' = [offered EXCEPT ![l] = n]
  <2>1. offered' = [m \in Lease |-> IF m = l THEN n ELSE offered[m]]
    BY <1>1, <1>2
  <2> QED
    BY <2>1
<1> HIDE DEF offered
<1>8. Abs!Offer(l, n)
  BY <1>4, <1>5, <1>6, <1>7 DEF Abs!Offer, offered
<1> QED
  BY <1>8

LEMMA ClaimRefines ==
  ASSUME IInv, IInv', NEW n \in Node, ClaimLease(n)
  PROVE  \E l \in Lease : Abs!Claim(l)
<1>1. PICK now \in Readings : \E l \in Claimable(n, now) :
        lease' = [lease EXCEPT ![l].claimedBy = n] /\ UNCHANGED <<issued, conn>>
  BY DEF ClaimLease
<1>2. PICK l \in Claimable(n, now) :
        lease' = [lease EXCEPT ![l].claimedBy = n] /\ UNCHANGED <<issued, conn>>
  BY <1>1
<1>3. l \in Lease /\ l \in issued /\ lease[l].target = n
  BY DEF Claimable, Unexpired, IInv, TypeOK
<1>4. \A m \in Lease : /\ lease'[m].target = lease[m].target
                       /\ m # l => lease'[m].claimedBy = lease[m].claimedBy
                       /\ m = l => lease'[m].claimedBy = n
  <2> DEFINE new == [lease[l] EXCEPT !.claimedBy = n]
  <2>1. lease' = [lease EXCEPT ![l] = new]
    BY <1>2
  <2>2. new.target = lease[l].target /\ new.claimedBy = n
    BY <1>3, ClaimedRecord DEF IInv, TypeOK
  <2> HIDE DEF new
  <2> QED
    BY <1>3, <2>1, <2>2 DEF IInv, TypeOK
<1>5. SameSeats /\ SameBridges
  BY <1>2 DEF SameSeats, SameBridges, Seated, Spliced
<1>6. /\ UNCHANGED Joined
      /\ UNCHANGED [m \in Lease |-> [r \in Role |-> SeatOf(m, r)]]
  BY <1>5, SeatUnchanged, JoinedUnchanged DEF IInv
<1>7. {m \in issued : lease[m].claimedBy # None}'
        = {m \in issued : lease[m].claimedBy # None} \cup {l}
  BY <1>2, <1>3, <1>4, RelayAssumption DEF IInv, TypeOK
<1>8. UNCHANGED [m \in Lease |-> IF m \in issued THEN lease[m].target ELSE None]
  BY <1>2, <1>4
<1>9. lease[l].target # None
  BY <1>3, RelayAssumption
<1>10. Abs!Claim(l)
  BY <1>3, <1>6, <1>7, <1>8, <1>9 DEF Abs!Claim
<1> QED
  BY <1>3, <1>10

LEMMA AttachRefines ==
  ASSUME IInv, IInv', NEW c \in Conn, NEW r \in Role, NEW l \in Lease,
         NEW n \in Node, NEW target \in Node, Attach(c, r, l, n, target)
  PROVE  Abs!Sit(l, r, c)
<1>1. PICK now \in Readings :
        /\ conn[c].pc = "idle"
        /\ l \in issued
        /\ Admissible(r, l, n, target, now)
        /\ lease' = [lease EXCEPT ![l].connected = @ \cup {r}]
        /\ conn' = [conn EXCEPT ![c] = [pc |-> "admitted", role |-> r, lease |-> l,
                                        peer |-> None, deadline |-> 0]]
        /\ UNCHANGED issued
  BY DEF Attach
<1>2. /\ l \in live
      /\ lease[l].target # None
      /\ r \notin lease[l].connected
      /\ r = "agent" => lease[l].claimedBy # None
  BY <1>1, RelayAssumption DEF Admissible, Unexpired
<1>3. SameLeases
  <2> DEFINE new == [lease[l] EXCEPT !.connected = @ \cup {r}]
  <2>1. lease' = [lease EXCEPT ![l] = new]
    BY <1>1
  <2>2. new.target = lease[l].target /\ new.claimedBy = lease[l].claimedBy
    BY AttachedRecord DEF IInv, TypeOK
  <2> HIDE DEF new
  <2> QED
    BY <1>1, <2>1, <2>2 DEF SameLeases, IInv, TypeOK
<1>4. \A d \in Conn :
        /\ d = c => Seated(d)' /\ conn'[d].lease = l /\ conn'[d].role = r
                    /\ ~Spliced(d)' /\ ~Seated(d) /\ ~Spliced(d)
        /\ d # c => conn'[d] = conn[d]
  BY <1>1 DEF IInv, TypeOK, Seated, Spliced
<1>5. SeatsFunctional /\ SeatsFunctional'
  BY SeatOfHolder, SeatOfHolderPrimed DEF IInv
\* The seat was free, and c sits nowhere else.
<1>6. \A d \in Conn : ~Holds(d, l, r)
  BY <1>2 DEF IInv, SeatsWellFormed, Holds
<1>7. \A m \in Lease, s \in Role : SeatOf(m, s) # c
  <2> SUFFICES ASSUME NEW m \in Lease, NEW s \in Role, SeatOf(m, s) = c PROVE FALSE
    OBVIOUS
  <2>1. Holds(c, m, s)
    BY RelayAssumption DEF SeatOf
  <2> QED
    BY <1>1, <2>1 DEF Holds, Seated
<1>8. \A m \in Lease, s \in Role :
        SeatOf(m, s)' = IF m = l /\ s = r THEN c ELSE SeatOf(m, s)
  <2> SUFFICES ASSUME NEW m \in Lease, NEW s \in Role
               PROVE  SeatOf(m, s)' = IF m = l /\ s = r THEN c ELSE SeatOf(m, s)
    OBVIOUS
  <2>1. CASE m = l /\ s = r
    BY <1>4, <1>5, <2>1 DEF Holds, SeatsFunctional
  <2>2. CASE ~(m = l /\ s = r)
    <3>1. \A d \in Conn : Holds(d, m, s)' <=> Holds(d, m, s)
      BY <1>4, <2>2 DEF Holds, Seated
    <3> QED
      BY <1>5, <2>2, <3>1 DEF SeatsFunctional
  <2> QED
    BY <2>1, <2>2
<1>9. UNCHANGED Joined
  <2>1. \A d \in Conn : /\ Spliced(d)' = Spliced(d)
                        /\ Spliced(d) => conn'[d].lease = conn[d].lease
    BY <1>4 DEF Spliced
  <2> QED
    BY <2>1 DEF Joined, Spliced
<1> DEFINE seat == [m \in Lease |-> [s \in Role |-> SeatOf(m, s)]]
<1>10. /\ seat[l][r] = None
       /\ \A m \in Lease, s \in Role : seat[m][s] # c
  BY <1>5, <1>6, <1>7 DEF SeatsFunctional
<1>11. seat' = [seat EXCEPT ![l][r] = c]
  BY <1>8
<1>12. l \in issued /\ (r = "agent" => l \in {m \in issued : lease[m].claimedBy # None})
  BY <1>1, <1>2
<1>13. /\ UNCHANGED [m \in Lease |-> IF m \in issued THEN lease[m].target ELSE None]
       /\ UNCHANGED {m \in issued : lease[m].claimedBy # None}
  BY <1>3, OfferedUnchanged
<1> HIDE DEF seat
<1>14. Abs!Sit(l, r, c)
  BY <1>2, <1>9, <1>10, <1>11, <1>12, <1>13 DEF Abs!Sit, seat, Role, Abs!Role
<1> QED
  BY <1>14

LEMMA ReceiveRefines ==
  ASSUME IInv, IInv', NEW w \in Conn, Receive(w)
  PROVE  \E l \in Lease : Abs!Join(l)
<1>1. PICK c \in Inbox(w) :
        /\ conn[w].pc = "waiting"
        /\ conn' = [conn EXCEPT ![w].pc = "bridging", ![w].peer = c,
                                ![c].pc = "spliced"]
        /\ UNCHANGED <<issued, lease>>
  BY DEF Receive
<1> DEFINE l == conn[w].lease
<1>2. /\ c \in Conn /\ c # w
      /\ conn[c].pc = "handed"
      /\ conn[c].lease = l
      /\ conn[w].role = Other(conn[c].role)
  <2>1. c \in Conn /\ conn[c].pc = "handed" /\ conn[c].peer = w /\ c # w
    BY <1>1 DEF Inbox
  <2>2. SameLease(c, w) /\ conn[w].role = Other(conn[c].role)
    BY <2>1 DEF IInv, PeersWellFormed
  <2> QED
    BY <2>1, <2>2 DEF SameLease
<1>3. l \in Lease /\ conn[w].role \in Role /\ conn[c].role \in Role
  BY <1>1, <1>2 DEF IInv, SeatsWellFormed, Seated, TypeOK, ConnRecord
<1>4. \A d \in Conn : /\ conn'[d].role = conn[d].role
                      /\ conn'[d].lease = conn[d].lease
                      /\ conn'[d].pc = IF d = w THEN "bridging"
                                       ELSE IF d = c THEN "spliced"
                                       ELSE conn[d].pc
  BY <1>1, <1>2 DEF IInv, TypeOK, ConnRecord
\* Whoever is spliced on l would hold the seat of c or of w.
<1>5. l \notin Joined
  <2> SUFFICES ASSUME NEW d \in Conn, conn[d].lease = l, Spliced(d) PROVE FALSE
    BY DEF Joined, Spliced
  <2>1. conn[d].role = conn[w].role \/ conn[d].role = conn[c].role
    BY <1>2, <1>3 DEF IInv, TypeOK, ConnRecord, Other, Role
  <2> QED
    BY <1>1, <1>2, <2>1 DEF IInv, SeatsGivenOnce, Seated, SameLease, Spliced
<1>6. Joined' = Joined \cup {l}
  <2>1. \A d \in Conn : (conn'[d].pc \in {"bridging", "spliced", "ended"})
                          <=> (conn[d].pc \in {"bridging", "spliced", "ended"} \/ d \in {w, c})
    BY <1>4
  <2> QED
    BY <1>2, <1>3, <1>4, <2>1 DEF Joined
<1>7. \A r \in Role : SeatOf(l, r) # None
  <2> SUFFICES ASSUME NEW r \in Role PROVE SeatOf(l, r) # None
    OBVIOUS
  <2>1. Holds(w, l, r) \/ Holds(c, l, r)
    BY <1>1, <1>2, <1>3 DEF Holds, Seated, Other, Role
  <2> QED
    BY <1>2, <2>1, SeatOfHolder, <1>3, RelayAssumption DEF SeatsFunctional, IInv
<1>8. SameSeats /\ SameLeases
  <2>1. conn[w].pc = "waiting" /\ UNCHANGED <<issued, lease>>
    BY <1>1
  <2>2. SameLeases
    BY <2>1 DEF SameLeases
  <2>3. SameSeats
    BY <1>2, <1>4, <2>1 DEF SameSeats, Seated
  <2> QED
    BY <2>2, <2>3
<1>9. /\ UNCHANGED [m \in Lease |-> IF m \in issued THEN lease[m].target ELSE None]
      /\ UNCHANGED {m \in issued : lease[m].claimedBy # None}
      /\ UNCHANGED [m \in Lease |-> [r \in Role |-> SeatOf(m, r)]]
  BY <1>8, OfferedUnchanged, SeatUnchanged DEF IInv
<1> HIDE DEF l
<1>10. Abs!Join(l)
  BY <1>3, <1>5, <1>6, <1>7, <1>9 DEF Abs!Join, Role, Abs!Role
<1> QED
  BY <1>3, <1>10

-----------------------------------------------------------------------------
(* The steps that the abstract table does not see.                         *)

\* The handlers that sweep, and the clock, touch no lease record and no task.
LEMMA QuietRefines ==
  ASSUME IInv, IInv', UNCHANGED <<issued, lease, conn>>
  PROVE  UNCHANGED Abs!vars
<1>1. \A c \in Conn : /\ conn'[c].role = conn[c].role
                      /\ conn'[c].lease = conn[c].lease
                      /\ Seated(c)' = Seated(c)
                      /\ Spliced(c)' = Spliced(c)
  BY DEF Seated, Spliced
<1> QED
  BY <1>1, PcStep DEF IInv

\* One task that moves between two stages neither of which gives up a seat or
\* joins anything.
LEMMA MoveRefines ==
  ASSUME IInv, IInv', UNCHANGED <<issued, lease>>,
         NEW c \in Conn, NEW pc \in {"rejected", "taking", "waiting", "elapsed",
                                     "failing", "handed", "failed"},
         pc = "rejected" <=> conn[c].pc \in {"idle", "rejected"},
         ~Spliced(c),
         \A d \in Conn : /\ conn'[d].role = conn[d].role
                         /\ conn'[d].lease = conn[d].lease
                         /\ conn'[d].pc = IF d = c THEN pc ELSE conn[d].pc
  PROVE  UNCHANGED Abs!vars
<1>1. \A d \in Conn : Seated(d)' = Seated(d) /\ Spliced(d)' = Spliced(d)
  BY DEF Seated, Spliced
<1> QED
  BY <1>1, PcStep DEF IInv

LEMMA GotoRefines ==
  ASSUME IInv, IInv', UNCHANGED <<issued, lease>>,
         NEW c \in Conn, NEW pc \in {"rejected", "elapsed", "failing", "handed", "failed"},
         pc = "rejected" <=> conn[c].pc \in {"idle", "rejected"},
         ~Spliced(c), Goto(c, pc)
  PROVE  UNCHANGED Abs!vars
<1>1. pc \in Pc
  BY DEF Pc
<1>2. \A d \in Conn : /\ conn'[d].role = conn[d].role
                      /\ conn'[d].lease = conn[d].lease
                      /\ conn'[d].pc = IF d = c THEN pc ELSE conn[d].pc
  BY <1>1, GotoType DEF IInv
<1> QED
  BY <1>2, MoveRefines

LEMMA MeetRefines ==
  ASSUME IInv, IInv', NEW c \in Conn, MeetWaiter(c) \/ MeetNobody(c)
  PROVE  UNCHANGED Abs!vars
<1>1. conn[c].pc = "admitted" /\ ~Spliced(c) /\ UNCHANGED <<issued, lease>>
  BY DEF MeetWaiter, MeetNobody, Spliced
<1>2. CASE MeetWaiter(c)
  <2> DEFINE w == pending[Other(conn[c].role)][conn[c].lease]
  <2>1. w \in Conn
    <3>1. conn[c].lease \in Lease
      BY <1>1 DEF IInv, TypeOK, SeatsWellFormed, Seated
    <3>2. w # None /\ Other(conn[c].role) \in Role
      BY <1>2 DEF MeetWaiter, Other, Role
    <3> QED
      BY <3>1, <3>2 DEF IInv, TypeOK
  <2>2. conn' = [conn EXCEPT ![c].pc = "taking", ![c].peer = w]
    BY <1>2 DEF MeetWaiter
  <2> HIDE DEF w
  <2>3. \A d \in Conn : /\ conn'[d].role = conn[d].role
                        /\ conn'[d].lease = conn[d].lease
                        /\ conn'[d].pc = IF d = c THEN "taking" ELSE conn[d].pc
    BY <2>1, <2>2, TakeType DEF IInv
  <2> QED
    BY <1>1, <2>3, MoveRefines
<1>3. CASE MeetNobody(c)
  <2> DEFINE t == MaxOf(lease[conn[c].lease].expiresAt, clock + 1)
  <2>1. t \in Nat
    BY <1>1 DEF MaxOf, IInv, TypeOK, SeatsWellFormed, Seated, LeaseRecord
  <2>2. conn' = [conn EXCEPT ![c].pc = "waiting", ![c].deadline = t]
    BY <1>3 DEF MeetNobody
  <2> HIDE DEF t
  <2>3. \A d \in Conn : /\ conn'[d].role = conn[d].role
                        /\ conn'[d].lease = conn[d].lease
                        /\ conn'[d].pc = IF d = c THEN "waiting" ELSE conn[d].pc
    BY <2>1, <2>2, WaitType DEF IInv
  <2> QED
    BY <1>1, <2>3, MoveRefines
<1> QED
  BY <1>2, <1>3

LEMMA DropRefines ==
  ASSUME IInv, IInv', NEW w \in Conn, DropReceiver(w)
  PROVE  UNCHANGED Abs!vars
<1>1. /\ conn[w].pc = "elapsed"
      /\ conn' = [c \in Conn |->
                    IF c = w THEN [conn[c] EXCEPT !.pc = "failing"]
                    ELSE IF c \in Inbox(w) THEN [conn[c] EXCEPT !.pc = "failed"]
                    ELSE conn[c]]
      /\ UNCHANGED <<issued, lease>>
  BY DEF DropReceiver
<1>2. \A c \in Conn : /\ conn'[c].role = conn[c].role
                      /\ conn'[c].lease = conn[c].lease
                      /\ conn'[c].pc = IF c = w THEN "failing"
                                       ELSE IF c \in Inbox(w) THEN "failed"
                                       ELSE conn[c].pc
  BY <1>1 DEF IInv, TypeOK, ConnRecord
<1>3. \A c \in Conn : Seated(c)' = Seated(c) /\ Spliced(c)' = Spliced(c)
  BY <1>1, <1>2 DEF Seated, Spliced, Inbox
<1> QED
  BY <1>1, <1>2, <1>3, PcStep DEF IInv

LEMMA EndBridgeRefines ==
  ASSUME IInv, IInv', NEW w \in Conn, EndBridge(w)
  PROVE  UNCHANGED Abs!vars
<1> DEFINE p == conn[w].peer
<1>1. /\ conn[w].pc = "bridging"
      /\ conn' = [conn EXCEPT ![w].pc = "ended", ![p].pc = "ended"]
      /\ UNCHANGED <<issued, lease>>
  BY DEF EndBridge
<1>2. p \in Conn /\ conn[p].pc = "spliced"
  BY <1>1 DEF IInv, PeersWellFormed
<1> HIDE DEF p
<1>3. \A d \in Conn : /\ conn'[d].role = conn[d].role
                      /\ conn'[d].lease = conn[d].lease
                      /\ conn'[d].pc = IF d \in {w, p} THEN "ended" ELSE conn[d].pc
  BY <1>1, <1>2 DEF IInv, TypeOK, ConnRecord
<1>4. ASSUME NEW c \in Conn
      PROVE  Seated(c)' = Seated(c) /\ Spliced(c)' = Spliced(c)
  <2>1. CASE c \in {w, p}
    <3>1. conn'[c].pc = "ended" /\ conn[c].pc \in {"bridging", "spliced"}
      BY <1>1, <1>2, <1>3, <2>1
    <3> QED
      BY <3>1 DEF Seated, Spliced
  <2>2. CASE c \notin {w, p}
    BY <1>3, <2>2 DEF Seated, Spliced
  <2> QED
    BY <2>1, <2>2
<1> QED
  BY <1>1, <1>3, <1>4, PcStep DEF IInv

\* A restart ends every bridge, but what was joined stays joined.
LEMMA RestartRefines ==
  ASSUME IInv, IInv', Restart
  PROVE  UNCHANGED Abs!vars
<1>1. UNCHANGED <<issued, lease>>
  BY DEF Restart
<1>2. \A c \in Conn :
        /\ conn'[c].role = conn[c].role
        /\ conn'[c].lease = conn[c].lease
        /\ conn'[c].pc \in {"idle", "rejected"} <=> conn[c].pc \in {"idle", "rejected"}
        /\ conn'[c].pc \in {"bridging", "spliced", "ended"}
             <=> conn[c].pc \in {"bridging", "spliced", "ended"}
  BY DEF Restart, IInv, TypeOK, ConnRecord
<1>3. \A c \in Conn : Seated(c)' = Seated(c) /\ Spliced(c)' = Spliced(c)
  BY <1>2 DEF Seated, Spliced
<1> QED
  BY <1>1, <1>2, <1>3, PcStep DEF IInv

LEMMA TaskRefines ==
  ASSUME IInv, IInv', NEW c \in Conn, Task(c)
  PROVE  UNCHANGED Abs!vars \/ \E l \in Lease : Abs!Join(l)
<1>1. CASE MeetWaiter(c) \/ MeetNobody(c)
  BY <1>1, MeetRefines
<1>2. CASE HandOver(c)
  <2>1. /\ conn[c].pc = "taking" /\ ~Spliced(c)
        /\ UNCHANGED <<issued, lease>>
        /\ \/ Goto(c, "handed")
           \/ Goto(c, "failed")
    BY <1>2 DEF HandOver, Spliced
  <2> QED
    BY <2>1, GotoRefines
<1>3. CASE Receive(c)
  BY <1>3, ReceiveRefines
<1>4. CASE SenderGone(c) \/ Elapse(c)
  <2>1. /\ conn[c].pc = "waiting" /\ ~Spliced(c)
        /\ UNCHANGED <<issued, lease>>
        /\ Goto(c, "failing") \/ Goto(c, "elapsed")
    BY <1>4 DEF SenderGone, Elapse, Spliced
  <2> QED
    BY <2>1, GotoRefines
<1>5. CASE DropReceiver(c)
  BY <1>5, DropRefines
<1>6. CASE FailLease(c)
  <2>1. /\ conn[c].pc = "failing" /\ ~Spliced(c)
        /\ UNCHANGED <<issued, lease>>
        /\ Goto(c, "failed")
    BY <1>6 DEF FailLease, Spliced
  <2> QED
    BY <2>1, GotoRefines
<1> QED
  BY <1>1, <1>2, <1>3, <1>4, <1>5, <1>6 DEF Task

LEMMA NextRefines == IInv /\ IInv' /\ [Next]_vars => [Abs!Next]_(Abs!vars)
<1> SUFFICES ASSUME IInv, IInv', [Next]_vars PROVE Abs!Next \/ UNCHANGED Abs!vars
  OBVIOUS
<1>1. ASSUME NEW n \in Node, NEW ttl \in NodeTtls, RegisterNode(n, ttl)
      PROVE  UNCHANGED Abs!vars
  BY <1>1, QuietRefines DEF RegisterNode
<1>2. ASSUME NEW l \in Lease, NEW n \in Node, NEW ttl \in LeaseTtls, CreateLease(l, n, ttl)
      PROVE  Abs!Next
  BY <1>2, CreateRefines DEF Abs!Next
<1>3. ASSUME NEW n \in Node, ClaimLease(n) PROVE Abs!Next
  BY <1>3, ClaimRefines DEF Abs!Next
<1>4. CASE Sweep
  BY <1>4, QuietRefines DEF Sweep
<1>5. ASSUME NEW c \in Conn, NEW r \in Role, NEW l \in Lease, NEW n \in Node,
             NEW target \in Node, Attach(c, r, l, n, target)
      PROVE  Abs!Next
  <2>1. Abs!Sit(l, r, c)
    BY <1>5, AttachRefines
  <2> QED
    BY <2>1 DEF Abs!Next, Role, Abs!Role
<1>6. ASSUME NEW c \in Conn, NEW r \in Role, NEW l \in Lease, NEW n \in Node,
             NEW target \in Node, AttachRefused(c, r, l, n, target)
      PROVE  UNCHANGED Abs!vars
  <2>1. /\ conn[c].pc = "idle" /\ ~Spliced(c) /\ Goto(c, "rejected")
        /\ UNCHANGED <<issued, lease>>
    BY <1>6 DEF AttachRefused, Spliced
  <2> QED
    BY <2>1, GotoRefines
<1>7. ASSUME NEW c \in Conn, Task(c) PROVE Abs!Next \/ UNCHANGED Abs!vars
  BY <1>7, TaskRefines DEF Abs!Next
<1>8. ASSUME NEW c \in Conn, EndBridge(c) PROVE UNCHANGED Abs!vars
  BY <1>8, EndBridgeRefines
<1>9. CASE Restart
  BY <1>9, RestartRefines
<1>10. CASE Tick \/ UNCHANGED vars
  <2>1. UNCHANGED <<issued, lease, conn>>
    BY <1>10 DEF Tick, vars
  <2> QED
    BY <2>1, QuietRefines
<1> QED
  BY <1>1, <1>2, <1>3, <1>4, <1>5, <1>6, <1>7, <1>8, <1>9, <1>10 DEF Next

\* The relay, with its clock, its three critical sections and its oneshot
\* channels, implements the two-seat table of Rendezvous: a lease is offered
\* once, its agent sits only after the target claimed it, no seat is given
\* twice and the two connections are joined at most once.
THEOREM RelayImplementsRendezvous == Spec => ImplementsRendezvous
<1>1. Init => Abs!Init
  BY InitRefines
<1>2. IInv /\ IInv' /\ [Next]_vars => [Abs!Next]_(Abs!vars)
  BY NextRefines
<1> QED
  BY <1>1, <1>2, RelayInvariant, PTL DEF Spec, ImplementsRendezvous, Abs!Spec

=============================================================================
