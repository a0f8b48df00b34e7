------------------------------- MODULE Relay --------------------------------
(***************************************************************************)
(* The control-plane's relay (control-plane/src/relay/mod.rs): a table of  *)
(* registered nodes, a table of short-lived leases, and the rendezvous     *)
(* that splices the client's TCP connection to the agent's.                *)
(*                                                                         *)
(* Everything below is one Mutex<RelayState>, but attach_connection takes  *)
(* that lock three times and pairs the two connections through a oneshot   *)
(* channel outside it, so Attach, Meet, HandOver, Receive, Elapse,         *)
(* DropReceiver and FailLease are steps of their own and interleave freely *)
(* with each other, with the HTTP handlers and with the clock.             *)
(***************************************************************************)
EXTENDS Naturals, FiniteSets

CONSTANTS
  Node,       \* node ids
  Lease,      \* lease ids; a lease's token stands and falls with its id
  Conn,       \* TCP connections accepted by the relay listener
  NodeTtls,   \* registration lifetimes after clamping
  LeaseTtls,  \* lease lifetimes after clamping
  Lag,        \* longest wait for the lock after a handler read its clock
  Horizon,    \* bound: the clock stops here unless a timer is pending
  None

ASSUME RelayAssumption ==
  /\ NodeTtls \subseteq Nat \ {0}
  /\ LeaseTtls \subseteq Nat \ {0}
  /\ Lag \in Nat
  /\ Horizon \in Nat
  /\ None \notin Node \cup Lease \cup Conn

Role == {"client", "agent"}

Other(r) == IF r = "client" THEN "agent" ELSE "client"

VARIABLES
  clock,    \* unix_timestamp(), in seconds
  nodes,    \* expires_at of every registered node, 0 when not registered
  issued,   \* every lease id ever generated: Uuid::new_v4 never repeats one
  live,     \* the leases in state.leases and in lease_ids_by_token
  lease,    \* the record of every lease ever issued
  pending,  \* pending_clients and pending_agents: whose oneshot sender waits
  conn      \* the state of the task that serves each connection

vars == <<clock, nodes, issued, live, lease, pending, conn>>

(***************************************************************************)
(* The task of a connection.  "admitted": past the first critical section; *)
(* "taking": it removed the counterpart's sender and is about to send its  *)
(* own stream; "waiting": it awaits its receiver under a timeout;          *)
(* "elapsed": the timeout fired but the receiver is not dropped yet;       *)
(* "failing": about to call fail_lease; "handed": its stream sits in the   *)
(* counterpart's channel; "bridging"/"spliced": the task that copies, and  *)
(* the connection it copies to; "ended": that copy is over.                *)
(***************************************************************************)
Pc == {"idle", "rejected", "admitted", "taking", "waiting", "elapsed",
       "failing", "handed", "bridging", "spliced", "ended", "failed"}

LeaseRecord ==
  [target : Node \cup {None}, issuedAt : Nat, expiresAt : Nat,
   claimedBy : Node \cup {None}, connected : SUBSET Role]

ConnRecord ==
  [pc : Pc, role : Role, lease : Lease \cup {None},
   peer : Conn \cup {None}, deadline : Nat]

NoLease == [target |-> None, issuedAt |-> 0, expiresAt |-> 0,
            claimedBy |-> None, connected |-> {}]

Idle == [pc |-> "idle", role |-> "client", lease |-> None,
         peer |-> None, deadline |-> 0]

TypeOK ==
  /\ clock \in Nat
  /\ nodes \in [Node -> Nat]
  /\ issued \subseteq Lease
  /\ live \subseteq issued
  /\ lease \in [Lease -> LeaseRecord]
  /\ pending \in [Role -> [Lease -> Conn \cup {None}]]
  /\ conn \in [Conn -> ConnRecord]

-----------------------------------------------------------------------------
(* Helpers.                                                                *)

\* A handler reads its clock before it takes the lock.
Readings == {t \in 0..clock : clock <= t + Lag}

\* Mutant: every sender is dropped, not only those of L.
WithoutAnyPending(L) == [r \in Role |-> [l \in Lease |-> None]]

\* RelayState::remove_lease also drops the senders, for a whole set at once.
WithoutPending(L) ==
  [r \in Role |-> [l \in Lease |-> IF l \in L THEN None ELSE pending[r][l]]]

Expired(now) == {l \in live : lease[l].expiresAt <= now}

RemoveLeases(L) ==
  /\ live' = live \ L
  /\ pending' = WithoutPending(L)

\* The nodes that cleanup_expired retains.
RetainedNodes(now) ==
  [n \in Node |-> IF nodes[n] > now THEN nodes[n] ELSE 0]

CleanupExpired(now) == RemoveLeases(Expired(now))

Unexpired(now) == live \ Expired(now)

\* Mutant: a node may claim a lease addressed to another one.
ClaimableByAnyNode(n, now) ==
  {l \in Unexpired(now) : /\ "agent" \notin lease[l].connected
                          /\ lease[l].claimedBy \in {None, n}}

Claimable(n, now) ==
  {l \in Unexpired(now) :
     /\ lease[l].target = n
     /\ "agent" \notin lease[l].connected
     /\ lease[l].claimedBy \in {None, n}}

\* The connections whose stream lies unread in w's channel.
Inbox(w) == {c \in Conn : conn[c].pc = "handed" /\ conn[c].peer = w}

\* w's sender is still somewhere: in the pending map, or in the hands of the
\* counterpart that took it out.
SenderAlive(w) ==
  \/ pending[conn[w].role][conn[w].lease] = w
  \/ \E c \in Conn : conn[c].pc = "taking" /\ conn[c].peer = w

MaxOf(a, b) == IF a >= b THEN a ELSE b

Goto(c, pc) == conn' = [conn EXCEPT ![c].pc = pc]

-----------------------------------------------------------------------------
Init ==
  /\ clock = 1
  /\ nodes = [n \in Node |-> 0]
  /\ issued = {}
  /\ live = {}
  /\ lease = [l \in Lease |-> NoLease]
  /\ pending = [r \in Role |-> [l \in Lease |-> None]]
  /\ conn = [c \in Conn |-> Idle]

(* The HTTP handlers. *)

RegisterNode(n, ttl) ==
  \E now \in Readings :
    /\ nodes' = [RetainedNodes(now) EXCEPT ![n] = now + ttl]
    /\ CleanupExpired(now)
    /\ UNCHANGED <<clock, issued, lease, conn>>

CreateLease(l, n, ttl) ==
  \E now \in Readings :
    /\ l \notin issued
    /\ nodes[n] > now
    /\ nodes' = RetainedNodes(now)
    /\ issued' = issued \cup {l}
    /\ lease' = [lease EXCEPT ![l] =
                   [target |-> n, issuedAt |-> now, expiresAt |-> now + ttl,
                    claimedBy |-> None, connected |-> {}]]
    /\ live' = Unexpired(now) \cup {l}
    /\ pending' = WithoutPending(Expired(now))
    /\ UNCHANGED <<clock, conn>>

ClaimLease(n) ==
  \E now \in Readings : \E l \in Claimable(n, now) :
    /\ nodes[n] > now
    /\ \A m \in Claimable(n, now) : lease[l].issuedAt <= lease[m].issuedAt
    /\ lease' = [lease EXCEPT ![l].claimedBy = n]
    /\ nodes' = RetainedNodes(now)
    /\ CleanupExpired(now)
    /\ UNCHANGED <<clock, issued, conn>>

\* A handler that finds nothing to do has still swept the expired entries:
\* the health snapshot, a create or claim for a node that is not registered,
\* a claim with no lease to hand out.
Sweep ==
  \E now \in Readings :
    /\ nodes' = RetainedNodes(now)
    /\ CleanupExpired(now)
    /\ UNCHANGED <<clock, issued, lease, conn>>

-----------------------------------------------------------------------------
(* attach_connection. *)

\* Mutant: a connected seat is given again, say to a client that retries.
AdmissibleAgain(r, l, n, target, now) ==
  /\ l \in Unexpired(now)
  /\ lease[l].target = target
  /\ r = "agent" => lease[l].claimedBy = n

\* Mutant: an agent need not have claimed the lease.
AdmissibleUnclaimed(r, l, n, target, now) ==
  /\ l \in Unexpired(now)
  /\ lease[l].target = target
  /\ r \notin lease[l].connected

Admissible(r, l, n, target, now) ==
  /\ l \in Unexpired(now)
  /\ lease[l].target = target
  /\ r \notin lease[l].connected
  /\ r = "agent" => lease[l].claimedBy = n

\* First critical section: a hello for lease l that names the target, and for
\* an agent its own node id n.
Attach(c, r, l, n, target) ==
  \E now \in Readings :
    /\ conn[c].pc = "idle"
    /\ l \in issued
    /\ Admissible(r, l, n, target, now)
    /\ lease' = [lease EXCEPT ![l].connected = @ \cup {r}]
    /\ conn' = [conn EXCEPT ![c] = [pc |-> "admitted", role |-> r, lease |-> l,
                                    peer |-> None, deadline |-> 0]]
    /\ nodes' = RetainedNodes(now)
    /\ CleanupExpired(now)
    /\ UNCHANGED <<clock, issued>>

AttachRefused(c, r, l, n, target) ==
  \E now \in Readings :
    /\ conn[c].pc = "idle"
    /\ l \in issued
    /\ ~Admissible(r, l, n, target, now)
    /\ Goto(c, "rejected")
    /\ nodes' = RetainedNodes(now)
    /\ CleanupExpired(now)
    /\ UNCHANGED <<clock, issued, lease>>

\* Mutant: the lease of a pair stays in the table, only its senders go.
MeetWaiterKeepsLease(c) ==
  LET l == conn[c].lease
      w == pending[Other(conn[c].role)][l]
  IN  /\ conn[c].pc = "admitted"
      /\ w # None
      /\ pending' = WithoutPending({l})
      /\ conn' = [conn EXCEPT ![c].pc = "taking", ![c].peer = w]
      /\ UNCHANGED <<clock, nodes, issued, live, lease>>

\* Last critical section, the counterpart is there: take its sender and
\* remove the lease.
MeetWaiter(c) ==
  LET l == conn[c].lease
      w == pending[Other(conn[c].role)][l]
  IN  /\ conn[c].pc = "admitted"
      /\ w # None
      /\ RemoveLeases({l})
      /\ conn' = [conn EXCEPT ![c].pc = "taking", ![c].peer = w]
      /\ UNCHANGED <<clock, nodes, issued, lease>>

\* Mutant: a connection always waits, without a look at the other map.
MeetNobodyUnchecked(c) ==
  LET l == conn[c].lease
      r == conn[c].role
  IN  /\ conn[c].pc = "admitted"
      /\ pending' = [pending EXCEPT ![r][l] = c]
      /\ conn' = [conn EXCEPT ![c].pc = "waiting",
                    ![c].deadline = MaxOf(lease[l].expiresAt, clock + 1)]
      /\ UNCHANGED <<clock, nodes, issued, live, lease>>

\* Last critical section, nobody there: leave a sender.  The lease is not
\* looked at again, so it may be gone by now; the wait is at least a second.
MeetNobody(c) ==
  LET l == conn[c].lease
      r == conn[c].role
  IN  /\ conn[c].pc = "admitted"
      /\ pending[Other(r)][l] = None
      /\ pending' = [pending EXCEPT ![r][l] = c]
      /\ conn' = [conn EXCEPT ![c].pc = "waiting",
                    ![c].deadline = MaxOf(lease[l].expiresAt, clock + 1)]
      /\ UNCHANGED <<clock, nodes, issued, live, lease>>

\* waiter.sender.send(stream), after the lock is released.
HandOver(c) ==
  /\ conn[c].pc = "taking"
  /\ Goto(c, IF conn[conn[c].peer].pc \in {"waiting", "elapsed"}
             THEN "handed" ELSE "failed")
  /\ UNCHANGED <<clock, nodes, issued, live, lease, pending>>

Receive(w) ==
  \E c \in Inbox(w) :
    /\ conn[w].pc = "waiting"
    /\ conn' = [conn EXCEPT ![w].pc = "bridging", ![w].peer = c,
                            ![c].pc = "spliced"]
    /\ UNCHANGED <<clock, nodes, issued, live, lease, pending>>

\* The receiver yields an error: the pending entry was removed.
SenderGone(w) ==
  /\ conn[w].pc = "waiting"
  /\ Inbox(w) = {}
  /\ ~SenderAlive(w)
  /\ Goto(w, "failing")
  /\ UNCHANGED <<clock, nodes, issued, live, lease, pending>>

\* Mutant: only the lease's own expiry ends the wait, so a connection that
\* starts to wait after its lease was swept waits for ever.
ElapseWhileLive(w) ==
  /\ conn[w].pc = "waiting"
  /\ Inbox(w) = {}
  /\ clock >= conn[w].deadline
  /\ conn[w].lease \in live
  /\ Goto(w, "elapsed")
  /\ UNCHANGED <<clock, nodes, issued, live, lease, pending>>

Elapse(w) ==
  /\ conn[w].pc = "waiting"
  /\ Inbox(w) = {}
  /\ clock >= conn[w].deadline
  /\ Goto(w, "elapsed")
  /\ UNCHANGED <<clock, nodes, issued, live, lease, pending>>

\* The timed-out future drops the receiver, and a stream that was sent since
\* the timer fired is dropped with it.
DropReceiver(w) ==
  /\ conn[w].pc = "elapsed"
  /\ conn' = [c \in Conn |->
                IF c = w THEN [conn[c] EXCEPT !.pc = "failing"]
                ELSE IF c \in Inbox(w) THEN [conn[c] EXCEPT !.pc = "failed"]
                ELSE conn[c]]
  /\ UNCHANGED <<clock, nodes, issued, live, lease, pending>>

FailLease(w) ==
  /\ conn[w].pc = "failing"
  /\ RemoveLeases({conn[w].lease})
  /\ Goto(w, "failed")
  /\ UNCHANGED <<clock, nodes, issued, lease>>

\* copy_bidirectional returns: one side closed or failed.
EndBridge(w) ==
  /\ conn[w].pc = "bridging"
  /\ conn' = [conn EXCEPT ![w].pc = "ended", ![conn[w].peer].pc = "ended"]
  /\ UNCHANGED <<clock, nodes, issued, live, lease, pending>>

-----------------------------------------------------------------------------
(* The environment. *)

\* The control-plane stops and starts again: its tables are in memory only.
Restart ==
  /\ nodes' = [n \in Node |-> 0]
  /\ live' = {}
  /\ pending' = WithoutPending(Lease)
  /\ conn' = [c \in Conn |->
                CASE conn[c].pc = "idle" -> conn[c]
                  [] conn[c].pc \in {"bridging", "spliced"} ->
                       [conn[c] EXCEPT !.pc = "ended"]
                  [] conn[c].pc \in {"rejected", "ended", "failed"} -> conn[c]
                  [] OTHER -> [conn[c] EXCEPT !.pc = "failed"]]
  /\ UNCHANGED <<clock, issued, lease>>

TimerPending ==
  \E c \in Conn : conn[c].pc = "waiting" /\ clock < conn[c].deadline

Tick ==
  /\ clock < Horizon \/ TimerPending
  /\ clock' = clock + 1
  /\ UNCHANGED <<nodes, issued, live, lease, pending, conn>>

Task(c) ==
  \/ MeetWaiter(c) \/ MeetNobody(c) \/ HandOver(c) \/ Receive(c)
  \/ SenderGone(c) \/ Elapse(c) \/ DropReceiver(c) \/ FailLease(c)

Next ==
  \/ \E n \in Node, ttl \in NodeTtls : RegisterNode(n, ttl)
  \/ \E l \in Lease, n \in Node, ttl \in LeaseTtls : CreateLease(l, n, ttl)
  \/ \E n \in Node : ClaimLease(n)
  \/ Sweep
  \/ \E c \in Conn, r \in Role, l \in Lease, n \in Node, target \in Node :
       Attach(c, r, l, n, target) \/ AttachRefused(c, r, l, n, target)
  \/ \E c \in Conn : Task(c) \/ EndBridge(c)
  \/ Restart
  \/ Tick

Spec == Init /\ [][Next]_vars

\* The runtime keeps polling every spawned task, and time passes.  Requests,
\* hellos, restarts and the end of a bridge are up to the environment.
FairSpec == Spec /\ WF_vars(Tick) /\ \A c \in Conn : WF_vars(Task(c))

-----------------------------------------------------------------------------
(* Properties.                                                             *)

Seated(c) == conn[c].pc \notin {"idle", "rejected"}

SameLease(c, d) == conn[c].lease = conn[d].lease

\* A lease admits at most one client connection and one agent connection in
\* its whole life, whatever retries, timeouts and restarts happen: a flag of
\* attach_connection is set under the lock and never reset.
SeatsGivenOnce ==
  \A c, d \in Conn :
    /\ Seated(c) /\ Seated(d) /\ SameLease(c, d)
    /\ conn[c].role = conn[d].role
    => c = d

\* A sender in pending_clients or pending_agents belongs to a task that still
\* has to call fail_lease or be paired: no entry outlives its connection,
\* although timing out and removing the entry are separate steps.
PendingOwned ==
  \A r \in Role, l \in Lease :
    LET c == pending[r][l]
    IN  c # None => /\ conn[c].pc \in {"waiting", "elapsed", "failing"}
                    /\ conn[c].role = r
                    /\ conn[c].lease = l

\* The two parties of a lease never wait for each other at the same time: the
\* last critical section either takes the counterpart's sender or leaves one.
NeverBothPending ==
  \A l \in Lease : \E r \in Role : pending[r][l] = None

\* Once one party has taken the other's sender the lease and its token are
\* gone, so a paired lease is never claimed or attached to again.
SpentLeaseGone ==
  \A c \in Conn :
    conn[c].pc \in {"taking", "handed", "bridging", "spliced", "ended"}
    => conn[c].lease \notin live

\* The relay splices a client connection to an agent connection of the same
\* lease, the agent side having been claimed by the node the lease targets.
BridgeSound ==
  \A w \in Conn :
    conn[w].pc = "bridging" =>
      LET c == conn[w].peer
      IN  /\ c # None
          /\ conn[c].pc = "spliced"
          /\ SameLease(w, c)
          /\ conn[c].role = Other(conn[w].role)
          /\ lease[conn[w].lease].claimedBy = lease[conn[w].lease].target

\* A connection is not given up while its lease is still there: as long as a
\* waiting task's lease is in the table, its sender is too.
WaiterKeepsItsSender ==
  \A w \in Conn :
    conn[w].pc = "waiting" /\ conn[w].lease \in live => SenderAlive(w)

\* Every admitted connection is eventually spliced or closed, even when the
\* lease was swept between two of its critical sections.
EveryConnectionSettles ==
  \A c \in Conn :
    conn[c].pc = "admitted" ~>
      conn[c].pc \in {"bridging", "spliced", "ended", "failed"}

(* The inductive invariant that the proofs of RelayProofs.tla rest on.     *)

\* A lease is addressed to one node and claimed by no other.
LeasesWellFormed ==
  \A l \in issued : /\ lease[l].target \in Node
                    /\ lease[l].claimedBy \in {None, lease[l].target}

\* An admitted connection holds a seat of a lease that was issued, the flag of
\* that seat stays up while the lease lives, and an agent's lease is claimed.
SeatsWellFormed ==
  \A c \in Conn : Seated(c) =>
    LET l == conn[c].lease
    IN  /\ l \in issued
        /\ l \in live => conn[c].role \in lease[l].connected
        /\ conn[c].role = "agent" => lease[l].claimedBy # None

\* Past its last critical section.
Met(c) == Seated(c) /\ conn[c].pc # "admitted"

\* The peer of a task is the seated counterpart on the same lease.
PeersWellFormed ==
  \A c \in Conn :
    conn[c].pc \in {"taking", "handed", "bridging"} =>
      LET w == conn[c].peer
      IN  /\ w \in Conn
          /\ Met(w)
          /\ SameLease(c, w)
          /\ conn[w].role = Other(conn[c].role)
          /\ conn[c].pc = "bridging" => conn[w].pc = "spliced"

\* A sender that was taken is not in the map any more, nor is another one for
\* that lease: both seats are given.
TakenOutOfMap ==
  \A c \in Conn :
    conn[c].pc \in {"taking", "handed"} =>
      \A r \in Role : pending[r][conn[c].lease] = None

IInv ==
  /\ TypeOK
  /\ LeasesWellFormed
  /\ SeatsWellFormed
  /\ PeersWellFormed
  /\ TakenOutOfMap
  /\ SeatsGivenOnce
  /\ PendingOwned
  /\ NeverBothPending
  /\ SpentLeaseGone
  /\ WaiterKeepsItsSender

(* The refinement of Rendezvous.                                           *)

Holds(c, l, r) == Seated(c) /\ conn[c].lease = l /\ conn[c].role = r

SeatOf(l, r) ==
  IF \E c \in Conn : Holds(c, l, r)
  THEN CHOOSE c \in Conn : Holds(c, l, r)
  ELSE None

Joined ==
  {l \in Lease : \E c \in Conn :
     conn[c].lease = l /\ conn[c].pc \in {"bridging", "spliced", "ended"}}

Abs == INSTANCE Rendezvous WITH
  offered <- [l \in Lease |-> IF l \in issued THEN lease[l].target ELSE None],
  claimed <- {l \in issued : lease[l].claimedBy # None},
  seat <- [l \in Lease |-> [r \in Role |-> SeatOf(l, r)]],
  joined <- Joined

\* The relay implements the two-seat table of Rendezvous: one offer, a claim
\* before the agent sits, one connection per seat, at most one join.
ImplementsRendezvous == Abs!Spec

=============================================================================
