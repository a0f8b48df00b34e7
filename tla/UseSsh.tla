------------------------------- MODULE UseSsh -------------------------------
(***************************************************************************)
(* The React hook that drives an interactive session                       *)
(* (app-client/src-ui/hooks/useSsh.ts).  Every connect is an attempt; its  *)
(* asynchronous function goes on after each await whatever happened since, *)
(* and guards what it does with the attempt counter.  The callbacks of the *)
(* user, of the timers, of the promises and of the backend's channels are  *)
(* the actions: JavaScript runs each of them to completion.                *)
(*                                                                         *)
(* The backend session of an attempt is SshSession seen from here: it      *)
(* opens, may connect, and ends with closed, after error if it failed.  It *)
(* may also do none of this: nothing is assumed of the server.             *)
(***************************************************************************)
EXTENDS Naturals, Sequences, FiniteSets

CONSTANTS
  MaxAttempts,  \* bound: connects, resets and unmounts
  MaxConnects,  \* bound: connects among them
  None

ASSUME UseSshAssumption ==
  /\ MaxAttempts \in Nat
  /\ MaxConnects \in Nat
  /\ None \notin Nat

Attempt == 1..MaxAttempts

VARIABLES
  attempt,   \* attemptRef
  session,   \* activeSessionIdRef; a session is named by its attempt
  status,    \* sessionStatus
  flow,      \* where the connect of each attempt stands
  timers,    \* the attempts whose timeout is armed
  timer,     \* timeoutRef: the one that clearTimeout would reach
  mounted,
  closing,   \* the sessions whose close_session call is on its way
  backend,   \* the backend session of each attempt
  asked,     \* the sessions with a close in their input channel
  channel,   \* the events of each attempt on their way to the hook
  overwritten \* history: what a superseded connect took of the latest attempt

vars == <<attempt, session, status, flow, timers, timer, mounted, closing,
          backend, asked, channel, overwritten>>

Event == {"connected", "error", "closed"}

TypeOK ==
  /\ attempt \in 0..MaxAttempts
  /\ session \in Attempt \cup {None}
  /\ status \in {"idle", "connecting", "connected", "closed", "error"}
  /\ flow \in [Attempt -> [pc : {"none", "closing", "loading", "opening", "done"},
                           waits : Attempt \cup {None}]]
  /\ timers \subseteq Attempt
  /\ timer \in Attempt \cup {None}
  /\ mounted \in BOOLEAN
  /\ closing \subseteq Attempt
  /\ backend \in [Attempt -> {"none", "opening", "connected", "over"}]
  /\ asked \subseteq Attempt
  /\ channel \in [Attempt -> Seq(Event)]
  /\ overwritten \subseteq {"status", "timeout"}

-----------------------------------------------------------------------------
Init ==
  /\ attempt = 0
  /\ session = None
  /\ status = "idle"
  /\ flow = [a \in Attempt |-> [pc |-> "none", waits |-> None]]
  /\ timers = {}
  /\ timer = None
  /\ mounted = TRUE
  /\ closing = {}
  /\ backend = [a \in Attempt |-> "none"]
  /\ asked = {}
  /\ channel = [a \in Attempt |-> <<>>]
  /\ overwritten = {}

Goto(a, pc) == flow' = [flow EXCEPT ![a].pc = pc]

ClearConnectionTimeout ==
  /\ timers' = timers \ {timer}
  /\ timer' = None

\* A mutant: close_session is called even with no session.
InvokeCloseUnchecked(S) == closing' = closing \cup S

InvokeClose(S) == closing' = closing \cup (S \ {None})

\* The part of closeActiveSession that runs before its first await.
CloseActiveSession ==
  /\ ClearConnectionTimeout
  /\ session' = None
  /\ InvokeClose({session})

\* The user may act at any time, also while a connect awaits the close of the
\* session before it.
UserMayAct == mounted /\ attempt < MaxAttempts

(* The user.                                                               *)

Connect ==
  /\ UserMayAct
  /\ Cardinality({a \in Attempt : flow[a].pc # "none"}) < MaxConnects
  /\ attempt' = attempt + 1
  /\ CloseActiveSession
  /\ overwritten' = {}
  /\ flow' = [flow EXCEPT ![attempt + 1] = [pc |-> "closing", waits |-> session]]
  /\ UNCHANGED <<status, mounted, backend, asked, channel>>

ResetWizard ==
  /\ UserMayAct
  /\ attempt' = attempt + 1
  /\ CloseActiveSession
  /\ overwritten' = {}
  /\ status' = "idle"
  /\ UNCHANGED <<flow, mounted, backend, asked, channel>>

\* The button stands beside the terminal, which a connect takes off the screen.
CloseButton ==
  /\ mounted
  /\ status \in {"connected", "closed", "error"}
  /\ CloseActiveSession
  /\ UNCHANGED <<attempt, status, flow, mounted, backend, asked, channel, overwritten>>

Unmount ==
  /\ UserMayAct
  /\ attempt' = attempt + 1
  /\ CloseActiveSession
  /\ overwritten' = {}
  /\ mounted' = FALSE
  /\ UNCHANGED <<status, flow, backend, asked, channel>>

(* The continuations of connect.                                           *)

\* closeActiveSession is over; the rest up to the next await does not look at
\* the attempt counter.
Resume(a) ==
  /\ flow[a].pc = "closing"
  /\ flow[a].waits \notin closing
  /\ status' = "connecting"
  /\ Goto(a, "loading")
  /\ overwritten' = IF a = attempt THEN overwritten \ {"status"} ELSE overwritten \cup {"status"}
  /\ UNCHANGED <<attempt, session, timers, timer, mounted, closing, backend,
                 asked, channel>>

\* Arm the timeout and invoke open_session, which registers the session unless
\* the call itself fails.
Open(a) ==
  /\ flow[a].pc = "loading"
  /\ timers' = timers \cup {a}
  /\ timer' = a
  /\ \E stage \in {"opening", "none"} : backend' = [backend EXCEPT ![a] = stage]
  /\ Goto(a, "opening")
  /\ overwritten' = IF a = attempt THEN overwritten \ {"timeout"} ELSE overwritten \cup {"timeout"}
  /\ UNCHANGED <<attempt, session, status, mounted, closing, asked, channel>>

\* Mutants: the answer is taken whatever the attempt; a late one is dropped.
OpenedUnchecked(a) ==
  /\ flow[a].pc = "opening" /\ backend[a] # "none"
  /\ Goto(a, "done")
  /\ session' = a
  /\ UNCHANGED <<attempt, status, timers, timer, mounted, closing, backend, asked, channel, overwritten>>

OpenedDropsLate(a) ==
  /\ flow[a].pc = "opening" /\ backend[a] # "none"
  /\ Goto(a, "done")
  /\ session' = IF attempt = a THEN a ELSE session
  /\ UNCHANGED <<attempt, status, timers, timer, mounted, closing, backend, asked, channel, overwritten>>

\* open_session returned the session id: nothing orders that answer with the
\* events of the session.
Opened(a) ==
  /\ flow[a].pc = "opening"
  /\ backend[a] # "none"
  /\ Goto(a, "done")
  /\ IF attempt = a
     THEN session' = a /\ UNCHANGED closing
     ELSE InvokeClose({a}) /\ UNCHANGED session
  /\ UNCHANGED <<attempt, status, timers, timer, mounted, backend, asked, channel, overwritten>>

\* A mutant: the failure is only caught.
OpenRejectedSilently(a) ==
  /\ flow[a].pc = "opening" /\ backend[a] = "none"
  /\ Goto(a, "done")
  /\ IF attempt = a THEN ClearConnectionTimeout ELSE UNCHANGED <<timers, timer>>
  /\ UNCHANGED <<attempt, session, status, mounted, closing, backend, asked, channel, overwritten>>

OpenRejected(a) ==
  /\ flow[a].pc = "opening"
  /\ backend[a] = "none"
  /\ Goto(a, "done")
  /\ IF attempt = a
     THEN ClearConnectionTimeout /\ status' = "error"
     ELSE UNCHANGED <<timers, timer, status>>
  /\ UNCHANGED <<attempt, session, mounted, closing, backend, asked, channel, overwritten>>

TimeoutFires(a) ==
  /\ a \in timers
  /\ timers' = timers \ {a}
  /\ IF attempt = a
     THEN status' = "error" /\ InvokeClose({session})
     ELSE UNCHANGED <<status, closing>>
  /\ UNCHANGED <<attempt, session, flow, timer, mounted, backend, asked, channel, overwritten>>

\* Mutants: events are filtered by the session and not by the attempt; the
\* timeout is left armed.
ReceiveBySession(a) ==
  /\ channel[a] # <<>>
  /\ channel' = [channel EXCEPT ![a] = Tail(@)]
  /\ status' = IF session = a THEN Head(channel[a]) ELSE status
  /\ UNCHANGED <<attempt, session, flow, timers, timer, mounted, closing, backend, asked, overwritten>>

ReceiveKeepsTimer(a) ==
  /\ channel[a] # <<>>
  /\ channel' = [channel EXCEPT ![a] = Tail(@)]
  /\ status' = IF attempt = a THEN Head(channel[a]) ELSE status
  /\ UNCHANGED <<attempt, session, flow, timers, timer, mounted, closing, backend, asked, overwritten>>

\* eventChannel.onmessage.  Diagnostics and stdout only append to the output.
Receive(a) ==
  /\ channel[a] # <<>>
  /\ channel' = [channel EXCEPT ![a] = Tail(@)]
  /\ LET event == Head(channel[a])
     IN  \/ attempt # a /\ UNCHANGED <<session, status, timers, timer>>
         \/ /\ attempt = a
            /\ ClearConnectionTimeout
            /\ session' = CASE event = "connected" -> a
                            [] event = "closed" -> None
                            [] event = "error" -> session
            /\ status' = IF event = "closed" /\ status = "error" THEN "error" ELSE event
  /\ UNCHANGED <<attempt, flow, mounted, closing, backend, asked, overwritten>>

(* The backend.                                                            *)

CloseArrives(a) ==
  /\ a \in closing
  /\ closing' = closing \ {a}
  /\ asked' = IF backend[a] \in {"opening", "connected"} THEN asked \cup {a} ELSE asked
  /\ UNCHANGED <<attempt, session, status, flow, timers, timer, mounted, backend, channel, overwritten>>

Proceed(a, stage, events) ==
  /\ backend' = [backend EXCEPT ![a] = stage]
  /\ channel' = [channel EXCEPT ![a] = @ \o events]
  /\ UNCHANGED <<attempt, session, status, flow, timers, timer, mounted, closing, asked, overwritten>>

BackendConnects(a) == backend[a] = "opening" /\ Proceed(a, "connected", <<"connected">>)

BackendFails(a) ==
  backend[a] \in {"opening", "connected"} /\ Proceed(a, "over", <<"error", "closed">>)

\* Because it was asked to, or because the server closed.
BackendCloses(a) == backend[a] = "connected" /\ Proceed(a, "over", <<"closed">>)

-----------------------------------------------------------------------------
Next ==
  \/ Connect \/ ResetWizard \/ CloseButton \/ Unmount
  \/ \E a \in Attempt :
       \/ Resume(a) \/ Open(a) \/ Opened(a) \/ OpenRejected(a) \/ TimeoutFires(a)
       \/ Receive(a) \/ CloseArrives(a)
       \/ BackendConnects(a) \/ BackendFails(a) \/ BackendCloses(a)

Spec == Init /\ [][Next]_vars

\* Promises that were answered resolve, timers fire and events arrive.  Nothing
\* is assumed of the backend, which may wait for its server for ever, of the close
\* on its way to it, nor of the user.
Fairness ==
  \A a \in Attempt :
    /\ WF_vars(Resume(a)) /\ WF_vars(Open(a)) /\ WF_vars(Opened(a) \/ OpenRejected(a))
    /\ WF_vars(TimeoutFires(a)) /\ WF_vars(Receive(a))

FairSpec == Spec /\ Fairness

-----------------------------------------------------------------------------
(* Properties.                                                             *)

\* The session that input, resize and close go to is the one of the current
\* attempt, whatever promises and events of older attempts arrive late.
SessionIsCurrent == session \in {attempt, None}

\* The session of an attempt that was superseded, reset or unmounted is asked to
\* end, whenever open_session tells its id: none is left with nobody to close it.
StaleSessionsAreClosed ==
  \A a \in Attempt :
    (a < attempt /\ backend[a] # "none") ~> (backend[a] = "over" \/ a \in closing \cup asked)

\* Once the connected event of the current attempt was taken, no timeout is left
\* that would declare it dead: the only one that can be left is one whose handle a
\* superseded connect, going on after its await, replaced in timeoutRef.
ConnectedDisarmsTimeout ==
  status = "connected" /\ attempt \in timers => "timeout" \in overwritten

\* When the session of the current attempt is over and its events were taken,
\* the user sees it, unless a superseded connect has announced itself meanwhile.
EndIsShown ==
  attempt \in Attempt /\ backend[attempt] = "over" /\ channel[attempt] = <<>>
    => status \in {"closed", "error"} \/ "status" \in overwritten

\* The latest connect waits for close_session, which waits for room in the input
\* channel of a backend that takes no input.
AwaitsClose == attempt \in Attempt /\ flow[attempt].pc = "closing"

\* An attempt does not hang, whatever its backend does: a wizard on the screen
\* leaves "connecting" for good or evil, unless a superseded connect put it there,
\* whose events and timeout nobody listens to, or the close of the session before
\* it never returns.
ConnectingSettles ==
  (status = "connecting" /\ mounted)
    ~> (status # "connecting" \/ ~mounted \/ "status" \in overwritten \/ []AwaitsClose)

=============================================================================
