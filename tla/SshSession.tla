----------------------------- MODULE SshSession -----------------------------
(***************************************************************************)
(* One interactive session of the desktop backend: open_session and the    *)
(* commands of commands/session.rs, the connect_ssh task of                *)
(* core/ssh_client.rs, and the forwarder task that copies the session's    *)
(* events to the session mirror, the activity log and the UI.              *)
(*                                                                         *)
(* Commands reach the connect task through a bounded mpsc channel; events  *)
(* leave it through a bounded broadcast channel, whose only receiver is    *)
(* the forwarder.  A broadcast that overflows drops its oldest event and   *)
(* the receiver learns of it at its next recv.                             *)
(*                                                                         *)
(* The server owes nobody an answer: the connection has no timeout, a      *)
(* write waits for as long as the server takes no more, and keepalives     *)
(* only fail a server that answers nothing at all.  No await of the        *)
(* connect task on the server is fair.                                     *)
(***************************************************************************)
EXTENDS Naturals, Sequences, FiniteSets

CONSTANTS
  Caller,     \* invocations of send_input, resize_session and close_session
  InputCap,   \* capacity of the mpsc channel (1024)
  EventCap,   \* capacity of the broadcast channel (1024)
  WideText,   \* whether a character of the output may take several bytes
  MaxOutput   \* bound: messages with output that the server sends

ASSUME SshSessionAssumption ==
  /\ InputCap \in Nat \ {0}
  /\ EventCap \in Nat \ {0}
  /\ WideText \in BOOLEAN
  /\ MaxOutput \in Nat

VARIABLES
  handle,   \* whether state.sessions holds the session
  inbox,    \* the mpsc channel
  caller,   \* the state of each command
  pc,       \* the connect task
  events,   \* the events the forwarder has not received yet
  lagged,   \* whether events dropped one of them
  torn,     \* whether the forwarder panicked at the cut of the transcript
  relaying, \* whether the forwarder still runs
  mirror,   \* the status of the session mirror
  log,      \* the kinds of event in the activity log
  output,   \* messages with output received from the server
  exits     \* last_exit_status, last_exit_signal: what the server told of its end

vars ==
  <<handle, inbox, caller, pc, events, lagged, torn, relaying, mirror, log, output, exits>>

Input == {"write", "close"}   \* stdin and resize are both awaited writes

\* A "line" is a short stdout event that the client writes itself.
Event == {"diagnostic", "connected", "line", "stdout", "error", "closed"}

Status == {"none", "opening", "connected", "error", "closed"}

\* "transport" to "shell": the awaits of connect_ssh before it is connected;
\* "loop": its select!; "writing", "eof" and "closing": the awaits inside the
\* input branch, for a write and the two of a close; "failed": it returned an
\* error; "over": it returned.
Opening == {"transport", "channel", "pty", "shell"}
Serving == {"writing", "eof", "closing"}
Pc == Opening \cup Serving \cup {"unopened", "loop", "failed", "over", "gone"}

CallerPc == {"idle", "sending", "accepted", "refused"}

TypeOK ==
  /\ handle \in BOOLEAN
  /\ inbox \in Seq(Input) /\ Len(inbox) <= InputCap
  /\ caller \in [Caller -> [pc : CallerPc, input : Input]]
  /\ pc \in Pc
  /\ events \in Seq(Event) /\ Len(events) <= EventCap
  /\ lagged \in BOOLEAN
  /\ torn \in BOOLEAN
  /\ relaying \in BOOLEAN
  /\ mirror \in Status
  /\ log \subseteq Event
  /\ output \in 0..MaxOutput
  /\ exits \subseteq {"status", "signal"}

\* Mutant: the receiver outlives connect_ssh.
ReceiverNeverDropped == pc # "unopened"

\* The receiver half of the mpsc channel lives as long as connect_ssh runs.
ReceiverAlive == pc \in Opening \cup Serving \cup {"loop"}

-----------------------------------------------------------------------------
Init ==
  /\ handle = FALSE
  /\ inbox = <<>>
  /\ caller = [k \in Caller |-> [pc |-> "idle", input |-> "write"]]
  /\ pc = "unopened"
  /\ events = <<>>
  /\ lagged = FALSE
  /\ torn = FALSE
  /\ relaying = FALSE
  /\ mirror = "none"
  /\ log = {}
  /\ output = 0
  /\ exits = {}

\* Sending to a broadcast channel: with nobody left to receive the events are
\* dropped; a full buffer loses its oldest ones.
Emit(new) ==
  LET all == events \o new
      excess == IF Len(all) > EventCap THEN Len(all) - EventCap ELSE 0
  IN  IF relaying
      THEN /\ events' = SubSeq(all, excess + 1, Len(all))
           /\ lagged' = (lagged \/ excess > 0)
      ELSE UNCHANGED <<events, lagged>>

OpenSession ==
  /\ pc = "unopened"
  /\ handle' = TRUE
  /\ mirror' = "opening"
  /\ relaying' = TRUE
  /\ pc' = "transport"
  /\ events' = <<"diagnostic">>
  /\ UNCHANGED <<inbox, caller, lagged, torn, log, output, exits>>

(* The commands.                                                           *)

\* Mutant: close_session also takes the session out of the table.
CallRemovesSession(k, input) ==
  /\ caller[k].pc = "idle"
  /\ handle' = (handle /\ input # "close")
  /\ caller' = [caller EXCEPT ![k] =
                  [pc |-> IF handle THEN "sending" ELSE "refused", input |-> input]]
  /\ UNCHANGED <<inbox, pc, events, lagged, torn, relaying, mirror, log, output, exits>>

\* Look the session up and clone its sender.
Call(k, input) ==
  /\ caller[k].pc = "idle"
  /\ caller' = [caller EXCEPT ![k] =
                  [pc |-> IF handle THEN "sending" ELSE "refused", input |-> input]]
  /\ UNCHANGED <<handle, inbox, pc, events, lagged, torn, relaying, mirror, log, output, exits>>

\* Mutant: the channel is unbounded.
DeliverUnbounded(k) ==
  /\ caller[k].pc = "sending"
  /\ inbox' = Append(inbox, caller[k].input)
  /\ caller' = [caller EXCEPT ![k].pc = "accepted"]
  /\ UNCHANGED <<handle, pc, events, lagged, torn, relaying, mirror, log, output, exits>>

\* sender.send(input).await: wait for room, or fail with "channel closed".
Deliver(k) ==
  /\ caller[k].pc = "sending"
  /\ \/ /\ ReceiverAlive
        /\ Len(inbox) < InputCap
        /\ inbox' = Append(inbox, caller[k].input)
        /\ caller' = [caller EXCEPT ![k].pc = "accepted"]
     \/ /\ ~ReceiverAlive
        /\ caller' = [caller EXCEPT ![k].pc = "refused"]
        /\ UNCHANGED inbox
  /\ UNCHANGED <<handle, pc, events, lagged, torn, relaying, mirror, log, output, exits>>

(* connect_ssh.                                                            *)

\* What the transport stage tells before it ends: the lease it was given, the
\* certificate it uses, and that the password is tried instead.
Told ==
  {lease \o certificate \o fallback :
     lease \in {<<>>, <<"line">>}, certificate \in {<<>>, <<"line">>},
     fallback \in {<<>>, <<"diagnostic">>}}

\* An await of the opening sequence succeeds; the last one makes the session
\* connected.
Advance ==
  /\ \/ /\ pc = "transport"
        /\ pc' = "channel"
        /\ \E told \in Told : Emit(told \o <<"diagnostic">>)
     \/ /\ pc = "channel"
        /\ pc' = "pty"
        /\ Emit(<<"diagnostic">>)
     \/ /\ pc = "pty"
        /\ pc' = "shell"
        /\ Emit(<<"diagnostic">>)
     \/ /\ pc = "shell"
        /\ pc' = "loop"
        /\ Emit(<<"diagnostic", "connected", "line", "diagnostic">>)
  /\ UNCHANGED <<handle, inbox, caller, torn, relaying, mirror, log, output, exits>>

\* An await of the opening sequence, or a write, returns an error.
Fail ==
  /\ pc \in Opening \cup {"writing"}
  /\ pc' = "failed"
  /\ IF pc = "transport" THEN \E told \in Told : Emit(told) ELSE UNCHANGED <<events, lagged>>
  /\ UNCHANGED <<handle, inbox, caller, torn, relaying, mirror, log, output, exits>>

\* The biased select! serves the input channel first.
TakeInput ==
  /\ pc = "loop"
  /\ inbox # <<>>
  /\ inbox' = Tail(inbox)
  /\ IF Head(inbox) = "close"
     THEN pc' = "eof" /\ Emit(<<"diagnostic">>)
     ELSE pc' = "writing" /\ UNCHANGED <<events, lagged>>
  /\ UNCHANGED <<handle, caller, torn, relaying, mirror, log, output, exits>>

Written ==
  /\ pc = "writing"
  /\ pc' = "loop"
  /\ UNCHANGED <<handle, inbox, caller, events, lagged, torn, relaying, mirror, log, output, exits>>

\* The two awaits of a close, whose errors are ignored.
EofSent ==
  /\ pc = "eof"
  /\ pc' = "closing"
  /\ UNCHANGED <<handle, inbox, caller, events, lagged, torn, relaying, mirror, log, output, exits>>

CloseSent ==
  /\ pc = "closing"
  /\ pc' = "over"
  /\ Emit(<<"closed">>)
  /\ UNCHANGED <<handle, inbox, caller, torn, relaying, mirror, log, output, exits>>

\* The messages of the server are taken one by one while there is no input.
Message == pc = "loop" /\ inbox = <<>>

\* Output of the shell; the first one is announced.
ServerOutput ==
  /\ Message
  /\ output < MaxOutput
  /\ output' = output + 1
  /\ Emit(IF output = 0 THEN <<"diagnostic", "stdout">> ELSE <<"stdout">>)
  /\ UNCHANGED <<handle, inbox, caller, pc, torn, relaying, mirror, log, exits>>

\* The exit status or the exit signal, each a message of its own and told once.
ServerExits ==
  /\ Message
  /\ \E kind \in {"status", "signal"} \ exits : exits' = exits \cup {kind}
  /\ Emit(<<"diagnostic">>)
  /\ UNCHANGED <<handle, inbox, caller, pc, torn, relaying, mirror, log, output>>

\* Eof, Close or the end of the channel.
ServerCloses ==
  /\ Message
  /\ pc' = "over"
  /\ Emit(<<"diagnostic", "closed">>)
  /\ UNCHANGED <<handle, inbox, caller, torn, relaying, mirror, log, output, exits>>

\* Mutants: the two events of a failure are swapped, or the second is forgotten.
ReportFailureSwapped ==
  /\ pc = "failed"
  /\ pc' = "over"
  /\ Emit(<<"closed", "error">>)
  /\ UNCHANGED <<handle, inbox, caller, torn, relaying, mirror, log, output, exits>>

ReportFailureOnly ==
  /\ pc = "failed"
  /\ pc' = "over"
  /\ Emit(<<"error">>)
  /\ UNCHANGED <<handle, inbox, caller, torn, relaying, mirror, log, output, exits>>

\* The rest of the task that open_session spawned: report a failure, then
\* remove the session and drop the broadcast sender.
ReportFailure ==
  /\ pc = "failed"
  /\ pc' = "over"
  /\ Emit(<<"error", "closed">>)
  /\ UNCHANGED <<handle, inbox, caller, torn, relaying, mirror, log, output, exits>>

\* Mutant: the session stays in the table.
RemoveSessionForgets ==
  /\ pc = "over"
  /\ pc' = "gone"
  /\ UNCHANGED <<handle, inbox, caller, events, lagged, torn, relaying, mirror, log, output, exits>>

RemoveSession ==
  /\ pc = "over"
  /\ pc' = "gone"
  /\ handle' = FALSE
  /\ UNCHANGED <<inbox, caller, events, lagged, torn, relaying, mirror, log, output, exits>>

(* The forwarder.                                                          *)

\* SessionMirrorRegistry::update_status, applied to an event.
StatusAfter(event) ==
  IF event \in {"connected", "error", "closed"} THEN event ELSE mirror

Forward ==
  /\ relaying
  /\ ~lagged
  /\ events # <<>>
  /\ events' = Tail(events)
  /\ mirror' = StatusAfter(Head(events))
  /\ log' = IF Head(events) \in {"line", "stdout"} THEN log ELSE log \cup {Head(events)}
  /\ UNCHANGED <<handle, inbox, caller, pc, lagged, torn, relaying, output, exits>>

\* Mutant: the forwarder ends with the task, whatever it has not received yet.
StopForwardingAtOnce ==
  /\ relaying
  /\ lagged \/ pc = "gone"
  /\ relaying' = FALSE
  /\ events' = <<>>
  /\ UNCHANGED <<handle, inbox, caller, pc, lagged, torn, mirror, log, output, exits>>

\* The transcript goes over its limit and the cut falls inside a character: drain
\* panics before it changes anything, and takes the task with it.
TranscriptPanics ==
  /\ WideText
  /\ relaying
  /\ ~lagged
  /\ events # <<>> /\ Head(events) = "stdout"
  /\ torn' = TRUE
  /\ relaying' = FALSE
  /\ events' = <<>>
  /\ UNCHANGED <<handle, inbox, caller, pc, lagged, mirror, log, output, exits>>

\* recv returns Lagged, or Closed once the sender is gone: either way the
\* while let ends.
StopForwarding ==
  /\ relaying
  /\ lagged \/ (events = <<>> /\ pc = "gone")
  /\ relaying' = FALSE
  /\ events' = <<>>
  /\ UNCHANGED <<handle, inbox, caller, pc, lagged, torn, mirror, log, output, exits>>

-----------------------------------------------------------------------------
ConnectTask ==
  \/ Advance \/ Fail \/ TakeInput \/ Written \/ EofSent \/ CloseSent
  \/ ServerOutput \/ ServerExits \/ ServerCloses \/ ReportFailure \/ RemoveSession

Forwarder == Forward \/ TranscriptPanics \/ StopForwarding

Next ==
  \/ OpenSession
  \/ \E k \in Caller : Deliver(k) \/ \E input \in Input : Call(k, input)
  \/ ConnectTask
  \/ Forwarder

Spec == Init /\ [][Next]_vars

\* The runtime polls every task that can go on, and the queue of those who wait
\* for room in the channel is served in order.  Nothing is assumed of the server
\* (Advance, Fail, Written, EofSent, CloseSent and its messages) nor of the user.
Fairness ==
  /\ WF_vars(TakeInput)
  /\ WF_vars(ReportFailure \/ RemoveSession)
  /\ WF_vars(Forwarder)
  /\ \A k \in Caller : SF_vars(Deliver(k))

FairSpec == Spec /\ Fairness

-----------------------------------------------------------------------------
(* Properties.                                                             *)

StatusesAfter(status) ==
  CASE status = "none" -> {"opening"}
    [] status = "opening" -> {"connected", "error"}
    [] status = "connected" -> {"error", "closed"}
    [] status = "error" -> {"closed"}
    [] status = "closed" -> {}

\* The mirror's status only moves along the life of a session: a session is
\* connected before a regular end, an error is followed by closed,
\* and nothing follows closed, in whatever order tasks and commands run.
MirrorFollowsLifecycle == [][mirror' \in StatusesAfter(mirror)]_mirror

\* The session stays in the table as long as its task could consume input, so
\* a command is never told "session not found" while the session runs, and the
\* select! never sees its input channel closed.
RunningSessionIsFound == ReceiverAlive \/ pc = "failed" => handle

\* The awaits that only the server or the network can end.
AwaitsServer == pc \in Opening \cup Serving

\* A close that was accepted takes the session out of the table, also when it
\* was sent during the opening sequence or behind a write that blocks; unless
\* the task waits for the server for ever, which no timeout ends: then the close
\* stays in the queue and the session in the table.
CloseEndsSession ==
  \A k \in Caller :
    (caller[k].pc = "accepted" /\ caller[k].input = "close") ~> (~handle \/ []AwaitsServer)

\* A command that waits for room in the channel returns, also when the task it
\* waits for ends; nothing but a server that is silent for ever keeps it.
CallersReturn ==
  \A k \in Caller :
    caller[k].pc = "sending" ~> (caller[k].pc \in {"accepted", "refused"} \/ []AwaitsServer)

\* The end of a session reaches the mirror and the log, unless the forwarder
\* lagged or died of the transcript.
EndIsReported == pc = "gone" ~> (lagged \/ torn \/ (mirror = "closed" /\ "closed" \in log))

\* The unconditional form: once a session and its forwarder are over, the
\* activity log tells that the session closed.
EndIsLogged == pc = "gone" /\ ~relaying => "closed" \in log

=============================================================================
