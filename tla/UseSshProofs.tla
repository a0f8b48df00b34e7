---------------------------- MODULE UseSshProofs ----------------------------
(***************************************************************************)
(* The hook never keeps the session of another attempt, for any number of  *)
(* attempts and also while connects overlap.  The timeout of the latest    *)
(* attempt is the one clearTimeout reaches (TimerReaches), and a session   *)
(* that is over has closed as its last event (ClosedComesLast): so a       *)
(* connected session has no timeout armed and the end of a session is      *)
(* shown, up to what a superseded connect overwrites as it goes on.        *)
(***************************************************************************)
EXTENDS UseSsh, SequenceTheorems, TLAPS

Stages == {"none", "closing", "loading", "opening", "done"}

Flow == [pc : Stages, waits : Attempt \cup {None}]

\* Attempts begin in order, and nothing of one exists before open_session.
BegunInOrder ==
  \A a \in Attempt :
    /\ a > attempt => flow[a].pc = "none"
    /\ flow[a].pc \in {"none", "closing", "loading"} => backend[a] = "none" /\ a \notin timers
    /\ backend[a] = "none" => channel[a] = <<>>

TimerReaches == attempt \in timers => timer = attempt \/ "timeout" \in overwritten

LoadingIsConnecting ==
  attempt \in Attempt /\ flow[attempt].pc = "loading" => status = "connecting"

ClosedComesLast ==
  \A a \in Attempt : backend[a] = "over" /\ channel[a] # <<>> =>
    channel[a][Len(channel[a])] = "closed"

\* The inductive invariant.
CalmInv ==
  /\ BegunInOrder
  /\ TimerReaches
  /\ LoadingIsConnecting
  /\ ClosedComesLast
  /\ ConnectedDisarmsTimeout
  /\ EndIsShown

-----------------------------------------------------------------------------
(* Types.                                                                  *)

LEMMA GotoMoves ==
  ASSUME TypeOK, NEW a \in Attempt, NEW p \in Stages, Goto(a, p)
  PROVE  /\ flow' \in [Attempt -> Flow]
         /\ \A b \in Attempt : flow'[b].pc = IF b = a THEN p ELSE flow[b].pc
<1>1. flow \in [Attempt -> Flow]
  BY DEF TypeOK, Flow, Stages
<1>2. flow' = [flow EXCEPT ![a].pc = p]
  BY DEF Goto
<1> QED
  BY <1>1, <1>2 DEF Flow

\* What a handler of the user does to the session and the timeout.
LEMMA ClosingType ==
  ASSUME TypeOK, CloseActiveSession
  PROVE  /\ session' \in Attempt \cup {None}
         /\ timers' \subseteq Attempt
         /\ timer' \in Attempt \cup {None}
         /\ closing' \subseteq Attempt
BY DEF TypeOK, CloseActiveSession, ClearConnectionTimeout, InvokeClose

LEMMA NextAttempt ==
  ASSUME TypeOK, UserMayAct
  PROVE  attempt + 1 \in Attempt /\ attempt \in 0..MaxAttempts /\ attempt \in Nat
BY UseSshAssumption DEF TypeOK, UserMayAct, Attempt

LEMMA ProceedType ==
  ASSUME TypeOK, NEW a \in Attempt, NEW stage \in {"connected", "over"},
         NEW events \in Seq(Event), Proceed(a, stage, events)
  PROVE  TypeOK'
<1>1. channel[a] \o events \in Seq(Event)
  BY DEF TypeOK
<1> QED
  BY <1>1 DEF Proceed, TypeOK

LEMMA SentEvents ==
  /\ <<"connected">> \in Seq(Event)
  /\ <<"closed">> \in Seq(Event)
  /\ <<"error", "closed">> \in Seq(Event)
BY DEF Event

LEMMA TypeStep ==
  ASSUME TypeOK, Next
  PROVE  TypeOK'
<1>1. CASE Connect
  <2>1. attempt + 1 \in Attempt /\ attempt + 1 \in 0..MaxAttempts
    BY <1>1, NextAttempt, UseSshAssumption DEF Connect, Attempt
  <2>2. flow' \in [Attempt -> Flow]
    <3>1. [pc |-> "closing", waits |-> session] \in Flow
      BY DEF TypeOK, Flow, Stages
    <3>2. flow \in [Attempt -> Flow]
      BY DEF TypeOK, Flow, Stages
    <3> QED
      BY <1>1, <2>1, <3>1, <3>2 DEF Connect
  <2> QED
    BY <1>1, <2>1, <2>2, ClosingType DEF Connect, TypeOK, Flow, Stages
<1>2. CASE ResetWizard \/ Unmount
  <2>1. attempt + 1 \in 0..MaxAttempts
    BY <1>2, NextAttempt, UseSshAssumption DEF ResetWizard, Unmount, Attempt
  <2> QED
    BY <1>2, <2>1, ClosingType DEF ResetWizard, Unmount, TypeOK
<1>3. CASE CloseButton
  BY <1>3, ClosingType DEF CloseButton, TypeOK
<1>4. ASSUME NEW a \in Attempt, Resume(a)
      PROVE  TypeOK'
  <2>1. flow' \in [Attempt -> Flow]
    BY <1>4, GotoMoves DEF Resume, Stages
  <2> QED
    BY <1>4, <2>1 DEF Resume, TypeOK, Flow, Stages
<1>5. ASSUME NEW a \in Attempt, Open(a)
      PROVE  TypeOK'
  <2>1. flow' \in [Attempt -> Flow]
    BY <1>5, GotoMoves DEF Open, Stages
  <2>2. PICK stage \in {"opening", "none"} : backend' = [backend EXCEPT ![a] = stage]
    BY <1>5 DEF Open
  <2>3. backend' \in [Attempt -> {"none", "opening", "connected", "over"}]
    BY <2>2 DEF TypeOK
  <2> QED
    BY <1>5, <2>1, <2>3 DEF Open, TypeOK, Flow, Stages
<1>6. ASSUME NEW a \in Attempt, Opened(a)
      PROVE  TypeOK'
  <2>1. flow' \in [Attempt -> Flow]
    BY <1>6, GotoMoves DEF Opened, Stages
  <2>2. session' \in Attempt \cup {None} /\ closing' \subseteq Attempt
    BY <1>6 DEF Opened, InvokeClose, TypeOK
  <2> QED
    BY <1>6, <2>1, <2>2 DEF Opened, TypeOK, Flow, Stages
<1>7. ASSUME NEW a \in Attempt, OpenRejected(a)
      PROVE  TypeOK'
  <2>1. flow' \in [Attempt -> Flow]
    BY <1>7, GotoMoves DEF OpenRejected, Stages
  <2>2. /\ timers' \subseteq Attempt /\ timer' \in Attempt \cup {None}
        /\ status' \in {"idle", "connecting", "connected", "closed", "error"}
    BY <1>7 DEF OpenRejected, ClearConnectionTimeout, TypeOK
  <2> QED
    BY <1>7, <2>1, <2>2 DEF OpenRejected, TypeOK, Flow, Stages
<1>8. ASSUME NEW a \in Attempt, TimeoutFires(a)
      PROVE  TypeOK'
  BY <1>8 DEF TimeoutFires, InvokeClose, TypeOK
<1>9. ASSUME NEW a \in Attempt, Receive(a)
      PROVE  TypeOK'
  <2>1. channel[a] \in Seq(Event) /\ channel[a] # <<>>
    BY <1>9 DEF Receive, TypeOK
  <2>2. Tail(channel[a]) \in Seq(Event) /\ Head(channel[a]) \in Event
    BY <2>1
  <2>3. channel' \in [Attempt -> Seq(Event)]
    BY <1>9, <2>2 DEF Receive, TypeOK
  <2>4. /\ session' \in Attempt \cup {None}
        /\ timers' \subseteq Attempt /\ timer' \in Attempt \cup {None}
        /\ status' \in {"idle", "connecting", "connected", "closed", "error"}
    BY <1>9, <2>2 DEF Receive, ClearConnectionTimeout, TypeOK, Event
  <2> QED
    BY <1>9, <2>3, <2>4 DEF Receive, TypeOK
<1>10. ASSUME NEW a \in Attempt, CloseArrives(a)
       PROVE  TypeOK'
  BY <1>10 DEF CloseArrives, TypeOK
<1>11. ASSUME NEW a \in Attempt, BackendConnects(a) \/ BackendFails(a) \/ BackendCloses(a)
       PROVE  TypeOK'
  BY <1>11, ProceedType, SentEvents DEF BackendConnects, BackendFails, BackendCloses
<1> QED
  BY <1>1, <1>2, <1>3, <1>4, <1>5, <1>6, <1>7, <1>8, <1>9, <1>10, <1>11 DEF Next

\* Every variable keeps its type, for any number of attempts.
THEOREM TypeCorrect == Spec => []TypeOK
<1>1. Init => TypeOK
  BY UseSshAssumption DEF Init, TypeOK
<1>2. TypeOK /\ [Next]_vars => TypeOK'
  <2> SUFFICES ASSUME TypeOK, [Next]_vars
               PROVE  TypeOK'
    OBVIOUS
  <2>1. CASE UNCHANGED vars
    BY <2>1 DEF vars, TypeOK
  <2> QED
    BY <2>1, TypeStep
<1> QED
  BY <1>1, <1>2, PTL DEF Spec

-----------------------------------------------------------------------------
(* The session is that of the current attempt.                             *)

\* Nothing but a connect, a reset or an unmount moves the attempt counter, and
\* each of those forgets the session in the same step.
LEMMA CountingForgets ==
  ASSUME Next
  PROVE  attempt' = attempt \/ session' = None
BY DEF Next, Connect, ResetWizard, CloseButton, Unmount, CloseActiveSession,
       Resume, Open, Opened, OpenRejected, TimeoutFires, Receive, CloseArrives,
       Proceed, BackendConnects, BackendFails, BackendCloses

\* The session is only ever set to that of the current attempt.
LEMMA SessionSetIsCurrent ==
  ASSUME TypeOK, Next
  PROVE  session' \in {session, attempt, None}
<1>1. CASE Connect \/ ResetWizard \/ CloseButton \/ Unmount
  BY <1>1 DEF Connect, ResetWizard, CloseButton, Unmount, CloseActiveSession
<1>2. ASSUME NEW a \in Attempt, Receive(a)
      PROVE  session' \in {session, attempt, None}
  <2>1. Head(channel[a]) \in Event
    BY <1>2 DEF TypeOK, Receive
  <2> QED
    BY <1>2, <2>1 DEF Receive, Event
<1>3. ASSUME NEW a \in Attempt, Opened(a)
      PROVE  session' \in {session, attempt, None}
  BY <1>3 DEF Opened
<1>4. CASE UNCHANGED session
  BY <1>4
<1> QED
  BY <1>1, <1>2, <1>3, <1>4
  DEF Next, Resume, Open, OpenRejected, TimeoutFires, CloseArrives, Proceed,
      BackendConnects, BackendFails, BackendCloses

\* Input, resize and close only ever go to the session of the current attempt
\* (activeSessionIdRef), however promises and events of older ones are delayed.
THEOREM SessionStaysCurrent == Spec => []SessionIsCurrent
<1>1. Init => SessionIsCurrent
  BY DEF Init, SessionIsCurrent
<1>2. TypeOK /\ SessionIsCurrent /\ [Next]_vars => SessionIsCurrent'
  <2> SUFFICES ASSUME TypeOK, SessionIsCurrent, [Next]_vars
               PROVE  SessionIsCurrent'
    OBVIOUS
  <2>1. CASE Next
    BY <2>1, CountingForgets, SessionSetIsCurrent DEF SessionIsCurrent
  <2>2. CASE UNCHANGED vars
    BY <2>2 DEF vars, SessionIsCurrent
  <2> QED
    BY <2>1, <2>2
<1> QED
  BY <1>1, <1>2, TypeCorrect, PTL DEF Spec

-----------------------------------------------------------------------------
(* The timeout is disarmed and the end is shown.                           *)

\* A superseded attempt is followed by one of which nothing exists yet.
LEMMA SupersededIsCalm ==
  ASSUME TypeOK, CalmInv, UserMayAct, CloseActiveSession,
         attempt' = attempt + 1, UNCHANGED <<backend, channel>>,
         status' \in {status, "idle"},
         NEW p \in {"none", "closing"},
         \A a \in Attempt : flow'[a].pc = IF a = attempt + 1 THEN p ELSE flow[a].pc
  PROVE  CalmInv'
<1>1. attempt + 1 \in Attempt /\ attempt \in Nat /\ Attempt \subseteq Nat
  BY NextAttempt DEF Attempt
<1>2. flow'[attempt + 1].pc # "loading"
  BY <1>1
<1>3. flow[attempt + 1].pc = "none"
  BY <1>1 DEF CalmInv, BegunInOrder
<1>4. timers' \subseteq timers /\ attempt + 1 \notin timers
  BY <1>1, <1>3 DEF CloseActiveSession, ClearConnectionTimeout, CalmInv, BegunInOrder
<1>5. backend[attempt + 1] = "none"
  BY <1>1, <1>3 DEF CalmInv, BegunInOrder
<1>6. BegunInOrder'
  <2>1. \A a \in Attempt : a > attempt + 1 => a > attempt /\ a # attempt + 1
    BY <1>1
  <2> QED
    BY <1>1, <1>3, <1>4, <1>5, <2>1 DEF CalmInv, BegunInOrder
<1>7. LoadingIsConnecting'
  BY <1>2 DEF LoadingIsConnecting
<1>8. TimerReaches' /\ ConnectedDisarmsTimeout'
  BY <1>4 DEF TimerReaches, ConnectedDisarmsTimeout
<1>9. ClosedComesLast'
  BY DEF CalmInv, ClosedComesLast
<1>10. EndIsShown'
  BY <1>5 DEF EndIsShown
<1> QED
  BY <1>6, <1>7, <1>8, <1>9, <1>10 DEF CalmInv

\* The timeout of the attempt is cleared and the status set by one of its handlers.
LEMMA ClearedIsCalm ==
  ASSUME TypeOK, CalmInv, ClearConnectionTimeout, attempt' = attempt
  PROVE  timers' \subseteq timers /\ (attempt \notin timers' \/ "timeout" \in overwritten)
BY DEF ClearConnectionTimeout, CalmInv, TimerReaches

LEMMA ResumeIsCalm ==
  ASSUME TypeOK, CalmInv, NEW a \in Attempt, Resume(a)
  PROVE  CalmInv'
<1>1. backend[a] = "none" /\ a \notin timers
  BY DEF Resume, CalmInv, BegunInOrder
<1>2. /\ flow[a].pc = "closing"
      /\ \A b \in Attempt : flow'[b].pc = IF b = a THEN "loading" ELSE flow[b].pc
      /\ status' = "connecting"
      /\ a # attempt => "status" \in overwritten'
      /\ "timeout" \in overwritten => "timeout" \in overwritten'
      /\ UNCHANGED <<attempt, timers, timer, backend, channel>>
  BY GotoMoves DEF Resume, Stages
<1>3. BegunInOrder'
  BY <1>1, <1>2 DEF CalmInv, BegunInOrder
<1>4. LoadingIsConnecting' /\ ConnectedDisarmsTimeout'
  BY <1>2 DEF LoadingIsConnecting, ConnectedDisarmsTimeout
<1>5. TimerReaches' /\ EndIsShown'
  BY <1>1, <1>2 DEF CalmInv, TimerReaches, EndIsShown
<1>6. ClosedComesLast'
  BY <1>2 DEF CalmInv, ClosedComesLast
<1> QED
  BY <1>3, <1>4, <1>5, <1>6 DEF CalmInv

LEMMA OpenIsCalm ==
  ASSUME TypeOK, CalmInv, NEW a \in Attempt, Open(a)
  PROVE  CalmInv'
<1>1. /\ flow[a].pc = "loading" /\ (a = attempt => status = "connecting")
      /\ backend[a] = "none" /\ a \notin timers /\ channel[a] = <<>>
  BY DEF Open, CalmInv, BegunInOrder, LoadingIsConnecting
<1>2. /\ \A b \in Attempt : flow'[b].pc = IF b = a THEN "opening" ELSE flow[b].pc
      /\ UNCHANGED <<attempt, status, channel>>
      /\ timers' = timers \cup {a} /\ timer' = a
      /\ a # attempt => "timeout" \in overwritten'
      /\ "status" \in overwritten => "status" \in overwritten'
  BY GotoMoves DEF Open, Stages
<1>3. \A b \in Attempt : IF b = a THEN backend'[b] \in {"opening", "none"} ELSE backend'[b] = backend[b]
  BY DEF Open, TypeOK
<1>4. BegunInOrder' /\ LoadingIsConnecting'
  BY <1>1, <1>2, <1>3 DEF CalmInv, BegunInOrder, LoadingIsConnecting
<1>5. TimerReaches' /\ ConnectedDisarmsTimeout'
  BY <1>1, <1>2 DEF TimerReaches, ConnectedDisarmsTimeout
<1>6. EndIsShown'
  BY <1>1, <1>2, <1>3 DEF CalmInv, EndIsShown
<1>7. ClosedComesLast'
  BY <1>2, <1>3 DEF CalmInv, ClosedComesLast
<1> QED
  BY <1>4, <1>5, <1>6, <1>7 DEF CalmInv

\* The answer of open_session, whatever it is.
LEMMA AnswerIsCalm ==
  ASSUME TypeOK, CalmInv, NEW a \in Attempt, Opened(a) \/ OpenRejected(a)
  PROVE  CalmInv'
<1>1. /\ flow[a].pc = "opening"
      /\ \A b \in Attempt : flow'[b].pc = IF b = a THEN "done" ELSE flow[b].pc
      /\ UNCHANGED <<attempt, backend, channel, overwritten>>
  BY GotoMoves DEF Opened, OpenRejected, Stages
<1>2. \/ UNCHANGED <<timers, timer, status>>
      \/ attempt = a /\ ClearConnectionTimeout /\ status' = "error"
  BY DEF Opened, OpenRejected
<1>3. /\ timers' \subseteq timers
      /\ \/ UNCHANGED <<timers, timer, status>>
         \/ /\ attempt = a /\ status' = "error"
            /\ attempt \notin timers' \/ "timeout" \in overwritten
  BY <1>1, <1>2, ClearedIsCalm
<1>4. attempt \in Nat /\ Attempt \subseteq Nat
  BY DEF TypeOK, Attempt
<1>5. BegunInOrder'
  BY <1>1, <1>3, <1>4 DEF CalmInv, BegunInOrder
<1>6. LoadingIsConnecting'
  BY <1>1, <1>3 DEF CalmInv, LoadingIsConnecting
<1>7. TimerReaches' /\ ConnectedDisarmsTimeout' /\ EndIsShown'
  BY <1>1, <1>3 DEF CalmInv, TimerReaches, ConnectedDisarmsTimeout, EndIsShown
<1>8. ClosedComesLast'
  BY <1>1 DEF CalmInv, ClosedComesLast
<1> QED
  BY <1>5, <1>6, <1>7, <1>8 DEF CalmInv

LEMMA TimeoutIsCalm ==
  ASSUME TypeOK, CalmInv, NEW a \in Attempt, TimeoutFires(a)
  PROVE  CalmInv'
<1>1. /\ a \in timers /\ timers' = timers \ {a}
      /\ status' = IF attempt = a THEN "error" ELSE status
      /\ UNCHANGED <<attempt, flow, timer, backend, channel, overwritten>>
  BY DEF TimeoutFires
<1>2. attempt = a => flow[a].pc \notin {"none", "closing", "loading"}
  BY <1>1 DEF CalmInv, BegunInOrder
<1>3. BegunInOrder' /\ ClosedComesLast'
  BY <1>1 DEF CalmInv, BegunInOrder, ClosedComesLast
<1>4. LoadingIsConnecting'
  BY <1>1, <1>2 DEF CalmInv, LoadingIsConnecting
<1>5. TimerReaches' /\ ConnectedDisarmsTimeout' /\ EndIsShown'
  BY <1>1 DEF CalmInv, TimerReaches, ConnectedDisarmsTimeout, EndIsShown
<1> QED
  BY <1>3, <1>4, <1>5 DEF CalmInv

LEMMA ReceiveIsCalm ==
  ASSUME TypeOK, CalmInv, NEW a \in Attempt, Receive(a)
  PROVE  CalmInv'
<1>1. /\ channel[a] \in Seq(Event) /\ channel[a] # <<>> /\ Head(channel[a]) \in Event
      /\ Tail(channel[a]) \in Seq(Event)
      /\ \A b \in Attempt : channel'[b] = IF b = a THEN Tail(channel[a]) ELSE channel[b]
      /\ UNCHANGED <<attempt, flow, backend, overwritten>>
  <2>1. channel[a] \in Seq(Event) /\ channel[a] # <<>>
    BY DEF Receive, TypeOK
  <2>2. Head(channel[a]) \in Event /\ Tail(channel[a]) \in Seq(Event)
    BY <2>1
  <2> QED
    BY <2>1, <2>2 DEF Receive, TypeOK
<1>2. backend[a] # "none" /\ flow[a].pc \notin {"none", "closing", "loading"}
  BY <1>1 DEF CalmInv, BegunInOrder
<1>3. \/ attempt # a /\ UNCHANGED <<status, timers, timer>>
      \/ /\ attempt = a /\ timers' \subseteq timers
         /\ attempt \notin timers' \/ "timeout" \in overwritten
         /\ status' = IF Head(channel[a]) = "closed" /\ status = "error"
                      THEN "error" ELSE Head(channel[a])
  BY ClearedIsCalm DEF Receive
<1>4. BegunInOrder'
  BY <1>1, <1>2, <1>3 DEF CalmInv, BegunInOrder
<1>5. LoadingIsConnecting'
  BY <1>1, <1>2, <1>3 DEF CalmInv, LoadingIsConnecting
<1>6. TimerReaches' /\ ConnectedDisarmsTimeout'
  BY <1>1, <1>3 DEF CalmInv, TimerReaches, ConnectedDisarmsTimeout
<1>7. /\ Tail(channel[a]) = <<>> => channel[a][Len(channel[a])] = Head(channel[a])
      /\ Tail(channel[a]) # <<>> =>
           Tail(channel[a])[Len(Tail(channel[a]))] = channel[a][Len(channel[a])]
  <2> DEFINE s == channel[a]
             r == Tail(s)
  <2>1. /\ s \in Seq(Event) /\ s # <<>> /\ r \in Seq(Event)
        /\ Len(r) = Len(s) - 1 /\ Head(s) = s[1]
        /\ \A i \in 1..Len(r) : r[i] = s[i + 1]
    <3>1. s \in Seq(Event) /\ s # <<>>
      BY <1>1
    <3> QED
      BY <3>1, HeadTailProperties
  <2> HIDE DEF s, r
  <2>2. /\ Len(s) \in Nat /\ Len(s) # 0 /\ Len(r) \in Nat
        /\ r = <<>> <=> Len(r) = 0
    BY <2>1, EmptySeq, LenProperties
  <2>3. r = <<>> => s[Len(s)] = Head(s)
    <3>1. r = <<>> => Len(s) = 1
      BY <2>1, <2>2
    <3> QED
      BY <2>1, <3>1
  <2>4. r # <<>> => r[Len(r)] = s[Len(s)]
    <3>1. r # <<>> => Len(r) \in 1..Len(r) /\ Len(r) + 1 = Len(s)
      BY <2>1, <2>2
    <3> QED
      BY <2>1, <3>1
  <2> QED
    BY <2>3, <2>4 DEF s, r
<1>8. ClosedComesLast'
  BY <1>1, <1>7 DEF CalmInv, ClosedComesLast
<1>9. EndIsShown'
  <2>1. CASE attempt = a
    BY <1>1, <1>3, <1>7, <2>1 DEF CalmInv, ClosedComesLast, EndIsShown
  <2>2. CASE attempt # a
    BY <1>1, <1>3, <2>2 DEF CalmInv, EndIsShown
  <2> QED
    BY <2>1, <2>2
<1> QED
  BY <1>4, <1>5, <1>6, <1>8, <1>9 DEF CalmInv

\* The backend goes on; when a session is over, closed comes last.
LEMMA ProceedIsCalm ==
  ASSUME TypeOK, CalmInv, NEW a \in Attempt, NEW stage \in {"connected", "over"},
         NEW events \in Seq(Event), events # <<>>,
         stage = "over" => events[Len(events)] = "closed",
         backend[a] # "none", Proceed(a, stage, events)
  PROVE  CalmInv'
<1>1. /\ \A b \in Attempt : backend'[b] = IF b = a THEN stage ELSE backend[b]
      /\ \A b \in Attempt : channel'[b] = IF b = a THEN channel[a] \o events ELSE channel[b]
      /\ UNCHANGED <<attempt, status, flow, timers, timer, overwritten>>
  BY DEF Proceed, TypeOK
<1>2. /\ channel[a] \o events # <<>>
      /\ stage = "over" =>
           (channel[a] \o events)[Len(channel[a] \o events)] = "closed"
  <2> DEFINE s == channel[a]
             all == s \o events
  <2>1. s \in Seq(Event)
    BY DEF TypeOK
  <2>2. /\ Len(s) \in Nat /\ Len(events) \in Nat \ {0} /\ Len(all) = Len(s) + Len(events)
        /\ \A i \in 1..(Len(s) + Len(events)) :
             all[i] = IF i <= Len(s) THEN s[i] ELSE events[i - Len(s)]
        /\ all = <<>> => Len(all) = 0
    BY <2>1, ConcatProperties, LenProperties, EmptySeq
  <2> HIDE DEF s, all
  <2>3. all # <<>> /\ all[Len(all)] = events[Len(events)]
    <3>1. /\ Len(all) \in 1..(Len(s) + Len(events)) /\ ~(Len(all) <= Len(s))
          /\ Len(all) - Len(s) = Len(events)
      BY <2>2
    <3> QED
      BY <2>2, <3>1
  <2> QED
    BY <2>3 DEF s, all
<1>3. BegunInOrder' /\ LoadingIsConnecting'
  BY <1>1 DEF CalmInv, BegunInOrder, LoadingIsConnecting
<1>4. TimerReaches' /\ ConnectedDisarmsTimeout'
  BY <1>1 DEF CalmInv, TimerReaches, ConnectedDisarmsTimeout
<1>5. ClosedComesLast'
  BY <1>1, <1>2 DEF CalmInv, ClosedComesLast
<1>6. EndIsShown'
  BY <1>1, <1>2 DEF CalmInv, EndIsShown
<1> QED
  BY <1>3, <1>4, <1>5, <1>6 DEF CalmInv

LEMMA BackendIsCalm ==
  ASSUME TypeOK, CalmInv, NEW a \in Attempt,
         BackendConnects(a) \/ BackendFails(a) \/ BackendCloses(a)
  PROVE  CalmInv'
<1>1. /\ <<"connected">> # <<>>
      /\ <<"closed">> # <<>> /\ <<"closed">>[Len(<<"closed">>)] = "closed"
      /\ <<"error", "closed">> # <<>> /\ <<"error", "closed">>[Len(<<"error", "closed">>)] = "closed"
  OBVIOUS
<1>2. CASE BackendConnects(a)
  BY <1>1, <1>2, SentEvents, ProceedIsCalm DEF BackendConnects
<1>3. CASE BackendFails(a)
  BY <1>1, <1>3, SentEvents, ProceedIsCalm DEF BackendFails
<1>4. CASE BackendCloses(a)
  BY <1>1, <1>4, SentEvents, ProceedIsCalm DEF BackendCloses
<1> QED
  BY <1>2, <1>3, <1>4

LEMMA CalmStep ==
  ASSUME TypeOK, CalmInv, Next
  PROVE  CalmInv'
<1>1. CASE Connect
  <2>1. \A a \in Attempt : flow'[a].pc = IF a = attempt + 1 THEN "closing" ELSE flow[a].pc
    BY <1>1, NextAttempt DEF Connect, TypeOK
  <2> QED
    BY <1>1, <2>1, SupersededIsCalm DEF Connect
<1>2. CASE ResetWizard \/ Unmount
  <2>1. \A a \in Attempt : flow'[a].pc = IF a = attempt + 1 THEN "none" ELSE flow[a].pc
    <3>1. attempt + 1 \in Attempt /\ attempt + 1 > attempt
      BY <1>2, NextAttempt DEF ResetWizard, Unmount
    <3>2. flow[attempt + 1].pc = "none"
      BY <3>1 DEF CalmInv, BegunInOrder
    <3> QED
      BY <1>2, <3>2 DEF ResetWizard, Unmount
  <2> QED
    BY <1>2, <2>1, SupersededIsCalm DEF ResetWizard, Unmount
<1>3. CASE CloseButton
  <2>1. /\ UNCHANGED <<attempt, status, flow, backend, channel, overwritten>>
        /\ timers' \subseteq timers
        /\ attempt \notin timers' \/ "timeout" \in overwritten
    BY <1>3, ClearedIsCalm DEF CloseButton, CloseActiveSession
  <2> QED
    BY <2>1
       DEF CalmInv, BegunInOrder, TimerReaches, LoadingIsConnecting,
           ClosedComesLast, ConnectedDisarmsTimeout, EndIsShown
<1>4. CASE \E a \in Attempt : CloseArrives(a)
  BY <1>4
     DEF CloseArrives, CalmInv, BegunInOrder, TimerReaches, LoadingIsConnecting,
         ClosedComesLast, ConnectedDisarmsTimeout, EndIsShown
<1> QED
  BY <1>1, <1>2, <1>3, <1>4, ResumeIsCalm, OpenIsCalm, AnswerIsCalm, TimeoutIsCalm,
     ReceiveIsCalm, BackendIsCalm DEF Next

\* The invariant holds in every behaviour, connects that overlap included.
LEMMA CalmInvariant == Spec => []CalmInv
<1>1. Init => CalmInv
  BY DEF Init, CalmInv, BegunInOrder, TimerReaches, LoadingIsConnecting,
         ClosedComesLast, ConnectedDisarmsTimeout, EndIsShown
<1>2. TypeOK /\ CalmInv /\ [Next]_vars => CalmInv'
  <2> SUFFICES ASSUME TypeOK, CalmInv, [Next]_vars
               PROVE  CalmInv'
    OBVIOUS
  <2>1. CASE UNCHANGED vars
    BY <2>1
       DEF vars, CalmInv, BegunInOrder, TimerReaches, LoadingIsConnecting,
           ClosedComesLast, ConnectedDisarmsTimeout, EndIsShown
  <2> QED
    BY <2>1, CalmStep
<1> QED
  BY <1>1, <1>2, TypeCorrect, PTL DEF Spec

\* A session that the user sees connected has no timeout armed: clearTimeout
\* reached the one of the latest attempt, if no superseded connect armed its own
\* over it.
THEOREM ConnectedIsNotTimedOut == Spec => []ConnectedDisarmsTimeout
<1>1. CalmInv => ConnectedDisarmsTimeout
  BY DEF CalmInv
<1> QED
  BY <1>1, CalmInvariant, PTL

\* When the session of the latest attempt is over and onmessage took its events,
\* the status says so, whenever the answer of open_session arrives, if no superseded
\* connect announced itself over it.
THEOREM EndOfSessionIsShown == Spec => []EndIsShown
<1>1. CalmInv => EndIsShown
  BY DEF CalmInv
<1> QED
  BY <1>1, CalmInvariant, PTL

-----------------------------------------------------------------------------
(* No session is left with nobody to close it.                             *)

Alive(a) == backend[a] \in {"opening", "connected"}

ClosedIsOver ==
  \A a \in Attempt : \A i \in 1..Len(channel[a]) :
    channel[a][i] = "closed" => backend[a] = "over"

\* Every session that runs is about to be named by open_session, is the one of
\* activeSessionIdRef, or its close was called.
Tracked ==
  \A a \in Attempt : Alive(a) =>
    flow[a].pc = "opening" \/ session = a \/ a \in closing \cup asked

LEMMA ClosedIsOverStep ==
  ASSUME TypeOK, CalmInv, ClosedIsOver, Next
  PROVE  ClosedIsOver'
<1>1. ASSUME NEW a \in Attempt, Receive(a)
      PROVE  ClosedIsOver'
  <2>1. channel[a] \in Seq(Event) /\ channel[a] # <<>>
    BY <1>1 DEF Receive, TypeOK
  <2>2. /\ Len(channel[a]) \in Nat /\ Len(Tail(channel[a])) = Len(channel[a]) - 1
        /\ \A i \in 1..Len(Tail(channel[a])) : Tail(channel[a])[i] = channel[a][i + 1]
    BY <2>1, HeadTailProperties, LenProperties
  <2>3. \A i \in 1..Len(Tail(channel[a])) :
          Tail(channel[a])[i] = "closed" => backend[a] = "over"
    BY <2>2 DEF ClosedIsOver
  <2>4. /\ \A b \in Attempt : channel'[b] = IF b = a THEN Tail(channel[a]) ELSE channel[b]
        /\ backend' = backend
    BY <1>1 DEF Receive, TypeOK
  <2> QED
    BY <2>3, <2>4 DEF ClosedIsOver
<1>2. ASSUME NEW a \in Attempt, NEW stage \in {"connected", "over"}, NEW events \in Seq(Event),
             Proceed(a, stage, events), backend[a] # "over",
             stage = "over" \/ events = <<"connected">>
      PROVE  ClosedIsOver'
  <2>1. channel[a] \in Seq(Event)
    BY DEF TypeOK
  <2>2. /\ Len(channel[a]) \in Nat /\ Len(events) \in Nat
        /\ Len(channel[a] \o events) = Len(channel[a]) + Len(events)
        /\ \A i \in 1..Len(channel[a] \o events) :
             (channel[a] \o events)[i] =
               IF i <= Len(channel[a]) THEN channel[a][i] ELSE events[i - Len(channel[a])]
    BY <1>2, <2>1, ConcatProperties, LenProperties
  <2>3. stage # "over" => \A i \in 1..Len(events) : events[i] = "connected"
    BY <1>2
  <2>4. \A i \in 1..Len(channel[a] \o events) :
          (channel[a] \o events)[i] = "closed" => stage = "over"
    <3> SUFFICES ASSUME NEW i \in 1..Len(channel[a] \o events), stage # "over",
                        (channel[a] \o events)[i] = "closed"
                 PROVE  FALSE
      OBVIOUS
    <3>1. CASE i <= Len(channel[a])
      BY <1>2, <2>2, <3>1 DEF ClosedIsOver
    <3>2. CASE ~(i <= Len(channel[a]))
      BY <2>2, <2>3, <3>2
    <3> QED
      BY <3>1, <3>2
  <2>5. /\ \A b \in Attempt : channel'[b] = IF b = a THEN channel[a] \o events ELSE channel[b]
        /\ \A b \in Attempt : backend'[b] = IF b = a THEN stage ELSE backend[b]
    BY <1>2 DEF Proceed, TypeOK
  <2> QED
    BY <2>4, <2>5 DEF ClosedIsOver
<1>3. ASSUME NEW a \in Attempt, BackendConnects(a) \/ BackendFails(a) \/ BackendCloses(a)
      PROVE  ClosedIsOver'
  BY <1>2, <1>3, SentEvents DEF BackendConnects, BackendFails, BackendCloses
<1>4. ASSUME NEW a \in Attempt, Open(a)
      PROVE  ClosedIsOver'
  <2>1. backend[a] # "over" /\ channel' = channel
    BY <1>4 DEF Open, CalmInv, BegunInOrder
  <2>2. \A b \in Attempt : b # a => backend'[b] = backend[b]
    BY <1>4 DEF Open, TypeOK
  <2> QED
    BY <2>1, <2>2 DEF ClosedIsOver
<1>5. CASE UNCHANGED <<backend, channel>>
  BY <1>5 DEF ClosedIsOver
<1> QED
  BY <1>1, <1>3, <1>4, <1>5
  DEF Next, Connect, ResetWizard, CloseButton, Unmount, Resume, Opened, OpenRejected,
      TimeoutFires, CloseArrives

LEMMA TrackedStep ==
  ASSUME TypeOK, CalmInv, ClosedIsOver, SessionIsCurrent, Tracked, Next
  PROVE  Tracked'
<1>1. ASSUME CloseActiveSession, UNCHANGED <<backend, asked>>,
             \A a \in Attempt : Alive(a) => flow'[a].pc = flow[a].pc
      PROVE  Tracked'
  BY <1>1 DEF CloseActiveSession, InvokeClose, Tracked, Alive
<1>2. CASE Connect
  <2>1. attempt + 1 \in Attempt /\ attempt + 1 > attempt
    BY <1>2, NextAttempt DEF Connect
  <2>2. ~Alive(attempt + 1)
    BY <2>1 DEF CalmInv, BegunInOrder, Alive
  <2>3. \A a \in Attempt : Alive(a) => flow'[a].pc = flow[a].pc
    BY <1>2, <2>2 DEF Connect, TypeOK
  <2> QED
    BY <1>1, <1>2, <2>3 DEF Connect
<1>3. CASE ResetWizard \/ CloseButton \/ Unmount
  BY <1>1, <1>3 DEF ResetWizard, CloseButton, Unmount
<1>4. ASSUME NEW a \in Attempt, Resume(a) \/ OpenRejected(a)
      PROVE  Tracked'
  <2>1. ~Alive(a)
    BY <1>4 DEF Resume, OpenRejected, CalmInv, BegunInOrder, Alive
  <2>2. /\ \A b \in Attempt : b # a => flow'[b].pc = flow[b].pc
        /\ UNCHANGED <<session, closing, backend, asked>>
    BY <1>4, GotoMoves DEF Resume, OpenRejected, Stages
  <2> QED
    BY <2>1, <2>2 DEF Tracked, Alive
<1>5. ASSUME NEW a \in Attempt, Open(a)
      PROVE  Tracked'
  <2>1. /\ \A b \in Attempt : flow'[b].pc = IF b = a THEN "opening" ELSE flow[b].pc
        /\ \A b \in Attempt : b # a => backend'[b] = backend[b]
        /\ UNCHANGED <<session, closing, asked>>
    BY <1>5, GotoMoves DEF Open, Stages, TypeOK
  <2> QED
    BY <2>1 DEF Tracked, Alive
<1>6. ASSUME NEW a \in Attempt, Opened(a)
      PROVE  Tracked'
  <2>1. /\ \A b \in Attempt : b # a => flow'[b].pc = flow[b].pc
        /\ UNCHANGED <<backend, asked>>
    BY <1>6, GotoMoves DEF Opened, Stages
  <2>2. closing \subseteq closing' /\ (session' = a \/ a \in closing')
    BY <1>6, UseSshAssumption DEF Opened, InvokeClose, Attempt
  <2>3. session' = session \/ session = None \/ session = a
    BY <1>6 DEF Opened, SessionIsCurrent
  <2>4. None \notin Attempt
    BY UseSshAssumption DEF Attempt
  <2> QED
    BY <2>1, <2>2, <2>3, <2>4 DEF Tracked, Alive
<1>7. ASSUME NEW a \in Attempt, Receive(a)
      PROVE  Tracked'
  <2>1. channel[a] \in Seq(Event) /\ channel[a] # <<>>
    BY <1>7 DEF Receive, TypeOK
  <2>2. 1 \in 1..Len(channel[a]) /\ Head(channel[a]) = channel[a][1] /\ Head(channel[a]) \in Event
    BY <2>1
  <2>3. Head(channel[a]) = "closed" => ~Alive(a)
    BY <2>2 DEF ClosedIsOver, Alive
  <2>4. \A b \in Attempt : session = b /\ Alive(b) => session' = b
    BY <1>7, <2>2, <2>3, UseSshAssumption DEF Receive, SessionIsCurrent, Event, Attempt
  <2>5. UNCHANGED <<flow, closing, backend, asked>>
    BY <1>7 DEF Receive
  <2> QED
    BY <2>4, <2>5 DEF Tracked, Alive
<1>8. ASSUME NEW a \in Attempt, CloseArrives(a)
      PROVE  Tracked'
  BY <1>8 DEF CloseArrives, Tracked, Alive
<1>9. ASSUME NEW a \in Attempt, TimeoutFires(a)
      PROVE  Tracked'
  BY <1>9 DEF TimeoutFires, InvokeClose, Tracked, Alive
<1>10. ASSUME NEW a \in Attempt, BackendConnects(a) \/ BackendFails(a) \/ BackendCloses(a)
       PROVE  Tracked'
  <2>1. /\ \A b \in Attempt : Alive(b)' => Alive(b)
        /\ UNCHANGED <<flow, session, closing, asked>>
    BY <1>10 DEF BackendConnects, BackendFails, BackendCloses, Proceed, Alive, TypeOK
  <2> QED
    BY <2>1 DEF Tracked
<1> QED
  BY <1>2, <1>3, <1>4, <1>5, <1>6, <1>7, <1>8, <1>9, <1>10 DEF Next

\* A session that is not the one of activeSessionIdRef runs only until
\* open_session tells its id, or with its close on the way: the session of a
\* superseded, reset or unmounted attempt is never forgotten.
THEOREM SessionsAreTracked == Spec => []Tracked
<1>1. Init => ClosedIsOver /\ Tracked
  BY DEF Init, ClosedIsOver, Tracked, Alive
<1>2. TypeOK /\ CalmInv /\ SessionIsCurrent /\ ClosedIsOver /\ Tracked /\ [Next]_vars
        => ClosedIsOver' /\ Tracked'
  <2> SUFFICES ASSUME TypeOK, CalmInv, SessionIsCurrent, ClosedIsOver, Tracked, [Next]_vars
               PROVE  ClosedIsOver' /\ Tracked'
    OBVIOUS
  <2>1. CASE UNCHANGED vars
    BY <2>1 DEF vars, ClosedIsOver, Tracked, Alive
  <2> QED
    BY <2>1, ClosedIsOverStep, TrackedStep
<1> QED
  BY <1>1, <1>2, TypeCorrect, CalmInvariant, SessionStaysCurrent, PTL DEF Spec

=============================================================================
