-------------------------- MODULE SshSessionProofs --------------------------
(***************************************************************************)
(* The mirror's status moves along the life of a session, and a running    *)
(* session is found, for any number of commands, any capacities and any    *)
(* output.  What is on its way through the broadcast channel is the rest   *)
(* of a life that the mirror has not seen yet: it is in order (Orderly)    *)
(* and does not go beyond what the connect task has done (Behind).         *)
(***************************************************************************)
EXTENDS SshSession, SequenceTheorems, TLAPS

\* The events that move the status.
Telling == {"connected", "error", "closed"}

\* What may follow a status, at once or later.
Later(status) ==
  CASE status = "none" -> {"opening", "connected", "error", "closed"}
    [] status = "opening" -> {"connected", "error", "closed"}
    [] status = "connected" -> {"error", "closed"}
    [] status = "error" -> {"closed"}
    [] status = "closed" -> {}

\* The telling events of s follow one another and the status, and a close comes
\* after a connection or an error.
Orderly(s, status) ==
  /\ \A i \in DOMAIN s : s[i] \in Telling => s[i] \in Later(status)
  /\ \A i, j \in DOMAIN s :
       i < j /\ s[i] \in Telling /\ s[j] \in Telling => s[j] \in Later(s[i])
  /\ \A i \in DOMAIN s : s[i] = "closed" =>
       \/ status \in {"connected", "error"}
       \/ \E j \in DOMAIN s : j < i /\ s[j] \in {"connected", "error"}

\* The telling events on their way in s.
Tells(s) == {e \in Telling : \E i \in DOMAIN s : s[i] = e}

\* What the mirror and the events in s tell is not more than the task at where has
\* done, and not less than that it connected.
Behind(where, s, status) ==
  /\ where \in Opening => status = "opening" /\ Tells(s) = {}
  /\ where \in Serving \cup {"loop", "failed"} =>
       status \in {"opening", "connected"} /\ Tells(s) \subseteq {"connected"}
  /\ where \in Serving \cup {"loop"} => status = "connected" \/ "connected" \in Tells(s)

LifeInv ==
  /\ pc = "unopened" => mirror = "none" /\ ~relaying
  /\ relaying => mirror # "none"
  /\ relaying /\ ~lagged => Orderly(events, mirror) /\ Behind(pc, events, mirror)

-----------------------------------------------------------------------------
(* Sequences in order.                                                     *)

LEMMA TailIsOrderly ==
  ASSUME NEW s \in Seq(Event), s # <<>>, NEW status \in Status \ {"none"},
         Orderly(s, status)
  PROVE  /\ Head(s) \in Telling =>
              Head(s) \in StatusesAfter(status) /\ Orderly(Tail(s), Head(s))
         /\ Head(s) \notin Telling => Orderly(Tail(s), status)
<1> DEFINE r == Tail(s)
<1>1. /\ Len(s) \in Nat /\ DOMAIN s = 1..Len(s) /\ 1 \in DOMAIN s
      /\ DOMAIN r = 1..(Len(s) - 1)
      /\ \A i \in DOMAIN r : i + 1 \in DOMAIN s /\ r[i] = s[i + 1]
      /\ Head(s) = s[1]
      /\ \A i \in DOMAIN s : i # 1 => i - 1 \in DOMAIN r /\ r[i - 1] = s[i]
  BY LenProperties, HeadTailProperties
<1> HIDE DEF r
<1>2. \A i, j \in DOMAIN r :
        i < j /\ r[i] \in Telling /\ r[j] \in Telling => r[j] \in Later(r[i])
  BY <1>1 DEF Orderly
<1>3. CASE Head(s) \in Telling
  <2>1. Head(s) \in Later(status)
    BY <1>1, <1>3 DEF Orderly
  <2>2. Head(s) = "closed" => status \in {"connected", "error"}
    BY <1>1 DEF Orderly
  <2>3. Head(s) \in StatusesAfter(status)
    BY <1>3, <2>1, <2>2 DEF Later, StatusesAfter, Status, Telling
  <2>4. \A i \in DOMAIN r : r[i] \in Telling => r[i] \in Later(Head(s))
    BY <1>1, <1>3 DEF Orderly
  <2>5. \A i \in DOMAIN r : r[i] = "closed" => Head(s) \in {"connected", "error"}
    BY <1>3, <2>4 DEF Later, Telling
  <2> QED
    BY <1>2, <1>3, <2>3, <2>4, <2>5 DEF Orderly, r
<1>4. CASE Head(s) \notin Telling
  <2>1. \A i \in DOMAIN r : r[i] \in Telling => r[i] \in Later(status)
    BY <1>1 DEF Orderly
  <2>2. ASSUME NEW i \in DOMAIN r, r[i] = "closed", status \notin {"connected", "error"}
        PROVE  \E j \in DOMAIN r : j < i /\ r[j] \in {"connected", "error"}
    <3>1. PICK k \in DOMAIN s : k < i + 1 /\ s[k] \in {"connected", "error"}
      BY <1>1, <2>2 DEF Orderly
    <3>2. k # 1
      BY <1>1, <1>4, <3>1 DEF Telling
    <3>3. k - 1 \in DOMAIN r /\ r[k - 1] = s[k] /\ k - 1 < i
      BY <1>1, <3>1, <3>2
    <3> QED
      BY <3>1, <3>3
  <2> QED
    BY <1>2, <1>4, <2>1, <2>2 DEF Orderly, r
<1> QED
  BY <1>3, <1>4

LEMMA ConcatIsOrderly ==
  ASSUME NEW s \in Seq(Event), NEW new \in Seq(Event), NEW status \in Status,
         Orderly(s, status),
         \A i \in DOMAIN new : new[i] \in Telling =>
           /\ new[i] \in Later(status)
           /\ \A e \in Tells(s) : new[i] \in Later(e)
           /\ \A j \in DOMAIN new : j < i /\ new[j] \in Telling => new[i] \in Later(new[j]),
         \A i \in DOMAIN new : new[i] = "closed" =>
           \/ status \in {"connected", "error"}
           \/ Tells(s) \cap {"connected", "error"} # {}
           \/ \E j \in DOMAIN new : j < i /\ new[j] \in {"connected", "error"}
  PROVE  Orderly(s \o new, status)
<1> DEFINE all == s \o new
<1>1. /\ Len(s) \in Nat /\ DOMAIN s = 1..Len(s)
      /\ Len(new) \in Nat /\ DOMAIN new = 1..Len(new)
      /\ DOMAIN all = 1..(Len(s) + Len(new))
      /\ \A i \in DOMAIN s : i \in DOMAIN all /\ all[i] = s[i]
      /\ \A i \in DOMAIN all : i \notin DOMAIN s =>
           i - Len(s) \in DOMAIN new /\ all[i] = new[i - Len(s)]
      /\ \A i \in DOMAIN new : i + Len(s) \in DOMAIN all /\ all[i + Len(s)] = new[i]
  BY LenProperties, ConcatProperties
<1> HIDE DEF all
<1>2. \A i \in DOMAIN all : all[i] \in Telling => all[i] \in Later(status)
  BY <1>1 DEF Orderly
<1>3. ASSUME NEW i \in DOMAIN all, NEW j \in DOMAIN all, i < j,
             all[i] \in Telling, all[j] \in Telling
      PROVE  all[j] \in Later(all[i])
  <2>1. CASE j \in DOMAIN s
    <3>1. i \in DOMAIN s
      BY <1>1, <1>3, <2>1
    <3> QED
      BY <1>1, <1>3, <2>1, <3>1 DEF Orderly
  <2>2. CASE j \notin DOMAIN s /\ i \in DOMAIN s
    BY <1>1, <1>3, <2>2 DEF Tells
  <2>3. CASE j \notin DOMAIN s /\ i \notin DOMAIN s
    <3>1. /\ i - Len(s) \in DOMAIN new /\ all[i] = new[i - Len(s)]
          /\ j - Len(s) \in DOMAIN new /\ all[j] = new[j - Len(s)]
          /\ i - Len(s) < j - Len(s)
      BY <1>1, <1>3, <2>3
    <3> QED
      BY <1>3, <3>1
  <2> QED
    BY <2>1, <2>2, <2>3
<1>4. ASSUME NEW i \in DOMAIN all, all[i] = "closed", status \notin {"connected", "error"}
      PROVE  \E j \in DOMAIN all : j < i /\ all[j] \in {"connected", "error"}
  <2>1. CASE i \in DOMAIN s
    BY <1>1, <1>4, <2>1 DEF Orderly
  <2>2. CASE i \notin DOMAIN s
    <3>1. i - Len(s) \in DOMAIN new /\ new[i - Len(s)] = "closed"
      BY <1>1, <1>4, <2>2
    <3>2. CASE Tells(s) \cap {"connected", "error"} # {}
      BY <1>1, <2>2, <3>2 DEF Tells
    <3>3. CASE \E j \in DOMAIN new : j < i - Len(s) /\ new[j] \in {"connected", "error"}
      <4>1. PICK j \in DOMAIN new : j < i - Len(s) /\ new[j] \in {"connected", "error"}
        BY <3>3
      <4>2. /\ j + Len(s) \in DOMAIN all /\ all[j + Len(s)] = new[j]
            /\ j + Len(s) < i
        BY <1>1, <4>1
      <4> QED
        BY <4>1, <4>2
    <3> QED
      BY <1>4, <3>1, <3>2, <3>3
  <2> QED
    BY <2>1, <2>2
<1> QED
  BY <1>2, <1>3, <1>4 DEF Orderly, all

\* What is told on the way from one sequence to another.
LEMMA TellsConcat ==
  ASSUME NEW s \in Seq(Event), NEW new \in Seq(Event)
  PROVE  Tells(s \o new) = Tells(s) \cup Tells(new)
<1> DEFINE all == s \o new
<1>1. /\ Len(s) \in Nat /\ DOMAIN s = 1..Len(s)
      /\ Len(new) \in Nat /\ DOMAIN new = 1..Len(new)
      /\ DOMAIN all = 1..(Len(s) + Len(new))
      /\ \A i \in DOMAIN s : i \in DOMAIN all /\ all[i] = s[i]
      /\ \A i \in DOMAIN all : i \notin DOMAIN s =>
           i - Len(s) \in DOMAIN new /\ all[i] = new[i - Len(s)]
      /\ \A i \in DOMAIN new : i + Len(s) \in DOMAIN all /\ all[i + Len(s)] = new[i]
  BY LenProperties, ConcatProperties
<1> HIDE DEF all
<1>2. Tells(all) \subseteq Tells(s) \cup Tells(new)
  BY <1>1 DEF Tells
<1>3. Tells(s) \subseteq Tells(all) /\ Tells(new) \subseteq Tells(all)
  BY <1>1 DEF Tells
<1> QED
  BY <1>2, <1>3 DEF all

LEMMA TellsTail ==
  ASSUME NEW s \in Seq(Event), s # <<>>
  PROVE  Tells(s) = Tells(Tail(s)) \cup ({Head(s)} \cap Telling)
<1> DEFINE r == Tail(s)
<1>1. /\ Len(s) \in Nat /\ DOMAIN s = 1..Len(s) /\ 1 \in DOMAIN s
      /\ \A i \in DOMAIN r : i + 1 \in DOMAIN s /\ r[i] = s[i + 1]
      /\ Head(s) = s[1]
      /\ \A i \in DOMAIN s : i # 1 => i - 1 \in DOMAIN r /\ r[i - 1] = s[i]
  BY LenProperties, HeadTailProperties
<1> HIDE DEF r
<1>2. Tells(r) \subseteq Tells(s)
  BY <1>1 DEF Tells
<1>3. Tells(s) \subseteq Tells(r) \cup ({Head(s)} \cap Telling)
  BY <1>1 DEF Tells
<1>4. {Head(s)} \cap Telling \subseteq Tells(s)
  BY <1>1 DEF Tells
<1> QED
  BY <1>2, <1>3, <1>4 DEF r

-----------------------------------------------------------------------------
(* Sending an event.                                                       *)

LEMMA EmitType ==
  ASSUME TypeOK, NEW new \in Seq(Event), Emit(new)
  PROVE  /\ events' \in Seq(Event) /\ Len(events') <= EventCap
         /\ lagged' \in BOOLEAN
         /\ lagged => lagged'
         /\ relaying /\ ~lagged' => events' = events \o new
<1> DEFINE all == events \o new
           excess == IF Len(all) > EventCap THEN Len(all) - EventCap ELSE 0
           kept == SubSeq(all, excess + 1, Len(all))
<1>1. all \in Seq(Event) /\ Len(all) \in Nat /\ EventCap \in Nat
  BY SshSessionAssumption, ConcatProperties, LenProperties DEF TypeOK
<1> HIDE DEF all
<1>2. excess \in Nat /\ excess <= Len(all) /\ Len(all) - excess <= EventCap
  BY <1>1
<1> HIDE DEF excess
<1>3. ASSUME excess = 0
      PROVE  kept = all
  <2>1. excess + 1 = 1
    BY <1>3
  <2> QED
    BY <1>1, <2>1, SubSeqFull
<1>4. kept \in Seq(Event) /\ Len(kept) = Len(all) - excess
  <2>1. \A i \in (excess + 1)..Len(all) : all[i] \in Event
    BY <1>1, <1>2, ElementOfSeq
  <2> QED
    BY <1>1, <1>2, <2>1, SubSeqProperties
<1> HIDE DEF kept
<1>5. CASE relaying
  <2>1. events' = kept /\ lagged' = (lagged \/ excess > 0)
    BY <1>5 DEF Emit, all, excess, kept
  <2> DEFINE over == excess > 0
  <2>2. over \in BOOLEAN
    OBVIOUS
  <2>3. ~over => kept = all
    BY <1>2, <1>3
  <2>4. Len(kept) <= EventCap
    BY <1>2, <1>4
  <2> HIDE DEF over
  <2>5. events' = kept /\ lagged' = (lagged \/ over)
    BY <2>1 DEF over
  <2> QED
    BY <1>4, <2>2, <2>3, <2>4, <2>5, Zenon DEF TypeOK, all
<1>6. CASE ~relaying
  BY <1>6 DEF Emit, TypeOK
<1> QED
  BY <1>5, <1>6 DEF TypeOK

-----------------------------------------------------------------------------
(* Types.                                                                  *)

Quiet == Event \ Telling

LEMMA QuietTellsNothing ==
  ASSUME NEW new \in Seq(Quiet)
  PROVE  new \in Seq(Event) /\ Tells(new) = {}
<1>1. \A i \in DOMAIN new : new[i] \in Quiet
  BY ElementOfSeq, LenProperties
<1>2. Tells(new) = {}
  BY <1>1 DEF Tells, Quiet
<1>3. new \in Seq(Event)
  BY SeqMonotonic DEF Quiet
<1> QED
  BY <1>2, <1>3

LEMMA ToldIsQuiet ==
  ASSUME NEW told \in Told
  PROVE  told \in Seq(Quiet) /\ told \o <<"diagnostic">> \in Seq(Quiet)
<1>1. "line" \in Quiet /\ "diagnostic" \in Quiet
  BY DEF Quiet, Event, Telling
<1>2. PICK lease \in {<<>>, <<"line">>}, certificate \in {<<>>, <<"line">>},
           fallback \in {<<>>, <<"diagnostic">>} : told = lease \o certificate \o fallback
  BY DEF Told
<1>3. lease \in Seq(Quiet) /\ certificate \in Seq(Quiet) /\ fallback \in Seq(Quiet)
      /\ <<"diagnostic">> \in Seq(Quiet)
  <2>1. <<>> \in Seq(Quiet) /\ <<"line">> \in Seq(Quiet) /\ <<"diagnostic">> \in Seq(Quiet)
    BY <1>1
  <2> QED
    BY <2>1, Zenon
<1>4. told \in Seq(Quiet)
  BY <1>2, <1>3, ConcatProperties
<1> QED
  BY <1>3, <1>4, ConcatProperties

\* What the task sends.
LEMMA SentAreEvents ==
  /\ \A told \in Told : told \in Seq(Event) /\ told \o <<"diagnostic">> \in Seq(Event)
  /\ <<"diagnostic">> \in Seq(Event)
  /\ <<"diagnostic", "connected", "line", "diagnostic">> \in Seq(Event)
  /\ <<"diagnostic", "closed">> \in Seq(Event)
  /\ <<"diagnostic", "stdout">> \in Seq(Event)
  /\ <<"stdout">> \in Seq(Event)
  /\ <<"closed">> \in Seq(Event)
  /\ <<"error", "closed">> \in Seq(Event)
<1>1. \A told \in Told : told \in Seq(Event) /\ told \o <<"diagnostic">> \in Seq(Event)
  BY ToldIsQuiet, QuietTellsNothing
<1>2. \A e \in Event : <<e>> \in Seq(Event)
  OBVIOUS
<1>3. \A e, f \in Event : <<e, f>> \in Seq(Event)
  OBVIOUS
<1>4. <<"diagnostic", "connected", "line", "diagnostic">> \in Seq(Event)
  BY DEF Event
<1>5. {"diagnostic", "closed", "stdout", "error"} \subseteq Event
  BY DEF Event
<1> QED
  BY <1>1, <1>2, <1>3, <1>4, <1>5

\* A step of the task: what it sends are events, if it sends any.
LEMMA ConnectTaskSends ==
  ASSUME ConnectTask
  PROVE  UNCHANGED <<events, lagged>> \/ \E new \in Seq(Event) : Emit(new)
<1>1. CASE Advance
  BY <1>1, SentAreEvents DEF Advance
<1>2. CASE Fail
  BY <1>2, SentAreEvents DEF Fail
<1>3. CASE TakeInput
  BY <1>3, SentAreEvents DEF TakeInput
<1>4. CASE ServerOutput
  BY <1>4, SentAreEvents DEF ServerOutput
<1>5. CASE ServerCloses
  BY <1>5, SentAreEvents DEF ServerCloses
<1>6. CASE ReportFailure
  BY <1>6, SentAreEvents DEF ReportFailure
<1>7. CASE Written \/ EofSent \/ RemoveSession
  BY <1>7 DEF Written, EofSent, RemoveSession
<1>8. CASE CloseSent
  BY <1>8, SentAreEvents DEF CloseSent
<1>9. CASE ServerExits
  BY <1>9, SentAreEvents DEF ServerExits
<1> QED
  BY <1>1, <1>2, <1>3, <1>4, <1>5, <1>6, <1>7, <1>8, <1>9 DEF ConnectTask

LEMMA TypeStep ==
  ASSUME TypeOK, Next
  PROVE  TypeOK'
<1> USE SshSessionAssumption
<1>1. CASE OpenSession
  <2>1. <<"diagnostic">> \in Seq(Event) /\ Len(<<"diagnostic">>) <= EventCap
    BY DEF Event
  <2> QED
    BY <1>1, <2>1 DEF OpenSession, TypeOK, Pc, Opening, Serving, Status
<1>2. ASSUME NEW k \in Caller, NEW input \in Input, Call(k, input)
      PROVE  TypeOK'
  BY <1>2 DEF Call, TypeOK, CallerPc
<1>3. ASSUME NEW k \in Caller, Deliver(k)
      PROVE  TypeOK'
  <2>1. /\ caller' \in [Caller -> [pc : CallerPc, input : Input]]
        /\ inbox' \in Seq(Input) /\ Len(inbox') <= InputCap
    <3>1. caller[k].input \in Input
      BY DEF TypeOK
    <3>2. CASE UNCHANGED inbox
      BY <1>3, <3>2 DEF Deliver, TypeOK, CallerPc
    <3>3. CASE inbox' = Append(inbox, caller[k].input) /\ Len(inbox) < InputCap
      <4>1. caller' = [caller EXCEPT ![k].pc = "accepted"] \/ caller' = [caller EXCEPT ![k].pc = "refused"]
        BY <1>3 DEF Deliver
      <4>2. inbox' \in Seq(Input) /\ Len(inbox') = Len(inbox) + 1 /\ Len(inbox) \in Nat
        BY <3>1, <3>3, AppendProperties, LenProperties DEF TypeOK
      <4>3. caller' \in [Caller -> [pc : CallerPc, input : Input]]
        <5>1. "accepted" \in CallerPc /\ "refused" \in CallerPc
          BY DEF CallerPc
        <5>2. caller \in [Caller -> [pc : CallerPc, input : Input]]
          BY DEF TypeOK
        <5> QED
          BY <4>1, <5>1, <5>2
      <4> QED
        BY <3>3, <4>2, <4>3
    <3> QED
      BY <1>3, <3>2, <3>3 DEF Deliver
  <2> QED
    BY <1>3, <2>1 DEF Deliver, TypeOK
<1>4. CASE ConnectTask
  <2>1. events' \in Seq(Event) /\ Len(events') <= EventCap /\ lagged' \in BOOLEAN
    BY <1>4, ConnectTaskSends, EmitType DEF TypeOK
  <2>2. inbox' \in Seq(Input) /\ Len(inbox') <= InputCap
    <3>1. CASE inbox # <<>> /\ inbox' = Tail(inbox)
      BY <3>1, HeadTailProperties, LenProperties DEF TypeOK
    <3>2. CASE UNCHANGED inbox
      BY <3>2 DEF TypeOK
    <3> QED
      BY <1>4, <3>1, <3>2
         DEF ConnectTask, Advance, Fail, TakeInput, Written, EofSent, CloseSent, Message,
           ServerOutput, ServerExits, ServerCloses,
             ReportFailure, RemoveSession
  <2>3. pc' \in Pc
    BY <1>4
       DEF ConnectTask, Advance, Fail, TakeInput, Written, EofSent, CloseSent, Message,
           ServerOutput, ServerExits, ServerCloses,
           ReportFailure, RemoveSession, TypeOK, Pc, Opening, Serving
  <2>4. handle' \in BOOLEAN /\ UNCHANGED <<caller, torn, relaying, mirror, log>>
    BY <1>4
       DEF ConnectTask, Advance, Fail, TakeInput, Written, EofSent, CloseSent, Message,
           ServerOutput, ServerExits, ServerCloses,
           ReportFailure, RemoveSession, TypeOK
  <2>5. output' \in 0..MaxOutput
    BY <1>4
       DEF ConnectTask, Advance, Fail, TakeInput, Written, EofSent, CloseSent, Message,
           ServerOutput, ServerExits, ServerCloses,
           ReportFailure, RemoveSession, TypeOK
  <2>6. exits' \subseteq {"status", "signal"}
    BY <1>4
       DEF ConnectTask, Advance, Fail, TakeInput, Written, EofSent, CloseSent, Message,
           ServerOutput, ServerExits, ServerCloses,
           ReportFailure, RemoveSession, TypeOK
  <2> QED
    BY <2>1, <2>2, <2>3, <2>4, <2>5, <2>6 DEF TypeOK
<1>5. CASE Forward
  <2>1. Head(events) \in Event /\ Tail(events) \in Seq(Event) /\ Len(Tail(events)) <= EventCap
    BY <1>5, HeadTailProperties, LenProperties DEF Forward, TypeOK
  <2>2. StatusAfter(Head(events)) \in Status
    BY DEF StatusAfter, TypeOK, Status
  <2> QED
    BY <1>5, <2>1, <2>2 DEF Forward, TypeOK
<1>6. CASE TranscriptPanics \/ StopForwarding
  <2>1. <<>> \in Seq(Event) /\ Len(<<>>) <= EventCap
    OBVIOUS
  <2> QED
    BY <1>6, <2>1 DEF TranscriptPanics, StopForwarding, TypeOK
<1> QED
  BY <1>1, <1>2, <1>3, <1>4, <1>5, <1>6 DEF Next, Forwarder

\* Every variable keeps its type, and the two channels their capacity.
THEOREM TypeCorrect == Spec => []TypeOK
<1>1. Init => TypeOK
  <2>1. /\ <<>> \in Seq(Event) /\ Len(<<>>) <= EventCap
        /\ <<>> \in Seq(Input) /\ Len(<<>>) <= InputCap
        /\ 0 \in 0..MaxOutput
    BY SshSessionAssumption
  <2>2. ASSUME Init
        PROVE  caller \in [Caller -> [pc : CallerPc, input : Input]]
    BY <2>2 DEF Init, CallerPc, Input
  <2> QED
    BY <2>1, <2>2 DEF Init, TypeOK, Pc, Status
<1>2. TypeOK /\ [Next]_vars => TypeOK'
  BY TypeStep DEF vars, TypeOK
<1> QED
  BY <1>1, <1>2, PTL DEF Spec

-----------------------------------------------------------------------------
(* A running session is found.                                             *)

\* handle changes only when the session opens and when its task is over.
THEOREM RunningIsFound == Spec => []RunningSessionIsFound
<1>1. Init => RunningSessionIsFound
  BY DEF Init, RunningSessionIsFound, ReceiverAlive, Opening, Serving
<1>2. RunningSessionIsFound /\ [Next]_vars => RunningSessionIsFound'
  <2> SUFFICES ASSUME RunningSessionIsFound, [Next]_vars
               PROVE  RunningSessionIsFound'
    OBVIOUS
  <2> USE DEF RunningSessionIsFound, ReceiverAlive, Opening, Serving
  <2>1. CASE OpenSession
    BY <2>1 DEF OpenSession
  <2>2. CASE ConnectTask
    BY <2>2
       DEF ConnectTask, Advance, Fail, TakeInput, Written, EofSent, CloseSent, Message,
           ServerOutput, ServerExits, ServerCloses,
           ReportFailure, RemoveSession
  <2>3. CASE UNCHANGED <<handle, pc>>
    BY <2>3
  <2> QED
    BY <2>1, <2>2, <2>3
       DEF Next, Call, Deliver, Forwarder, Forward, TranscriptPanics, StopForwarding, vars
<1> QED
  BY <1>1, <1>2, PTL DEF Spec

-----------------------------------------------------------------------------
(* The mirror follows the life of the session.                             *)

LEMMA QuietKeepsOrder ==
  ASSUME NEW s \in Seq(Event), NEW new \in Seq(Event), NEW status \in Status,
         Orderly(s, status), Tells(new) = {}
  PROVE  Orderly(s \o new, status) /\ Tells(s \o new) = Tells(s)
<1>1. \A i \in DOMAIN new : new[i] \notin Telling
  BY DEF Tells
<1>2. \A i \in DOMAIN new : new[i] # "closed"
  BY <1>1 DEF Telling
<1>3. Orderly(s \o new, status)
  BY <1>1, <1>2, ConcatIsOrderly
<1>4. Tells(s \o new) = Tells(s) \cup {}
  BY TellsConcat
<1> QED
  BY <1>3, <1>4

\* The connection is told once.
LEMMA ConnectionKeepsOrder ==
  ASSUME NEW s \in Seq(Event), Orderly(s, "opening"), Tells(s) = {}
  PROVE  LET new == <<"diagnostic", "connected", "line", "diagnostic">>
         IN  Orderly(s \o new, "opening") /\ Tells(s \o new) = {"connected"}
<1> DEFINE new == <<"diagnostic", "connected", "line", "diagnostic">>
<1>1. /\ new \in Seq(Event) /\ DOMAIN new = 1..4
      /\ new[1] = "diagnostic" /\ new[2] = "connected" /\ new[3] = "line"
      /\ new[4] = "diagnostic"
  BY SentAreEvents
<1> HIDE DEF new
<1>2. \A i \in DOMAIN new : new[i] \in Telling <=> i = 2
  BY <1>1 DEF Telling
<1>3. Tells(new) = {"connected"}
  BY <1>1, <1>2 DEF Tells
<1>4. "connected" \in Later("opening") /\ "opening" \in Status
  BY DEF Later, Status
<1>5. Orderly(s \o new, "opening")
  BY <1>1, <1>2, <1>4, ConcatIsOrderly DEF Tells
<1>6. Tells(s \o new) = {"connected"}
  BY <1>1, <1>3, TellsConcat
<1> QED
  BY <1>5, <1>6 DEF new

\* A session that connected closes.
LEMMA CloseKeepsOrder ==
  ASSUME NEW s \in Seq(Event), NEW status \in {"opening", "connected"}, Orderly(s, status),
         Tells(s) \subseteq {"connected"}, status = "connected" \/ "connected" \in Tells(s),
         NEW new \in {<<"closed">>, <<"diagnostic", "closed">>}
  PROVE  new \in Seq(Event) /\ Orderly(s \o new, status)
<1> DEFINE Ending(x) ==
      /\ x \in Seq(Event) /\ Len(x) \in Nat /\ DOMAIN x = 1..Len(x)
      /\ x[Len(x)] = "closed"
      /\ \A i \in DOMAIN x : i # Len(x) => x[i] = "diagnostic"
<1>1. Ending(<<"closed">>)
  BY SentAreEvents
<1>2. Ending(<<"diagnostic", "closed">>)
  BY SentAreEvents
<1> HIDE DEF Ending
<1>3. Ending(new)
  BY <1>1, <1>2, Zenon
<1> USE DEF Ending
<1>4. \A i \in DOMAIN new : new[i] \in Telling => i = Len(new) /\ new[i] = "closed"
  BY <1>3 DEF Telling
<1>5. /\ "closed" \in Later(status) /\ "closed" \in Later("connected") /\ status \in Status
      /\ status = "connected" \/ "connected" \in Tells(s)
  BY DEF Later, Status
<1>6. ASSUME NEW i \in DOMAIN new, NEW j \in DOMAIN new,
             j < i, new[i] \in Telling, new[j] \in Telling
      PROVE  FALSE
  <2>1. i = Len(new) /\ j = Len(new)
    BY <1>4, <1>6, Zenon
  <2>2. Len(new) \in Nat
    BY <1>3
  <2> QED
    BY <1>6, <2>1, <2>2
<1>7. \A i \in DOMAIN new : new[i] \in Telling =>
        /\ new[i] \in Later(status)
        /\ \A e \in Tells(s) : new[i] \in Later(e)
  BY <1>4, <1>5, Zenon
<1>8. \A i \in DOMAIN new : new[i] \in Telling =>
        /\ new[i] \in Later(status)
        /\ \A e \in Tells(s) : new[i] \in Later(e)
        /\ \A j \in DOMAIN new : j < i /\ new[j] \in Telling => new[i] \in Later(new[j])
  BY <1>6, <1>7, Zenon
<1>9. \A i \in DOMAIN new : new[i] = "closed" =>
        \/ status \in {"connected", "error"}
        \/ Tells(s) \cap {"connected", "error"} # {}
        \/ \E j \in DOMAIN new : j < i /\ new[j] \in {"connected", "error"}
  BY <1>5
<1>10. new \in Seq(Event)
  BY <1>3
<1> HIDE DEF Ending
<1> QED
  BY <1>5, <1>8, <1>9, <1>10, ConcatIsOrderly

\* A session that fails tells so and closes.
LEMMA FailureKeepsOrder ==
  ASSUME NEW s \in Seq(Event), NEW status \in {"opening", "connected"}, Orderly(s, status),
         Tells(s) \subseteq {"connected"}
  PROVE  Orderly(s \o <<"error", "closed">>, status)
<1> DEFINE new == <<"error", "closed">>
<1>1. /\ new \in Seq(Event) /\ DOMAIN new = 1..2
      /\ new[1] = "error" /\ new[2] = "closed"
  BY SentAreEvents
<1> HIDE DEF new
<1>2. /\ {"error", "closed"} \subseteq Later(status)
      /\ {"error", "closed"} \subseteq Later("connected")
      /\ "closed" \in Later("error")
      /\ status \in Status /\ "error" \in Telling
  BY DEF Later, Status, Telling
<1>3. \A i \in DOMAIN new :
        /\ new[i] \in Later(status)
        /\ \A e \in Tells(s) : new[i] \in Later(e)
        /\ \A j \in DOMAIN new : j < i => new[i] \in Later(new[j])
        /\ new[i] = "closed" => \E j \in DOMAIN new : j < i /\ new[j] \in {"connected", "error"}
  BY <1>1, <1>2
<1> QED
  BY <1>1, <1>2, <1>3, ConcatIsOrderly DEF new

\* A step of the task that sends new and keeps the life in order.
LEMMA EmitKeepsLife ==
  ASSUME TypeOK, LifeInv, NEW new \in Seq(Event), Emit(new),
         UNCHANGED <<relaying, mirror>>, pc # "unopened", pc' # "unopened",
         relaying /\ ~lagged =>
           Orderly(events \o new, mirror) /\ Behind(pc', events \o new, mirror)
  PROVE  LifeInv'
<1>1. relaying /\ ~lagged' => ~lagged /\ events' = events \o new
  BY EmitType
<1> QED
  BY <1>1 DEF LifeInv

\* A step of the task that sends nothing.
LEMMA SilenceKeepsLife ==
  ASSUME TypeOK, LifeInv, UNCHANGED <<events, lagged, relaying, mirror>>,
         pc # "unopened", pc' # "unopened",
         relaying /\ ~lagged => Behind(pc', events, mirror)
  PROVE  LifeInv'
BY DEF LifeInv

LEMMA OpeningLife ==
  ASSUME TypeOK, LifeInv, Advance \/ (Fail /\ pc = "transport")
  PROVE  LifeInv'
<1>1. pc \in Opening /\ UNCHANGED <<relaying, mirror>>
  BY DEF Advance, Fail, Opening
<1>2. relaying /\ ~lagged =>
        Orderly(events, mirror) /\ mirror = "opening" /\ Tells(events) = {}
  BY <1>1 DEF LifeInv, Behind
<1>3. pc # "unopened" /\ "opening" \in Status /\ events \in Seq(Event)
  BY <1>1 DEF Opening, Status, TypeOK
<1>4. ASSUME NEW new \in Seq(Quiet), Emit(new), pc' \in Opening \cup {"failed"}
      PROVE  LifeInv'
  <2>1. new \in Seq(Event) /\ Tells(new) = {}
    BY <1>4, QuietTellsNothing
  <2>2. relaying /\ ~lagged =>
          /\ Orderly(events \o new, mirror)
          /\ Tells(events \o new) = {}
    BY <1>2, <1>3, <2>1, QuietKeepsOrder
  <2>3. relaying /\ ~lagged => Behind(pc', events \o new, mirror)
    BY <1>2, <1>4, <2>2 DEF Behind, Opening, Serving
  <2>4. pc' # "unopened"
    BY <1>4 DEF Opening
  <2> QED
    BY <1>1, <1>3, <1>4, <2>1, <2>2, <2>3, <2>4, EmitKeepsLife
<1>5. CASE Advance /\ pc = "shell"
  <2> DEFINE new == <<"diagnostic", "connected", "line", "diagnostic">>
  <2>1. Emit(new) /\ pc' = "loop" /\ new \in Seq(Event)
    BY <1>5, SentAreEvents DEF Advance
  <2>2. relaying /\ ~lagged =>
          Orderly(events \o new, mirror) /\ Tells(events \o new) = {"connected"}
    BY <1>2, <1>3, ConnectionKeepsOrder
  <2> HIDE DEF new
  <2>3. relaying /\ ~lagged => Behind(pc', events \o new, mirror)
    BY <1>2, <2>1, <2>2 DEF Behind, Opening, Serving
  <2> QED
    BY <1>1, <1>3, <2>1, <2>2, <2>3, EmitKeepsLife
<1>6. CASE Advance /\ pc # "shell"
  <2>1. <<"diagnostic">> \in Seq(Quiet)
    <3>1. "diagnostic" \in Quiet
      BY DEF Quiet, Event, Telling
    <3> QED
      BY <3>1
  <2>2. pc' \in Opening
    BY <1>6 DEF Advance, Opening
  <2>3. \E new \in Seq(Quiet) : Emit(new)
    BY <1>6, <2>1, ToldIsQuiet DEF Advance
  <2> QED
    BY <1>4, <2>2, <2>3
<1>7. CASE Fail /\ pc = "transport"
  BY <1>4, <1>7, ToldIsQuiet DEF Fail
<1> QED
  BY <1>5, <1>6, <1>7

LEMMA ConnectTaskLife ==
  ASSUME TypeOK, LifeInv, ConnectTask
  PROVE  LifeInv'
<1>1. pc # "unopened" /\ pc' # "unopened" /\ UNCHANGED <<relaying, mirror>>
  BY DEF ConnectTask, Advance, Fail, TakeInput, Written, EofSent, CloseSent, Message,
           ServerOutput, ServerExits, ServerCloses,
         ReportFailure, RemoveSession, Opening
<1>2. events \in Seq(Event) /\ mirror \in Status
  BY DEF TypeOK
<1>3. pc \in Serving \cup {"loop"} /\ relaying /\ ~lagged =>
        /\ Orderly(events, mirror)
        /\ mirror \in {"opening", "connected"} /\ Tells(events) \subseteq {"connected"}
        /\ mirror = "connected" \/ "connected" \in Tells(events)
  BY DEF LifeInv, Behind
<1>4. CASE Advance \/ (Fail /\ pc = "transport")
  BY <1>4, OpeningLife
<1>5. CASE Fail /\ pc # "transport"
  <2>1. pc' = "failed" /\ UNCHANGED <<events, lagged>> /\ pc \in Opening \cup {"writing"}
    BY <1>5 DEF Fail
  <2>2. relaying /\ ~lagged => Behind(pc', events, mirror)
    BY <2>1 DEF LifeInv, Behind, Opening, Serving
  <2> QED
    BY <1>1, <2>1, <2>2, SilenceKeepsLife
<1>6. ASSUME NEW new \in {<<"closed">>, <<"diagnostic", "closed">>},
             pc \in Serving \cup {"loop"}, pc' = "over", Emit(new)
      PROVE  LifeInv'
  <2>1. new \in Seq(Event)
    BY SentAreEvents
  <2>2. relaying /\ ~lagged => Orderly(events \o new, mirror)
    BY <1>2, <1>3, <1>6, CloseKeepsOrder
  <2>3. Behind(pc', events \o new, mirror)
    BY <1>6 DEF Behind, Opening, Serving
  <2> QED
    BY <1>1, <1>6, <2>1, <2>2, <2>3, EmitKeepsLife
<1>7. ASSUME NEW new \in Seq(Quiet), Emit(new),
             pc \in Serving \cup {"loop"}, pc' \in Serving \cup {"loop"}
      PROVE  LifeInv'
  <2>1. new \in Seq(Event) /\ Tells(new) = {}
    BY QuietTellsNothing
  <2>2. relaying /\ ~lagged =>
          Orderly(events \o new, mirror) /\ Tells(events \o new) = Tells(events)
    BY <1>2, <1>3, <1>7, <2>1, QuietKeepsOrder
  <2>3. relaying /\ ~lagged => Behind(pc', events \o new, mirror)
    BY <1>3, <1>7, <2>2 DEF Behind, Opening, Serving
  <2> QED
    BY <1>1, <1>7, <2>1, <2>2, <2>3, EmitKeepsLife
<1>8. <<"diagnostic">> \in Seq(Quiet) /\ <<"diagnostic", "stdout">> \in Seq(Quiet)
      /\ <<"stdout">> \in Seq(Quiet)
  <2>1. "diagnostic" \in Quiet /\ "stdout" \in Quiet
    BY DEF Quiet, Event, Telling
  <2> QED
    BY <2>1
<1>9. ASSUME UNCHANGED <<events, lagged>>,
             pc \in Serving \cup {"loop"}, pc' \in Serving \cup {"loop"}
      PROVE  LifeInv'
  <2>1. relaying /\ ~lagged => Behind(pc', events, mirror)
    BY <1>3, <1>9 DEF Behind, Opening, Serving
  <2> QED
    BY <1>1, <1>9, <2>1, SilenceKeepsLife
<1>10. CASE TakeInput
  <2>1. CASE Head(inbox) = "close"
    <3>1. pc = "loop" /\ pc' = "eof" /\ Emit(<<"diagnostic">>)
      BY <1>10, <2>1 DEF TakeInput
    <3>2. pc \in Serving \cup {"loop"} /\ pc' \in Serving \cup {"loop"}
      BY <3>1 DEF Serving
    <3> QED
      BY <1>7, <1>8, <3>1, <3>2
  <2>2. CASE Head(inbox) # "close"
    BY <1>9, <1>10, <2>2 DEF TakeInput, Serving
  <2> QED
    BY <2>1, <2>2
<1>11. CASE Written \/ EofSent
  BY <1>9, <1>11 DEF Written, EofSent, Serving
<1>12. CASE CloseSent
  BY <1>6, <1>12 DEF CloseSent, Serving
<1>13. CASE ServerOutput
  <2>1. PICK new \in {<<"diagnostic", "stdout">>, <<"stdout">>} : Emit(new)
    BY <1>13 DEF ServerOutput
  <2>2. pc = "loop" /\ pc' = "loop"
    BY <1>13 DEF ServerOutput, Message
  <2> QED
    BY <1>7, <1>8, <2>1, <2>2
<1>14. CASE ServerExits
  <2>1. pc = "loop" /\ pc' = "loop" /\ Emit(<<"diagnostic">>)
    BY <1>14 DEF ServerExits, Message
  <2> QED
    BY <1>7, <1>8, <2>1
<1>15. CASE ServerCloses
  BY <1>6, <1>15 DEF ServerCloses, Message
<1>16. CASE ReportFailure
  <2> DEFINE new == <<"error", "closed">>
  <2>1. pc = "failed" /\ pc' = "over" /\ Emit(new) /\ new \in Seq(Event)
    BY <1>16, SentAreEvents DEF ReportFailure
  <2>2. relaying /\ ~lagged => Orderly(events \o new, mirror)
    BY <1>2, <2>1, FailureKeepsOrder DEF LifeInv, Behind
  <2>3. Behind(pc', events \o new, mirror)
    BY <2>1 DEF Behind, Opening, Serving
  <2> HIDE DEF new
  <2> QED
    BY <1>1, <2>1, <2>2, <2>3, EmitKeepsLife
<1>17. CASE RemoveSession
  <2>1. pc' = "gone" /\ UNCHANGED <<events, lagged>>
    BY <1>17 DEF RemoveSession
  <2>2. Behind(pc', events, mirror)
    BY <2>1 DEF Behind, Opening, Serving
  <2> QED
    BY <1>1, <2>1, <2>2, SilenceKeepsLife
<1> QED
  BY <1>4, <1>5, <1>10, <1>11, <1>12, <1>13, <1>14, <1>15, <1>16, <1>17 DEF ConnectTask

\* What the forwarder takes is the next step of the life.
LEMMA ForwardLife ==
  ASSUME TypeOK, LifeInv, Forward
  PROVE  LifeInv' /\ (mirror' # mirror => mirror' \in StatusesAfter(mirror))
<1> DEFINE head == Head(events)
           rest == Tail(events)
<1>1. /\ events \in Seq(Event) /\ events # <<>>
      /\ mirror \in Status \ {"none"}
      /\ Orderly(events, mirror) /\ Behind(pc, events, mirror)
      /\ pc # "unopened"
  BY DEF Forward, TypeOK, LifeInv
<1>2. /\ head \in Telling => head \in StatusesAfter(mirror) /\ Orderly(rest, head)
      /\ head \notin Telling => Orderly(rest, mirror)
  BY <1>1, TailIsOrderly
<1>3. Tells(events) = Tells(rest) \cup ({head} \cap Telling)
  BY <1>1, TellsTail
<1>4. head \in Event /\ rest \in Seq(Event)
  BY <1>1, HeadTailProperties
<1>5. /\ events' = rest
      /\ mirror' = IF head \in Telling THEN head ELSE mirror
      /\ UNCHANGED <<pc, lagged, relaying>>
  BY DEF Forward, StatusAfter, Telling
<1> HIDE DEF head, rest
<1>6. Orderly(events', mirror')
  BY <1>2, <1>5
<1>7. Behind(pc', events', mirror')
  <2>1. CASE pc \in Opening
    BY <1>1, <1>3, <1>5, <2>1 DEF Behind, Opening, Serving
  <2>2. CASE pc \in Serving \cup {"loop", "failed"}
    BY <1>1, <1>3, <1>5, <2>2 DEF Behind, Opening, Serving, Telling
  <2>3. CASE pc \notin Opening \cup Serving \cup {"loop", "failed"}
    BY <1>5, <2>3 DEF Behind
  <2> QED
    BY <2>1, <2>2, <2>3
<1>8. mirror' # "none"
  BY <1>1, <1>5 DEF Telling
<1> QED
  BY <1>1, <1>2, <1>5, <1>6, <1>7, <1>8 DEF LifeInv

LEMMA LifeStep ==
  ASSUME TypeOK, LifeInv, Next
  PROVE  LifeInv' /\ (mirror' # mirror => mirror' \in StatusesAfter(mirror))
<1>1. CASE OpenSession
  <2>1. /\ mirror = "none" /\ mirror' = "opening" /\ pc' = "transport"
        /\ events' = <<"diagnostic">>
    BY <1>1 DEF OpenSession, LifeInv
  <2>2. DOMAIN events' = {1} /\ events'[1] = "diagnostic"
    BY <2>1
  <2>3. Orderly(events', mirror') /\ Tells(events') = {}
    BY <2>2 DEF Orderly, Tells, Telling
  <2>4. Behind(pc', events', mirror')
    BY <2>1, <2>3 DEF Behind, Opening, Serving
  <2> QED
    BY <2>1, <2>3, <2>4 DEF LifeInv, StatusesAfter
<1>2. CASE ConnectTask
  <2>1. UNCHANGED mirror
    BY <1>2
       DEF ConnectTask, Advance, Fail, TakeInput, Written, EofSent, CloseSent, Message,
           ServerOutput, ServerExits, ServerCloses,
           ReportFailure, RemoveSession
  <2> QED
    BY <1>2, <2>1, ConnectTaskLife
<1>3. CASE Forward
  BY <1>3, ForwardLife
<1>4. CASE TranscriptPanics \/ StopForwarding
  BY <1>4 DEF TranscriptPanics, StopForwarding, LifeInv
<1>5. CASE UNCHANGED <<pc, events, lagged, relaying, mirror>>
  BY <1>5 DEF LifeInv
<1> QED
  BY <1>1, <1>2, <1>3, <1>4, <1>5 DEF Next, Forwarder, Call, Deliver

\* Types and the order of what is on its way, of every reachable state.
LEMMA LifeInvariant == Spec => [](TypeOK /\ LifeInv)
<1>1. Init => LifeInv
  BY DEF Init, LifeInv
<1>2. TypeOK /\ LifeInv /\ [Next]_vars => LifeInv'
  <2>1. UNCHANGED vars /\ LifeInv => LifeInv'
    BY DEF vars, LifeInv
  <2> QED
    BY <2>1, LifeStep
<1> QED
  BY <1>1, <1>2, TypeCorrect, PTL DEF Spec

\* The status of the session mirror moves along the life of a session only: it is
\* connected before a regular end, closed comes after a connection or an error,
\* and nothing comes after it.
THEOREM MirrorFollows == Spec => MirrorFollowsLifecycle
<1>1. TypeOK /\ LifeInv /\ [Next]_vars => [mirror' \in StatusesAfter(mirror)]_mirror
  BY LifeStep DEF vars
<1> QED
  BY <1>1, LifeInvariant, PTL DEF Spec, MirrorFollowsLifecycle

=============================================================================
