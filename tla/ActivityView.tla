---------------------------- MODULE ActivityView ----------------------------
(***************************************************************************)
(* The page of activity logs over the log itself: it lists on mounting and *)
(* every four seconds, and clears                                          *)
(* (app-client/src-ui/hooks/useActivityLogs.ts, app/(modules)/logs).       *)
(* Listing and clearing are commands of the main thread, one after the     *)
(* other; answers come in any order.  Sessions and other commands record   *)
(* all the while; how an entry gets into the file, or is lost on the way,  *)
(* is the matter of JsonlLog.                                              *)
(***************************************************************************)
EXTENDS Naturals, Sequences, SequencesExt, FiniteSets

CONSTANTS
  MaxRecords, \* bound: entries
  MaxClears,  \* bound: times the log was cleared
  MaxEnds,    \* bound: ends of the application
  MaxMounts,  \* bound: visits of the page
  MaxAsked    \* bound: lists that wait for an answer when the next is asked for

ActivityViewAssumption ==
  {MaxRecords, MaxClears, MaxEnds, MaxMounts, MaxAsked} \subseteq Nat

Entry == 1..MaxRecords

VARIABLES
  log,      \* what list_activity_logs returns
  recorded, clears, ends,  \* history: entries, clears, ends of the application
  mounted,  \* whether the page is there
  mounts,   \* the number of visits, which tells them apart
  shown,    \* logs
  failed,   \* whether the hook holds an error
  cached,   \* memoryActivityLogsCache, empty before the first answer
  queue,    \* the commands that wait for the main thread
  answers   \* the answers on their way to the page

history == <<recorded, clears, ends>>
vars == <<log, history, mounted, mounts, shown, failed, cached, queue, answers>>

Command == [cmd : {"list", "clear"}, mount : 1..MaxMounts]
Result ==
  [cmd : {"list", "clear"}, mount : 1..MaxMounts, ok : BOOLEAN, entries : SUBSET Entry]

TypeOK ==
  /\ log \subseteq Entry
  /\ recorded \in 0..MaxRecords /\ clears \in 0..MaxClears /\ ends \in 0..MaxEnds
  /\ mounted \in BOOLEAN /\ mounts \in 0..MaxMounts
  /\ shown \subseteq Entry /\ cached \subseteq Entry
  /\ failed \in BOOLEAN
  /\ \A i \in DOMAIN queue : queue[i] \in Command
  /\ \A i \in DOMAIN answers : answers[i] \in Result
  /\ ~mounted => shown = {} /\ ~failed

Init ==
  /\ log = {}
  /\ recorded = 0 /\ clears = 0 /\ ends = 0
  /\ mounted = FALSE
  /\ mounts = 0
  /\ shown = {}
  /\ failed = FALSE
  /\ cached = {}
  /\ queue = <<>>
  /\ answers = <<>>

-----------------------------------------------------------------------------
Mount ==
  /\ ~mounted /\ mounts < MaxMounts
  /\ mounted' = TRUE
  /\ mounts' = mounts + 1
  /\ shown' = cached
  /\ queue' = Append(queue, [cmd |-> "list", mount |-> mounts + 1])
  /\ UNCHANGED <<log, history, failed, cached, answers>>

\* The interval ends with the page.
Unmount ==
  /\ mounted
  /\ mounted' = FALSE
  /\ shown' = {}
  /\ failed' = FALSE
  /\ UNCHANGED <<log, history, mounts, cached, queue, answers>>

Pending(cmd) ==
  {<<"queue", i>> : i \in {j \in DOMAIN queue : queue[j].cmd = cmd}}
    \cup {<<"answers", i>> : i \in {j \in DOMAIN answers : answers[j].cmd = cmd}}

\* A mutant: the page does not ask again once it shows something.
TickWhileEmpty ==
  /\ mounted /\ shown = {}
  /\ Cardinality(Pending("list")) < MaxAsked
  /\ queue' = Append(queue, [cmd |-> "list", mount |-> mounts])
  /\ UNCHANGED <<log, history, mounted, mounts, shown, failed, cached, answers>>

Tick ==
  /\ mounted
  /\ Cardinality(Pending("list")) < MaxAsked
  /\ queue' = Append(queue, [cmd |-> "list", mount |-> mounts])
  /\ UNCHANGED <<log, history, mounted, mounts, shown, failed, cached, answers>>

\* One clear waits at a time, which is a bound.
ClearLogs ==
  /\ Pending("clear") = {}
  /\ queue' = Append(queue, [cmd |-> "clear", mount |-> mounts])
  /\ UNCHANGED <<log, history, mounted, mounts, shown, failed, cached, answers>>

\* The page confirms, filters and exports; only this reaches the log.
LogsPage ==
  /\ mounted /\ clears < MaxClears
  /\ ClearLogs

Answer(ok, entries) ==
  /\ answers' = Append(answers, [cmd |-> Head(queue).cmd, mount |-> Head(queue).mount,
                                 ok |-> ok, entries |-> entries])
  /\ queue' = Tail(queue)
  /\ UNCHANGED <<mounted, mounts, shown, failed, cached>>

ServeList ==
  /\ queue # <<>> /\ Head(queue).cmd = "list"
  /\ Answer(TRUE, log)
  /\ UNCHANGED <<log, history>>

ServeClear ==
  /\ queue # <<>> /\ Head(queue).cmd = "clear"
  /\ log' = {}
  /\ clears' = clears + 1
  /\ Answer(TRUE, {})
  /\ UNCHANGED <<recorded, ends>>

Refuse ==
  /\ queue # <<>>
  /\ Answer(FALSE, {})
  /\ UNCHANGED <<log, history>>

\* A mutant: the answer is shown whoever asked.
TakeAnswerUnmounted(i) ==
  /\ answers[i].ok
  /\ answers' = RemoveAt(answers, i)
  /\ cached' = answers[i].entries
  /\ shown' = answers[i].entries
  /\ failed' = FALSE
  /\ UNCHANGED <<log, history, mounted, mounts, queue>>

\* A list and a clear replace what is cached, and what the same visit shows.
TakeAnswer(i) ==
  /\ answers[i].ok
  /\ answers' = RemoveAt(answers, i)
  /\ cached' = answers[i].entries
  /\ IF mounted /\ answers[i].mount = mounts
     THEN shown' = answers[i].entries /\ failed' = FALSE
     ELSE UNCHANGED <<shown, failed>>
  /\ UNCHANGED <<log, history, mounted, mounts, queue>>

\* Nobody catches the refusal of a clear.
TakeError(i) ==
  /\ ~answers[i].ok
  /\ answers' = RemoveAt(answers, i)
  /\ failed' = (failed \/ (answers[i].cmd = "list" /\ mounted /\ answers[i].mount = mounts))
  /\ UNCHANGED <<log, history, mounted, mounts, shown, cached, queue>>

\* Other commands and the threads of sessions, whatever the page does.
Record ==
  /\ recorded < MaxRecords
  /\ recorded' = recorded + 1
  /\ log' = log \cup {recorded + 1}
  /\ UNCHANGED <<clears, ends, mounted, mounts, shown, failed, cached, queue, answers>>

\* The application ends; only the log stays.
End ==
  /\ ends < MaxEnds
  /\ ends' = ends + 1
  /\ mounted' = FALSE
  /\ shown' = {}
  /\ failed' = FALSE
  /\ cached' = {}
  /\ queue' = <<>>
  /\ answers' = <<>>
  /\ UNCHANGED <<log, recorded, clears, mounts>>

-----------------------------------------------------------------------------
Next ==
  \/ Mount \/ Unmount \/ Tick \/ LogsPage
  \/ ServeList \/ ServeClear \/ Refuse \/ Record \/ End
  \/ \E i \in DOMAIN answers : TakeAnswer(i) \/ TakeError(i)

TakeOldest == answers # <<>> /\ (TakeAnswer(1) \/ TakeError(1))

\* The interval fires, the main thread goes on and every answer arrives: the
\* oldest one does not stay for ever.
Fairness ==
  /\ WF_vars(Tick)
  /\ WF_vars(ServeList \/ ServeClear \/ Refuse)
  /\ WF_vars(TakeOldest)

Spec == Init /\ [][Next]_vars

FairSpec == Spec /\ Fairness

-----------------------------------------------------------------------------
(* Properties.                                                             *)

\* Once nothing is recorded or cleared any more, the page comes to show what the
\* log lists, or an error, whatever late answers showed in between.
ViewCatchesUp == <>[](~mounted \/ failed \/ shown = log)

=============================================================================
