-------------------------- MODULE LocalVaultProofs --------------------------
(* Nothing is lost from the vault but by stale saves, for any number of      *)
(* upserts, pages, edits, rotations and crashes.                             *)
EXTENDS LocalVault, SequenceTheorems, TLAPS

USE LocalVaultAssumption

Waiting == {"load", "save"}
Where == {"idle", "load", "loaded", "save", "saved", "refused", "done", "failed"}

-----------------------------------------------------------------------------
(* Queues without repetition.                                              *)

Distinct(q) == \A i, j \in DOMAIN q : q[i] = q[j] => i = j
Holds(q, c) == \E i \in DOMAIN q : q[i] = c

LEMMA AppendToDistinct ==
  ASSUME NEW S, NEW q \in Seq(S), Distinct(q), NEW c \in S, ~Holds(q, c)
  PROVE  /\ Append(q, c) \in Seq(S) /\ Append(q, c) # <<>>
         /\ Distinct(Append(q, c))
         /\ \A x \in S : Holds(Append(q, c), x) <=> (Holds(q, x) \/ x = c)
         /\ q # <<>> => Head(Append(q, c)) = Head(q)
<1> DEFINE r == Append(q, c)
<1>1. /\ r \in Seq(S) /\ Len(r) = Len(q) + 1 /\ Len(q) \in Nat
      /\ DOMAIN r = 1..(Len(q) + 1) /\ DOMAIN q = 1..Len(q)
      /\ \A i \in 1..Len(q) : r[i] = q[i]
      /\ r[Len(q) + 1] = c
  OBVIOUS
<1> HIDE DEF r
<1>2. Distinct(r)
  BY <1>1 DEF Distinct, Holds
<1>3. \A x \in S : Holds(r, x) <=> (Holds(q, x) \/ x = c)
  <2> TAKE x \in S
  <2>1. Holds(r, x) => Holds(q, x) \/ x = c
    BY <1>1 DEF Holds
  <2>2. Holds(q, x) => Holds(r, x)
    BY <1>1 DEF Holds
  <2>3. x = c => Holds(r, x)
    BY <1>1 DEF Holds
  <2>. QED  BY <2>1, <2>2, <2>3
<1>4. q # <<>> => Head(r) = Head(q)
  BY <1>1
<1>5. r # <<>>
  BY <1>1
<1>. QED  BY <1>1, <1>2, <1>3, <1>4, <1>5 DEF r

LEMMA TailOfDistinct ==
  ASSUME NEW S, NEW q \in Seq(S), Distinct(q), q # <<>>
  PROVE  /\ Tail(q) \in Seq(S)
         /\ Distinct(Tail(q))
         /\ Head(q) \in S /\ Holds(q, Head(q))
         /\ \A x \in S : Holds(Tail(q), x) <=> (Holds(q, x) /\ x # Head(q))
<1> DEFINE r == Tail(q)
<1>1. /\ r \in Seq(S) /\ Len(q) \in Nat /\ Len(q) >= 1
      /\ DOMAIN r = 1..(Len(q) - 1) /\ DOMAIN q = 1..Len(q)
      /\ \A i \in 1..(Len(q) - 1) : r[i] = q[i + 1]
      /\ Head(q) = q[1] /\ Head(q) \in S
  OBVIOUS
<1> HIDE DEF r
<1>2. Distinct(r)
  <2> SUFFICES ASSUME NEW i \in 1..(Len(q) - 1), NEW j \in 1..(Len(q) - 1), r[i] = r[j]
               PROVE  i = j
    BY <1>1 DEF Distinct
  <2>1. i + 1 \in DOMAIN q /\ j + 1 \in DOMAIN q /\ q[i + 1] = q[j + 1]
    BY <1>1
  <2>2. i + 1 = j + 1
    BY <2>1 DEF Distinct
  <2>. QED  BY <2>2
<1>3. Holds(q, Head(q))
  BY <1>1 DEF Holds
<1>4. \A x \in S : Holds(r, x) <=> (Holds(q, x) /\ x # Head(q))
  <2> TAKE x \in S
  <2>1. Holds(r, x) => Holds(q, x) /\ x # Head(q)
    BY <1>1 DEF Holds, Distinct
  <2>2. ASSUME Holds(q, x), x # Head(q)
        PROVE  Holds(r, x)
    <3>1. PICK i \in 1..Len(q) : q[i] = x
      BY <1>1, <2>2 DEF Holds
    <3>2. i - 1 \in 1..(Len(q) - 1) /\ r[i - 1] = x
      BY <1>1, <2>2, <3>1
    <3>. QED  BY <1>1, <3>2 DEF Holds
  <2>. QED  BY <2>1, <2>2
<1>. QED  BY <1>1, <1>2, <1>3, <1>4 DEF r

-----------------------------------------------------------------------------
(* What the steps that callers share do to the queue.                      *)

LEMMA QueueFacts ==
  QueueOK <=> /\ queue \in Seq(Caller)
              /\ Distinct(queue)
              /\ \A c \in Caller : Holds(queue, c) <=> pc[c] \in Waiting
BY DEF QueueOK, Distinct, Holds, Waiting

LEMMA QueueFactsNext ==
  QueueOK' <=> /\ queue' \in Seq(Caller)
               /\ Distinct(queue')
               /\ \A c \in Caller : Holds(queue', c) <=> pc'[c] \in Waiting
BY DEF QueueOK, Distinct, Holds, Waiting

LEMMA InvokeKeepsQueue ==
  ASSUME QueueOK, pc \in [Caller -> Where],
         NEW c \in Caller, pc[c] \notin Waiting,
         NEW command \in Waiting, Invoke(c, command)
  PROVE  /\ QueueOK' /\ pc' \in [Caller -> Where]
         /\ queue' # <<>>
         /\ queue # <<>> => Head(queue') = Head(queue)
<1>1. ~Holds(queue, c)
  BY QueueFacts
<1>2. pc' \in [Caller -> Where] /\ pc' = [pc EXCEPT ![c] = command]
  BY DEF Invoke, Goto, Where, Waiting
<1>3. queue' = Append(queue, c)
  BY DEF Invoke
<1>4. \A x \in Caller : Holds(queue', x) <=> pc'[x] \in Waiting
  BY <1>1, <1>2, <1>3, QueueFacts, AppendToDistinct
<1>. QED
  BY <1>1, <1>2, <1>3, <1>4, QueueFacts, QueueFactsNext, AppendToDistinct

LEMMA AnswerKeepsQueue ==
  ASSUME QueueOK, pc \in [Caller -> Where], queue # <<>>,
         NEW where \in Where \ Waiting, Answer(Head(queue), where)
  PROVE  QueueOK' /\ pc' \in [Caller -> Where] /\ Head(queue) \in Caller
<1>1. Head(queue) \in Caller
  BY QueueFacts, TailOfDistinct
<1>2. pc' \in [Caller -> Where] /\ pc' = [pc EXCEPT ![Head(queue)] = where]
  BY <1>1 DEF Answer, Goto
<1>3. queue' = Tail(queue)
  BY DEF Answer
<1>4. \A x \in Caller : Holds(queue', x) <=> pc'[x] \in Waiting
  BY <1>1, <1>2, <1>3, QueueFacts, TailOfDistinct
<1>. QED
  BY <1>1, <1>2, <1>3, <1>4, QueueFacts, QueueFactsNext, TailOfDistinct

LEMMA GotoKeepsQueue ==
  ASSUME QueueOK, pc \in [Caller -> Where],
         NEW c \in Caller, pc[c] \notin Waiting,
         NEW where \in Where \ Waiting, Goto(c, where), queue' = queue
  PROVE  QueueOK' /\ pc' \in [Caller -> Where]
<1>1. pc' \in [Caller -> Where] /\ pc' = [pc EXCEPT ![c] = where]
  BY DEF Goto
<1>2. \A x \in Caller : pc'[x] \in Waiting <=> pc[x] \in Waiting
  BY <1>1
<1>. QED  BY <1>1, <1>2, QueueFacts, QueueFactsNext

-----------------------------------------------------------------------------
(* Contents, and the command that writes.                                  *)

LEMMA MergeKeepsContent ==
  ASSUME NEW ch \in EntryChange, NEW content \in Content
  PROVE  Merge(ch, content) \in Content
<1>1. CASE ch.op = "server"
  BY <1>1 DEF EntryChange, Content, Merge
<1>2. CASE ch.op = "host"
  BY <1>2 DEF EntryChange, Content, Merge
<1>3. CASE ch.op = "unhost"
  BY <1>3 DEF EntryChange, Content, Merge
<1>. QED  BY <1>1, <1>2, <1>3 DEF EntryChange

LEMMA StoredIsContent ==
  ASSUME TypeOK
  PROVE  Stored \in Content /\ Empty \in Content
BY DEF TypeOK, Stored, Empty, Content

WriterOK == writing => queue # <<>> /\ pc[Head(queue)] = "save" /\ Readable(Head(queue))

\* A step of a caller whose command does not run does not touch the one that does.
LEMMA WriterStays ==
  ASSUME WriterOK, QueueOK, NEW c \in Caller, pc[c] # "save",
         \A x \in Caller \ {c} : pc'[x] = pc[x] /\ change'[x] = change[x],
         queue # <<>> => queue' # <<>> /\ Head(queue') = Head(queue),
         UNCHANGED <<file, writing>>
  PROVE  WriterOK'
<1>1. CASE ~writing
  BY <1>1 DEF WriterOK
<1>2. CASE writing
  <2>1. queue # <<>> /\ Head(queue) \in Caller \ {c}
    BY <1>2, QueueFacts, TailOfDistinct DEF WriterOK
  <2>2. Head(queue') = Head(queue) /\ queue' # <<>>
    BY <2>1
  <2>3. pc'[Head(queue)] = "save" /\ change'[Head(queue)] = change[Head(queue)]
    BY <1>2, <2>1 DEF WriterOK
  <2>. QED  BY <1>2, <2>2, <2>3 DEF WriterOK, Readable
<1>. QED  BY <1>1, <1>2

\* The invariant in the parts that the steps below are checked against.
ContentsOK ==
  /\ carried \in [Caller -> Content]
  /\ change \in [Caller -> EntryChange \cup PasswordChange \cup {None}]
  /\ base \in [Caller -> Content]
  /\ screen \in Content
  /\ cache \in Content
  /\ page \in Page \cup {None}
  /\ owner \in [Edit -> Page \cup {None}]
FileOK ==
  /\ file \in [password : Password, content : Content] \cup {None}
  /\ writing \in BOOLEAN
  /\ crashes \in 0..MaxCrashes
  /\ intended \in Content
  /\ stale \in BOOLEAN
  /\ ~stale => Stored = intended
CallsOK == QueueOK /\ pc \in [Caller -> Where]

LEMMA InvariantParts ==
  IInv <=> CallsOK /\ ContentsOK /\ FileOK /\ RequestsOK /\ WriterOK
BY DEF IInv, TypeOK, CallsOK, ContentsOK, FileOK, WriterOK, LossNeedsStaleSave, Where

LEMMA InvariantPartsNext ==
  IInv' <=> CallsOK' /\ ContentsOK' /\ FileOK' /\ RequestsOK' /\ WriterOK'
BY DEF IInv, TypeOK, CallsOK, ContentsOK, FileOK, WriterOK, LossNeedsStaleSave, Where,
       QueueOK, RequestsOK, Readable, Stored

\* The kinds of callers exclude each other.
LEMMA Kinds ==
  ASSUME NEW c \in Caller
  PROVE  /\ c \in Wizard => c \notin Page /\ c \notin Edit /\ c \notin Rotation
         /\ c \in Page => c \notin Edit /\ c \notin Rotation
         /\ c \in Edit => c \notin Rotation
BY DEF Caller

-----------------------------------------------------------------------------
(* The steps of the user interface.                                        *)

LEMMA UpsertStep ==
  ASSUME IInv, NEW w \in Wizard, Upsert(w)
  PROVE  IInv'
<1> USE InvariantParts DEF Upsert, ui, ghosts
<1>1. w \in Caller /\ pc[w] = "idle" /\ w \notin Edit /\ w \notin Rotation /\ w \notin Page
  BY DEF Caller
<1>2. PICK ch \in EntryChange : change' = [change EXCEPT ![w] = ch]
  BY DEF EntryChange
<1>3. CallsOK' /\ queue' # <<>> /\ (queue # <<>> => Head(queue') = Head(queue))
  BY <1>1, InvokeKeepsQueue DEF CallsOK, Waiting
<1>4. pc' = [pc EXCEPT ![w] = "load"]
  BY DEF Invoke, Goto
<1>5. ContentsOK'
  BY <1>1, <1>2 DEF ContentsOK
<1>6. FileOK'
  BY DEF FileOK, Stored
<1>7. RequestsOK'
  BY <1>1, <1>2, <1>4 DEF RequestsOK, CallsOK, ContentsOK, Caller
<1>8. WriterOK'
  BY <1>1, <1>2, <1>3, <1>4, WriterStays DEF CallsOK, ContentsOK
<1>. QED  BY <1>3, <1>5, <1>6, <1>7, <1>8, InvariantPartsNext

LEMMA UpsertLoadedStep ==
  ASSUME IInv, NEW w \in Wizard, UpsertLoaded(w)
  PROVE  IInv'
<1> USE InvariantParts DEF UpsertLoaded, InvokeSave
<1>1. w \in Caller /\ pc[w] = "loaded" /\ w \notin Edit /\ w \notin Rotation /\ w \notin Page
  BY DEF Caller
<1>2. change[w] \in EntryChange /\ carried[w] \in Content
  BY <1>1 DEF RequestsOK, ContentsOK
<1>3. CallsOK' /\ queue' # <<>> /\ (queue # <<>> => Head(queue') = Head(queue))
  BY <1>1, InvokeKeepsQueue DEF CallsOK, Waiting
<1>4. pc' = [pc EXCEPT ![w] = "save"]
  BY DEF Invoke, Goto
<1>5. Merge(change[w], carried[w]) \in Content
  BY <1>2, MergeKeepsContent
<1>6. ContentsOK'
  BY <1>1, <1>2, <1>5 DEF ContentsOK
<1>7. FileOK'
  BY DEF FileOK, Stored
<1>8. RequestsOK'
  BY <1>1, <1>2, <1>4 DEF RequestsOK, CallsOK, ContentsOK, Caller
<1>9. WriterOK'
  BY <1>1, <1>3, <1>4, WriterStays DEF CallsOK
<1>. QED  BY <1>3, <1>6, <1>7, <1>8, <1>9, InvariantPartsNext

LEMMA MountStep ==
  ASSUME IInv, NEW p \in Page, Mount(p)
  PROVE  IInv'
<1> USE InvariantParts DEF Mount, ghosts
<1>1. p \in Caller /\ pc[p] = "idle" /\ p \notin Wizard /\ p \notin Edit /\ p \notin Rotation
  BY DEF Caller
<1>2. CallsOK' /\ queue' # <<>> /\ (queue # <<>> => Head(queue') = Head(queue))
  BY <1>1, InvokeKeepsQueue DEF CallsOK, Waiting
<1>3. pc' = [pc EXCEPT ![p] = "load"]
  BY DEF Invoke, Goto
<1>4. ContentsOK'
  BY DEF ContentsOK
<1>5. FileOK'
  BY DEF FileOK, Stored
<1>6. RequestsOK'
  BY <1>1, <1>3 DEF RequestsOK, CallsOK, Caller
<1>7. WriterOK'
  BY <1>1, <1>2, <1>3, WriterStays DEF CallsOK
<1>. QED  BY <1>2, <1>4, <1>5, <1>6, <1>7, InvariantPartsNext

LEMMA EditStep ==
  ASSUME IInv, NEW e \in Edit, EditHosts(e)
  PROVE  IInv'
<1> USE InvariantParts DEF EditHosts, HostChange, InvokeSave
<1>1. e \in Caller /\ pc[e] = "idle" /\ e \notin Wizard /\ e \notin Rotation /\ e \notin Page
  BY DEF Caller
<1>2. screen \in Content
  BY DEF ContentsOK
<1>3. PICK ch \in EntryChange :
        change' = [change EXCEPT ![e] = ch] /\ InvokeSave(e, ch, screen)
  <2>1. PICK ch \in [op : {"host"}, item : Host] \cup [op : {"unhost"}, item : screen.hosts] :
          change' = [change EXCEPT ![e] = ch] /\ InvokeSave(e, ch, screen)
    OBVIOUS
  <2>2. ch \in EntryChange
    BY <1>2 DEF EntryChange, Content
  <2>. QED  BY <2>1, <2>2
<1>4. CallsOK' /\ queue' # <<>> /\ (queue # <<>> => Head(queue') = Head(queue))
  BY <1>1, <1>3, InvokeKeepsQueue DEF CallsOK, Waiting
<1>5. pc' = [pc EXCEPT ![e] = "save"]
  BY <1>3 DEF Invoke, Goto
<1>6. Merge(ch, screen) \in Content
  BY <1>2, <1>3, MergeKeepsContent
<1>7. ContentsOK'
  BY <1>1, <1>2, <1>3, <1>6 DEF ContentsOK
<1>8. FileOK'
  BY DEF FileOK, Stored
<1>9. RequestsOK'
  BY <1>1, <1>3, <1>5 DEF RequestsOK, CallsOK, ContentsOK, Caller
<1>10. WriterOK'
  BY <1>1, <1>3, <1>4, <1>5, WriterStays DEF CallsOK, ContentsOK
<1>. QED  BY <1>4, <1>7, <1>8, <1>9, <1>10, InvariantPartsNext

LEMMA RotateStep ==
  ASSUME IInv, NEW r \in Rotation, Rotate(r)
  PROVE  IInv'
<1> USE InvariantParts DEF Rotate, ui, ghosts
<1>1. r \in Caller /\ pc[r] = "idle" /\ r \notin Wizard /\ r \notin Edit /\ r \notin Page
  BY DEF Caller
<1>2. PICK ch \in PasswordChange : change' = [change EXCEPT ![r] = ch]
  BY DEF PasswordChange
<1>3. CallsOK' /\ queue' # <<>> /\ (queue # <<>> => Head(queue') = Head(queue))
  BY <1>1, InvokeKeepsQueue DEF CallsOK, Waiting
<1>4. pc' = [pc EXCEPT ![r] = "save"]
  BY DEF Invoke, Goto
<1>5. ContentsOK'
  BY <1>1, <1>2 DEF ContentsOK
<1>6. FileOK'
  BY DEF FileOK, Stored
<1>7. RequestsOK'
  BY <1>1, <1>2, <1>4 DEF RequestsOK, CallsOK, ContentsOK, Caller
<1>8. WriterOK'
  BY <1>1, <1>2, <1>3, <1>4, WriterStays DEF CallsOK, ContentsOK
<1>. QED  BY <1>3, <1>5, <1>6, <1>7, <1>8, InvariantPartsNext

\* The steps that only take an answer.
LEMMA TakeAnswerStep ==
  ASSUME IInv, NEW c \in Caller, NEW where \in {"done", "failed"},
         pc[c] \in {"loaded", "saved", "refused"}, Return(c, where),
         cache' \in {cache, carried[c]}, screen' \in {screen, carried[c]},
         owner' = owner \/ \E e \in Edit : owner' = [owner EXCEPT ![e] = None],
         UNCHANGED <<file, queue, writing, page, crashes, intended, stale>>
  PROVE  IInv'
<1> USE InvariantParts DEF Return
<1>1. pc' = [pc EXCEPT ![c] = where]
  BY DEF Goto
<1>2. CallsOK'
  BY GotoKeepsQueue DEF CallsOK, Waiting, Where
<1>3. ContentsOK'
  BY StoredIsContent DEF ContentsOK, IInv
<1>4. FileOK'
  BY DEF FileOK, Stored
<1>5. RequestsOK'
  BY <1>1 DEF RequestsOK, CallsOK, Caller
<1>6. WriterOK'
  BY <1>1, WriterStays DEF CallsOK, ContentsOK
<1>. QED  BY <1>2, <1>3, <1>4, <1>5, <1>6, InvariantPartsNext

-----------------------------------------------------------------------------
(* The steps of the main thread, and the crash.                            *)

LEMMA HeadWaits ==
  ASSUME CallsOK, queue # <<>>
  PROVE  Head(queue) \in Caller /\ pc[Head(queue)] \in Waiting
BY QueueFacts, TailOfDistinct DEF CallsOK

LEMMA ServeLoadStep ==
  ASSUME IInv, ServeLoad
  PROVE  IInv'
<1> USE InvariantParts DEF ui, ghosts
<1> DEFINE c == Head(queue)
<1>1. c \in Caller /\ pc[c] = "load" /\ ~writing /\ writing' = writing
  BY HeadWaits DEF ServeLoad, WriterOK
<1>2. PICK where \in {"loaded", "refused"} : Answer(c, where)
  BY DEF ServeLoad
<1>3. CallsOK' /\ pc' = [pc EXCEPT ![c] = where]
  BY <1>1, <1>2, AnswerKeepsQueue DEF CallsOK, Where, Waiting, Answer, Goto, ServeLoad
<1>4. carried' = carried \/ carried' = [carried EXCEPT ![c] = Stored]
  BY DEF ServeLoad
<1>5. ContentsOK'
  BY <1>1, <1>4, StoredIsContent DEF ContentsOK, IInv, ServeLoad
<1>6. FileOK'
  BY DEF FileOK, Stored, ServeLoad
<1>7. RequestsOK'
  BY <1>1, <1>3, <1>4 DEF RequestsOK, CallsOK, ContentsOK, Caller, ServeLoad
<1>8. WriterOK'
  BY <1>1 DEF WriterOK
<1>. QED  BY <1>3, <1>5, <1>6, <1>7, <1>8, InvariantPartsNext

LEMMA StartSaveStep ==
  ASSUME IInv, StartSave
  PROVE  IInv'
<1> USE InvariantParts DEF StartSave, ui, ghosts
<1>1. CallsOK'
  BY QueueFacts, QueueFactsNext DEF CallsOK
<1>2. ContentsOK' /\ FileOK' /\ RequestsOK'
  BY DEF ContentsOK, FileOK, RequestsOK, Stored
<1>3. WriterOK'
  BY DEF WriterOK, Readable
<1>. QED  BY <1>1, <1>2, <1>3, InvariantPartsNext

LEMMA RefuseSaveStep ==
  ASSUME IInv, RefuseSave
  PROVE  IInv'
<1> USE InvariantParts DEF RefuseSave, ui, ghosts
<1>1. CallsOK' /\ Head(queue) \in Caller /\ pc' = [pc EXCEPT ![Head(queue)] = "refused"]
  BY AnswerKeepsQueue DEF CallsOK, Where, Waiting, Answer, Goto
<1>2. ContentsOK' /\ FileOK'
  BY DEF ContentsOK, FileOK, Stored
<1>3. RequestsOK'
  BY <1>1 DEF RequestsOK, CallsOK, Caller
<1>4. WriterOK'
  BY DEF WriterOK
<1>. QED  BY <1>1, <1>2, <1>3, <1>4, InvariantPartsNext

\* The rename: a save whose base is what the file holds makes its change.
LEMMA ReplaceStep ==
  ASSUME IInv, Replace
  PROVE  IInv'
<1> USE InvariantParts DEF ui, ghosts
<1> DEFINE c == Head(queue)
<1>1. queue # <<>> /\ pc[c] = "save" /\ Readable(c) /\ c \in Caller
  BY HeadWaits DEF Replace, WriterOK
<1>2. CallsOK' /\ pc' = [pc EXCEPT ![c] = "saved"]
  BY <1>1, AnswerKeepsQueue DEF CallsOK, Where, Waiting, Answer, Goto, Replace
<1>3. ContentsOK'
  BY DEF ContentsOK, Replace
<1>4. RequestsOK'
  BY <1>1, <1>2 DEF RequestsOK, CallsOK, Caller, Replace
<1>5. WriterOK'
  BY DEF WriterOK, Replace
<1>6. FileOK'
  <2>1. CASE c \in Rotation
    <3>1. file \in [password : Password, content : Content] /\ change[c] \in PasswordChange
      BY <1>1, <2>1 DEF Readable, RequestsOK, FileOK
    <3>2. /\ file' = [password |-> change[c].to, content |-> file.content]
          /\ UNCHANGED <<intended, stale, crashes>> /\ writing' = FALSE
      BY <2>1 DEF Replace
    <3>3. file' \in [password : Password, content : Content] /\ file'.content = file.content
      BY <3>1, <3>2 DEF PasswordChange
    <3>4. Stored' = Stored
      BY <3>1, <3>3, LocalVaultAssumption DEF Stored
    <3>. QED  BY <3>2, <3>3, <3>4 DEF FileOK
  <2>2. CASE c \notin Rotation
    <3>1. /\ file' = [password |-> Blank, content |-> carried[c]]
          /\ intended' = Merge(change[c], intended)
          /\ stale' = (stale \/ base[c] # Stored)
          /\ UNCHANGED crashes /\ writing' = FALSE
      BY <2>2 DEF Replace
    <3>2. change[c] \in EntryChange /\ carried[c] = Merge(change[c], base[c])
      BY <1>1, <2>2 DEF RequestsOK, Caller
    <3>3. carried[c] \in Content /\ intended \in Content
      BY <1>1 DEF ContentsOK, FileOK
    <3>4. file' \in [password : Password, content : Content] /\ file'.content = carried[c]
      BY <3>1, <3>3, LocalVaultAssumption
    <3>5. Stored' = carried[c]
      BY <3>4, LocalVaultAssumption DEF Stored
    <3>6. intended' \in Content
      BY <3>1, <3>2, <3>3, MergeKeepsContent
    <3>7. stale' \in BOOLEAN
      BY <3>1 DEF FileOK
    <3>8. ~stale' => Stored' = intended'
      BY <3>1, <3>2, <3>5 DEF FileOK
    <3>. QED  BY <3>1, <3>4, <3>6, <3>7, <3>8 DEF FileOK
  <2>. QED  BY <2>1, <2>2
<1>. QED  BY <1>2, <1>3, <1>4, <1>5, <1>6, InvariantPartsNext

LEMMA CrashStep ==
  ASSUME IInv, Crash
  PROVE  IInv'
<1> USE InvariantParts DEF Crash
<1>1. pc' \in [Caller -> Where] /\ \A c \in Caller : pc'[c] \in {"idle", "done", "failed"}
  BY DEF CallsOK, Where
<1>2. CallsOK'
  <2>1. queue' = <<>> /\ Distinct(queue') /\ \A c \in Caller : ~Holds(queue', c)
    BY DEF Distinct, Holds
  <2>2. queue' \in Seq(Caller)
    BY <2>1
  <2>. QED  BY <1>1, <2>1, <2>2, QueueFactsNext DEF CallsOK, Waiting
<1>3. ContentsOK'
  BY StoredIsContent DEF ContentsOK, IInv
<1>4. FileOK'
  <2>1. crashes' \in 0..MaxCrashes
    BY LocalVaultAssumption DEF FileOK
  <2>2. file' = file /\ intended' = intended /\ stale' = stale
    OBVIOUS
  <2>3. Stored' = Stored
    BY <2>2 DEF Stored
  <2>4. /\ stale' \in BOOLEAN
        /\ ~stale' => Stored' = intended'
    <3>1. stale' \in BOOLEAN
      BY <2>2 DEF FileOK
    <3>2. ASSUME ~stale'
          PROVE  Stored' = intended'
      <4>1. ~stale
        BY <2>2, <3>2
      <4>. QED  BY <2>2, <2>3, <4>1 DEF FileOK
    <3>. QED  BY <3>1, <3>2
  <2>5. file' \in [password : Password, content : Content] \cup {None} /\ intended' \in Content
    BY <2>2, Zenon DEF FileOK
  <2>6. writing' \in BOOLEAN
    OBVIOUS
  <2>. QED  BY <2>1, <2>4, <2>5, <2>6, Zenon DEF FileOK
<1>5. RequestsOK'
  BY <1>1 DEF RequestsOK, Caller
<1>6. WriterOK'
  BY DEF WriterOK
<1>. QED  BY <1>2, <1>3, <1>4, <1>5, <1>6, InvariantPartsNext

LEMMA UnmountStep ==
  ASSUME IInv, Unmount
  PROVE  IInv'
<1> USE InvariantParts DEF Unmount, ghosts
<1>1. CallsOK' /\ WriterOK'
  BY QueueFacts, QueueFactsNext DEF CallsOK, WriterOK, Readable
<1>2. ContentsOK'
  BY StoredIsContent DEF ContentsOK, IInv
<1>3. FileOK' /\ RequestsOK'
  BY DEF FileOK, RequestsOK, Stored
<1>. QED  BY <1>1, <1>2, <1>3, InvariantPartsNext

-----------------------------------------------------------------------------
\* The invariant holds at the start and is kept by every step.
LEMMA Start == Init => IInv
<1> SUFFICES ASSUME Init PROVE IInv
  OBVIOUS
<1> USE DEF Init
<1>1. CallsOK
  <2>1. Distinct(queue) /\ \A c \in Caller : ~Holds(queue, c)
    BY DEF Distinct, Holds
  <2>. QED  BY <2>1, QueueFacts DEF CallsOK, Where, Waiting
<1>2. ContentsOK
  BY DEF ContentsOK, Content, Empty
<1>3. FileOK
  <2>1. Stored = intended /\ Empty \in Content
    BY DEF Stored, Empty, Content
  <2>2. crashes \in 0..MaxCrashes
    BY LocalVaultAssumption
  <2>3. writing \in BOOLEAN /\ stale \in BOOLEAN
    OBVIOUS
  <2>. QED  BY <2>1, <2>2, <2>3 DEF FileOK
<1>4. RequestsOK
  BY DEF RequestsOK, Caller
<1>5. WriterOK
  BY DEF WriterOK
<1>. QED  BY <1>1, <1>2, <1>3, <1>4, <1>5, InvariantParts

LEMMA Step ==
  ASSUME IInv, [Next]_vars
  PROVE  IInv'
<1>1. ASSUME NEW w \in Wizard, UpsertSaved(w)
      PROVE  IInv'
  BY <1>1, TakeAnswerStep DEF UpsertSaved, Caller
<1>2. ASSUME NEW p \in Page, PageLoaded(p)
      PROVE  IInv'
  BY <1>2, TakeAnswerStep DEF PageLoaded, Caller
<1>3. ASSUME NEW e \in Edit, EditSaved(e)
      PROVE  IInv'
  BY <1>3, TakeAnswerStep DEF EditSaved, Caller
<1>4. ASSUME NEW r \in Rotation, RotationSaved(r)
      PROVE  IInv'
  BY <1>4, TakeAnswerStep DEF RotationSaved, Caller, ui
<1>5. ASSUME NEW c \in Caller, TakeError(c)
      PROVE  IInv'
  BY <1>5, TakeAnswerStep DEF TakeError, ui
<1>6. CASE UNCHANGED vars
  BY <1>6 DEF vars, ui, ghosts, IInv, TypeOK, QueueOK, RequestsOK, Readable,
              LossNeedsStaleSave, Stored
<1>. QED
  BY <1>1, <1>2, <1>3, <1>4, <1>5, <1>6, UpsertStep, UpsertLoadedStep, MountStep,
     EditStep, RotateStep, ServeLoadStep, StartSaveStep, RefuseSaveStep,
     ReplaceStep, CrashStep, UnmountStep
  DEF Next

\* The invariant of the vault, for any number of callers, pages and crashes.
THEOREM VaultInvariant == Spec => []IInv
BY Start, Step, PTL DEF Spec

\* Type correctness: the queue holds each waiting caller once, and only a save
\* at its head writes.
THEOREM VaultTypeOK == Spec => []TypeOK
<1>1. IInv => TypeOK
  BY DEF IInv
<1>. QED  BY <1>1, VaultInvariant, PTL

\* An edit is lost or undone only by a save that was computed from a content
\* another save had replaced (save_local_vault takes what it is sent).
THEOREM LostOnlyToStaleSaves == Spec => []LossNeedsStaleSave
<1>1. IInv => LossNeedsStaleSave
  BY DEF IInv
<1>. QED  BY <1>1, VaultInvariant, PTL

\* No step but a rotation touches a vault that has another password than the
\* user interface sends (load_existing_context refuses it), and a rotation
\* keeps its content.
THEOREM ForeignVaultsAreKept == Spec => ForeignVaultIsKept
<1> DEFINE Kept == file # None /\ file.password # Blank
                     => file' # None /\ file'.content = file.content
<1>1. ASSUME IInv, Replace
      PROVE  Kept
  <2>1. Readable(Head(queue)) /\ FileOK
    BY <1>1, InvariantParts DEF WriterOK, Replace
  <2>2. CASE Head(queue) \in Rotation
    <3>1. file # None /\ file' = [password |-> change[Head(queue)].to, content |-> file.content]
      BY <1>1, <2>1, <2>2 DEF Replace, Readable
    <3>2. change[Head(queue)] \in PasswordChange
      BY <1>1, <2>2, HeadWaits, InvariantParts DEF RequestsOK, WriterOK, Replace
    <3>3. file' \in [password : Password, content : Content]
      BY <2>1, <3>1, <3>2 DEF FileOK, PasswordChange
    <3>. QED  BY <3>1, <3>3, LocalVaultAssumption
  <2>3. CASE Head(queue) \notin Rotation
    BY <2>1, <2>3 DEF Readable
  <2>. QED  BY <2>2, <2>3
<1>2. ASSUME IInv, [Next]_vars
      PROVE  [Kept]_vars
  BY <1>1, <1>2
  DEF Next, vars, ServeLoad, StartSave, RefuseSave, Crash, Unmount, Upsert,
      UpsertLoaded, UpsertSaved, Mount, PageLoaded, EditHosts, EditSaved, Rotate,
      RotationSaved, TakeError
<1>3. Spec => [][Kept]_vars
  BY <1>2, VaultInvariant, PTL DEF Spec
<1>. QED  BY <1>3 DEF ForeignVaultIsKept

=============================================================================
