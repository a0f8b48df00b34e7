--------------------------- MODULE DesktopProofs ---------------------------
(***************************************************************************)
(* The connection wizard, the pages of application data and the file view, *)
(* for any hosts, secrets, texts and directories and for any number of     *)
(* connects, visits, edits, listings and ends of the application.          *)
(***************************************************************************)
EXTENDS MCDesktop, SequenceTheorems, TLAPS

LEMMA Assumptions ==
  /\ WizardAssumption
  /\ Lists!AppDataAssumption
  /\ Files!UseSftpAssumption
BY DesktopAssumption

-----------------------------------------------------------------------------
(* Sequences: what is left when one element was taken out.                 *)

LEMMA TypedElements ==
  ASSUME NEW S, NEW s \in Seq(S)
  PROVE  \A i \in DOMAIN s : s[i] \in S
BY ElementOfSeq, LenProperties

LEMMA Removed ==
  ASSUME NEW S, NEW s \in Seq(S), NEW i \in DOMAIN s
  PROVE  /\ RemoveAt(s, i) \in Seq(S)
         /\ Len(RemoveAt(s, i)) = Len(s) - 1
         /\ \A j \in 1..(Len(s) - 1) :
              RemoveAt(s, i)[j] = s[IF j < i THEN j ELSE j + 1]
<1>1. Len(s) \in Nat /\ i \in 1..Len(s) /\ \A k \in 1..Len(s) : s[k] \in S
  BY LenProperties
<1> DEFINE a == SubSeq(s, 1, i - 1)
           b == SubSeq(s, i + 1, Len(s))
<1>2. /\ a \in Seq(S) /\ Len(a) = i - 1
      /\ \A k \in 1..(i - 1) : a[k] = s[k]
  <2>1. \A k \in 1..(i - 1) : s[k] \in S
    BY <1>1
  <2>2. /\ a \in Seq(S)
        /\ Len(a) = IF 1 <= i - 1 THEN (i - 1) - 1 + 1 ELSE 0
        /\ \A k \in 1..((i - 1) - 1 + 1) : a[k] = s[1 + k - 1]
    BY <1>1, <2>1, SubSeqProperties
  <2> HIDE DEF a
  <2> QED
    BY <1>1, <2>2
<1>3. /\ b \in Seq(S) /\ Len(b) = Len(s) - i
      /\ \A k \in 1..(Len(s) - i) : b[k] = s[k + i]
  <2>1. \A k \in (i + 1)..Len(s) : s[k] \in S
    BY <1>1
  <2>2. /\ b \in Seq(S)
        /\ Len(b) = IF i + 1 <= Len(s) THEN Len(s) - (i + 1) + 1 ELSE 0
        /\ \A k \in 1..(Len(s) - (i + 1) + 1) : b[k] = s[(i + 1) + k - 1]
    BY <1>1, <2>1, SubSeqProperties
  <2> HIDE DEF b
  <2> QED
    BY <1>1, <2>2
<1>4. RemoveAt(s, i) = a \o b
  BY DEF RemoveAt
<1>5. a \in Seq(S) /\ b \in Seq(S)
  BY <1>2, <1>3
<1> HIDE DEF a, b
<1>6. a \o b \in Seq(S)
  BY <1>5, ConcatProperties
<1>7. Len(a \o b) = Len(a) + Len(b)
  BY <1>5, ConcatProperties
<1>8. \A k \in 1..(Len(a) + Len(b)) :
        (a \o b)[k] = IF k <= Len(a) THEN a[k] ELSE b[k - Len(a)]
  BY <1>5, ConcatProperties
<1>9. ASSUME NEW j \in 1..(Len(s) - 1)
      PROVE  (a \o b)[j] = s[IF j < i THEN j ELSE j + 1]
  <2>1. (a \o b)[j] = IF j <= i - 1 THEN a[j] ELSE b[j - (i - 1)]
    <3>1. j \in 1..(Len(a) + Len(b)) /\ Len(a) = i - 1
      BY <1>1, <1>2, <1>3
    <3> QED
      BY <1>8, <3>1
  <2>2. CASE j < i
    <3>1. j <= i - 1 /\ j \in 1..(i - 1)
      BY <1>1, <2>2
    <3> QED
      BY <1>2, <2>1, <2>2, <3>1
  <2>3. CASE ~(j < i)
    <3>1. j - (i - 1) \in 1..(Len(s) - i) /\ j - (i - 1) + i = j + 1 /\ ~(j <= i - 1)
      BY <1>1, <2>3
    <3> QED
      BY <1>3, <2>1, <2>3, <3>1
  <2> QED
    BY <2>2, <2>3
<1>10. Len(a) + Len(b) = Len(s) - 1
  BY <1>1, <1>2, <1>3
<1> QED
  BY <1>4, <1>6, <1>7, <1>9, <1>10

\* r is s without its element i: every element that is left was one of the others,
\* and two that are left were two others.
Without(s, i, r) ==
  /\ \A j \in DOMAIN r : \E k \in DOMAIN s : k # i /\ r[j] = s[k]
  /\ \A j1, j2 \in DOMAIN r : j1 # j2 =>
       \E k1, k2 \in DOMAIN s :
         /\ k1 # k2 /\ k1 # i /\ k2 # i
         /\ r[j1] = s[k1] /\ r[j2] = s[k2]
  /\ r = <<>> => \A k \in DOMAIN s : k = i

LEMMA LeftOver ==
  ASSUME NEW S, NEW s \in Seq(S), NEW i \in DOMAIN s
  PROVE  RemoveAt(s, i) \in Seq(S) /\ Without(s, i, RemoveAt(s, i))
<1> DEFINE r == RemoveAt(s, i)
           Old(j) == IF j < i THEN j ELSE j + 1
<1>1. Len(s) \in Nat /\ DOMAIN s = 1..Len(s) /\ i \in 1..Len(s)
  BY LenProperties
<1>2. r \in Seq(S) /\ Len(r) = Len(s) - 1 /\ \A j \in 1..(Len(s) - 1) : r[j] = s[Old(j)]
  BY Removed
<1> HIDE DEF r
<1>3. DOMAIN r = 1..(Len(s) - 1)
  BY <1>2, LenProperties
<1>4. \A j \in 1..(Len(s) - 1) : Old(j) \in DOMAIN s /\ Old(j) # i
  BY <1>1
<1>5. \A j, k \in 1..(Len(s) - 1) : j # k => Old(j) # Old(k)
  BY <1>1
<1>6. r = <<>> => \A k \in DOMAIN s : k = i
  <2>1. r = <<>> => Len(r) = 0
    BY <1>2, EmptySeq
  <2>2. Len(r) = 0 => Len(s) = 1
    BY <1>1, <1>2
  <2>3. Len(s) = 1 => \A j \in DOMAIN s : j = i
    BY <1>1
  <2> QED
    BY <1>1, <2>1, <2>2, <2>3
<1> HIDE DEF Old
<1>7. /\ r \in Seq(S)
      /\ \A j \in DOMAIN r : \E k \in DOMAIN s : k # i /\ r[j] = s[k]
  BY <1>2, <1>3, <1>4, Zenon
<1>8. \A j1, j2 \in DOMAIN r : j1 # j2 =>
         \E k1, k2 \in DOMAIN s :
           /\ k1 # k2 /\ k1 # i /\ k2 # i
           /\ r[j1] = s[k1] /\ r[j2] = s[k2]
  BY <1>2, <1>3, <1>4, <1>5
<1> QED
  BY <1>6, <1>7, <1>8 DEF r, Without

\* And every other element of s is left in r.
Keeps(s, i, r) == \A k \in DOMAIN s : k = i \/ \E j \in DOMAIN r : r[j] = s[k]

LEMMA OthersAreLeft ==
  ASSUME NEW S, NEW s \in Seq(S), NEW i \in DOMAIN s
  PROVE  Keeps(s, i, RemoveAt(s, i))
<1> DEFINE r == RemoveAt(s, i)
           New(k) == IF k < i THEN k ELSE k - 1
<1>1. Len(s) \in Nat /\ DOMAIN s = 1..Len(s) /\ i \in 1..Len(s)
  BY LenProperties
<1>2. /\ r \in Seq(S) /\ Len(r) = Len(s) - 1
      /\ \A j \in 1..(Len(s) - 1) : r[j] = s[IF j < i THEN j ELSE j + 1]
  BY Removed
<1> HIDE DEF r
<1>3. DOMAIN r = 1..(Len(s) - 1)
  BY <1>2, LenProperties
<1>4. ASSUME NEW k \in DOMAIN s, k # i
      PROVE  New(k) \in DOMAIN r /\ r[New(k)] = s[k]
  <2>1. /\ New(k) \in 1..(Len(s) - 1)
        /\ (IF New(k) < i THEN New(k) ELSE New(k) + 1) = k
    BY <1>1, <1>4
  <2> HIDE DEF New
  <2>2. r[New(k)] = s[IF New(k) < i THEN New(k) ELSE New(k) + 1]
    BY <1>2, <2>1
  <2> QED
    BY <1>3, <2>1, <2>2
<1> HIDE DEF New
<1> QED
  BY <1>4 DEF r, Keeps

\* The same operator, as the two instances name it.
LEMMA SameRemoval ==
  /\ \A s, i : Lists!RemoveAt(s, i) = RemoveAt(s, i)
  /\ \A s, i : Files!RemoveAt(s, i) = RemoveAt(s, i)
BY DEF RemoveAt, Lists!RemoveAt, Files!RemoveAt

-----------------------------------------------------------------------------
(* The file view.  While nothing is loose, every listing on its way is of  *)
(* the host the form names and was asked for after a connect; on the left  *)
(* the newest listing is the one of the path.                              *)

LocalInv ==
  /\ localPath \in Dir /\ localShown \in Dir \cup {None}
  /\ localLoading \in BOOLEAN /\ overtaken \in BOOLEAN
  /\ localCalls \in Seq([path : Dir, newest : BOOLEAN])
  /\ \A i \in DOMAIN localCalls : localCalls[i].newest => localCalls[i].path = localPath
  /\ localCalls = <<>> /\ ~overtaken => localShown \in {localPath, None}
  /\ localLoading => localCalls # <<>>

RemoteInv ==
  /\ remoteDraft \in Host /\ remotePath \in Dir
  /\ remote \in Files!Listing \cup {None}
  /\ remote # None => remotePath = remote.path
  /\ remoteLoading \in BOOLEAN /\ asked \in BOOLEAN /\ loose \in BOOLEAN
  /\ remoteCalls \in Seq(Files!Listing)
  /\ ~loose => \A i \in DOMAIN remoteCalls : asked /\ remoteCalls[i].host = remoteDraft
  /\ remote # None /\ ~loose => asked /\ remote.host = remoteDraft
  /\ remoteLoading => remoteCalls # <<>>

FilesInv == LocalInv /\ RemoteInv /\ listings \in 0..MaxListings

\* What a listing asked for leaves of the sequences.
LEMMA Appended ==
  ASSUME NEW S, NEW s \in Seq(S), NEW e \in S
  PROVE  /\ Append(s, e) \in Seq(S)
         /\ Append(s, e) # <<>>
         /\ \A i \in DOMAIN Append(s, e) :
              \/ i \in DOMAIN s /\ Append(s, e)[i] = s[i]
              \/ i \notin DOMAIN s /\ Append(s, e)[i] = e
<1>1. /\ Append(s, e) \in Seq(S)
      /\ Len(Append(s, e)) = Len(s) + 1
      /\ \A i \in 1..Len(s) : Append(s, e)[i] = s[i]
      /\ Append(s, e)[Len(s) + 1] = e
  BY AppendProperties
<1>2. Len(s) \in Nat /\ DOMAIN s = 1..Len(s)
  BY LenProperties
<1> DEFINE a == Append(s, e)
<1> HIDE DEF a
<1>3. DOMAIN a = 1..(Len(s) + 1)
  BY <1>1, LenProperties DEF a
<1>4. a # <<>>
  <2>1. Len(s) + 1 # 0
    BY <1>2
  <2>2. Len(<<>>) = 0
    BY EmptySeq
  <2> QED
    BY <1>1, <2>1, <2>2 DEF a
<1>5. ASSUME NEW i \in DOMAIN a
      PROVE  \/ i \in DOMAIN s /\ a[i] = s[i]
             \/ i \notin DOMAIN s /\ a[i] = e
  <2>1. i \in 1..Len(s) \/ i = Len(s) + 1
    BY <1>2, <1>3
  <2>2. Len(s) + 1 \notin 1..Len(s)
    BY <1>2
  <2> QED
    BY <1>1, <1>2, <2>1, <2>2 DEF a
<1> QED
  BY <1>1, <1>4, <1>5 DEF a

LEMMA FetchLocalKeeps ==
  ASSUME LocalInv, NEW path \in Dir, Files!FetchLocal(path)
  PROVE  LocalInv'
<1> DEFINE Call == [path : Dir, newest : BOOLEAN]
           older == [i \in DOMAIN localCalls |-> [localCalls[i] EXCEPT !.newest = FALSE]]
           call == [path |-> path, newest |-> TRUE]
<1>1. /\ localPath' = path /\ localLoading' = TRUE
      /\ localCalls' = Append(older, call)
      /\ UNCHANGED <<localShown, overtaken>>
  BY DEF Files!FetchLocal
<1>2. call \in Call /\ call.path = path
  OBVIOUS
<1>3. /\ Len(localCalls) \in Nat /\ DOMAIN localCalls = 1..Len(localCalls)
      /\ \A i \in 1..Len(localCalls) : localCalls[i] \in Call
  BY LenProperties, ElementOfSeq DEF LocalInv
<1>4. \A i \in 1..Len(localCalls) : older[i] \in Call /\ ~older[i].newest
  BY <1>3
<1>5. older \in Seq(Call)
  BY <1>3, <1>4, SeqDef
<1>6. DOMAIN older = 1..Len(localCalls)
  BY <1>3
<1> HIDE DEF older, call, Call
<1>7. /\ localCalls' \in Seq(Call) /\ localCalls' # <<>>
      /\ \A i \in DOMAIN localCalls' :
           \/ i \in DOMAIN older /\ localCalls'[i] = older[i]
           \/ localCalls'[i] = call
  BY <1>1, <1>2, <1>5, Appended
<1>8. \A i \in DOMAIN localCalls' : localCalls'[i].newest => localCalls'[i].path = localPath'
  BY <1>1, <1>2, <1>4, <1>6, <1>7
<1> QED
  BY <1>1, <1>7, <1>8 DEF LocalInv, Call

LEMMA TakeLocalKeeps ==
  ASSUME LocalInv, NEW i \in DOMAIN localCalls, Files!TakeLocal(i)
  PROVE  LocalInv'
<1> DEFINE Call == [path : Dir, newest : BOOLEAN]
<1>1. /\ localShown' \in {localCalls[i].path, None} /\ localLoading' = FALSE
      /\ overtaken' = (~localCalls[i].newest
                         /\ (overtaken \/ \A j \in DOMAIN localCalls : ~localCalls[j].newest))
      /\ localCalls' = RemoveAt(localCalls, i)
      /\ UNCHANGED localPath
  BY SameRemoval DEF Files!TakeLocal
<1>2. localCalls \in Seq(Call) /\ localCalls[i] \in Call
  <2>1. localCalls \in Seq(Call)
    BY DEF LocalInv
  <2> QED
    BY <2>1, TypedElements
<1>3. /\ localCalls' \in Seq(Call)
      /\ \A j \in DOMAIN localCalls' : \E k \in DOMAIN localCalls : localCalls'[j] = localCalls[k]
      /\ localCalls' = <<>> => \A k \in DOMAIN localCalls : k = i
  <2>1. localCalls \in Seq(Call) /\ localCalls' = RemoveAt(localCalls, i)
    BY <1>1, <1>2, Zenon
  <2> HIDE DEF Call
  <2>2. localCalls' \in Seq(Call) /\ Without(localCalls, i, localCalls')
    BY <2>1, LeftOver
  <2> QED
    BY <2>2 DEF Without
<1>4. localShown' \in Dir \cup {None} /\ overtaken' \in BOOLEAN
  <2>1. overtaken' \in BOOLEAN
    BY <1>1, Zenon
  <2> QED
    BY <1>1, <1>2, <2>1
<1>5. localCalls' = <<>> /\ ~overtaken' => localCalls[i].newest
  <2>1. (\A j \in DOMAIN localCalls : ~localCalls[j].newest) /\ ~overtaken' => localCalls[i].newest
    BY <1>1, Zenon
  <2>2. (\A k \in DOMAIN localCalls : k = i) /\ ~localCalls[i].newest =>
          \A j \in DOMAIN localCalls : ~localCalls[j].newest
    OBVIOUS
  <2> QED
    BY <1>3, <2>1, <2>2, Zenon
<1>6. localCalls[i].newest => localCalls[i].path = localPath
  BY DEF LocalInv
<1> QED
  BY <1>1, <1>3, <1>4, <1>5, <1>6 DEF LocalInv

LEMMA FetchRemoteKeeps ==
  ASSUME RemoteInv, NEW path \in Dir, Files!FetchRemote(path), asked' \in {asked, TRUE},
         ~loose => asked'
  PROVE  RemoteInv'
<1> DEFINE call == [host |-> remoteDraft, path |-> path]
<1>1. /\ remoteLoading' = TRUE /\ remoteCalls' = Append(remoteCalls, call)
      /\ UNCHANGED <<remoteDraft, remotePath, remote, loose>>
  BY DEF Files!FetchRemote
<1>2. call \in Files!Listing /\ call.host = remoteDraft
  BY DEF RemoteInv, Files!Listing
<1> HIDE DEF call
<1>3. /\ remoteCalls' \in Seq(Files!Listing) /\ remoteCalls' # <<>>
      /\ \A i \in DOMAIN remoteCalls' :
           \/ i \in DOMAIN remoteCalls /\ remoteCalls'[i] = remoteCalls[i]
           \/ remoteCalls'[i] = call
  BY <1>1, <1>2, Appended DEF RemoteInv
<1>4. ~loose' => \A i \in DOMAIN remoteCalls' : asked' /\ remoteCalls'[i].host = remoteDraft'
  BY <1>1, <1>2, <1>3 DEF RemoteInv
<1>5. asked' \in BOOLEAN
  BY DEF RemoteInv
<1>6. remote' # None /\ ~loose' => asked' /\ remote'.host = remoteDraft'
  BY <1>1 DEF RemoteInv
<1> QED
  BY <1>1, <1>3, <1>4, <1>5, <1>6 DEF RemoteInv

LEMMA TakeRemoteKeeps ==
  ASSUME RemoteInv, NEW i \in DOMAIN remoteCalls, Files!TakeRemote(i)
  PROVE  RemoteInv'
<1>1. /\ \/ remote' = remoteCalls[i] /\ remotePath' = remote'.path
         \/ remote' = None /\ UNCHANGED remotePath
      /\ remoteLoading' = FALSE
      /\ remoteCalls' = RemoveAt(remoteCalls, i)
      /\ loose' = (loose /\ (remoteCalls' # <<>> \/ remote' # None))
      /\ UNCHANGED <<remoteDraft, asked>>
  BY SameRemoval DEF Files!TakeRemote
<1>2. remoteCalls[i] \in Files!Listing
  BY ElementOfSeq, LenProperties DEF RemoteInv
<1>3. /\ remoteCalls' \in Seq(Files!Listing)
      /\ \A j \in DOMAIN remoteCalls' :
           \E k \in DOMAIN remoteCalls : remoteCalls'[j] = remoteCalls[k]
  <2>1. remoteCalls \in Seq(Files!Listing) /\ remoteCalls' = RemoveAt(remoteCalls, i)
    BY <1>1, Zenon DEF RemoteInv
  <2>2. remoteCalls' \in Seq(Files!Listing) /\ Without(remoteCalls, i, remoteCalls')
    BY <2>1, LeftOver
  <2> QED
    BY <2>2 DEF Without
<1>4. remoteCalls[i].path \in Dir
  BY <1>2 DEF Files!Listing
<1>5. CASE ~loose
  <2>1. asked /\ remoteCalls[i].host = remoteDraft
    BY <1>5 DEF RemoteInv
  <2>2. \A j \in DOMAIN remoteCalls' : remoteCalls'[j].host = remoteDraft
    BY <1>3, <1>5 DEF RemoteInv
  <2> QED
    BY <1>1, <1>2, <1>3, <1>4, <1>5, <2>1, <2>2 DEF RemoteInv
<1>6. CASE loose
  <2>1. ~loose' => remoteCalls' = <<>> /\ remote' = None
    BY <1>1, <1>6
  <2>2. remoteCalls' = <<>> => \A j \in DOMAIN remoteCalls' : FALSE
    OBVIOUS
  <2>3. loose' \in BOOLEAN
    BY <1>1
  <2> QED
    BY <1>1, <1>2, <1>3, <1>4, <2>1, <2>2, <2>3 DEF RemoteInv
<1> QED
  BY <1>5, <1>6

LEMMA FilesStep ==
  ASSUME FilesInv, Files!Next
  PROVE  FilesInv'
<1> USE DEF FilesInv
<1>1. /\ Root \in Dir /\ None \notin Dir /\ MaxListings \in Nat \ {0}
      /\ \A d \in Dir \cup {None} : /\ Files!Folders(d) \subseteq Dir
                                /\ Files!Parent(d) \in Dir \cup {None}
  BY Assumptions DEF Files!UseSftpAssumption, Files!Folders, Files!Parent
<1>2. Files!Ask => listings' \in 0..MaxListings
  BY <1>1 DEF Files!Ask
<1>3. UNCHANGED Files!localVars => LocalInv'
  BY DEF Files!localVars, LocalInv
<1>4. UNCHANGED Files!remoteVars => RemoteInv'
  BY DEF Files!remoteVars, RemoteInv
<1>5. ASSUME NEW path \in Dir, Files!FetchLocal(path)
      PROVE  FilesInv'
  <2>1. Files!Ask /\ UNCHANGED Files!remoteVars
    BY <1>5 DEF Files!FetchLocal
  <2> QED
    BY <1>2, <1>4, <1>5, <2>1, FetchLocalKeeps
<1>6. ASSUME NEW path \in Dir, Files!FetchRemote(path), asked' \in {asked, TRUE}, ~loose => asked'
      PROVE  FilesInv'
  <2>1. Files!Ask /\ UNCHANGED Files!localVars
    BY <1>6 DEF Files!FetchRemote
  <2>2. RemoteInv'
    BY <1>6, FetchRemoteKeeps
  <2> QED
    BY <1>2, <1>3, <2>1, <2>2
<1>7. CASE Files!LocalPane
  <2>1. localPath \in Dir /\ localShown \in Dir \cup {None}
    BY DEF LocalInv
  <2>2. \E path \in Dir : Files!FetchLocal(path)
    BY <1>1, <1>7, <2>1
       DEF Files!LocalPane, Files!NavigateLocal, Files!NavigateLocalUp, Files!RefreshLocal
  <2> QED
    BY <1>5, <2>2
<1>8. ASSUME remote # None
      PROVE  /\ remote.path \in Dir /\ remotePath \in Dir
             /\ ~loose => asked
  BY <1>8 DEF RemoteInv, Files!Listing
<1>9. CASE Files!RemoteButtons \/ Files!NavigateRemote
  <2>1. remote # None /\ asked' = asked /\ \E path \in Dir : Files!FetchRemote(path)
    BY <1>1, <1>8, <1>9
       DEF Files!RemoteButtons, Files!NavigateRemote, Files!NavigateRemoteUp, Files!RefreshRemote
  <2>2. ~loose => asked'
    BY <1>8, <2>1, Zenon
  <2> QED
    BY <1>6, <2>1, <2>2
<1>10. CASE Files!ConnectRemote
  <2>1. asked' = TRUE /\ \E path \in Dir : Files!FetchRemote(path)
    <3>1. remotePath \in Dir
      BY DEF RemoteInv
    <3> QED
      BY <1>10, <3>1 DEF Files!ConnectRemote
  <2> QED
    BY <1>6, <2>1
<1>11. CASE Files!EditDraft \/ Files!DisconnectRemote
  <2>1. /\ remoteDraft' \in Host /\ remotePath' \in Dir /\ remote' = None
        /\ asked' \in BOOLEAN
        /\ UNCHANGED <<remoteLoading, remoteCalls>>
    BY <1>1, <1>11 DEF Files!EditDraft, Files!DisconnectRemote, RemoteInv
  <2>2. loose' = (remoteCalls # <<>>)
    BY <1>11 DEF Files!EditDraft, Files!DisconnectRemote
  <2>3. ~loose' => remoteCalls = <<>>
    BY <2>2, Zenon
  <2>4. loose' \in BOOLEAN
    BY <2>2, Zenon
  <2>5. DOMAIN <<>> = {}
    OBVIOUS
  <2>6. RemoteInv'
    BY <2>1, <2>3, <2>4, <2>5 DEF RemoteInv
  <2>7. UNCHANGED Files!localVars /\ UNCHANGED listings
    BY <1>11 DEF Files!EditDraft, Files!DisconnectRemote
  <2> QED
    BY <1>3, <2>6, <2>7
<1>12. ASSUME NEW i \in DOMAIN localCalls, Files!TakeLocal(i)
       PROVE  FilesInv'
  <2>1. UNCHANGED Files!remoteVars /\ UNCHANGED listings
    BY <1>12 DEF Files!TakeLocal
  <2> QED
    BY <1>4, <1>12, <2>1, TakeLocalKeeps
<1>13. ASSUME NEW i \in DOMAIN remoteCalls, Files!TakeRemote(i)
       PROVE  FilesInv'
  <2>1. UNCHANGED Files!localVars /\ UNCHANGED listings
    BY <1>13 DEF Files!TakeRemote
  <2> QED
    BY <1>3, <1>13, <2>1, TakeRemoteKeeps
<1> QED
  BY <1>7, <1>9, <1>10, <1>11, <1>12, <1>13
     DEF Files!Next, Files!RemoteForm, Files!RemoteList

LEMMA FilesInvariant == DesktopSpec => []FilesInv
<1>1. DesktopInit => FilesInv
  <2> SUFFICES ASSUME Files!Init
               PROVE  FilesInv
    BY DEF DesktopInit
  <2>1. Root \in Dir /\ None \notin Dir /\ MaxListings \in Nat \ {0}
    BY Assumptions DEF Files!UseSftpAssumption
  <2> DEFINE call == [path |-> Root, newest |-> TRUE]
  <2>2. call \in [path : Dir, newest : BOOLEAN] /\ call.path = Root
    BY <2>1
  <2> HIDE DEF call
  <2>3. /\ <<call>> \in Seq([path : Dir, newest : BOOLEAN]) /\ <<call>> # <<>>
        /\ DOMAIN <<call>> = {1} /\ <<call>>[1] = call
        /\ <<>> \in Seq(Files!Listing) /\ DOMAIN <<>> = {}
    BY <2>2
  <2>4. localCalls = <<call>>
    BY DEF Files!Init, call
  <2>5. LocalInv
    BY <2>1, <2>2, <2>3, <2>4 DEF Files!Init, LocalInv
  <2>6. RemoteInv
    BY <2>1, <2>3 DEF Files!Init, RemoteInv
  <2>7. listings \in 0..MaxListings
    BY <2>1 DEF Files!Init
  <2> QED
    BY <2>5, <2>6, <2>7 DEF FilesInv
<1>2. FilesInv /\ [DesktopNext]_allVars => FilesInv'
  <2> SUFFICES ASSUME FilesInv, [DesktopNext]_allVars
               PROVE  FilesInv'
    OBVIOUS
  <2>1. CASE UNCHANGED fileVars
    BY <2>1 DEF fileVars, FilesInv, LocalInv, RemoteInv
  <2>2. CASE OnFiles(Files!Next)
    BY <2>2, FilesStep DEF OnFiles
  <2> QED
    BY <2>1, <2>2 DEF DesktopNext, OnWizard, OnLists, allVars
<1> QED
  BY <1>1, <1>2, PTL DEF DesktopSpec

\* The panes of the file view keep to the path, host and label they show, for any
\* number of overlapping listings answered in any order.
THEOREM PanesAlwaysShowTheirPlace == DesktopSpec => []PanesShowTheirPlace
<1>1. FilesInv => PanesShowTheirPlace
  BY DEF FilesInv, LocalInv, RemoteInv, PanesShowTheirPlace, Files!LocalEntriesAreOfPath,
         Files!RemoteIsAsSaid, Files!LoadingHasACall
<1> QED
  BY <1>1, FilesInvariant, PTL

-----------------------------------------------------------------------------
(* The wizard.  What connects or is connected was confirmed and, until the *)
(* draft changes under it, is the draft; what is to be saved was confirmed *)
(* as well.                                                                *)

Steps == {"search", "ip", "user", "password", "connecting", "connected"}
Statuses == {"idle", "connecting", "connected", "closed", "error"}
Flow == [stage : {"closing", "opening", "answering"}, entry : Entry]
Live == [stage : {"opening", "connected", "failed"}, entry : Entry]

Screens ==
  /\ mounted \in BOOLEAN /\ session \in BOOLEAN /\ armed \in BOOLEAN
  /\ crossed \in BOOLEAN /\ everCrossed \in BOOLEAN
  /\ activeStep \in Steps /\ status \in Statuses

Counts == mounts \in 0..MaxMounts /\ asks \in 0..MaxAsks

\* What the wizard works on.
Work ==
  /\ draft \in Draft
  /\ flow \in Flow \cup {None}
  /\ live \in Live \cup {None}
  /\ ~mounted => live = None /\ flow = None
  /\ confirmed \subseteq Entry
  /\ flow # None => flow.entry \in confirmed
  /\ live # None => live.entry \in confirmed
  /\ ~crossed /\ flow # None => draft = flow.entry
  /\ ~crossed /\ live # None => draft = live.entry
  /\ crossed => everCrossed

Vault ==
  /\ servers \subseteq Entry
  /\ \A x, y \in servers : x.host = y.host => x = y
  /\ ~everCrossed => servers \subseteq confirmed

Saves ==
  /\ saves \in Seq(Save)
  /\ mounted => mounts # 0
  /\ ~everCrossed => \A i \in DOMAIN saves : saves[i].entry \in confirmed

WizardInv == Screens /\ Counts /\ Work /\ Vault /\ Saves

\* What a step adds to the saves is of the wizard that is there, and confirmed.
Joining(x) ==
  x.mount = mounts /\ (everCrossed' \/ x.entry \in confirmed')

Grown(s) ==
  /\ s \in Seq(Save)
  /\ \A i \in DOMAIN s : (i \in DOMAIN saves /\ s[i] = saves[i]) \/ Joining(s[i])

SavesGrow == mounted /\ UNCHANGED <<mounted, mounts>> /\ Grown(saves')

LEMMA GrowingKeepsSaves ==
  ASSUME Saves, SavesGrow, confirmed \subseteq confirmed', everCrossed => everCrossed'
  PROVE  Saves'
<1>1. ~everCrossed' => \A i \in DOMAIN saves' : saves'[i].entry \in confirmed'
  BY DEF Saves, SavesGrow, Grown, Joining
<1> QED
  BY <1>1 DEF Saves, SavesGrow, Grown

LEMMA NoMore ==
  ASSUME Saves
  PROVE  Grown(saves)
BY DEF Saves, Grown

\* A save that is added to the others.
LEMMA OneMore ==
  ASSUME Saves, Counts, mounted, NEW s, Grown(s),
         NEW e \in Entry, NEW next \in {"preset", "draft", "nothing"},
         everCrossed' \/ e \in confirmed'
  PROVE  Grown(Append(s, [mount |-> mounts, entry |-> e, next |-> next]))
<1> DEFINE x == [mount |-> mounts, entry |-> e, next |-> next]
<1>1. mounts \in 1..MaxMounts
  BY Assumptions DEF Saves, Counts, WizardAssumption
<1>2. x \in Save /\ x.mount = mounts /\ x.entry = e
  BY <1>1 DEF Save
<1>3. s \in Seq(Save)
  BY DEF Grown
<1> HIDE DEF x
<1>4. /\ Append(s, x) \in Seq(Save)
      /\ \A i \in DOMAIN Append(s, x) :
           (i \in DOMAIN s /\ Append(s, x)[i] = s[i]) \/ Append(s, x)[i] = x
  BY <1>2, <1>3, Appended
<1>5. Joining(x)
  BY <1>2 DEF Joining
<1>6. Grown(Append(s, x))
  BY <1>4, <1>5 DEF Grown
<1> QED
  BY <1>6 DEF x

\* The effect, after whatever else is saved.
LEMMA PersistGrows ==
  ASSUME Saves, Counts, mounted, NEW s, Grown(s), Persist(s),
         session' => everCrossed' \/ draft' \in confirmed' \/ draft' \notin Entry
  PROVE  Grown(saves')
<1>1. CASE saves' = s
  BY <1>1
<1>2. CASE saves' # s
  <2>1. /\ session' /\ draft' \in Entry
        /\ saves' = Append(s, [mount |-> mounts, entry |-> draft', next |-> "nothing"])
    BY <1>2, Zenon DEF Persist
  <2> QED
    BY <2>1, OneMore
<1> QED
  BY <1>1, <1>2

LEMMA MountKeeps ==
  ASSUME WizardInv, Mount
  PROVE  WizardInv'
<1> USE DEF Mount, hook, WizardInv
<1>1. Screens' /\ Work' /\ Vault'
  BY DEF Screens, Work, Vault
<1>2. Counts' /\ mounts' # 0
  BY Assumptions DEF Counts, WizardAssumption
<1>3. Saves'
  BY <1>2 DEF Saves
<1> QED
  BY <1>1, <1>2, <1>3

LEMMA UnmountKeeps ==
  ASSUME WizardInv, Unmount
  PROVE  WizardInv'
<1> USE DEF Unmount, StartOver, WizardInv
<1>1. Screens'
  BY DEF Screens, Steps, Statuses
<1>2. Blank \in Draft
  BY DEF Blank, Draft
<1>3. Work' /\ Vault' /\ Counts' /\ Saves'
  BY <1>2 DEF Work, Vault, Counts, Saves
<1> QED
  BY <1>1, <1>3

\* Steps that change what is on the screen only.
Idling ==
  /\ activeStep' \in Steps /\ status' \in Statuses
  /\ session' \in BOOLEAN /\ armed' \in BOOLEAN
  /\ UNCHANGED <<mounted, mounts, draft, flow, live, saves, servers, history>>

LEMMA IdlingKeeps ==
  ASSUME WizardInv, Idling
  PROVE  WizardInv'
BY DEF Idling, history, WizardInv, Screens, Counts, Work, Vault, Saves

\* The draft changes: under a session or a connect that is noted.
LEMMA CrossingKeeps ==
  ASSUME WizardInv, mounted, Crossing(Busy), draft' \in Draft,
         confirmed' \subseteq Entry, confirmed \subseteq confirmed',
         UNCHANGED <<flow, live, session, mounted>>
  PROVE  /\ crossed' \in BOOLEAN /\ everCrossed' \in BOOLEAN
         /\ everCrossed => everCrossed'
         /\ session' => everCrossed'
         /\ Work'
<1>1. crossed' = (crossed \/ Busy) /\ everCrossed' = (everCrossed \/ Busy)
  BY DEF Crossing
<1>2. crossed' \in BOOLEAN /\ everCrossed' \in BOOLEAN
  BY <1>1, Zenon
<1>3. /\ crossed' => everCrossed'
      /\ everCrossed => everCrossed'
      /\ ~crossed' => ~Busy
      /\ Busy => everCrossed'
  <2>1. crossed => everCrossed
    BY DEF WizardInv, Work
  <2> QED
    BY <1>1, <2>1, Zenon
<1>4. ~crossed' => flow = None /\ live = None
  BY <1>3, Zenon DEF Busy
<1>5. session' => everCrossed'
  <2>1. session => Busy
    BY Zenon DEF Busy
  <2> QED
    BY <1>3, <2>1
<1>6. Work'
  BY <1>3, <1>4 DEF WizardInv, Work
<1> QED
  BY <1>2, <1>3, <1>5, <1>6

LEMMA TakePresetKeeps ==
  ASSUME WizardInv, TakePreset
  PROVE  WizardInv'
<1>1. PICK e \in servers :
        /\ draft' = e
        /\ \/ /\ e.secret # None /\ confirmed' = confirmed \cup {e}
              /\ UNCHANGED <<activeStep, status, session>>
              /\ Persist(Append(saves, [mount |-> mounts, entry |-> e, next |-> "preset"]))
           \/ /\ activeStep' = "password"
              /\ UNCHANGED <<confirmed, status, session>>
              /\ Persist(saves)
  BY DEF TakePreset, Presets
<1>2. /\ mounted /\ asks < MaxAsks /\ asks' = asks + 1
      /\ Crossing(Busy)
      /\ UNCHANGED <<mounted, mounts, armed, flow, live, servers, session, status>>
  BY <1>1 DEF TakePreset, Ask
<1>3. e \in Entry /\ e \in Draft
  BY DEF WizardInv, Vault, Entry, Draft
<1>4. confirmed' \subseteq Entry /\ confirmed \subseteq confirmed' /\ activeStep' \in Steps
  BY <1>1, <1>3 DEF WizardInv, Work, Screens, Steps
<1>5. /\ crossed' \in BOOLEAN /\ everCrossed' \in BOOLEAN
      /\ everCrossed => everCrossed'
      /\ session' => everCrossed'
      /\ Work'
  BY <1>1, <1>2, <1>3, <1>4, CrossingKeeps
<1>6. Counts'
  BY <1>2, Assumptions DEF WizardInv, Counts, WizardAssumption
<1>7. Screens' /\ Vault'
  BY <1>2, <1>4, <1>5 DEF WizardInv, Screens, Vault
<1>8. Grown(saves')
  <2>1. CASE Persist(saves)
    BY <1>2, <1>5, <2>1, NoMore, PersistGrows DEF WizardInv
  <2>2. CASE /\ confirmed' = confirmed \cup {e}
             /\ Persist(Append(saves, [mount |-> mounts, entry |-> e, next |-> "preset"]))
    <3>1. Grown(Append(saves, [mount |-> mounts, entry |-> e, next |-> "preset"]))
      <4>1. e \in confirmed' /\ "preset" \in {"preset", "draft", "nothing"} /\ Grown(saves)
        BY <2>2, NoMore DEF WizardInv
      <4> QED
        BY <1>2, <1>3, <4>1, OneMore DEF WizardInv
    <3> QED
      BY <1>2, <1>5, <2>2, <3>1, PersistGrows DEF WizardInv
  <2> QED
    BY <1>1, <2>1, <2>2
<1>9. Saves'
  BY <1>2, <1>4, <1>5, <1>8, GrowingKeepsSaves DEF WizardInv, SavesGrow
<1> QED
  BY <1>5, <1>6, <1>7, <1>9 DEF WizardInv

LEMMA UpdateDraftKeeps ==
  ASSUME WizardInv, UpdateDraft
  PROVE  WizardInv'
<1>1. /\ mounted /\ Crossing(Busy) /\ Persist(saves)
      /\ UNCHANGED <<activeStep, status, session, armed, flow, live>>
      /\ UNCHANGED <<mounted, mounts, servers, asks, confirmed>>
  BY DEF UpdateDraft
<1>2. draft' \in Draft
  BY DEF UpdateDraft, WizardInv, Work, Draft
<1>3. confirmed' \subseteq Entry /\ confirmed \subseteq confirmed'
  BY <1>1 DEF WizardInv, Work
<1>4. /\ crossed' \in BOOLEAN /\ everCrossed' \in BOOLEAN
      /\ everCrossed => everCrossed'
      /\ session' => everCrossed'
      /\ Work'
  BY <1>1, <1>2, <1>3, CrossingKeeps
<1>5. Counts' /\ Screens' /\ Vault'
  BY <1>1, <1>4 DEF WizardInv, Counts, Screens, Vault
<1>6. Grown(saves')
  BY <1>1, <1>4, NoMore, PersistGrows DEF WizardInv
<1>7. Saves'
  BY <1>1, <1>3, <1>4, <1>6, GrowingKeepsSaves DEF WizardInv, SavesGrow
<1> QED
  BY <1>4, <1>5, <1>7 DEF WizardInv

LEMMA ResetKeeps ==
  ASSUME WizardInv, ResetWizard
  PROVE  WizardInv'
<1> USE DEF ResetWizard, StartOver, WizardInv
<1>1. crossed' \in BOOLEAN /\ (crossed' => crossed)
  <2>1. crossed' = (crossed /\ Connecting)
    OBVIOUS
  <2> QED
    BY <2>1, Zenon
<1>2. Screens'
  BY <1>1 DEF Screens, Steps, Statuses
<1>3. Blank \in Draft
  BY DEF Blank, Draft
<1>4. Work' /\ Vault' /\ Counts' /\ Saves'
  BY <1>1, <1>3 DEF Work, Vault, Counts, Saves
<1> QED
  BY <1>2, <1>4

LEMMA ConnectAndPersistKeeps ==
  ASSUME WizardInv, ConnectAndPersist
  PROVE  WizardInv'
<1>1. /\ mounted /\ asks < MaxAsks /\ asks' = asks + 1 /\ draft \in Entry
      /\ saves' = Append(saves, [mount |-> mounts, entry |-> draft, next |-> "draft"])
      /\ confirmed' = confirmed \cup {draft}
      /\ UNCHANGED <<mounted, mounts, hook, servers, crossed, everCrossed>>
  BY DEF ConnectAndPersist, Ask
<1>2. Counts'
  BY <1>1, Assumptions DEF WizardInv, Counts, WizardAssumption
<1>3. Screens' /\ Work' /\ Vault'
  BY <1>1 DEF WizardInv, hook, Screens, Work, Vault
<1>4. Grown(saves')
  <2>1. draft \in confirmed' /\ "draft" \in {"preset", "draft", "nothing"} /\ Grown(saves)
    BY <1>1, NoMore DEF WizardInv
  <2> QED
    BY <1>1, <2>1, OneMore DEF WizardInv
<1>5. Saves'
  BY <1>1, <1>4, GrowingKeepsSaves DEF WizardInv, SavesGrow
<1> QED
  BY <1>2, <1>3, <1>5 DEF WizardInv

\* A save is answered.
LEMMA AnswerKeepsSaves ==
  ASSUME Saves, NEW i \in DOMAIN saves, saves' = RemoveAt(saves, i),
         confirmed \subseteq confirmed', UNCHANGED <<mounted, mounts, everCrossed>>
  PROVE  Saves'
<1>1. saves' \in Seq(Save) /\ Without(saves, i, saves')
  BY LeftOver DEF Saves
<1>2. \A j \in DOMAIN saves' : \E k \in DOMAIN saves : saves'[j] = saves[k]
  BY <1>1 DEF Without
<1>3. ~everCrossed' => \A j \in DOMAIN saves' : saves'[j].entry \in confirmed'
  BY <1>2 DEF Saves
<1> QED
  BY <1>1, <1>3 DEF Saves

LEMMA ConnectKeeps ==
  ASSUME WizardInv, mounted, NEW d \in Entry, Connect(d), UNCHANGED <<mounted, mounts>>
  PROVE  Screens' /\ Counts' /\ Work'
<1>1. /\ draft' = d /\ session' = FALSE /\ live' = None
      /\ confirmed' = confirmed \cup {d} /\ crossed' = FALSE
      /\ UNCHANGED <<asks, everCrossed>>
  BY DEF Connect
<1>2. PICK stage \in {"closing", "opening"} : flow' = [stage |-> stage, entry |-> d]
  BY DEF Connect, Start
<1>3. flow' \in Flow /\ flow'.entry = d
  BY <1>2 DEF Flow
<1>4. activeStep' \in Steps /\ status' \in Statuses /\ armed' \in BOOLEAN
  BY DEF Connect, Start, WizardInv, Screens, Steps, Statuses
<1>5. d \in Draft
  BY DEF Entry, Draft
<1>6. Screens' /\ Counts'
  BY <1>1, <1>4 DEF WizardInv, Screens, Counts
<1>7. Work'
  BY <1>1, <1>3, <1>5 DEF WizardInv, Work
<1> QED
  BY <1>6, <1>7

LEMMA SavedKeeps ==
  ASSUME WizardInv, NEW i \in DOMAIN saves, Saved(i)
  PROVE  WizardInv'
<1> DEFINE s == saves[i]
           own == mounted /\ s.mount = mounts
<1>1. /\ saves' = RemoveAt(saves, i)
      /\ servers' = {x \in servers : x.host # s.entry.host} \cup {s.entry}
      /\ UNCHANGED <<mounted, mounts>>
  BY DEF Saved
<1>2. \/ UNCHANGED <<hook, history>>
      \/ own /\ \E d \in {s.entry, draft} : d \in {s.entry} \cup Entry /\ Connect(d)
  BY DEF Saved, ConnectUnmounted
<1>3. s \in Save
  BY ElementOfSeq, LenProperties DEF WizardInv, Saves
<1>4. s.entry \in Entry
  BY <1>3 DEF Save
<1>5. ~everCrossed => s.entry \in confirmed
  BY DEF WizardInv, Saves
<1> HIDE DEF s
<1>7. ASSUME confirmed \subseteq confirmed', UNCHANGED everCrossed
      PROVE  Vault'
  <2>1. servers' \subseteq Entry
    BY <1>1, <1>4 DEF WizardInv, Vault
  <2>2. \A x, y \in servers' : x.host = y.host => x = y
    BY <1>1 DEF WizardInv, Vault
  <2>3. ~everCrossed' => servers' \subseteq confirmed'
    BY <1>1, <1>5, <1>7 DEF WizardInv, Vault
  <2> QED
    BY <2>1, <2>2, <2>3 DEF Vault
<1>8. CASE UNCHANGED <<hook, history>>
  <2>1. Saves'
    BY <1>1, <1>8, AnswerKeepsSaves DEF WizardInv, history
  <2>2. Vault'
    BY <1>7, <1>8 DEF history
  <2>3. Screens' /\ Counts' /\ Work'
    BY <1>1, <1>8 DEF WizardInv, hook, history, Screens, Counts, Work
  <2> QED
    BY <2>1, <2>2, <2>3 DEF WizardInv
<1>9. ASSUME own, NEW d \in Entry, Connect(d)
      PROVE  WizardInv'
  <2>1. confirmed \subseteq confirmed' /\ UNCHANGED everCrossed
    BY <1>9 DEF Connect
  <2>2. Saves'
    BY <1>1, <2>1, AnswerKeepsSaves DEF WizardInv
  <2>3. Vault'
    BY <1>7, <2>1
  <2>4. Screens' /\ Counts' /\ Work'
    BY <1>1, <1>9, ConnectKeeps
  <2> QED
    BY <2>2, <2>3, <2>4 DEF WizardInv
<1>10. \A d \in {s.entry, draft} : d \in {s.entry} \cup Entry => d \in Entry
  BY <1>4
<1> QED
  BY <1>2, <1>8, <1>9, <1>10

\* The answer and the connected event: the session is shown, and saved.
Showing ==
  /\ mounted /\ session' = TRUE
  /\ status' \in Statuses /\ activeStep' \in Steps /\ armed' \in BOOLEAN
  /\ Persist(saves)
  /\ UNCHANGED <<mounted, mounts, draft, servers, history>>

LEMMA ShowingKeeps ==
  ASSUME WizardInv, Showing, Work', everCrossed \/ draft \in confirmed
  PROVE  WizardInv'
<1>1. /\ mounted /\ UNCHANGED <<mounted, mounts, draft, servers, history>> /\ Persist(saves)
  BY DEF Showing
<1>2. Screens' /\ Counts' /\ Vault'
  BY DEF Showing, WizardInv, Screens, Counts, Vault, history
<1>3. everCrossed' \/ draft' \in confirmed'
  BY <1>1 DEF history
<1>4. Grown(saves')
  BY <1>1, <1>3, NoMore, PersistGrows DEF WizardInv
<1>5. Saves'
  BY <1>1, <1>4, GrowingKeepsSaves DEF WizardInv, SavesGrow, history
<1> QED
  BY <1>2, <1>5 DEF WizardInv

LEMMA AnsweredKeeps ==
  ASSUME WizardInv, Answered
  PROVE  WizardInv'
<1>1. /\ flow # None /\ flow' = None /\ session' = TRUE
      /\ UNCHANGED <<activeStep, draft, status>> /\ Persist(saves)
      /\ UNCHANGED <<mounted, mounts, armed, live, servers, history>>
  BY DEF Answered
<1>2. mounted /\ (everCrossed \/ draft \in confirmed)
  BY <1>1 DEF WizardInv, Work
<1>3. Work'
  BY <1>1 DEF WizardInv, Work, history
<1>4. Showing
  BY <1>1, <1>2 DEF Showing, WizardInv, Screens
<1> QED
  BY <1>2, <1>3, <1>4, ShowingKeeps

LEMMA ConnectedKeeps ==
  ASSUME WizardInv, Connected
  PROVE  WizardInv'
<1>1. /\ live # None /\ live' = [live EXCEPT !.stage = "connected"]
      /\ armed' = FALSE /\ session' = TRUE
      /\ status' = "connected" /\ activeStep' = "connected" /\ draft' = draft
      /\ Persist(saves)
      /\ UNCHANGED <<mounted, mounts, flow, servers, history>>
  BY DEF Connected
<1>2. mounted /\ (everCrossed \/ draft \in confirmed)
  BY <1>1 DEF WizardInv, Work
<1>3. live' \in Live /\ live'.entry = live.entry
  BY <1>1 DEF WizardInv, Work, Live
<1>4. Work'
  BY <1>1, <1>3 DEF WizardInv, Work, history
<1>5. Showing
  BY <1>1, <1>2 DEF Showing, Steps, Statuses
<1> QED
  BY <1>2, <1>4, <1>5, ShowingKeeps

\* The connect and its session go on, fail or end, for the same entry.
Following ==
  /\ activeStep' \in Steps /\ status' \in Statuses
  /\ session' \in BOOLEAN /\ armed' \in BOOLEAN
  /\ flow' \in Flow \cup {None} /\ (flow' # None => flow # None /\ flow'.entry = flow.entry)
  /\ live' \in Live \cup {None}
  /\ live' # None => \/ live # None /\ live'.entry = live.entry
                     \/ flow # None /\ live'.entry = flow.entry
  /\ UNCHANGED <<mounted, mounts, draft, saves, servers, history>>

LEMMA FollowingKeeps ==
  ASSUME WizardInv, Following
  PROVE  WizardInv'
<1>1. Screens' /\ Counts' /\ Vault' /\ Saves'
  BY DEF Following, history, WizardInv, Screens, Counts, Vault, Saves
<1>2. Work'
  BY DEF Following, history, WizardInv, Work
<1> QED
  BY <1>1, <1>2 DEF WizardInv

LEMMA AttemptKeeps ==
  ASSUME WizardInv, Resume \/ OpenRejected \/ BackendOpens \/ Timeout \/ ErrorEvent \/ Closed
  PROVE  WizardInv'
<1>1. /\ activeStep \in Steps /\ status \in Statuses
      /\ session \in BOOLEAN /\ armed \in BOOLEAN
      /\ flow \in Flow \cup {None} /\ live \in Live \cup {None}
  BY DEF WizardInv, Screens, Work
<1>2. Resume => Following
  <2>1. flow # None => [flow EXCEPT !.stage = "opening"] \in Flow
                       /\ [flow EXCEPT !.stage = "opening"].entry = flow.entry
    BY <1>1 DEF Flow
  <2> QED
    BY <1>1, <2>1 DEF Resume, Following, Steps, Statuses
<1>3. OpenRejected => Following
  BY <1>1 DEF OpenRejected, Following, Statuses
<1>4. BackendOpens => Following
  <2>1. flow # None => /\ [flow EXCEPT !.stage = "answering"] \in Flow
                       /\ [flow EXCEPT !.stage = "answering"].entry = flow.entry
                       /\ [stage |-> "opening", entry |-> flow.entry] \in Live
    BY <1>1 DEF Flow, Live
  <2> QED
    BY <1>1, <2>1 DEF BackendOpens, Following
<1>5. Timeout => Following
  BY <1>1 DEF Timeout, Following, Statuses
<1>6. ErrorEvent => Following
  <2>1. live # None => [live EXCEPT !.stage = "failed"] \in Live
                       /\ [live EXCEPT !.stage = "failed"].entry = live.entry
    BY <1>1 DEF Live
  <2> QED
    BY <1>1, <2>1 DEF ErrorEvent, Following, Statuses
<1>7. Closed => Following
  BY <1>1 DEF Closed, Following, Statuses
<1> QED
  BY <1>2, <1>3, <1>4, <1>5, <1>6, <1>7, FollowingKeeps

LEMMA WizardStep ==
  ASSUME WizardInv, Next
  PROVE  WizardInv'
<1>1. CASE NextStep \/ PrevStep \/ Disconnect
  <2> USE DEF Idling, WizardInv, Screens, Steps, Statuses
  <2>1. NextStep => Idling
    BY DEF NextStep
  <2>2. PrevStep => Idling
    BY DEF PrevStep
  <2>3. Disconnect => Idling
    BY DEF Disconnect
  <2> HIDE DEF Idling, WizardInv
  <2> QED
    BY <1>1, <2>1, <2>2, <2>3, IdlingKeeps
<1>2. ASSUME NEW i \in DOMAIN saves, SaveRefused(i)
      PROVE  WizardInv'
  <2>1. saves' = RemoveAt(saves, i) /\ UNCHANGED <<mounted, mounts, hook, servers, history>>
    BY <1>2 DEF SaveRefused
  <2>2. Saves'
    BY <1>2, <2>1, AnswerKeepsSaves DEF WizardInv, history
  <2> QED
    BY <2>1, <2>2 DEF WizardInv, hook, history, Screens, Counts, Work, Vault
<1> QED
  BY <1>1, <1>2, AttemptKeeps, MountKeeps, UnmountKeeps, TakePresetKeeps,
     UpdateDraftKeeps, ResetKeeps, ConnectAndPersistKeeps, SavedKeeps, AnsweredKeeps,
     ConnectedKeeps
     DEF Next, FormScreen, StepButtons, ConnectingScreen, ConnectedScreen

LEMMA WizardInvariant == DesktopSpec => []WizardInv
<1>1. DesktopInit => WizardInv
  <2> SUFFICES ASSUME Init
               PROVE  WizardInv
    BY DEF DesktopInit
  <2>1. <<>> \in Seq(Save) /\ DOMAIN <<>> = {}
    OBVIOUS
  <2>2. Screens
    BY DEF Init, Screens, Steps, Statuses
  <2>3. Counts
    BY Assumptions DEF Init, Counts, WizardAssumption
  <2>4. PICK x \in Entry : servers = {x}
    BY DEF Init, Entry
  <2>5. Work
    BY <2>4 DEF Init, Work, Blank, Draft
  <2>6. Vault
    BY <2>4 DEF Init, Vault
  <2>7. Saves
    BY <2>1 DEF Init, Saves
  <2> QED
    BY <2>2, <2>3, <2>5, <2>6, <2>7 DEF WizardInv
<1>2. WizardInv /\ [DesktopNext]_allVars => WizardInv'
  <2> SUFFICES ASSUME WizardInv, [DesktopNext]_allVars
               PROVE  WizardInv'
    OBVIOUS
  <2>1. CASE UNCHANGED vars
    BY <2>1 DEF vars, hook, history, WizardInv, Screens, Counts, Work, Vault, Saves
  <2>2. CASE OnWizard(Next)
    BY <2>2, WizardStep DEF OnWizard
  <2> QED
    BY <2>1, <2>2 DEF DesktopNext, OnLists, OnFiles, allVars
<1> QED
  BY <1>1, <1>2, PTL DEF DesktopSpec

\* For any hosts and any number of connects, mounts and saves: the terminal names
\* the host it is connected to until the draft changes under it.
THEOREM LabelIsAlwaysHost == DesktopSpec => []LabelIsHost
<1>1. WizardInv => LabelIsHost
  BY DEF WizardInv, Work, LabelIsHost
<1> QED
  BY <1>1, WizardInvariant, PTL

\* What is in the vault was confirmed, until a draft changes under a connect or a
\* session.
THEOREM SavedWasAlwaysConfirmed == DesktopSpec => []SavedWasConfirmed
<1>1. WizardInv => SavedWasConfirmed
  BY DEF WizardInv, Vault, SavedWasConfirmed
<1> QED
  BY <1>1, WizardInvariant, PTL

-----------------------------------------------------------------------------
(* The pages of application data.  Commands are served in their order, and *)
(* a page asks for the lists when it is mounted: a page that waits for     *)
(* nothing has nothing before it in the queue.  A list that is only edited *)
(* on calm pages therefore has at most one save in the queue, computed     *)
(* from what is stored.                                                    *)

\* A list with identifiers up to n, each of one entry.
Tidy(list, n) ==
  /\ list \subseteq Lists!Entry
  /\ \A x \in list : x.id <= n
  /\ \A x, y \in list : x.id = y.id => x = y

TidyData(d, n) == d \in Lists!Data /\ \A k \in Lists!Kind : Tidy(d[k], n)

Command == Lists!LoadCall \cup Lists!SaveCall

ListBasics ==
  /\ tauri \in BOOLEAN /\ error \in BOOLEAN
  /\ page \in Lists!Kind \cup {None} /\ hasty \subseteq Lists!Kind
  /\ acts \in 0..MaxActs /\ visit \in 0..acts /\ crashes \in 0..MaxCrashes
  /\ issued \in 0..MaxEntries
  /\ page # None => visit # 0
  /\ dialog \in Lists!Form \cup {None}
  /\ dialog # None => page # None

\* Every list there is, wherever it is, is tidy.
ListsTidy ==
  /\ TidyData(stored, issued) /\ TidyData(data, issued) /\ TidyData(cached, issued)
  /\ wanted \in Lists!Data
  /\ \A i \in DOMAIN queue : queue[i].cmd = "save" => Tidy(queue[i].list, issued)
  /\ \A i \in DOMAIN answers : answers[i].ok => TidyData(answers[i].data, issued)

Calls ==
  /\ queue \in Seq(Command) /\ answers \in Seq(Lists!Answers)
  /\ ~tauri => queue = <<>> /\ answers = <<>>
  /\ \A i \in DOMAIN queue : queue[i].visit <= visit
  /\ \A i \in DOMAIN answers : answers[i].visit <= visit
  /\ page # None /\ queue # <<>> => queue[Len(queue)].visit = visit

\* Until a list is edited in haste, a save of it that waits was computed from
\* what is stored, and no other one waits.
SavesOfCalm ==
  /\ \A k \in Lists!Kind \ hasty : Lists!Store[k] = wanted[k]
  /\ \A i \in DOMAIN queue : queue[i].cmd = "save" /\ queue[i].kind \notin hasty =>
       /\ queue[i].list = Lists!Meant(queue[i].change, stored[queue[i].kind])
       /\ \A j \in DOMAIN queue :
            queue[j].cmd = "save" /\ queue[j].kind = queue[i].kind => j = i

\* And its page has at most one command or answer under way, and shows what is
\* stored unless that or an error is to tell otherwise.
CalmPage ==
  page \in Lists!Kind \ hasty =>
    /\ \A i \in DOMAIN queue : queue[i].visit = visit =>
         i = Len(queue) /\ (queue[i].cmd = "save" => i = 1)
    /\ \A i \in DOMAIN answers : answers[i].visit = visit =>
         /\ queue = <<>>
         /\ \A j \in DOMAIN answers : answers[j].visit = visit => j = i
         /\ answers[i].ok => answers[i].data[page] = stored[page]
    /\ \/ error
       \/ data[page] = Lists!Store[page]
       \/ \E i \in DOMAIN queue : queue[i].visit = visit /\ queue[i].cmd = "load"
       \/ \E i \in DOMAIN answers :
            answers[i].visit = visit /\ (answers[i].cmd = "load" \/ answers[i].ok)

\* In a plain browser the page shows what is cached.
InBrowser == ~tauri => ~error /\ (page # None => data = cached)

\* An entry that is edited in calm is the one shown.
CalmForm ==
  dialog # None /\ dialog.op = "edit" =>
    dialog.hasty \/ (~Lists!Waiting /\ dialog.entry \in data[page])

ListsInv ==
  /\ ListBasics /\ ListsTidy /\ Calls /\ SavesOfCalm /\ CalmPage /\ InBrowser /\ CalmForm


\* What an edit makes of a tidy list.
LEMMA MeantIsTyped ==
  ASSUME NEW ch \in Lists!Change, NEW list \in SUBSET Lists!Entry
  PROVE  Lists!Edited(ch, list) \subseteq Lists!Entry /\ Lists!Meant(ch, list) \subseteq Lists!Entry
<1>1. ch.entry \in Lists!Entry
  BY DEF Lists!Change
<1>2. \A x \in Lists!Entry : /\ [x EXCEPT !.active = ~@] \in Lists!Entry
                            /\ [x EXCEPT !.text = ch.entry.text] \in Lists!Entry
  BY <1>1 DEF Lists!Entry
<1>3. Lists!Edited(ch, list) \subseteq Lists!Entry
  BY <1>1, <1>2 DEF Lists!Edited
<1> QED
  BY <1>1, <1>2, <1>3 DEF Lists!Meant

LEMMA EditedIsTidy ==
  ASSUME NEW n \in 0..MaxEntries, NEW list, Tidy(list, n), NEW ch \in Lists!Change,
         NEW m \in {n, n + 1}, ch.op = "create" => m = n + 1 /\ ch.entry.id = m
  PROVE  Tidy(Lists!Edited(ch, list), m)
<1>1. Lists!Edited(ch, list) \subseteq Lists!Entry
  BY MeantIsTyped DEF Tidy
<1>2. \A x \in list : x \in Lists!Entry /\ x.id \in Nat /\ x.id <= n /\ x.id <= m
  BY Assumptions DEF Tidy, Lists!Entry, Lists!Id, Lists!AppDataAssumption
<1>3. CASE ch.op = "create"
  BY <1>1, <1>2, <1>3 DEF Lists!Edited, Tidy
<1>4. CASE ch.op = "edit"
  BY <1>1, <1>2, <1>4 DEF Lists!Edited, Tidy
<1>5. CASE ch.op = "delete"
  BY <1>1, <1>2, <1>5 DEF Lists!Edited, Tidy
<1>6. CASE ch.op = "toggle"
  <2> DEFINE F(x) == IF x.id = ch.entry.id THEN [x EXCEPT !.active = ~@] ELSE x
  <2>1. Lists!Edited(ch, list) = {F(x) : x \in list}
    BY <1>6 DEF Lists!Edited
  <2>2. \A x \in list : F(x).id = x.id
    BY <1>2 DEF Lists!Entry
  <2> HIDE DEF F
  <2> QED
    BY <1>1, <1>2, <2>1, <2>2 DEF Tidy
<1> QED
  BY <1>3, <1>4, <1>5, <1>6 DEF Lists!Change

\* An edit of the entry as it is shown changes only its text.
LEMMA EditedIsMeant ==
  ASSUME NEW ch \in Lists!Change, NEW n, NEW list, Tidy(list, n),
         ch.op = "edit" => \E x \in list, t \in Text : ch.entry = [x EXCEPT !.text = t]
  PROVE  Lists!Edited(ch, list) = Lists!Meant(ch, list)
<1>1. CASE ch.op # "edit"
  BY <1>1 DEF Lists!Meant
<1>2. CASE ch.op = "edit"
  <2>1. PICK e \in list, t \in Text : ch.entry = [e EXCEPT !.text = t]
    BY <1>2
  <2>2. ch.entry.id = e.id /\ ch.entry.text = t
    BY <2>1 DEF Tidy, Lists!Entry
  <2> DEFINE F(x) == IF x.id = ch.entry.id THEN ch.entry ELSE x
             G(x) == IF x.id = ch.entry.id THEN [x EXCEPT !.text = ch.entry.text] ELSE x
  <2>3. \A x \in list : F(x) = G(x)
    BY <2>1, <2>2 DEF Tidy
  <2>4. Lists!Edited(ch, list) = {F(x) : x \in list}
    BY <1>2 DEF Lists!Edited
  <2>5. Lists!Meant(ch, list) = {G(x) : x \in list}
    BY <1>2 DEF Lists!Meant
  <2> HIDE DEF F, G
  <2> QED
    BY <2>3, <2>4, <2>5
<1> QED
  BY <1>1, <1>2

\* r is s with e at its end.
Longer(s, e, r) ==
  /\ \A i \in DOMAIN s : i \in DOMAIN r /\ r[i] = s[i] /\ i # Len(r)
  /\ \A i \in DOMAIN r : i \in DOMAIN s \/ i = Len(r)
  /\ Len(r) \in DOMAIN r /\ r[Len(r)] = e
  /\ r # <<>>
  /\ s = <<>> => Len(r) = 1

LEMMA AppendIsLonger ==
  ASSUME NEW S, NEW s \in Seq(S), NEW e \in S
  PROVE  Append(s, e) \in Seq(S) /\ Longer(s, e, Append(s, e))
<1> DEFINE a == Append(s, e)
<1>1. /\ a \in Seq(S) /\ Len(a) = Len(s) + 1
      /\ \A i \in 1..Len(s) : a[i] = s[i]
      /\ a[Len(s) + 1] = e
  BY AppendProperties
<1>2. Len(s) \in Nat /\ DOMAIN s = 1..Len(s)
  BY LenProperties
<1> HIDE DEF a
<1>3. DOMAIN a = 1..(Len(s) + 1)
  BY <1>1, LenProperties
<1>4. s = <<>> => Len(s) = 0
  BY EmptySeq
<1>5. a # <<>>
  <2>1. Len(a) # 0
    BY <1>1, <1>2
  <2> QED
    BY <2>1, EmptySeq
<1>6. \A i \in DOMAIN s : i \in DOMAIN a /\ a[i] = s[i] /\ i # Len(a)
  BY <1>1, <1>2, <1>3
<1>7. /\ \A i \in DOMAIN a : i \in DOMAIN s \/ i = Len(a)
      /\ Len(a) \in DOMAIN a /\ a[Len(a)] = e
  BY <1>1, <1>2, <1>3
<1>8. s = <<>> => Len(a) = 1
  BY <1>1, <1>4
<1> QED
  BY <1>1, <1>5, <1>6, <1>7, <1>8 DEF a, Longer

\* r is s without its first element.
Shorter(s, r) ==
  /\ Len(r) \in Nat /\ Len(s) = Len(r) + 1
  /\ \A i \in DOMAIN r : i \in Nat \ {0} /\ i + 1 \in DOMAIN s /\ r[i] = s[i + 1]
  /\ \A i \in DOMAIN s : i \in Nat \ {0} /\ (i = 1 \/ i - 1 \in DOMAIN r)
  /\ r = <<>> <=> Len(s) = 1
  /\ r # <<>> => Len(r) \in DOMAIN r

LEMMA TailIsShorter ==
  ASSUME NEW S, NEW s \in Seq(S), s # <<>>
  PROVE  /\ Tail(s) \in Seq(S) /\ Shorter(s, Tail(s))
         /\ 1 \in DOMAIN s /\ s[1] \in S /\ Head(s) = s[1]
<1> DEFINE r == Tail(s)
<1>1. /\ Head(s) \in S /\ Head(s) = s[1]
      /\ r \in Seq(S) /\ Len(r) = Len(s) - 1
      /\ \A i \in 1..Len(r) : r[i] = s[i + 1]
  BY HeadTailProperties
<1>2. Len(s) \in Nat \ {0} /\ DOMAIN s = 1..Len(s)
  BY LenProperties, EmptySeq
<1> HIDE DEF r
<1>3. DOMAIN r = 1..Len(r)
  BY <1>1, LenProperties
<1>4. /\ Len(r) \in Nat /\ Len(s) = Len(r) + 1
      /\ \A i \in DOMAIN r : i \in Nat \ {0} /\ i + 1 \in DOMAIN s /\ r[i] = s[i + 1]
      /\ \A i \in DOMAIN s : i \in Nat \ {0} /\ (i = 1 \/ i - 1 \in DOMAIN r)
  BY <1>1, <1>2, <1>3
<1>5. /\ r = <<>> => Len(r) = 0
      /\ r # <<>> => Len(r) # 0
  BY <1>1, EmptySeq
<1>6. /\ r = <<>> <=> Len(s) = 1
      /\ r # <<>> => Len(r) \in DOMAIN r
  BY <1>3, <1>4, <1>5
<1>7. 1 \in DOMAIN s
  BY <1>2
<1> QED
  BY <1>1, <1>4, <1>6, <1>7 DEF r, Shorter

\* A list is as tidy with more identifiers given.
LEMMA StaysTidy ==
  ASSUME NEW n \in Nat
  PROVE  /\ \A list : Tidy(list, n) => Tidy(list, n + 1)
         /\ \A d : TidyData(d, n) => TidyData(d, n + 1)
<1>1. \A list : Tidy(list, n) => Tidy(list, n + 1)
  BY Assumptions DEF Tidy, Lists!Entry, Lists!Id, Lists!AppDataAssumption
<1> QED
  BY <1>1 DEF TidyData

LEMMA EmptyIsTidy == ASSUME NEW n \in Nat PROVE TidyData(Lists!Empty, n)
BY DEF TidyData, Tidy, Lists!Empty, Lists!Data

LEMMA KindAssumption ==
  /\ None \notin Lists!Kind /\ MaxEntries \in Nat /\ MaxActs \in Nat /\ MaxCrashes \in Nat
BY Assumptions DEF Lists!AppDataAssumption

\* What is known of each command and answer.
LEMMA CommandFacts ==
  ASSUME NEW c \in Command
  PROVE  /\ c.visit \in 1..MaxActs /\ c.visit \in Nat /\ c.cmd \in {"load", "save"}
         /\ c.cmd = "save" => /\ c.kind \in Lists!Kind /\ c.list \in SUBSET Lists!Entry
                             /\ c.change \in Lists!Change
<1>1. MaxActs \in Nat
  BY KindAssumption
<1>2. CASE c \in Lists!LoadCall
  BY <1>1, <1>2 DEF Lists!LoadCall
<1>3. CASE c \in Lists!SaveCall
  BY <1>1, <1>3 DEF Lists!SaveCall
<1> QED
  BY <1>2, <1>3 DEF Command

LEMMA AnswerFields ==
  ASSUME NEW O, NEW C, NEW V, NEW D, NEW a
  PROVE  /\ a \in [ok : O, cmd : C, visit : V] => a.ok \in O /\ a.cmd \in C /\ a.visit \in V
         /\ a \in [ok : O, cmd : C, visit : V, data : D] =>
              a.ok \in O /\ a.cmd \in C /\ a.visit \in V /\ a.data \in D
OBVIOUS

LEMMA AnswerFacts ==
  ASSUME NEW a \in Lists!Answers
  PROVE  /\ a.visit \in 1..MaxActs /\ a.visit \in Nat /\ a.cmd \in {"load", "save"}
         /\ a.ok \in BOOLEAN /\ (a.ok => a.data \in Lists!Data)
<1>1. a.visit \in 1..MaxActs => a.visit \in Nat
  BY KindAssumption
<1>2. CASE a \in [ok : {TRUE}, cmd : {"load", "save"}, visit : 1..MaxActs, data : Lists!Data]
  <2>1. /\ a.ok \in {TRUE} /\ a.cmd \in {"load", "save"} /\ a.visit \in 1..MaxActs
        /\ a.data \in Lists!Data
    BY <1>2, AnswerFields, Zenon
  <2> QED
    BY <1>1, <2>1, Zenon
<1>3. CASE a \in [ok : {FALSE}, cmd : {"load", "save"}, visit : 1..MaxActs]
  <2>1. a.ok \in {FALSE} /\ a.cmd \in {"load", "save"} /\ a.visit \in 1..MaxActs
    BY <1>3, AnswerFields, Zenon
  <2> QED
    BY <1>1, <2>1, Zenon
<1> QED
  BY <1>2, <1>3 DEF Lists!Answers

LEMMA CallFacts ==
  ASSUME Calls
  PROVE  /\ \A i \in DOMAIN queue :
              /\ queue[i] \in Command /\ queue[i].visit \in Nat
              /\ queue[i].cmd \in {"load", "save"}
         /\ \A i \in DOMAIN answers :
              /\ answers[i] \in Lists!Answers /\ answers[i].visit \in Nat
              /\ answers[i].cmd \in {"load", "save"}
<1>1. \A i \in DOMAIN queue : queue[i] \in Command
  BY TypedElements DEF Calls
<1>2. \A i \in DOMAIN answers : answers[i] \in Lists!Answers
  BY TypedElements DEF Calls
<1> QED
  BY <1>1, <1>2, CommandFacts, AnswerFacts

\* A page that waits for nothing has nothing before it.
LEMMA CalmIsIdle ==
  ASSUME Calls, page # None, ~Lists!Waiting
  PROVE  queue = <<>> /\ \A i \in DOMAIN answers : answers[i].visit # visit
<1>1. queue # <<>> => Len(queue) \in DOMAIN queue
  BY LenProperties, EmptySeq DEF Calls
<1> QED
  BY <1>1 DEF Calls, Lists!Waiting

\* Without a page nothing is asked of it.
LEMMA NoPage ==
  ASSUME page' = None, dialog' = None, ~error'
  PROVE  CalmPage' /\ InBrowser' /\ CalmForm'
<1>1. CalmPage'
  BY KindAssumption DEF CalmPage
<1> QED
  BY <1>1 DEF InBrowser, CalmForm

LEMMA LeavePageKeeps ==
  ASSUME ListsInv, Lists!Unmount
  PROVE  ListsInv'
<1> USE DEF ListsInv
<1>1. /\ page' = None /\ data' = Lists!Empty /\ error' = FALSE /\ dialog' = None
      /\ UNCHANGED <<tauri, stored, queue, answers, visit, cached, acts, issued, hasty,
                     crashes, wanted>>
  BY DEF Lists!Unmount, Lists!ghosts
<1>2. ListBasics'
  BY <1>1 DEF ListBasics
<1>3. TidyData(data', issued')
  BY <1>1, EmptyIsTidy DEF ListBasics
<1>4. ListsTidy'
  BY <1>1, <1>3 DEF ListsTidy
<1>5. Calls'
  BY <1>1 DEF Calls
<1>6. SavesOfCalm'
  BY <1>1 DEF SavesOfCalm, Lists!Store
<1> QED
  BY <1>1, <1>2, <1>4, <1>5, <1>6, NoPage

LEMMA EndKeepsLists ==
  ASSUME ListsInv, Lists!Crash
  PROVE  ListsInv'
<1> USE DEF ListsInv
<1>1. /\ crashes < MaxCrashes /\ crashes' = crashes + 1
      /\ queue' = <<>> /\ answers' = <<>>
      /\ page' = None /\ data' = Lists!Empty /\ error' = FALSE /\ dialog' = None
      /\ UNCHANGED <<tauri, stored, visit, cached, acts, issued, wanted, hasty>>
  BY DEF Lists!Crash
<1>2. <<>> \in Seq(Command) /\ <<>> \in Seq(Lists!Answers) /\ DOMAIN <<>> = {}
  OBVIOUS
<1>3. crashes' \in 0..MaxCrashes
  BY <1>1, KindAssumption DEF ListBasics
<1>4. ListBasics'
  BY <1>1, <1>3 DEF ListBasics
<1>5. TidyData(data', issued')
  BY <1>1, EmptyIsTidy DEF ListBasics
<1>6. ListsTidy'
  BY <1>1, <1>2, <1>5 DEF ListsTidy
<1>7. Calls'
  BY <1>1, <1>2 DEF Calls
<1>8. SavesOfCalm'
  BY <1>1, <1>2 DEF SavesOfCalm, Lists!Store
<1> QED
  BY <1>1, <1>4, <1>6, <1>7, <1>8, NoPage

LEMMA MountPageKeeps ==
  ASSUME ListsInv, NEW k \in Lists!Kind, Lists!Mount(k)
  PROVE  ListsInv'
<1> USE DEF ListsInv
<1> DEFINE load == [cmd |-> "load", visit |-> visit + 1]
<1>1. /\ page = None /\ page' = k /\ acts < MaxActs /\ acts' = acts + 1
      /\ visit' = visit + 1 /\ data' = cached /\ error' = FALSE
      /\ tauri => queue' = Append(queue, load)
      /\ ~tauri => queue' = queue
      /\ UNCHANGED <<tauri, stored, answers, dialog, cached, issued, hasty, crashes, wanted>>
  BY DEF Lists!Mount, Lists!Act, Lists!ghosts
<1>2. dialog = None
  BY <1>1 DEF ListBasics
<1>3. visit \in Nat /\ visit' \in 0..acts' /\ acts' \in 0..MaxActs /\ visit' # 0
      /\ visit' \in 1..MaxActs
  BY <1>1, KindAssumption DEF ListBasics
<1>4. load \in Command /\ load.cmd = "load" /\ load.visit = visit'
  <2>1. load \in Lists!LoadCall
    BY <1>1, <1>3 DEF Lists!LoadCall
  <2> QED
    BY <1>1, <2>1 DEF Command
<1> HIDE DEF load
<1>5. ListBasics'
  BY <1>1, <1>2, <1>3 DEF ListBasics
<1>6. /\ queue' \in Seq(Command)
      /\ ~tauri => queue' = queue
      /\ tauri => Longer(queue, load, queue')
  BY <1>1, <1>4, AppendIsLonger DEF Calls
<1>7. \A i \in DOMAIN queue' :
        \/ i \in DOMAIN queue /\ queue'[i] = queue[i]
        \/ i = Len(queue') /\ queue'[i] = load
  BY <1>6 DEF Longer
<1>8. ListsTidy'
  BY <1>1, <1>4, <1>7 DEF ListsTidy
<1>9. /\ \A i \in DOMAIN queue : queue[i].visit <= visit' /\ queue[i].visit # visit'
      /\ \A i \in DOMAIN answers : answers[i].visit <= visit' /\ answers[i].visit # visit'
  <2>1. \A n \in Nat : n <= visit => n <= visit' /\ n # visit'
    BY <1>1, <1>3
  <2> QED
    BY <2>1, CallFacts DEF Calls
<1>10. Calls'
  <2>1. \A i \in DOMAIN queue' : queue'[i].visit <= visit'
    BY <1>1, <1>3, <1>4, <1>7, <1>9
  <2>2. \A i \in DOMAIN answers' : answers'[i].visit <= visit'
    BY <1>1, <1>3, <1>9
  <2>3. queue' # <<>> => queue'[Len(queue')].visit = visit'
    BY <1>1, <1>4, <1>6 DEF Longer, Calls
  <2> QED
    BY <1>1, <1>6, <2>1, <2>2, <2>3 DEF Calls
<1>11. SavesOfCalm'
  BY <1>1, <1>4, <1>7 DEF SavesOfCalm, Lists!Store
<1>12. CalmPage'
  <2>1. \A i \in DOMAIN queue' :
          queue'[i].visit = visit' => i = Len(queue') /\ queue'[i].cmd = "load"
    BY <1>4, <1>7, <1>9
  <2>2. \A i \in DOMAIN answers' : answers'[i].visit # visit'
    BY <1>1, <1>9
  <2>3. \/ data'[page'] = Lists!Store'[page']
        \/ \E i \in DOMAIN queue' : queue'[i].visit = visit' /\ queue'[i].cmd = "load"
    <3>1. CASE tauri
      BY <1>4, <1>6, <3>1 DEF Longer
    <3>2. CASE ~tauri
      BY <1>1, <3>2 DEF Lists!Store
    <3> QED
      BY <3>1, <3>2
  <2> QED
    BY <2>1, <2>2, <2>3 DEF CalmPage
<1>13. InBrowser' /\ CalmForm'
  BY <1>1, <1>2 DEF InBrowser, CalmForm
<1> QED
  BY <1>5, <1>8, <1>10, <1>11, <1>12, <1>13

\* Opening or closing the dialog.
LEMMA DialogKeepsLists ==
  ASSUME ListsInv, Lists!OpenCreate \/ Lists!OpenEdit \/ Lists!Cancel
  PROVE  ListsInv'
<1> USE DEF ListsInv
<1>1. UNCHANGED <<tauri, stored, queue, answers, page, visit, data, error, cached, acts, issued,
                  hasty, crashes, wanted>>
  BY DEF Lists!OpenCreate, Lists!OpenEdit, Lists!Cancel, Lists!ghosts
<1>2. ListsTidy' /\ Calls' /\ SavesOfCalm' /\ CalmPage' /\ InBrowser'
  BY <1>1 DEF ListsTidy, Calls, SavesOfCalm, CalmPage, InBrowser, Lists!Store
<1>3. ListBasics' /\ CalmForm'
  <2>1. CASE Lists!OpenCreate
    <3>1. page # None /\ dialog' = [op |-> "create"]
      BY <2>1 DEF Lists!OpenCreate
    <3>2. dialog' \in Lists!Form /\ dialog'.op = "create"
      BY <3>1 DEF Lists!Form
    <3> QED
      BY <1>1, <3>1, <3>2 DEF ListBasics, CalmForm
  <2>2. CASE Lists!OpenEdit
    <3>1. page \in Lists!Kind
      BY <2>2 DEF Lists!OpenEdit, ListBasics
    <3>2. PICK x \in data[page] : dialog' = [op |-> "edit", entry |-> x, hasty |-> ~Lists!Calm]
      BY <2>2 DEF Lists!OpenEdit
    <3>3. x \in Lists!Entry
      BY <3>1 DEF ListsTidy, TidyData, Tidy
    <3>4. Lists!Calm \in BOOLEAN
      BY DEF Lists!Calm
    <3>5. dialog' \in Lists!Form
      BY <3>2, <3>3, <3>4 DEF Lists!Form
    <3>6. dialog'.entry = x /\ (dialog'.hasty <=> ~Lists!Calm)
      BY <3>2
    <3>7. Lists!Waiting' <=> Lists!Waiting
      BY <1>1 DEF Lists!Waiting
    <3>8. CalmForm'
      BY <1>1, <3>6, <3>7 DEF CalmForm, Lists!Calm
    <3>9. ListBasics'
      BY <1>1, <3>1, <3>5, KindAssumption DEF ListBasics
    <3> QED
      BY <3>8, <3>9
  <2>3. CASE Lists!Cancel
    <3>1. dialog' = None
      BY <2>3 DEF Lists!Cancel
    <3> QED
      BY <1>1, <3>1 DEF ListBasics, CalmForm
  <2> QED
    BY <2>1, <2>2, <2>3
<1> QED
  BY <1>2, <1>3

\* An edit of the mounted page: it is put on the list as it is shown, and the page
\* counts as hasty unless it was calm and the entry the one it shows.
Edit(ch, fits) ==
  /\ page \in Lists!Kind /\ ch \in Lists!Change /\ fits \in BOOLEAN
  /\ Lists!Act /\ Lists!SaveList(ch, fits)
  /\ issued' \in {issued, issued + 1} /\ issued' \in 0..MaxEntries
  /\ ch.op = "create" => issued' = issued + 1 /\ ch.entry.id = issued'
  /\ dialog' = None
  /\ hasty \subseteq hasty' /\ hasty' \subseteq hasty \cup {page}
  /\ page \notin hasty' =>
       /\ Lists!Calm
       /\ ch.op = "edit" => \E x \in data[page], t \in Text : ch.entry = [x EXCEPT !.text = t]

\* What such an edit does, whatever becomes of it.
LEMMA EditBasics ==
  ASSUME ListsInv, NEW ch, NEW fits, Edit(ch, fits)
  PROVE  /\ ListBasics' /\ CalmForm'
         /\ UNCHANGED <<tauri, stored, answers, page, visit, crashes>>
         /\ Tidy(Lists!Edited(ch, data[page]), issued')
         /\ \A list : Tidy(list, issued) => Tidy(list, issued')
         /\ \A d : TidyData(d, issued) => TidyData(d, issued')
<1> USE DEF ListsInv
<1>1. /\ UNCHANGED <<tauri, stored, answers, page, visit, crashes>>
      /\ acts < MaxActs /\ acts' = acts + 1 /\ dialog' = None
      /\ tauri => error' = error
      /\ ~tauri => error' = FALSE
  BY DEF Edit, Lists!SaveList, Lists!Act
<1>2. acts' \in 0..MaxActs /\ visit' \in 0..acts'
  BY <1>1, KindAssumption DEF ListBasics
<1>3. hasty' \subseteq Lists!Kind
  BY DEF Edit, ListBasics
<1>4. issued' \in 0..MaxEntries
  BY DEF Edit
<1>5. error' \in BOOLEAN
  <2>1. CASE tauri
    BY <1>1, <2>1 DEF ListBasics
  <2>2. CASE ~tauri
    BY <1>1, <2>2
  <2> QED
    BY <2>1, <2>2
<1>6. ListBasics' /\ CalmForm'
  BY <1>1, <1>2, <1>3, <1>4, <1>5 DEF ListBasics, CalmForm
<1>7. Tidy(data[page], issued)
  BY DEF ListsTidy, TidyData, Edit
<1>8. Tidy(Lists!Edited(ch, data[page]), issued')
  BY <1>7, EditedIsTidy DEF Edit, ListBasics
<1>9. issued \in Nat
  BY KindAssumption DEF ListBasics
<1>10. /\ \A list : Tidy(list, issued) => Tidy(list, issued')
       /\ \A d : TidyData(d, issued) => TidyData(d, issued')
  BY <1>9, StaysTidy DEF Edit
<1> QED
  BY <1>1, <1>6, <1>8, <1>10

\* With a backend, the list goes into the queue.
LEMMA SentEditKeeps ==
  ASSUME ListsInv, tauri, NEW ch, NEW fits, Edit(ch, fits)
  PROVE  ListsInv'
<1> USE DEF ListsInv
<1> DEFINE save == [cmd |-> "save", visit |-> visit, kind |-> page,
                    list |-> Lists!Edited(ch, data[page]), fits |-> fits, change |-> ch]
<1>1. /\ ListBasics' /\ CalmForm'
      /\ UNCHANGED <<tauri, stored, answers, page, visit, crashes>>
      /\ Tidy(Lists!Edited(ch, data[page]), issued')
      /\ \A l : Tidy(l, issued) => Tidy(l, issued')
      /\ \A d : TidyData(d, issued) => TidyData(d, issued')
  BY EditBasics
<1>2. queue' = Append(queue, save) /\ UNCHANGED <<data, cached, error, wanted>>
  BY DEF Edit, Lists!SaveList
<1>3. /\ page \in Lists!Kind /\ page # None
      /\ hasty \subseteq hasty' /\ hasty' \subseteq hasty \cup {page}
  BY KindAssumption DEF Edit
<1>4. /\ save.cmd = "save" /\ save.visit = visit /\ save.kind = page
      /\ save.list = Lists!Edited(ch, data[page]) /\ save.change = ch
  OBVIOUS
<1>5. save \in Command
  <2>1. visit \in 1..MaxActs
    BY <1>3, KindAssumption DEF ListBasics
  <2>2. Lists!Edited(ch, data[page]) \in SUBSET Lists!Entry
    BY <1>1 DEF Tidy
  <2>3. ch \in Lists!Change /\ fits \in BOOLEAN
    BY DEF Edit
  <2>4. save \in Lists!SaveCall
    BY <1>3, <2>1, <2>2, <2>3 DEF Lists!SaveCall
  <2> QED
    BY <2>4 DEF Command
<1> HIDE DEF save
<1>6. queue' \in Seq(Command) /\ Longer(queue, save, queue')
  BY <1>2, <1>5, AppendIsLonger DEF Calls
<1>7. \A i \in DOMAIN queue' :
        \/ i \in DOMAIN queue /\ queue'[i] = queue[i]
        \/ i = Len(queue') /\ queue'[i] = save
  BY <1>6 DEF Longer
<1>8. page \notin hasty' =>
        /\ page \notin hasty /\ queue = <<>> /\ DOMAIN queue = {}
        /\ \A i \in DOMAIN answers : answers[i].visit # visit
        /\ data[page] = stored[page]
        /\ Lists!Edited(ch, data[page]) = Lists!Meant(ch, data[page])
  <2> SUFFICES ASSUME page \notin hasty'
               PROVE  /\ page \notin hasty /\ queue = <<>> /\ DOMAIN queue = {}
                      /\ \A i \in DOMAIN answers : answers[i].visit # visit
                      /\ data[page] = stored[page]
                      /\ Lists!Edited(ch, data[page]) = Lists!Meant(ch, data[page])
    OBVIOUS
  <2>1. ~Lists!Waiting /\ ~error
    BY DEF Edit, Lists!Calm
  <2>2. queue = <<>> /\ \A i \in DOMAIN answers : answers[i].visit # visit
    BY <1>3, <2>1, CalmIsIdle
  <2>3. page \notin hasty
    BY <1>3
  <2>4. DOMAIN queue = {}
    BY <2>2
  <2>5. data[page] = stored[page]
    BY <1>3, <2>1, <2>2, <2>3, <2>4 DEF CalmPage, Lists!Store
  <2>6. Lists!Edited(ch, data[page]) = Lists!Meant(ch, data[page])
    BY EditedIsMeant DEF Edit, ListsTidy, TidyData
  <2> QED
    BY <2>2, <2>3, <2>4, <2>5, <2>6
<1>9. ListsTidy'
  <2>1. \A i \in DOMAIN queue : queue[i].cmd = "save" => Tidy(queue[i].list, issued')
    BY <1>1 DEF ListsTidy
  <2>2. \A i \in DOMAIN queue' : queue'[i].cmd = "save" => Tidy(queue'[i].list, issued')
    BY <1>1, <1>4, <1>7, <2>1
  <2>3. \A i \in DOMAIN answers' : answers'[i].ok => TidyData(answers'[i].data, issued')
    BY <1>1 DEF ListsTidy
  <2> QED
    BY <1>1, <1>2, <2>2, <2>3 DEF ListsTidy
<1>10. Calls'
  <2>1. \A i \in DOMAIN queue' : queue'[i].visit <= visit'
    BY <1>1, <1>4, <1>7 DEF Calls, ListBasics
  <2>2. queue'[Len(queue')].visit = visit'
    BY <1>1, <1>4, <1>6 DEF Longer
  <2> QED
    BY <1>1, <1>6, <2>1, <2>2 DEF Calls
<1>11. SavesOfCalm'
  <2>1. \A k \in Lists!Kind \ hasty' : Lists!Store'[k] = wanted'[k]
    BY <1>1, <1>2, <1>3 DEF SavesOfCalm, Lists!Store
  <2>2. ASSUME NEW i \in DOMAIN queue', queue'[i].cmd = "save", queue'[i].kind \notin hasty'
        PROVE  /\ queue'[i].list = Lists!Meant(queue'[i].change, stored'[queue'[i].kind])
               /\ \A j \in DOMAIN queue' :
                    queue'[j].cmd = "save" /\ queue'[j].kind = queue'[i].kind => j = i
    <3>1. CASE page \notin hasty'
      BY <1>1, <1>4, <1>7, <1>8, <3>1
    <3>2. CASE page \in hasty'
      BY <1>1, <1>3, <1>4, <1>7, <2>2, <3>2 DEF SavesOfCalm
    <3> QED
      BY <3>1, <3>2
  <2> QED
    BY <2>1, <2>2 DEF SavesOfCalm
<1>12. CalmPage'
  <2> SUFFICES ASSUME page \notin hasty'
               PROVE  CalmPage'
    BY <1>1 DEF CalmPage
  <2>1. \A i \in DOMAIN queue' : i = Len(queue') /\ i = 1
    BY <1>6, <1>7, <1>8 DEF Longer
  <2>2. \A i \in DOMAIN answers' : answers'[i].visit # visit'
    BY <1>1, <1>8
  <2>3. data'[page'] = Lists!Store'[page']
    BY <1>1, <1>2, <1>8 DEF Lists!Store
  <2> QED
    BY <2>1, <2>2, <2>3 DEF CalmPage
<1>13. InBrowser'
  BY <1>1 DEF InBrowser
<1> QED
  BY <1>1, <1>9, <1>10, <1>11, <1>12, <1>13

\* Without one, into the cache.
LEMMA CachedEditKeeps ==
  ASSUME ListsInv, ~tauri, NEW ch, NEW fits, Edit(ch, fits)
  PROVE  ListsInv'
<1> USE DEF ListsInv
<1> DEFINE list == Lists!Edited(ch, data[page])
           meant == Lists!Meant(ch, wanted[page])
<1>1. /\ ListBasics' /\ CalmForm'
      /\ UNCHANGED <<tauri, stored, answers, page, visit, crashes>>
      /\ Tidy(list, issued')
      /\ \A l : Tidy(l, issued) => Tidy(l, issued')
      /\ \A d : TidyData(d, issued) => TidyData(d, issued')
  BY EditBasics
<1>2. /\ data' = [data EXCEPT ![page] = list] /\ cached' = data' /\ error' = FALSE
      /\ wanted' = [wanted EXCEPT ![page] = meant]
      /\ queue' = queue
  BY DEF Edit, Lists!SaveList, Lists!Remember
<1>3. /\ page \in Lists!Kind /\ page # None
      /\ hasty \subseteq hasty' /\ hasty' \subseteq hasty \cup {page}
  BY KindAssumption DEF Edit
<1>4. queue' = <<>> /\ answers' = <<>> /\ DOMAIN queue' = {} /\ DOMAIN answers' = {}
  BY <1>1, <1>2 DEF Calls
<1>5. data = cached
  BY <1>3 DEF InBrowser
<1>6. /\ data \in Lists!Data /\ wanted \in Lists!Data
      /\ list \in SUBSET Lists!Entry /\ meant \in SUBSET Lists!Entry
  <2>1. wanted[page] \in SUBSET Lists!Entry
    BY <1>3 DEF ListsTidy, Lists!Data
  <2>2. meant \in SUBSET Lists!Entry
    BY <2>1, MeantIsTyped DEF Edit
  <2> QED
    BY <1>1, <2>2 DEF ListsTidy, TidyData, Tidy
<1>7. page \notin hasty' => page \notin hasty /\ list = Lists!Meant(ch, data[page])
  BY <1>3, EditedIsMeant DEF Edit, ListsTidy, TidyData
<1> HIDE DEF list, meant
<1>8. ListsTidy'
  <2>1. data' \in Lists!Data /\ wanted' \in Lists!Data
    BY <1>2, <1>6 DEF Lists!Data
  <2>2. \A k \in Lists!Kind : data'[k] = IF k = page THEN list ELSE data[k]
    BY <1>2, <1>6 DEF Lists!Data
  <2>3. TidyData(stored, issued') /\ TidyData(data, issued')
    BY <1>1 DEF ListsTidy
  <2>4. TidyData(data', issued')
    BY <1>1, <2>1, <2>2, <2>3 DEF TidyData
  <2> QED
    BY <1>1, <1>2, <1>4, <2>1, <2>3, <2>4 DEF ListsTidy
<1>9. Calls'
  BY <1>1, <1>4 DEF Calls
<1>10. SavesOfCalm'
  <2>1. ASSUME NEW k \in Lists!Kind \ hasty'
        PROVE  Lists!Store'[k] = wanted'[k]
    <3>1. /\ Lists!Store'[k] = (IF k = page THEN list ELSE data[k])
          /\ wanted'[k] = (IF k = page THEN meant ELSE wanted[k])
      BY <1>1, <1>2, <1>6 DEF Lists!Data, Lists!Store
    <3>2. data[k] = wanted[k]
      BY <1>3, <1>5 DEF SavesOfCalm, Lists!Store
    <3> QED
      BY <1>7, <3>1, <3>2 DEF meant
  <2> QED
    BY <1>4, <2>1 DEF SavesOfCalm
<1>11. CalmPage' /\ InBrowser'
  BY <1>1, <1>2, <1>4 DEF CalmPage, InBrowser, Lists!Store
<1> QED
  BY <1>1, <1>8, <1>9, <1>10, <1>11

LEMMA EditKeepsLists ==
  ASSUME ListsInv, NEW ch, NEW fits, Edit(ch, fits)
  PROVE  ListsInv'
BY SentEditKeeps, CachedEditKeeps

\* Every action of a page that saves is such an edit.
LEMMA FormIsEdit ==
  ASSUME ListsInv, NEW fits \in BOOLEAN, page \in Lists!Kind, Lists!SaveForm(fits)
  PROVE  \E ch : Edit(ch, fits)
<1> USE DEF ListsInv
<1>1. /\ dialog # None /\ dialog \in Lists!Form /\ dialog' = None /\ Lists!Act
  BY DEF Lists!SaveForm, ListBasics
<1>2. issued \in Nat /\ MaxEntries \in Nat /\ issued \in 0..MaxEntries
  BY KindAssumption DEF ListBasics
<1>3. PICK t \in Text :
        \/ /\ dialog.op = "create" /\ issued < MaxEntries
           /\ Lists!SaveList([op |-> "create",
                        entry |-> [id |-> issued + 1, text |-> t, active |-> TRUE]], fits)
           /\ issued' = issued + 1
           /\ Lists!Rushed
        \/ /\ dialog.op = "edit"
           /\ Lists!SaveList([op |-> "edit", entry |-> [dialog.entry EXCEPT !.text = t]], fits)
           /\ hasty' = IF Lists!Calm /\ ~dialog.hasty THEN hasty ELSE hasty \cup {page}
           /\ UNCHANGED issued
  BY DEF Lists!SaveForm
<1>4. CASE dialog.op = "create"
  <2> DEFINE ch == [op |-> "create", entry |-> [id |-> issued + 1, text |-> t, active |-> TRUE]]
  <2>1. issued < MaxEntries /\ Lists!SaveList(ch, fits) /\ issued' = issued + 1 /\ Lists!Rushed
    BY <1>3, <1>4
  <2>2. issued' \in 0..MaxEntries /\ issued + 1 \in Lists!Id
    BY <1>2, <2>1 DEF Lists!Id
  <2>3. ch \in Lists!Change
    BY <2>2 DEF Lists!Change, Lists!Entry
  <2>4. ch.op = "create" /\ ch.entry.id = issued'
    BY <2>1
  <2> HIDE DEF ch
  <2>5. /\ hasty \subseteq hasty' /\ hasty' \subseteq hasty \cup {page}
        /\ page \notin hasty' => Lists!Calm
    BY <2>1 DEF Lists!Rushed
  <2>6. Edit(ch, fits)
    BY <1>1, <2>1, <2>2, <2>3, <2>4, <2>5 DEF Edit
  <2> QED
    BY <2>6
<1>5. CASE dialog.op = "edit"
  <2> DEFINE ch == [op |-> "edit", entry |-> [dialog.entry EXCEPT !.text = t]]
  <2>1. /\ Lists!SaveList(ch, fits) /\ issued' = issued
        /\ hasty' = IF Lists!Calm /\ ~dialog.hasty THEN hasty ELSE hasty \cup {page}
    BY <1>3, <1>5
  <2>2. dialog.entry \in Lists!Entry
    BY <1>1, <1>5 DEF Lists!Form
  <2>3. ch \in Lists!Change
    BY <2>2 DEF Lists!Change, Lists!Entry
  <2>4. ch.op = "edit" /\ ch.entry = [dialog.entry EXCEPT !.text = t]
    OBVIOUS
  <2> HIDE DEF ch
  <2>5. /\ hasty \subseteq hasty' /\ hasty' \subseteq hasty \cup {page}
        /\ page \notin hasty' => Lists!Calm /\ ~dialog.hasty
    BY <2>1
  <2>6. page \notin hasty' => \E x \in data[page], u \in Text : ch.entry = [x EXCEPT !.text = u]
    BY <1>1, <1>5, <2>4, <2>5 DEF CalmForm
  <2>7. Edit(ch, fits)
    BY <1>1, <1>2, <2>1, <2>3, <2>4, <2>5, <2>6 DEF Edit
  <2> QED
    BY <2>7
<1> QED
  BY <1>3, <1>4, <1>5

LEMMA TickIsEdit ==
  ASSUME ListsInv, page \in Lists!Kind, Lists!Delete \/ Lists!ToggleActive
  PROVE  \E ch : Edit(ch, TRUE)
<1> USE DEF ListsInv
<1>1. /\ Lists!Act /\ Lists!Rushed /\ dialog' = None /\ issued' = issued
  BY DEF Lists!Delete, Lists!ToggleActive
<1>2. PICK op \in {"delete", "toggle"}, x \in data[page] :
        Lists!SaveList([op |-> op, entry |-> x], TRUE)
  BY DEF Lists!Delete, Lists!ToggleActive
<1> DEFINE ch == [op |-> op, entry |-> x]
<1>3. x \in Lists!Entry
  BY DEF ListsTidy, TidyData, Tidy
<1>4. ch \in Lists!Change /\ ch.op \notin {"create", "edit"}
  BY <1>3 DEF Lists!Change
<1> HIDE DEF ch
<1>5. /\ hasty \subseteq hasty' /\ hasty' \subseteq hasty \cup {page}
      /\ page \notin hasty' => Lists!Calm
  BY <1>1 DEF Lists!Rushed
<1>6. Lists!SaveList(ch, TRUE)
  BY <1>2 DEF ch
<1>7. Edit(ch, TRUE)
  BY <1>1, <1>4, <1>5, <1>6 DEF Edit, ListBasics
<1> QED
  BY <1>7

-----------------------------------------------------------------------------
(* The main thread takes the first command and answers it.                 *)

\* What an answer does to the lists: only a save that succeeds changes them.
Served(answer) ==
  /\ answer.ok => answer.data = stored'
  /\ IF answer.ok /\ answer.cmd = "save"
     THEN /\ stored' = [stored EXCEPT ![Head(queue).kind] = Head(queue).list]
          /\ wanted' = [wanted EXCEPT ![Head(queue).kind] = Lists!Meant(Head(queue).change, @)]
     ELSE UNCHANGED <<stored, wanted>>

Answer(answer) ==
  /\ queue # <<>> /\ answer \in Lists!Answers
  /\ answer.cmd = Head(queue).cmd /\ answer.visit = Head(queue).visit
  /\ Lists!Answered(answer) /\ Served(answer)

\* The lists after it, one by one.
LEMMA ServedLists ==
  ASSUME ListsInv, NEW answer, Answer(answer)
  PROVE  /\ TidyData(stored', issued) /\ wanted' \in Lists!Data
         /\ \A k \in Lists!Kind :
              \/ stored'[k] = stored[k] /\ wanted'[k] = wanted[k]
              \/ /\ answer.ok /\ queue[1].cmd = "save" /\ queue[1].kind = k
                 /\ stored'[k] = queue[1].list
                 /\ wanted'[k] = Lists!Meant(queue[1].change, wanted[k])
<1> USE DEF ListsInv
<1>1. /\ 1 \in DOMAIN queue /\ Head(queue) = queue[1] /\ queue[1] \in Command
      /\ answer.cmd = queue[1].cmd
  BY TailIsShorter DEF Calls, Answer
<1>2. TidyData(stored, issued) /\ wanted \in Lists!Data
  BY DEF ListsTidy
<1>3. CASE ~(answer.ok /\ answer.cmd = "save")
  <2>1. stored' = stored /\ wanted' = wanted
    BY <1>3 DEF Answer, Served
  <2> QED
    BY <1>2, <2>1
<1>4. CASE answer.ok /\ answer.cmd = "save"
  <2> DEFINE h == queue[1]
             meant == Lists!Meant(h.change, wanted[h.kind])
  <2>1. /\ stored' = [stored EXCEPT ![h.kind] = h.list]
        /\ wanted' = [wanted EXCEPT ![h.kind] = meant]
    BY <1>1, <1>4 DEF Answer, Served
  <2>2. /\ h.cmd = "save" /\ h.kind \in Lists!Kind /\ h.change \in Lists!Change
        /\ Tidy(h.list, issued)
    BY <1>1, <1>4, CommandFacts DEF ListsTidy
  <2>3. wanted[h.kind] \in SUBSET Lists!Entry
    BY <1>2, <2>2 DEF Lists!Data
  <2>4. meant \in SUBSET Lists!Entry
    BY <2>2, <2>3, MeantIsTyped
  <2>5. stored \in Lists!Data /\ h.list \in SUBSET Lists!Entry
    BY <1>2, <2>2 DEF TidyData, Tidy
  <2>6. \A k \in Lists!Kind : /\ stored'[k] = IF k = h.kind THEN h.list ELSE stored[k]
                              /\ wanted'[k] = IF k = h.kind THEN meant ELSE wanted[k]
    BY <1>2, <2>1, <2>5 DEF Lists!Data
  <2>7. stored' \in Lists!Data /\ wanted' \in Lists!Data
    BY <1>2, <2>1, <2>4, <2>5 DEF Lists!Data
  <2>8. TidyData(stored', issued)
    BY <1>2, <2>2, <2>6, <2>7 DEF TidyData
  <2> QED
    BY <1>4, <2>2, <2>6, <2>7, <2>8
<1> QED
  BY <1>3, <1>4

LEMMA AnswerKeepsLists ==
  ASSUME ListsInv, NEW answer, Answer(answer)
  PROVE  ListsInv'
<1> USE DEF ListsInv
<1> DEFINE h == queue[1]
<1>1. /\ answers' = Append(answers, answer) /\ queue' = Tail(queue)
      /\ UNCHANGED <<tauri, page, visit, data, error, dialog, cached, acts, crashes, issued,
                     hasty>>
  BY DEF Answer, Lists!Answered
<1>2. /\ 1 \in DOMAIN queue /\ Head(queue) = h /\ h \in Command
      /\ queue' \in Seq(Command) /\ Shorter(queue, queue')
  BY <1>1, TailIsShorter DEF Calls, Answer
<1>3. /\ answer \in Lists!Answers /\ answer.cmd = h.cmd /\ answer.visit = h.visit
      /\ answer.ok => answer.data = stored'
  BY <1>2 DEF Answer, Served
<1>4. answers' \in Seq(Lists!Answers) /\ Longer(answers, answer, answers')
  BY <1>1, <1>3, AppendIsLonger DEF Calls
<1>5. tauri
  BY DEF Calls, Answer
<1>6. /\ \A i \in DOMAIN queue' :
           i \in Nat \ {0} /\ i + 1 \in DOMAIN queue /\ queue'[i] = queue[i + 1]
      /\ Len(queue') \in Nat /\ Len(queue) = Len(queue') + 1
      /\ queue' = <<>> <=> Len(queue) = 1
      /\ queue' # <<>> => Len(queue') \in DOMAIN queue'
  BY <1>2 DEF Shorter
<1>7. \A i \in DOMAIN answers' :
        \/ i \in DOMAIN answers /\ answers'[i] = answers[i]
        \/ i = Len(answers') /\ answers'[i] = answer
  BY <1>4 DEF Longer
<1>8. /\ TidyData(stored', issued) /\ wanted' \in Lists!Data
      /\ \A k \in Lists!Kind :
           \/ stored'[k] = stored[k] /\ wanted'[k] = wanted[k]
           \/ /\ answer.ok /\ h.cmd = "save" /\ h.kind = k
              /\ stored'[k] = h.list
              /\ wanted'[k] = Lists!Meant(h.change, wanted[k])
  BY ServedLists
<1>9. /\ \A i \in DOMAIN queue : queue[i] \in Command /\ queue[i].cmd \in {"load", "save"}
      /\ answer.ok \in BOOLEAN
  BY <1>3, CallFacts, AnswerFacts
<1> HIDE DEF h
<1>10. ListBasics'
  BY <1>1 DEF ListBasics
<1>11. ListsTidy'
  <2>1. \A i \in DOMAIN queue' : queue'[i].cmd = "save" => Tidy(queue'[i].list, issued)
    BY <1>6 DEF ListsTidy
  <2>2. \A i \in DOMAIN answers' : answers'[i].ok => TidyData(answers'[i].data, issued)
    BY <1>3, <1>7, <1>8 DEF ListsTidy
  <2> QED
    BY <1>1, <1>8, <2>1, <2>2 DEF ListsTidy
<1>12. Calls'
  <2>1. \A i \in DOMAIN queue' : queue'[i].visit <= visit
    BY <1>6 DEF Calls
  <2>2. h.visit <= visit
    BY <1>2 DEF Calls, h
  <2>3. \A i \in DOMAIN answers' : answers'[i].visit <= visit
    BY <1>3, <1>7, <2>2 DEF Calls
  <2>4. page # None /\ queue' # <<>> => queue'[Len(queue')].visit = visit
    BY <1>2, <1>6 DEF Calls, Answer
  <2> QED
    BY <1>1, <1>2, <1>4, <1>5, <2>1, <2>3, <2>4 DEF Calls
<1>13. SavesOfCalm'
  <2>1. h.cmd = "save" /\ h.kind \notin hasty =>
          /\ h.list = Lists!Meant(h.change, stored[h.kind])
          /\ \A j \in DOMAIN queue : queue[j].cmd = "save" /\ queue[j].kind = h.kind => j = 1
    BY <1>2 DEF SavesOfCalm, h
  <2>2. ASSUME NEW k \in Lists!Kind \ hasty
        PROVE  stored'[k] = wanted'[k]
    <3>1. stored[k] = wanted[k]
      BY <1>5 DEF SavesOfCalm, Lists!Store
    <3> QED
      BY <1>8, <2>1, <3>1
  <2>3. ASSUME NEW i \in DOMAIN queue', queue'[i].cmd = "save", queue'[i].kind \notin hasty
        PROVE  /\ queue'[i].list = Lists!Meant(queue'[i].change, stored'[queue'[i].kind])
               /\ \A j \in DOMAIN queue' :
                    queue'[j].cmd = "save" /\ queue'[j].kind = queue'[i].kind => j = i
    <3>1. /\ i + 1 \in DOMAIN queue /\ queue'[i] = queue[i + 1] /\ i + 1 # 1
          /\ queue[i + 1].kind \in Lists!Kind
      BY <1>6, <1>9, <2>3, CommandFacts
    <3>2. ~(h.cmd = "save" /\ h.kind = queue[i + 1].kind)
      BY <2>1, <2>3, <3>1
    <3>3. stored'[queue[i + 1].kind] = stored[queue[i + 1].kind]
      BY <1>8, <3>1, <3>2
    <3>4. queue'[i].list = Lists!Meant(queue'[i].change, stored'[queue'[i].kind])
      BY <2>3, <3>1, <3>3 DEF SavesOfCalm
    <3>5. ASSUME NEW j \in DOMAIN queue', queue'[j].cmd = "save", queue'[j].kind = queue'[i].kind
          PROVE  j = i
      <4>1. j + 1 \in DOMAIN queue /\ queue'[j] = queue[j + 1]
        BY <1>6
      <4>2. j + 1 = i + 1
        BY <2>3, <3>1, <3>5, <4>1 DEF SavesOfCalm
      <4> QED
        BY <1>6, <4>2
    <3> QED
      BY <3>4, <3>5
  <2> QED
    BY <1>1, <1>5, <2>2, <2>3 DEF SavesOfCalm, Lists!Store
<1>14. CalmPage'
  <2> SUFFICES ASSUME page \in Lists!Kind \ hasty
               PROVE  CalmPage'
    BY <1>1 DEF CalmPage
  <2>1. /\ \A i \in DOMAIN queue : queue[i].visit = visit =>
             i = Len(queue) /\ (queue[i].cmd = "save" => i = 1)
        /\ \A i \in DOMAIN answers : answers[i].visit # visit
    BY DEF CalmPage, Answer
  <2>2. \A i \in DOMAIN queue' : queue'[i].visit = visit =>
          i = Len(queue') /\ queue'[i].cmd # "save"
    BY <1>6, <2>1
  <2>3. \A i \in DOMAIN answers' : answers'[i].visit = visit =>
          i = Len(answers') /\ answers'[i] = answer /\ h.visit = visit
    BY <1>3, <1>7, <2>1
  <2>4. h.visit = visit => Len(queue) = 1 /\ queue' = <<>>
    BY <1>2, <1>6, <2>1 DEF h
  <2>5. \/ error
        \/ data[page] = stored'[page]
        \/ \E i \in DOMAIN queue' : queue'[i].visit = visit /\ queue'[i].cmd = "load"
        \/ \E i \in DOMAIN answers' :
             answers'[i].visit = visit /\ (answers'[i].cmd = "load" \/ answers'[i].ok)
    <3>1. CASE h.visit = visit
      <4>1. Len(answers') \in DOMAIN answers' /\ answers'[Len(answers')] = answer
        BY <1>4 DEF Longer
      <4>2. CASE h.cmd = "load" \/ answer.ok
        BY <1>3, <3>1, <4>1, <4>2
      <4>3. CASE h.cmd = "save" /\ ~answer.ok
        <5>1. stored'[page] = stored[page]
          BY <1>8, <4>3
        <5>2. \A i \in DOMAIN queue : queue[i].visit = visit => queue[i].cmd = "save"
          BY <2>1, <2>4, <3>1, <4>3 DEF h
        <5>3. error \/ data[page] = stored[page]
          BY <1>5, <2>1, <5>2 DEF CalmPage, Lists!Store
        <5> QED
          BY <5>1, <5>3
      <4> QED
        BY <1>2, <1>9, <4>2, <4>3 DEF h
    <3>2. CASE h.visit # visit
      <4>1. /\ Len(queue) \in DOMAIN queue /\ queue[Len(queue)].visit = visit
        BY <1>6, KindAssumption, LenProperties, EmptySeq DEF Calls, Answer
      <4>2. Len(queue) # 1 /\ queue[Len(queue)].cmd = "load"
        BY <1>9, <2>1, <3>2, <4>1 DEF h
      <4>3. Len(queue') \in DOMAIN queue' /\ queue'[Len(queue')] = queue[Len(queue)]
        BY <1>6, <4>2
      <4> QED
        BY <4>1, <4>2, <4>3
    <3> QED
      BY <3>1, <3>2
  <2> QED
    BY <1>1, <1>3, <1>5, <2>2, <2>3, <2>4, <2>5 DEF CalmPage, Lists!Store
<1>15. InBrowser'
  BY <1>1, <1>5 DEF InBrowser
<1>16. CalmForm'
  <2> SUFFICES ASSUME dialog # None, dialog.op = "edit"
               PROVE  dialog.hasty
    BY <1>1 DEF CalmForm
  <2>1. page # None
    BY DEF ListBasics
  <2>2. Lists!Waiting
    BY <2>1, CalmIsIdle DEF Answer
  <2> QED
    BY <2>2 DEF CalmForm
<1> QED
  BY <1>10, <1>11, <1>12, <1>13, <1>14, <1>15, <1>16

LEMMA ServeKeepsLists ==
  ASSUME ListsInv, Lists!ServeLoad \/ Lists!ServeSave \/ Lists!Refuse
  PROVE  ListsInv'
<1> USE DEF ListsInv
<1>1. queue # <<>> /\ Head(queue) \in Command /\ stored \in Lists!Data
  BY TailIsShorter DEF Calls, Lists!ServeLoad, Lists!ServeSave, Lists!Refuse, ListsTidy, TidyData
<1> DEFINE h == Head(queue)
<1>2. h.visit \in 1..MaxActs /\ h.cmd \in {"load", "save"}
  BY <1>1, CommandFacts
<1>3. CASE Lists!ServeLoad
  <2> DEFINE a == [ok |-> TRUE, cmd |-> "load", visit |-> h.visit, data |-> stored]
  <2>1. h.cmd = "load" /\ Lists!Answered(a) /\ UNCHANGED <<stored, wanted>>
    BY <1>3 DEF Lists!ServeLoad
  <2>2. a \in Lists!Answers
    BY <1>1, <1>2 DEF Lists!Answers
  <2>3. a.cmd = "load" /\ a.visit = h.visit /\ a.data = stored
    OBVIOUS
  <2> HIDE DEF a
  <2>4. Answer(a)
    BY <1>1, <2>1, <2>2, <2>3 DEF Answer, Served
  <2> QED
    BY <2>4, AnswerKeepsLists
<1>4. CASE Lists!ServeSave
  <2> DEFINE a == [ok |-> TRUE, cmd |-> "save", visit |-> h.visit, data |-> stored']
  <2>1. /\ h.cmd = "save" /\ Lists!Answered(a)
        /\ stored' = [stored EXCEPT ![h.kind] = h.list]
        /\ wanted' = [wanted EXCEPT ![h.kind] = Lists!Meant(h.change, @)]
    BY <1>4 DEF Lists!ServeSave
  <2>2. h.list \in SUBSET Lists!Entry
    BY <1>1, <2>1, CommandFacts
  <2>3. stored' \in Lists!Data
    BY <1>1, <2>1, <2>2 DEF Lists!Data
  <2>4. a \in Lists!Answers
    BY <1>2, <2>3 DEF Lists!Answers
  <2>5. a.ok = TRUE /\ a.cmd = "save" /\ a.visit = h.visit /\ a.data = stored'
    OBVIOUS
  <2> HIDE DEF a
  <2>6. Answer(a)
    BY <1>1, <2>1, <2>4, <2>5 DEF Answer, Served
  <2> QED
    BY <2>6, AnswerKeepsLists
<1>5. CASE Lists!Refuse
  <2> DEFINE a == [ok |-> FALSE, cmd |-> h.cmd, visit |-> h.visit]
  <2>1. Lists!Answered(a) /\ UNCHANGED <<stored, wanted>>
    BY <1>5 DEF Lists!Refuse
  <2>2. a \in Lists!Answers
    BY <1>2 DEF Lists!Answers
  <2>3. a.ok = FALSE /\ a.cmd = h.cmd /\ a.visit = h.visit
    OBVIOUS
  <2> HIDE DEF a
  <2>4. Answer(a)
    BY <1>1, <2>1, <2>2, <2>3 DEF Answer, Served
  <2> QED
    BY <2>4, AnswerKeepsLists
<1> QED
  BY <1>3, <1>4, <1>5

-----------------------------------------------------------------------------
(* An answer reaches the page, or after it was left only the cache.        *)

Current(i) == page # None /\ answers[i].visit = visit

\* What taking answer i does to the rest.
Take(i) ==
  /\ i \in DOMAIN answers /\ answers' = Lists!RemoveAt(answers, i)
  /\ UNCHANGED <<tauri, stored, queue, page, visit, dialog, acts, issued, hasty, crashes, wanted>>
  /\ ~Current(i) => data' = data
  /\ TidyData(data', issued) /\ TidyData(cached', issued) /\ error' \in BOOLEAN

\* At most one answer is of this visit.
Alone ==
  \A j, k \in DOMAIN answers : answers[j].visit = visit /\ answers[k].visit = visit => j = k

LEMMA TakeKeeps ==
  ASSUME ListsInv, NEW i, Take(i)
  PROVE  /\ ListBasics' /\ ListsTidy' /\ Calls' /\ SavesOfCalm' /\ InBrowser' /\ CalmForm'
         /\ tauri /\ (Alone => Alone')
         /\ \A j \in DOMAIN answers' : \E k \in DOMAIN answers : k # i /\ answers'[j] = answers[k]
         /\ \A k \in DOMAIN answers : k = i \/ \E j \in DOMAIN answers' : answers'[j] = answers[k]
<1> USE DEF ListsInv
<1>1. /\ UNCHANGED <<tauri, stored, queue, page, visit, dialog, acts, issued, hasty, crashes,
                     wanted>>
      /\ ~Current(i) => data' = data
      /\ TidyData(data', issued) /\ TidyData(cached', issued) /\ error' \in BOOLEAN
      /\ i \in DOMAIN answers
  BY DEF Take
<1>2. answers' = RemoveAt(answers, i)
  BY SameRemoval DEF Take
<1>3. answers' \in Seq(Lists!Answers) /\ Without(answers, i, answers')
  BY <1>1, <1>2, LeftOver DEF Calls
<1>4. \A j \in DOMAIN answers' : \E k \in DOMAIN answers : k # i /\ answers'[j] = answers[k]
  BY <1>3 DEF Without
<1>5. Keeps(answers, i, answers')
  BY <1>1, <1>2, OthersAreLeft DEF Calls
<1>6. \A k \in DOMAIN answers : k = i \/ \E j \in DOMAIN answers' : answers'[j] = answers[k]
  BY <1>5 DEF Keeps
<1>7. tauri
  BY <1>1 DEF Calls
<1>8. ListBasics'
  BY <1>1 DEF ListBasics
<1>9. ListsTidy'
  BY <1>1, <1>4 DEF ListsTidy
<1>10. Calls'
  BY <1>1, <1>3, <1>4, <1>7 DEF Calls
<1>11. SavesOfCalm'
  BY <1>1, <1>7 DEF SavesOfCalm, Lists!Store
<1>12. InBrowser'
  BY <1>1, <1>7 DEF InBrowser
<1>13. CalmForm'
  <2> SUFFICES ASSUME dialog # None, dialog.op = "edit", ~dialog.hasty
               PROVE  ~Lists!Waiting' /\ dialog.entry \in data'[page]
    BY <1>1 DEF CalmForm
  <2>1. ~Lists!Waiting /\ dialog.entry \in data[page]
    BY DEF CalmForm
  <2>2. ~Current(i)
    BY <1>1, <2>1 DEF Lists!Waiting, Current
  <2>3. ~Lists!Waiting'
    BY <1>1, <1>4, <2>1 DEF Lists!Waiting
  <2> QED
    BY <1>1, <2>1, <2>2, <2>3
<1>14. Alone => Alone'
  <2>1. \A j1, j2 \in DOMAIN answers' : j1 # j2 =>
          \E k1, k2 \in DOMAIN answers :
            k1 # k2 /\ answers'[j1] = answers[k1] /\ answers'[j2] = answers[k2]
    BY <1>3 DEF Without
  <2> QED
    BY <1>1, <2>1 DEF Alone
<1> QED
  BY <1>4, <1>6, <1>7, <1>8, <1>9, <1>10, <1>11, <1>12, <1>13, <1>14

LEMMA GoodNewsKeepsLists ==
  ASSUME ListsInv, NEW i \in DOMAIN answers, Lists!TakeSaved(i) \/ Lists!TakeLoaded(i)
  PROVE  ListsInv'
<1> USE DEF ListsInv
<1>1. /\ answers[i].ok /\ answers' = Lists!RemoveAt(answers, i) /\ cached' = answers[i].data
      /\ UNCHANGED <<tauri, stored, queue, page, visit, dialog, acts, issued, hasty, crashes,
                     wanted>>
      /\ Current(i) => data' = answers[i].data
      /\ ~Current(i) => data' = data
  BY DEF Lists!TakeSaved, Lists!TakeLoaded, Lists!Remember, Lists!ghosts, Current
<1>2. error' = error \/ (error' = FALSE /\ Current(i))
  <2>1. CASE Lists!TakeSaved(i)
    BY <2>1 DEF Lists!TakeSaved, Current
  <2>2. CASE Lists!TakeLoaded(i)
    BY <2>2 DEF Lists!TakeLoaded
  <2> QED
    BY <2>1, <2>2
<1>3. error' \in BOOLEAN
  BY <1>2, Zenon DEF ListBasics
<1>4. TidyData(data, issued) /\ TidyData(answers[i].data, issued)
  BY <1>1 DEF ListsTidy
<1>5. TidyData(data', issued)
  BY <1>1, <1>4
<1>6. Take(i)
  BY <1>1, <1>3, <1>4, <1>5 DEF Take
<1>7. /\ ListBasics' /\ ListsTidy' /\ Calls' /\ SavesOfCalm' /\ InBrowser' /\ CalmForm'
      /\ tauri /\ (Alone => Alone')
      /\ \A j \in DOMAIN answers' : \E k \in DOMAIN answers : k # i /\ answers'[j] = answers[k]
      /\ \A k \in DOMAIN answers : k = i \/ \E j \in DOMAIN answers' : answers'[j] = answers[k]
  BY <1>6, TakeKeeps
<1>8. CalmPage'
  <2> SUFFICES ASSUME page \in Lists!Kind \ hasty
               PROVE  CalmPage'
    BY <1>1 DEF CalmPage
  <2>1. page # None
    BY KindAssumption
  <2>2. CASE Current(i)
    <3>1. /\ queue = <<>> /\ DOMAIN queue = {}
          /\ \A j \in DOMAIN answers : answers[j].visit = visit => j = i
          /\ answers[i].data[page] = stored[page]
      BY <1>1, <2>2 DEF CalmPage, Current
    <3>2. \A j \in DOMAIN answers' : answers'[j].visit # visit
      BY <1>7, <3>1
    <3>3. data'[page] = stored[page]
      BY <1>1, <2>2, <3>1
    <3> QED
      BY <1>1, <1>7, <3>1, <3>2, <3>3 DEF CalmPage, Lists!Store
  <2>3. CASE ~Current(i)
    <3>1. answers[i].visit # visit /\ data' = data /\ (error' <=> error)
      BY <1>1, <1>2, <2>1, <2>3 DEF Current
    <3>2. Alone'
      BY <1>7 DEF CalmPage, Alone
    <3>3. ASSUME NEW j \in DOMAIN answers', answers'[j].visit = visit
          PROVE  queue = <<>> /\ (answers'[j].ok => answers'[j].data[page] = stored[page])
      BY <1>7, <3>3 DEF CalmPage
    <3>4. \/ error
          \/ data[page] = stored[page]
          \/ \E j \in DOMAIN queue : queue[j].visit = visit /\ queue[j].cmd = "load"
          \/ \E j \in DOMAIN answers' :
               answers'[j].visit = visit /\ (answers'[j].cmd = "load" \/ answers'[j].ok)
      BY <1>7, <3>1 DEF CalmPage, Lists!Store
    <3> QED
      BY <1>1, <1>7, <3>1, <3>2, <3>3, <3>4 DEF CalmPage, Lists!Store, Alone
  <2> QED
    BY <2>2, <2>3
<1> QED
  BY <1>7, <1>8

LEMMA BadNewsKeepsLists ==
  ASSUME ListsInv, NEW i \in DOMAIN answers, Lists!TakeRefusal(i)
  PROVE  ListsInv'
<1> USE DEF ListsInv
<1>1. /\ ~answers[i].ok /\ answers' = Lists!RemoveAt(answers, i)
      /\ UNCHANGED <<tauri, stored, queue, page, visit, data, cached, dialog, acts, issued, hasty,
                     crashes, wanted>>
  BY DEF Lists!TakeRefusal, Lists!ghosts
<1>2. error' = (error \/ (Current(i) /\ answers[i].cmd = "load"))
  BY DEF Lists!TakeRefusal, Current
<1>3. error' \in BOOLEAN
  BY <1>2, Zenon DEF ListBasics
<1>4. TidyData(data', issued) /\ TidyData(cached', issued)
  BY <1>1 DEF ListsTidy
<1>5. Take(i)
  BY <1>1, <1>3, <1>4 DEF Take
<1>6. /\ ListBasics' /\ ListsTidy' /\ Calls' /\ SavesOfCalm' /\ InBrowser' /\ CalmForm'
      /\ tauri /\ (Alone => Alone')
      /\ \A j \in DOMAIN answers' : \E k \in DOMAIN answers : k # i /\ answers'[j] = answers[k]
      /\ \A k \in DOMAIN answers : k = i \/ \E j \in DOMAIN answers' : answers'[j] = answers[k]
  BY <1>5, TakeKeeps
<1>7. CalmPage'
  <2> SUFFICES ASSUME page \in Lists!Kind \ hasty
               PROVE  CalmPage'
    BY <1>1 DEF CalmPage
  <2>1. page # None
    BY KindAssumption
  <2>2. Alone'
    BY <1>6 DEF CalmPage, Alone
  <2>3. ASSUME NEW j \in DOMAIN answers', answers'[j].visit = visit
        PROVE  queue = <<>> /\ (answers'[j].ok => answers'[j].data[page] = stored[page])
    BY <1>6, <2>3 DEF CalmPage
  <2>4. \/ error'
        \/ data[page] = stored[page]
        \/ \E j \in DOMAIN queue : queue[j].visit = visit /\ queue[j].cmd = "load"
        \/ \E j \in DOMAIN answers' :
             answers'[j].visit = visit /\ (answers'[j].cmd = "load" \/ answers'[j].ok)
    <3>1. error => error'
      BY <1>2, Zenon
    <3>2. answers[i].visit = visit /\ answers[i].cmd = "load" => error'
      BY <1>2, <2>1, Zenon DEF Current
    <3> QED
      BY <1>1, <1>6, <3>1, <3>2 DEF CalmPage, Lists!Store
  <2> QED
    BY <1>1, <1>6, <2>2, <2>3, <2>4 DEF CalmPage, Lists!Store, Alone
<1> QED
  BY <1>6, <1>7

-----------------------------------------------------------------------------
LEMMA ListsStart == ASSUME DesktopInit PROVE ListsInv
<1>1. /\ tauri \in BOOLEAN
      /\ stored = Lists!Empty /\ queue = <<>> /\ answers = <<>> /\ page = None /\ visit = 0
      /\ data = Lists!Empty /\ error = FALSE /\ dialog = None /\ cached = Lists!Empty
      /\ acts = 0 /\ crashes = 0 /\ issued = 0 /\ wanted = Lists!Empty /\ hasty = {}
  BY DEF DesktopInit, Lists!Init
<1>2. <<>> \in Seq(Command) /\ <<>> \in Seq(Lists!Answers) /\ DOMAIN <<>> = {}
  OBVIOUS
<1>3. ListBasics
  <2>1. /\ acts \in 0..MaxActs /\ visit \in 0..acts
        /\ crashes \in 0..MaxCrashes /\ issued \in 0..MaxEntries
    BY <1>1, KindAssumption
  <2>2. error \in BOOLEAN
    BY <1>1, Zenon
  <2> QED
    BY <1>1, <2>1, <2>2, Zenon DEF ListBasics
<1>4. TidyData(Lists!Empty, 0) /\ Lists!Empty \in Lists!Data
  BY EmptyIsTidy DEF TidyData
<1>5. ListsTidy
  BY <1>1, <1>2, <1>4 DEF ListsTidy
<1>6. Calls
  BY <1>1, <1>2 DEF Calls
<1>7. SavesOfCalm
  BY <1>1, <1>2 DEF SavesOfCalm, Lists!Store
<1>8. CalmPage /\ InBrowser /\ CalmForm
  BY <1>1, KindAssumption DEF CalmPage, InBrowser, CalmForm
<1> QED
  BY <1>3, <1>5, <1>6, <1>7, <1>8 DEF ListsInv

LEMMA ListsStep ==
  ASSUME ListsInv, Lists!Next
  PROVE  ListsInv'
<1>1. CASE \E k \in Lists!Kind : Lists!Mount(k)
  BY <1>1, MountPageKeeps
<1>2. CASE Lists!Unmount
  BY <1>2, LeavePageKeeps
<1>3. CASE \/ Lists!SnippetList \/ Lists!SnippetDialog \/ Lists!KeyList \/ Lists!KeyDialog
           \/ Lists!ForwardList \/ Lists!ForwardDialog
  <2>1. page \in Lists!Kind
    BY <1>3 DEF Lists!SnippetList, Lists!SnippetDialog, Lists!KeyList, Lists!KeyDialog,
                Lists!ForwardList, Lists!ForwardDialog, Lists!Kind
  <2>2. \/ Lists!OpenCreate \/ Lists!OpenEdit \/ Lists!Cancel
        \/ Lists!Delete \/ Lists!ToggleActive
        \/ \E fits \in BOOLEAN : Lists!SaveForm(fits)
    BY <1>3 DEF Lists!SnippetList, Lists!SnippetDialog, Lists!KeyList, Lists!KeyDialog,
                Lists!ForwardList, Lists!ForwardDialog, Lists!ListActions, Lists!SaveSnippet,
                Lists!SaveKey, Lists!SaveForward
  <2> QED
    BY <2>1, <2>2, DialogKeepsLists, TickIsEdit, FormIsEdit, EditKeepsLists
<1>4. CASE Lists!ServeLoad \/ Lists!ServeSave \/ Lists!Refuse
  BY <1>4, ServeKeepsLists
<1>5. CASE Lists!Crash
  BY <1>5, EndKeepsLists
<1>6. CASE \E i \in DOMAIN answers :
             Lists!TakeSaved(i) \/ Lists!TakeLoaded(i) \/ Lists!TakeRefusal(i)
  BY <1>6, GoodNewsKeepsLists, BadNewsKeepsLists
<1> QED
  BY <1>1, <1>2, <1>3, <1>4, <1>5, <1>6 DEF Lists!Next

LEMMA ListsInvariant == DesktopSpec => []ListsInv
<1>1. DesktopInit => ListsInv
  BY ListsStart
<1>2. ListsInv /\ [DesktopNext]_allVars => ListsInv'
  <2> SUFFICES ASSUME ListsInv, [DesktopNext]_allVars
               PROVE  ListsInv'
    OBVIOUS
  <2>1. CASE UNCHANGED listVars
    BY <2>1 DEF listVars, ListsInv, ListBasics, ListsTidy, Calls, SavesOfCalm, CalmPage, InBrowser,
                CalmForm, Lists!Store, Lists!Waiting
  <2>2. CASE OnLists(Lists!Next)
    BY <2>2, ListsStep DEF OnLists
  <2> QED
    BY <2>1, <2>2 DEF DesktopNext, OnWizard, OnFiles, allVars
<1> QED
  BY <1>1, <1>2, PTL DEF DesktopSpec

\* AppData: whatever is refused, left, ends or is saved from another page, a list
\* that was only edited while its page was calm is what the accepted changes make of
\* it, and its page, once it is calm, shows what is stored.
THEOREM CalmListsAreAlwaysKept == DesktopSpec => []CalmListsAreKept
<1>1. ListsInv => CalmListsAreKept
  <2> SUFFICES ASSUME ListsInv
               PROVE  Lists!CalmEditsAreKept /\ Lists!CalmPageIsCurrent
    BY DEF CalmListsAreKept
  <2>1. Lists!CalmEditsAreKept
    BY DEF ListsInv, SavesOfCalm, Lists!CalmEditsAreKept
  <2>2. ASSUME page # None, Lists!Calm, page \notin hasty
        PROVE  data[page] = Lists!Store[page]
    <3>1. page \in Lists!Kind \ hasty /\ Calls
      BY <2>2 DEF ListsInv, ListBasics
    <3>2. DOMAIN queue = {} /\ \A i \in DOMAIN answers : answers[i].visit # visit
      BY <2>2, <3>1, CalmIsIdle DEF Lists!Calm
    <3> QED
      BY <2>2, <3>1, <3>2 DEF ListsInv, CalmPage, Lists!Calm
  <2> QED
    BY <2>1, <2>2 DEF Lists!CalmPageIsCurrent
<1> QED
  BY <1>1, ListsInvariant, PTL

\* The types of the wizard, the pages and the file view.
THEOREM DesktopTypesAreKept == DesktopSpec => []DesktopTypesOK
<1>1. ListsInv => Lists!TypeOK
  <2> SUFFICES ASSUME ListsInv
               PROVE  Lists!TypeOK
    OBVIOUS
  <2>1. stored \in Lists!Data /\ data \in Lists!Data /\ cached \in Lists!Data
    BY DEF ListsInv, ListsTidy, TidyData
  <2>2. /\ \A i \in DOMAIN queue : queue[i] \in Lists!LoadCall \cup Lists!SaveCall
        /\ \A i \in DOMAIN answers : answers[i] \in Lists!Answers
    BY CallFacts DEF ListsInv, Command
  <2> QED
    BY <2>1, <2>2 DEF ListsInv, ListBasics, ListsTidy, Calls, Lists!TypeOK
<1>2. FilesInv => Files!TypeOK
  <2> SUFFICES ASSUME FilesInv
               PROVE  Files!TypeOK
    OBVIOUS
  <2>1. \A i \in DOMAIN localCalls : localCalls[i] \in [path : Dir, newest : BOOLEAN]
    <3>1. localCalls \in Seq([path : Dir, newest : BOOLEAN])
      BY DEF FilesInv, LocalInv
    <3> QED
      BY <3>1, TypedElements, Zenon
  <2>2. \A i \in DOMAIN remoteCalls : remoteCalls[i] \in Files!Listing
    <3>1. remoteCalls \in Seq(Files!Listing)
      BY DEF FilesInv, RemoteInv
    <3> QED
      BY <3>1, TypedElements, Zenon
  <2> QED
    BY <2>1, <2>2, Zenon DEF FilesInv, LocalInv, RemoteInv, Files!TypeOK
<1>3. WizardInv => TypeOK
  <2> SUFFICES ASSUME WizardInv
               PROVE  TypeOK
    OBVIOUS
  <2>1. \A i \in DOMAIN saves : saves[i] \in Save
    BY ElementOfSeq, LenProperties DEF WizardInv, Saves
  <2> QED
    BY <2>1, Zenon DEF WizardInv, Screens, Counts, Work, Vault, Steps, Statuses, Flow, Live,
                     TypeOK
<1>4. ListsInv /\ FilesInv /\ WizardInv => DesktopTypesOK
  BY <1>1, <1>2, <1>3 DEF DesktopTypesOK
<1> QED
  BY <1>4, ListsInvariant, FilesInvariant, WizardInvariant, PTL

=============================================================================
