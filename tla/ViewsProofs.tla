---------------------------- MODULE ViewsProofs -----------------------------
(***************************************************************************)
(* The window, the page of logs and the terminal, for any sections and for *)
(* any number of clicks, messages, records, pieces of output and turns.    *)
(***************************************************************************)
EXTENDS MCViews, SequenceTheorems, WellFoundedInduction, TLAPS

LEMMA Assumptions == View!ActivityViewAssumption /\ Shell!AppShellAssumption
BY ViewsAssumption

-----------------------------------------------------------------------------
(* Induction over the natural numbers, for a set, from the theorem that    *)
(* they are well founded; and by it what FlattenSeq makes of a sequence of *)
(* sequences that rise and follow one another.                             *)

LEMMA SetInduction ==
  ASSUME NEW T, 0 \in T, \A n \in Nat : n \in T => n + 1 \in T
  PROVE  Nat \subseteq T
<1> DEFINE R == OpToRel(<, Nat)
<1>1. IsWellFoundedOn(R, Nat)
  BY NatLessThanWellFounded
<1>2. \A m, n \in Nat : m < n => <<m, n>> \in R
  BY DEF OpToRel
<1> HIDE DEF R
<1>3. ASSUME Nat \ T # {}
      PROVE  FALSE
  <2>1. PICK n \in Nat \ T : \A m \in Nat \ T : ~(<<m, n>> \in R)
    BY <1>1, <1>3, WFMin
  <2>2. n # 0
    BY <2>1
  <2>3. n - 1 \in Nat /\ n - 1 < n /\ (n - 1) + 1 = n
    BY <2>1, <2>2
  <2>4. n - 1 \in T
    BY <1>2, <2>1, <2>3
  <2> QED
    BY <2>1, <2>3, <2>4
<1> QED
  BY <1>3

\* The recursive function that FlattenSeq is made of, up to n.
IsJoin(f, ss, n) == f = [i \in 1..n |-> IF i = 1 THEN ss[i] ELSE f[i - 1] \o ss[i]]

Join(ss) == CHOOSE f : IsJoin(f, ss, Len(ss))

\* FlattenSeq is the last value of that function.
LEMMA FlattenIsJoin == \A ss : FlattenSeq(ss) = IF Len(ss) = 0 THEN ss ELSE Join(ss)[Len(ss)]
BY Zenon DEF FlattenSeq, Join, IsJoin

\* The function exists up to n + 1 if it does up to n; so it exists.
LEMMA JoinGrows ==
  ASSUME NEW ss, NEW n \in Nat, NEW f, IsJoin(f, ss, n)
  PROVE  \E g : IsJoin(g, ss, n + 1)
<1> DEFINE last == IF n = 0 THEN ss[1] ELSE f[n] \o ss[n + 1]
           g == [i \in 1..(n + 1) |-> IF i <= n THEN f[i] ELSE last]
           Rhs(i) == IF i = 1 THEN ss[i] ELSE g[i - 1] \o ss[i]
<1>1. \A i \in 1..n : f[i] = IF i = 1 THEN ss[i] ELSE f[i - 1] \o ss[i]
  BY DEF IsJoin
<1>2. \A i \in 1..(n + 1) : g[i] = IF i <= n THEN f[i] ELSE last
  OBVIOUS
<1> HIDE DEF g
<1>3. ASSUME NEW i \in 1..(n + 1)
      PROVE  (IF i <= n THEN f[i] ELSE last) = Rhs(i)
  <2>1. CASE i <= n
    <3>1. i \in 1..n
      BY <2>1
    <3>2. i # 1 => i - 1 \in 1..(n + 1) /\ i - 1 <= n
      BY <3>1
    <3>3. i # 1 => g[i - 1] = f[i - 1]
      BY <1>2, <3>2
    <3> QED
      BY <1>1, <2>1, <3>1, <3>3
  <2>2. CASE ~(i <= n)
    <3>1. i = n + 1
      BY <2>2
    <3>2. CASE n = 0
      BY <2>2, <3>1, <3>2
    <3>3. CASE n # 0
      <4>1. n \in 1..(n + 1) /\ n <= n /\ i - 1 = n /\ i # 1
        BY <3>1, <3>3
      <4>2. g[i - 1] = f[n]
        BY <1>2, <4>1
      <4> QED
        BY <2>2, <3>1, <3>3, <4>1, <4>2
    <3> QED
      BY <3>2, <3>3
  <2> QED
    BY <2>1, <2>2
<1>4. g = [i \in 1..(n + 1) |-> IF i <= n THEN f[i] ELSE last]
  BY DEF g
<1> HIDE DEF last
<1>5. g = [i \in 1..(n + 1) |-> Rhs(i)]
  <2> HIDE DEF Rhs
  <2> QED
    BY <1>3, <1>4
<1> QED
  BY <1>5 DEF IsJoin

LEMMA JoinExists ==
  ASSUME NEW ss, Len(ss) \in Nat
  PROVE  IsJoin(Join(ss), ss, Len(ss))
<1> DEFINE T == {n \in Nat : \E f : IsJoin(f, ss, n)}
<1>1. 0 \in T
  <2>1. IsJoin([i \in 1..0 |-> ss], ss, 0)
    BY DEF IsJoin
  <2> QED
    BY <2>1
<1>2. \A n \in Nat : n \in T => n + 1 \in T
  BY JoinGrows
<1>3. Nat \subseteq T
  <2> HIDE DEF T
  <2> QED
    BY <1>1, <1>2, SetInduction
<1>4. \E f : IsJoin(f, ss, Len(ss))
  BY <1>3
<1> QED
  BY <1>4 DEF Join

\* The numbers of s rise; those of s are below those of t.
Rising(s) == \A i, j \in DOMAIN s : i < j => s[i] < s[j]
Before(s, t) == \A i \in DOMAIN s, j \in DOMAIN t : s[i] < t[j]

Follows(ss) ==
  /\ \A i \in DOMAIN ss : Rising(ss[i])
  /\ \A i, j \in DOMAIN ss : i < j => Before(ss[i], ss[j])

\* Every element of s is one of an element of ss, one of the first n.
Among(s, ss, n) ==
  \A i \in DOMAIN s : \E k \in DOMAIN ss : k <= n /\ \E j \in DOMAIN ss[k] : s[i] = ss[k][j]

FromEither(u, s, t) ==
  \A i \in DOMAIN u : (\E j \in DOMAIN s : u[i] = s[j]) \/ (\E j \in DOMAIN t : u[i] = t[j])

\* Two that rise, one before the other, make one that rises.
LEMMA RisingConcat ==
  ASSUME NEW S, S \subseteq Nat, NEW s \in Seq(S), NEW t \in Seq(S),
         Rising(s), Rising(t), Before(s, t)
  PROVE  /\ s \o t \in Seq(S) /\ Rising(s \o t)
         /\ FromEither(s \o t, s, t)
<1> DEFINE u == s \o t
<1>1. /\ u \in Seq(S) /\ Len(u) = Len(s) + Len(t)
      /\ \A i \in 1..(Len(s) + Len(t)) : u[i] = IF i <= Len(s) THEN s[i] ELSE t[i - Len(s)]
  BY ConcatProperties
<1> HIDE DEF u
<1>2. /\ Len(s) \in Nat /\ DOMAIN s = 1..Len(s)
      /\ Len(t) \in Nat /\ DOMAIN t = 1..Len(t)
      /\ DOMAIN u = 1..(Len(s) + Len(t))
  BY <1>1, LenProperties
<1>3. \A i \in DOMAIN u : \/ i \in DOMAIN s /\ u[i] = s[i]
                          \/ i - Len(s) \in DOMAIN t /\ u[i] = t[i - Len(s)]
  <2> SUFFICES ASSUME NEW i \in DOMAIN u
               PROVE  \/ i \in DOMAIN s /\ u[i] = s[i]
                      \/ i - Len(s) \in DOMAIN t /\ u[i] = t[i - Len(s)]
    OBVIOUS
  <2>1. i \in 1..(Len(s) + Len(t)) /\ u[i] = IF i <= Len(s) THEN s[i] ELSE t[i - Len(s)]
    BY <1>1, <1>2
  <2>2. CASE i <= Len(s)
    BY <1>2, <2>1, <2>2
  <2>3. CASE ~(i <= Len(s))
    BY <1>2, <2>1, <2>3
  <2> QED
    BY <2>2, <2>3
<1>4. ASSUME NEW i \in DOMAIN u, NEW j \in DOMAIN u, i < j
      PROVE  u[i] < u[j]
  <2>1. CASE j \in DOMAIN s /\ u[j] = s[j]
    <3>1. i \in DOMAIN s /\ i <= Len(s) /\ u[i] = s[i]
      BY <1>1, <1>2, <1>4, <2>1
    <3> QED
      BY <1>4, <2>1, <3>1 DEF Rising
  <2>2. CASE j - Len(s) \in DOMAIN t /\ u[j] = t[j - Len(s)]
    <3>1. CASE i \in DOMAIN s /\ u[i] = s[i]
      BY <2>2, <3>1 DEF Before
    <3>2. CASE i - Len(s) \in DOMAIN t /\ u[i] = t[i - Len(s)]
      <4>1. i - Len(s) < j - Len(s)
        BY <1>2, <1>4
      <4> QED
        BY <2>2, <3>2, <4>1 DEF Rising
    <3> QED
      BY <1>3, <3>1, <3>2
  <2> QED
    BY <1>3, <2>1, <2>2
<1>5. u \in Seq(S) /\ Rising(u) /\ FromEither(u, s, t)
  BY <1>1, <1>3, <1>4 DEF Rising, FromEither
<1> QED
  BY <1>5 DEF u

\* By induction over the number of chunks: what they join to rises and holds nothing else.
LEMMA FlattenRises ==
  ASSUME NEW S, S \subseteq Nat, NEW ss \in Seq(Seq(S)), Follows(ss)
  PROVE  /\ FlattenSeq(ss) \in Seq(S) /\ Rising(FlattenSeq(ss))
         /\ Among(FlattenSeq(ss), ss, Len(ss))
<1>1. Len(ss) \in Nat /\ DOMAIN ss = 1..Len(ss) /\ \A i \in DOMAIN ss : ss[i] \in Seq(S)
  <2>1. Len(ss) \in Nat /\ DOMAIN ss = 1..Len(ss)
    BY LenProperties
  <2>2. \A i \in 1..Len(ss) : ss[i] \in Seq(S)
    BY ElementOfSeq
  <2> QED
    BY <2>1, <2>2
<1> DEFINE J == Join(ss)
           Good(n) == J[n] \in Seq(S) /\ Rising(J[n]) /\ Among(J[n], ss, n)
           T == {n \in Nat : n \in DOMAIN ss => Good(n)}
<1>2. \A i \in DOMAIN ss : J[i] = IF i = 1 THEN ss[i] ELSE J[i - 1] \o ss[i]
  <2>1. IsJoin(J, ss, Len(ss))
    BY <1>1, JoinExists
  <2> HIDE DEF J
  <2> QED
    BY <1>1, <2>1 DEF IsJoin
<1> HIDE DEF J
<1>3. ASSUME NEW n \in Nat, n \in DOMAIN ss => Good(n), n + 1 \in DOMAIN ss
      PROVE  Good(n + 1)
  <2>1. CASE n = 0
    <3>1. J[n + 1] = ss[n + 1] /\ n + 1 = 1
      BY <1>2, <1>3, <2>1
    <3>2. Among(ss[n + 1], ss, n + 1)
      BY <1>3 DEF Among
    <3> QED
      BY <1>1, <1>3, <3>1, <3>2 DEF Follows
  <2>2. CASE n # 0
    <3>1. n \in DOMAIN ss /\ n + 1 # 1 /\ (n + 1) - 1 = n
      BY <1>1, <1>3, <2>2
    <3>2. J[n + 1] = J[n] \o ss[n + 1] /\ Good(n)
      BY <1>2, <1>3, <3>1
    <3>3. /\ Rising(ss[n + 1]) /\ ss[n + 1] \in Seq(S)
          /\ \A k \in DOMAIN ss : k <= n => Before(ss[k], ss[n + 1])
      BY <1>1, <1>3 DEF Follows
    <3>4. Before(J[n], ss[n + 1])
      BY <3>2, <3>3 DEF Among, Before
    <3>5. PICK a \in Seq(S), b \in Seq(S) : a = J[n] /\ b = ss[n + 1]
      BY <3>2, <3>3
    <3>6. Rising(a) /\ Rising(b) /\ Before(a, b) /\ Among(a, ss, n) /\ J[n + 1] = a \o b
      BY <3>2, <3>3, <3>4, <3>5
    <3>7. /\ a \o b \in Seq(S) /\ Rising(a \o b)
          /\ FromEither(a \o b, a, b)
      BY <3>6, RisingConcat
    <3>8. ASSUME NEW i \in DOMAIN (a \o b)
          PROVE  \E k \in DOMAIN ss : k <= n + 1 /\ \E j \in DOMAIN ss[k] : (a \o b)[i] = ss[k][j]
      <4>1. CASE \E j \in DOMAIN b : (a \o b)[i] = b[j]
        BY <1>3, <3>5, <4>1
      <4>2. ASSUME NEW j \in DOMAIN a, (a \o b)[i] = a[j]
            PROVE  \E k \in DOMAIN ss : k <= n + 1 /\ \E m \in DOMAIN ss[k] : (a \o b)[i] = ss[k][m]
        <5>1. PICK k \in DOMAIN ss : k <= n /\ \E m \in DOMAIN ss[k] : a[j] = ss[k][m]
          BY <3>6 DEF Among
        <5>2. k <= n + 1
          BY <1>1, <5>1
        <5> QED
          BY <4>2, <5>1, <5>2
      <4> QED
        BY <3>7, <4>1, <4>2 DEF FromEither
    <3>9. Among(a \o b, ss, n + 1)
      BY <3>8 DEF Among
    <3> QED
      BY <3>6, <3>7, <3>9
  <2> QED
    BY <2>1, <2>2
<1> HIDE DEF Good
<1>4. 0 \in T
  BY <1>1
<1>5. \A n \in Nat : n \in T => n + 1 \in T
  BY <1>3
<1>6. Nat \subseteq T
  <2> HIDE DEF T
  <2> QED
    BY <1>4, <1>5, SetInduction
<1>7. CASE Len(ss) = 0
  <2>1. ss = <<>> /\ FlattenSeq(ss) = ss
    BY <1>7, FlattenIsJoin, EmptySeq
  <2>2. ss \in Seq(S) /\ DOMAIN ss = {}
    BY <2>1
  <2> QED
    BY <2>1, <2>2 DEF Rising, Among
<1>8. CASE Len(ss) # 0
  <2>1. Len(ss) \in DOMAIN ss
    BY <1>1, <1>8
  <2>2. FlattenSeq(ss) = J[Len(ss)]
    BY <1>8, FlattenIsJoin DEF J
  <2>3. Good(Len(ss))
    BY <1>1, <1>6, <2>1
  <2> QED
    BY <2>2, <2>3 DEF Good
<1> QED
  BY <1>7, <1>8

\* A sequence over a set is one over a larger set.
LEMMA SeqGrows ==
  ASSUME NEW S, NEW T, S \subseteq T, NEW s \in Seq(S)
  PROVE  s \in Seq(T)
OBVIOUS

\* What is left of s after its first d elements.
LEMMA Later ==
  ASSUME NEW S, NEW s \in Seq(S), NEW d \in 0..Len(s)
  PROVE  /\ SubSeq(s, d + 1, Len(s)) \in Seq(S) /\ Len(SubSeq(s, d + 1, Len(s))) = Len(s) - d
         /\ \A i \in 1..(Len(s) - d) : SubSeq(s, d + 1, Len(s))[i] = s[i + d]
<1>1. Len(s) \in Nat /\ d + 1 \in Int /\ Len(s) \in Int
  BY LenProperties
<1>2. \A i \in (d + 1)..Len(s) : s[i] \in S
  BY <1>1, ElementOfSeq
<1>3. /\ SubSeq(s, d + 1, Len(s)) \in Seq(S)
      /\ Len(SubSeq(s, d + 1, Len(s))) = IF d + 1 <= Len(s) THEN Len(s) - (d + 1) + 1 ELSE 0
      /\ \A i \in 1..(Len(s) - (d + 1) + 1) : SubSeq(s, d + 1, Len(s))[i] = s[d + 1 + i - 1]
  BY <1>1, <1>2, SubSeqProperties
<1>4. Len(s) - (d + 1) + 1 = Len(s) - d /\ (d + 1 <= Len(s) \/ Len(s) - d = 0)
  BY <1>1
<1>5. \A i \in 1..(Len(s) - d) : d + 1 + i - 1 = i + d
  BY <1>1
<1> QED
  BY <1>3, <1>4, <1>5

\* t is what is left of s after its first d elements.
Rest(t, s, d) == \A i \in DOMAIN t : i + d \in DOMAIN s /\ t[i] = s[i + d]

LEMMA LaterIsRest ==
  ASSUME NEW S, NEW s \in Seq(S), NEW d \in 0..Len(s)
  PROVE  Rest(SubSeq(s, d + 1, Len(s)), s, d)
<1> DEFINE t == SubSeq(s, d + 1, Len(s))
<1>1. t \in Seq(S) /\ Len(t) = Len(s) - d /\ \A i \in 1..(Len(s) - d) : t[i] = s[i + d]
  BY Later
<1> HIDE DEF t
<1>2. DOMAIN t = 1..(Len(s) - d) /\ DOMAIN s = 1..Len(s) /\ Len(s) \in Nat
  BY <1>1, LenProperties
<1>3. Rest(t, s, d)
  BY <1>1, <1>2 DEF Rest
<1> QED
  BY <1>3 DEF t

\* Cutting to Cap drops chunks at the front only.
LEMMA LastOfIsRest ==
  ASSUME NEW S, NEW s \in Seq(S)
  PROVE  /\ LastOf(s) \in Seq(S) /\ Len(LastOf(s)) <= Cap
         /\ \E d \in Nat : Rest(LastOf(s), s, d)
<1>1. Len(s) \in Nat /\ Cap \in Nat
  BY LenProperties, TerminalViewAssumption
<1>2. CASE Len(s) > Cap
  <2>1. Len(s) - Cap \in 0..Len(s) /\ Len(s) - Cap \in Nat /\ Len(s) - (Len(s) - Cap) = Cap
    BY <1>1, <1>2
  <2>2. LastOf(s) = SubSeq(s, (Len(s) - Cap) + 1, Len(s))
    BY <1>2 DEF LastOf
  <2>3. LastOf(s) \in Seq(S) /\ Len(LastOf(s)) = Cap
    BY <2>1, <2>2, Later
  <2>4. Rest(LastOf(s), s, Len(s) - Cap)
    BY <2>1, <2>2, LaterIsRest
  <2> QED
    BY <1>1, <2>1, <2>3, <2>4
<1>3. CASE ~(Len(s) > Cap)
  <2>1. LastOf(s) = s
    BY <1>3 DEF LastOf
  <2>2. Rest(s, s, 0)
    BY <1>1, LenProperties DEF Rest
  <2> QED
    BY <1>1, <1>3, <2>1, <2>2
<1> QED
  BY <1>2, <1>3

\* What is left of chunks that follow one another does so too.
LEMMA RestFollows ==
  ASSUME NEW S, NEW s \in Seq(S), NEW t \in Seq(S), NEW d \in Nat, Rest(t, s, d), Follows(s)
  PROVE  Follows(t)
<1>1. DOMAIN t \subseteq Int
  BY LenProperties
<1>2. \A i, j \in DOMAIN t : i < j => i + d < j + d
  BY <1>1
<1> QED
  BY <1>2 DEF Rest, Follows

-----------------------------------------------------------------------------
(* The terminal.  What is shown, what the chunks hold from the index on    *)
(* and what is buffered follow one another, each in the order in which it  *)
(* was produced.                                                           *)

Produced == 1..produced

Screenful ==
  /\ produced \in 1..MaxOutput /\ turns \in 0..MaxTurns
  /\ pending \in Seq(Produced) /\ shown \in Seq(Produced)
  /\ chunks \in Seq(Seq(Produced)) /\ Len(chunks) <= Cap
  /\ index \in 0..Cap

Effects == frame \in BOOLEAN /\ dirty \in BOOLEAN /\ ready \in BOOLEAN

\* The chunks that were not written yet follow what is shown.
Unwritten == \A i \in DOMAIN chunks : i > index => Before(shown, chunks[i])

InOrder ==
  /\ Rising(shown) /\ Follows(Append(chunks, pending))
  /\ Unwritten /\ Before(shown, pending)

TermInv == Screenful /\ Effects /\ InOrder

\* A chunk more follows the others if it rises and every other is before it.
LEMMA FollowsAppend ==
  ASSUME NEW S, NEW ss \in Seq(Seq(S)), NEW t \in Seq(S)
  PROVE  Follows(Append(ss, t)) <=> /\ Follows(ss) /\ Rising(t)
                                    /\ \A i \in DOMAIN ss : Before(ss[i], t)
<1> DEFINE u == Append(ss, t)
<1>1. /\ u \in Seq(Seq(S)) /\ Len(u) = Len(ss) + 1
      /\ \A i \in 1..Len(ss) : u[i] = ss[i]
      /\ u[Len(ss) + 1] = t
  BY AppendProperties
<1> HIDE DEF u
<1>2. Len(ss) \in Nat /\ DOMAIN ss = 1..Len(ss) /\ DOMAIN u = 1..(Len(ss) + 1)
  BY <1>1, LenProperties
<1>3. /\ DOMAIN ss \subseteq DOMAIN u /\ Len(ss) + 1 \in DOMAIN u
      /\ \A i \in DOMAIN u : i \in DOMAIN ss \/ i = Len(ss) + 1
      /\ \A i \in DOMAIN ss : i < Len(ss) + 1 /\ ~(Len(ss) + 1 < i)
      /\ ~(Len(ss) + 1 < Len(ss) + 1)
  BY <1>2
<1>4. \A i \in DOMAIN ss : u[i] = ss[i]
  BY <1>1, <1>2
<1>5. ASSUME Follows(u)
      PROVE  Follows(ss) /\ Rising(t) /\ \A i \in DOMAIN ss : Before(ss[i], t)
  BY <1>1, <1>3, <1>4, <1>5 DEF Follows
<1>6. ASSUME Follows(ss), Rising(t), \A i \in DOMAIN ss : Before(ss[i], t)
      PROVE  Follows(u)
  BY <1>1, <1>3, <1>4, <1>6 DEF Follows
<1> QED
  BY <1>5, <1>6 DEF u

LEMMA NothingIsBefore ==
  /\ \A s : Before(s, <<>>) /\ Before(<<>>, s)
  /\ Rising(<<>>)
BY DEF Before, Rising

\* The next piece of output is behind all there were.
LEMMA NextRises ==
  ASSUME NEW n \in Nat, NEW s \in Seq(1..n), Rising(s)
  PROVE  /\ Append(s, n + 1) \in Seq(1..(n + 1)) /\ Rising(Append(s, n + 1))
         /\ \A r \in Seq(1..n) : Before(r, s) => Before(r, Append(s, n + 1))
<1> DEFINE u == Append(s, n + 1)
<1>1. s \in Seq(1..(n + 1)) /\ n + 1 \in 1..(n + 1)
  BY SeqGrows
<1>2. /\ u \in Seq(1..(n + 1)) /\ Len(u) = Len(s) + 1
      /\ \A i \in 1..Len(s) : u[i] = s[i]
      /\ u[Len(s) + 1] = n + 1
  BY <1>1, AppendProperties
<1> HIDE DEF u
<1>3. Len(s) \in Nat /\ DOMAIN s = 1..Len(s) /\ DOMAIN u = 1..(Len(s) + 1)
  BY <1>2, LenProperties
<1>4. /\ \A i \in DOMAIN u : i \in DOMAIN s \/ i = Len(s) + 1
      /\ \A i \in DOMAIN s : ~(Len(s) + 1 < i)
  BY <1>3
<1>5. ASSUME NEW r \in Seq(1..n), NEW i \in DOMAIN r
      PROVE  r[i] < n + 1
  <2>1. r[i] \in 1..n
    BY LenProperties, ElementOfSeq
  <2> QED
    BY <2>1
<1>6. Rising(u)
  <2> SUFFICES ASSUME NEW i \in DOMAIN u, NEW j \in DOMAIN u, i < j
               PROVE  u[i] < u[j]
    BY DEF Rising
  <2>1. i \in DOMAIN s /\ u[i] = s[i]
    BY <1>2, <1>3, <1>4
  <2>2. CASE j \in DOMAIN s
    BY <1>2, <1>3, <2>1, <2>2 DEF Rising
  <2>3. CASE j = Len(s) + 1
    BY <1>2, <1>5, <2>1, <2>3
  <2> QED
    BY <1>4, <2>2, <2>3
<1>7. ASSUME NEW r \in Seq(1..n), Before(r, s)
      PROVE  Before(r, u)
  BY <1>2, <1>3, <1>4, <1>5, <1>7 DEF Before
<1> QED
  BY <1>2, <1>6, <1>7 DEF u

\* A screen of one piece.
LEMMA OneChunk ==
  ASSUME NEW S, NEW n \in S
  PROVE  /\ <<n>> \in Seq(S) /\ <<<<n>>>> \in Seq(Seq(S)) /\ Len(<<<<n>>>>) = 1
         /\ Follows(Append(<<<<n>>>>, <<>>))
<1>1. <<n>> \in Seq(S) /\ <<>> \in Seq(S)
  OBVIOUS
<1>2. PICK t \in Seq(S) : t = <<n>>
  BY <1>1
<1>3. <<t>> \in Seq(Seq(S)) /\ Len(<<t>>) = 1 /\ DOMAIN <<t>> = {1} /\ <<t>>[1] = t
  OBVIOUS
<1>4. Rising(t)
  BY <1>2 DEF Rising
<1>5. Follows(<<t>>)
  BY <1>3, <1>4 DEF Follows
<1>6. Follows(Append(<<t>>, <<>>))
  BY <1>1, <1>3, <1>5, FollowsAppend, NothingIsBefore
<1> QED
  BY <1>1, <1>2, <1>3, <1>6

-----------------------------------------------------------------------------
LEMMA TermStart == ASSUME Init PROVE TermInv
<1>1. produced = 1 /\ 1 \in 1..MaxOutput /\ 0 \in 0..MaxTurns /\ 1 <= Cap /\ 0 \in 0..Cap
  BY TerminalViewAssumption DEF Init
<1>2. <<1>> \in Seq(1..1)
  OBVIOUS
<1>3. <<<<1>>>> \in Seq(Seq(1..1)) /\ Len(<<<<1>>>>) = 1 /\ Follows(Append(<<<<1>>>>, <<>>))
  BY <1>2, OneChunk
<1>4. Screenful
  BY <1>1, <1>2, <1>3 DEF Init, Screenful, Produced
<1>5. Effects
  BY DEF Init, Effects
<1>6. InOrder
  BY <1>3, NothingIsBefore DEF Init, InOrder, Unwritten
<1> QED
  BY <1>4, <1>5, <1>6 DEF TermInv

\* What the conjuncts of the invariant say, taken apart.
LEMMA TermFacts ==
  ASSUME TermInv
  PROVE  /\ produced \in Nat /\ produced \in 1..MaxOutput /\ turns \in 0..MaxTurns
         /\ pending \in Seq(Produced) /\ shown \in Seq(Produced)
         /\ chunks \in Seq(Seq(Produced)) /\ Len(chunks) \in 0..Cap /\ index \in 0..Cap
         /\ Rising(shown) /\ Rising(pending) /\ Follows(chunks)
         /\ \A i \in DOMAIN chunks : Before(chunks[i], pending)
         /\ Unwritten /\ Before(shown, pending)
         /\ Produced \subseteq Nat
<1>1. Screenful /\ InOrder
  BY DEF TermInv
<1>2. pending \in Seq(Produced) /\ chunks \in Seq(Seq(Produced)) /\ Follows(Append(chunks, pending))
  BY <1>1 DEF Screenful, InOrder
<1>3. /\ Rising(pending) /\ Follows(chunks)
      /\ \A i \in DOMAIN chunks : Before(chunks[i], pending)
  BY <1>2, FollowsAppend
<1>4. Len(chunks) \in Nat
  BY <1>2, LenProperties
<1> QED
  BY <1>1, <1>2, <1>3, <1>4, TerminalViewAssumption DEF Screenful, InOrder, Produced

LEMMA AppendKeeps ==
  ASSUME TermInv, AppendOutput
  PROVE  TermInv'
<1>1. /\ produced < MaxOutput /\ produced' = produced + 1 /\ pending' = Append(pending, produced + 1)
      /\ frame' = TRUE /\ UNCHANGED <<turns, chunks, dirty, ready, index, shown>>
  BY DEF AppendOutput
<1>2. produced + 1 \in 1..MaxOutput /\ Produced \subseteq 1..(produced + 1)
  BY <1>1, TermFacts, TerminalViewAssumption DEF Produced
<1>3. /\ pending' \in Seq(1..(produced + 1)) /\ Rising(pending')
      /\ \A r \in Seq(Produced) : Before(r, pending) => Before(r, pending')
  BY <1>1, TermFacts, NextRises DEF Produced
<1>4. Seq(Produced) \subseteq Seq(1..(produced + 1))
  BY <1>2, SeqGrows
<1>5. shown \in Seq(1..(produced + 1)) /\ chunks \in Seq(Seq(1..(produced + 1)))
  BY <1>4, TermFacts, SeqGrows
<1>6. Screenful'
  BY <1>1, <1>2, <1>3, <1>5, TermFacts DEF Screenful, Produced
<1>7. Effects'
  BY <1>1 DEF TermInv, Effects
<1>8. \A i \in DOMAIN chunks : chunks[i] \in Seq(Produced)
  BY TermFacts, LenProperties, ElementOfSeq
<1>9. \A i \in DOMAIN chunks : Before(chunks[i], pending')
  BY <1>3, <1>8, TermFacts
<1>10. Follows(Append(chunks, pending'))
  BY <1>3, <1>5, <1>9, TermFacts, FollowsAppend
<1>11. InOrder'
  BY <1>1, <1>3, <1>10, TermFacts DEF InOrder, Unwritten
<1> QED
  BY <1>6, <1>7, <1>11 DEF TermInv

LEMMA FlushKeeps ==
  ASSUME TermInv, Flush
  PROVE  TermInv'
<1> DEFINE all == Append(chunks, pending)
<1>1. /\ frame' = FALSE /\ pending' = <<>> /\ chunks' = LastOf(all) /\ dirty' = TRUE
      /\ UNCHANGED <<produced, turns, ready, index, shown>>
  BY DEF Flush
<1>2. /\ all \in Seq(Seq(Produced)) /\ Len(all) = Len(chunks) + 1
      /\ \A i \in 1..Len(chunks) : all[i] = chunks[i]
      /\ all[Len(chunks) + 1] = pending
  BY TermFacts, AppendProperties
<1>3. Follows(all)
  BY DEF TermInv, InOrder
<1> HIDE DEF all
<1>4. chunks' \in Seq(Seq(Produced)) /\ Len(chunks') <= Cap
  BY <1>1, <1>2, LastOfIsRest
<1>5. PICK d \in Nat : Rest(LastOf(all), all, d)
  BY <1>2, LastOfIsRest
<1>6. Follows(LastOf(all))
  BY <1>1, <1>2, <1>3, <1>4, <1>5, RestFollows
<1>7. <<>> \in Seq(Produced)
  OBVIOUS
<1>8. Screenful'
  BY <1>1, <1>4, <1>7, TermFacts DEF Screenful, Produced
<1>9. Effects'
  BY <1>1 DEF TermInv, Effects
<1>10. Follows(Append(chunks', pending'))
  BY <1>1, <1>4, <1>6, <1>7, FollowsAppend, NothingIsBefore
<1>11. ASSUME NEW i \in DOMAIN LastOf(all), i > index
       PROVE  Before(shown, LastOf(all)[i])
  <2>1. i + d \in DOMAIN all /\ LastOf(all)[i] = all[i + d]
    BY <1>5 DEF Rest
  <2>2. i \in Nat /\ index \in Nat /\ Len(chunks) \in Nat
    BY <1>1, <1>4, TermFacts, LenProperties
  <2>3. i + d \in 1..(Len(chunks) + 1) /\ i + d > index
    BY <1>2, <1>11, <2>1, <2>2, LenProperties
  <2>4. CASE i + d <= Len(chunks)
    <3>1. i + d \in 1..Len(chunks) /\ i + d \in DOMAIN chunks
      BY <2>2, <2>3, <2>4, TermFacts, LenProperties
    <3> QED
      BY <1>2, <2>1, <2>3, <3>1, TermFacts DEF Unwritten
  <2>5. CASE ~(i + d <= Len(chunks))
    <3>1. i + d = Len(chunks) + 1
      BY <2>2, <2>3, <2>5
    <3> QED
      BY <1>2, <2>1, <3>1, TermFacts
  <2> QED
    BY <2>4, <2>5
<1>12. InOrder'
  BY <1>1, <1>10, <1>11, TermFacts, NothingIsBefore DEF InOrder, Unwritten
<1> QED
  BY <1>8, <1>9, <1>12 DEF TermInv

\* A connect and a remount, after which nothing that is shown is still to come.
LEMMA ReconnectKeeps ==
  ASSUME TermInv, Reconnect
  PROVE  TermInv'
<1>1. /\ turns < MaxTurns /\ produced < MaxOutput
      /\ turns' = turns + 1 /\ produced' = produced + 1
      /\ pending' = <<>> /\ frame' = FALSE /\ chunks' = <<<<produced + 1>>>> /\ dirty' = TRUE
      /\ UNCHANGED <<ready, index, shown>>
  BY DEF Reconnect
<1>2. /\ produced + 1 \in 1..MaxOutput /\ produced + 1 \in 1..(produced + 1)
      /\ Produced \subseteq 1..(produced + 1)
      /\ turns + 1 \in 0..MaxTurns /\ 1 <= Cap
  BY <1>1, TermFacts, TerminalViewAssumption DEF Produced
<1>3. /\ <<produced + 1>> \in Seq(1..(produced + 1))
      /\ chunks' \in Seq(Seq(1..(produced + 1))) /\ Len(chunks') = 1
      /\ Follows(Append(chunks', pending'))
  BY <1>1, <1>2, OneChunk
<1>4. shown \in Seq(1..(produced + 1))
  BY <1>2, TermFacts, SeqGrows
<1>5. Screenful'
  <2>1. <<>> \in Seq(1..(produced + 1))
    OBVIOUS
  <2> QED
    BY <1>1, <1>2, <1>3, <1>4, <2>1, TermFacts DEF Screenful, Produced
<1>6. Effects'
  BY <1>1 DEF TermInv, Effects
<1>7. \A i \in DOMAIN shown : shown[i] < produced + 1
  <2>1. \A i \in DOMAIN shown : shown[i] \in 1..produced
    BY TermFacts, LenProperties, ElementOfSeq DEF Produced
  <2> QED
    BY <2>1, TermFacts
<1>8. Before(shown, <<produced + 1>>)
  BY <1>7 DEF Before
<1>9. Unwritten'
  BY <1>1, <1>8 DEF Unwritten
<1>10. InOrder'
  BY <1>1, <1>3, <1>9, TermFacts, NothingIsBefore DEF InOrder
<1> QED
  BY <1>5, <1>6, <1>10 DEF TermInv

LEMMA RemountKeeps ==
  ASSUME TermInv, Remount
  PROVE  TermInv'
<1>1. /\ turns < MaxTurns /\ turns' = turns + 1
      /\ ready' = FALSE /\ index' = 0 /\ shown' = <<>> /\ dirty' = TRUE
      /\ UNCHANGED <<produced, pending, frame, chunks>>
  BY DEF Remount
<1>2. turns + 1 \in 0..MaxTurns /\ 0 \in 0..Cap /\ <<>> \in Seq(Produced)
  BY <1>1, TermFacts, TerminalViewAssumption
<1>3. Screenful'
  BY <1>1, <1>2, TermFacts DEF Screenful, Produced
<1>4. Effects'
  BY <1>1 DEF TermInv, Effects
<1>5. InOrder'
  BY <1>1, NothingIsBefore DEF TermInv, InOrder, Unwritten
<1> QED
  BY <1>3, <1>4, <1>5 DEF TermInv

\* What a render writes comes after what it leaves, and before what is buffered.
LEMMA RenderKeeps ==
  ASSUME TermInv, Render
  PROVE  TermInv'
<1>1. PICK from \in 0..Len(chunks), old \in Seq(Produced) :
        /\ shown' = old \o FlattenSeq(SubSeq(chunks, from + 1, Len(chunks)))
        /\ Rising(old) /\ Before(old, pending)
        /\ \A i \in DOMAIN chunks : i > from => Before(old, chunks[i])
  <2>1. CASE Len(chunks) < index
    <3>1. shown' = <<>> \o FlattenSeq(SubSeq(chunks, 0 + 1, Len(chunks)))
      BY <2>1 DEF Render
    <3>2. <<>> \in Seq(Produced) /\ 0 \in 0..Len(chunks)
      BY TermFacts
    <3> QED
      BY <3>1, <3>2, NothingIsBefore
  <2>2. CASE ~(Len(chunks) < index)
    <3>1. shown' = shown \o FlattenSeq(SubSeq(chunks, index + 1, Len(chunks)))
      BY <2>2 DEF Render
    <3>2. index \in 0..Len(chunks)
      BY <2>2, TermFacts
    <3> QED
      BY <3>1, <3>2, TermFacts DEF Unwritten
  <2> QED
    BY <2>1, <2>2
<1>2. PICK new : new = SubSeq(chunks, from + 1, Len(chunks))
  OBVIOUS
<1>3. new \in Seq(Seq(Produced)) /\ Rest(new, chunks, from) /\ from \in Nat
  BY <1>2, TermFacts, Later, LaterIsRest
<1>4. Follows(new)
  BY <1>3, TermFacts, RestFollows
<1>5. PICK flat : flat = FlattenSeq(new)
  OBVIOUS
<1>6. flat \in Seq(Produced) /\ Rising(flat) /\ Among(flat, new, Len(new))
  BY <1>3, <1>4, <1>5, TermFacts, FlattenRises
<1>7. shown' = old \o flat
  BY <1>1, <1>2, <1>5
<1>8. \A k \in DOMAIN new : Before(old, new[k]) /\ Before(new[k], pending)
  <2> SUFFICES ASSUME NEW k \in DOMAIN new
               PROVE  Before(old, new[k]) /\ Before(new[k], pending)
    OBVIOUS
  <2>1. k + from \in DOMAIN chunks /\ new[k] = chunks[k + from]
    BY <1>3 DEF Rest
  <2>2. k \in Nat \ {0}
    BY <1>3, LenProperties
  <2>3. k + from > from
    BY <1>3, <2>2
  <2> QED
    BY <1>1, <2>1, <2>3, TermFacts
<1>9. Before(old, flat) /\ Before(flat, pending)
  BY <1>6, <1>8 DEF Among, Before
<1>10. /\ old \o flat \in Seq(Produced) /\ Rising(old \o flat)
       /\ FromEither(old \o flat, old, flat)
  BY <1>1, <1>6, <1>9, TermFacts, RisingConcat
<1>11. Before(old \o flat, pending)
  BY <1>1, <1>9, <1>10 DEF FromEither, Before
<1>12. /\ dirty' = FALSE /\ index' = Len(chunks)
       /\ UNCHANGED <<produced, turns, pending, frame, chunks, ready>>
  BY DEF Render
<1>13. Screenful'
  BY <1>7, <1>10, <1>12, TermFacts DEF Screenful, Produced
<1>14. Effects'
  BY <1>12 DEF TermInv, Effects
<1>15. Unwritten'
  <2>1. \A i \in DOMAIN chunks : ~(i > Len(chunks))
    BY TermFacts, LenProperties
  <2> QED
    BY <1>12, <2>1 DEF Unwritten
<1>16. InOrder'
  BY <1>7, <1>10, <1>11, <1>12, <1>15 DEF TermInv, InOrder
<1> QED
  BY <1>13, <1>14, <1>16 DEF TermInv

LEMMA TerminalStep ==
  ASSUME TermInv, Next
  PROVE  TermInv'
<1>1. ASSUME UNCHANGED <<produced, turns, pending, chunks, index, shown>>, Effects'
      PROVE  TermInv'
  BY <1>1 DEF TermInv, Screenful, InOrder, Produced, Unwritten
<1>2. CASE Ready
  BY <1>1, <1>2 DEF Ready, TermInv, Effects
<1>3. CASE RenderNothing
  BY <1>1, <1>3 DEF RenderNothing, TermInv, Effects
<1> QED
  BY <1>2, <1>3, AppendKeeps, FlushKeeps, ReconnectKeeps, RemountKeeps, RenderKeeps DEF Next

LEMMA TerminalInvariant == ViewsSpec => []TermInv
<1>1. ViewsInit => TermInv
  BY TermStart DEF ViewsInit
<1>2. TermInv /\ [ViewsNext]_allVars => TermInv'
  <2> SUFFICES ASSUME TermInv, [ViewsNext]_allVars
               PROVE  TermInv'
    OBVIOUS
  <2>1. CASE UNCHANGED vars
    BY <2>1 DEF vars, TermInv, Screenful, Effects, InOrder, Produced, Unwritten
  <2>2. CASE OnTerminal(Next)
    BY <2>2, TerminalStep DEF OnTerminal
  <2> QED
    BY <2>1, <2>2 DEF ViewsNext, OnLogs, OnShell, allVars
<1> QED
  BY <1>1, <1>2, PTL DEF ViewsSpec

-----------------------------------------------------------------------------
(* The page of logs.  A clear that waits is the only one, and there is     *)
(* room for it.                                                            *)

Page ==
  /\ log \subseteq View!Entry /\ listed \subseteq View!Entry /\ cached \subseteq View!Entry
  /\ recorded \in 0..MaxRecords /\ clears \in 0..MaxClears /\ ends \in 0..MaxEnds
  /\ mounts \in 0..MaxMounts
  /\ mounted => mounts # 0
  /\ ~mounted => listed = {}

Errors == mounted \in BOOLEAN /\ failed \in BOOLEAN /\ (~mounted => ~failed)

Mail == queue \in Seq(View!Command) /\ answers \in Seq(View!Result)

IsClear(q, i) == i \in DOMAIN q /\ q[i].cmd = "clear"

OneClear(q, left) ==
  /\ \A i, j : IsClear(q, i) /\ IsClear(q, j) => i = j
  /\ \A i : IsClear(q, i) => left # 0

LogsInv == Page /\ Errors /\ Mail /\ OneClear(queue, MaxClears - clears)

LEMMA LogsBounds ==
  MaxRecords \in Nat /\ MaxClears \in Nat /\ MaxEnds \in Nat /\ MaxMounts \in Nat
BY Assumptions DEF View!ActivityViewAssumption

\* A command more in the queue, and the oldest served.
LEMMA AsksOnce ==
  ASSUME NEW S, NEW q \in Seq(S), NEW left, OneClear(q, left),
         NEW c \in S, c.cmd = "clear" => left # 0 /\ \A i : ~IsClear(q, i)
  PROVE  Append(q, c) \in Seq(S) /\ OneClear(Append(q, c), left)
<1> DEFINE u == Append(q, c)
<1>1. /\ u \in Seq(S) /\ Len(u) = Len(q) + 1
      /\ \A i \in 1..Len(q) : u[i] = q[i]
      /\ u[Len(q) + 1] = c
  BY AppendProperties
<1> HIDE DEF u
<1>2. Len(q) \in Nat /\ DOMAIN q = 1..Len(q) /\ DOMAIN u = 1..(Len(q) + 1)
  BY <1>1, LenProperties
<1>3. \A i : IsClear(u, i) => IsClear(q, i) \/ (i = Len(q) + 1 /\ c.cmd = "clear")
  BY <1>1, <1>2 DEF IsClear
<1>4. OneClear(u, left)
  BY <1>3 DEF OneClear
<1> QED
  BY <1>1, <1>4 DEF u

LEMMA ServedOnce ==
  ASSUME NEW S, NEW q \in Seq(S), q # <<>>, NEW left, OneClear(q, left)
  PROVE  /\ Tail(q) \in Seq(S) /\ Head(q) \in S /\ OneClear(Tail(q), left)
         /\ Head(q).cmd = "clear" => left # 0 /\ \A i : ~IsClear(Tail(q), i)
<1> DEFINE t == Tail(q)
<1>1. /\ t \in Seq(S) /\ Head(q) \in S /\ Head(q) = q[1]
      /\ Len(q) \in Nat \ {0} /\ DOMAIN q = 1..Len(q) /\ DOMAIN t = 1..(Len(q) - 1)
      /\ \A i \in DOMAIN t : t[i] = q[i + 1]
  BY HeadTailProperties, LenProperties, EmptySeq
<1> HIDE DEF t
<1>2. 1 \in DOMAIN q /\ \A i \in DOMAIN t : i + 1 \in DOMAIN q /\ i + 1 # 1 /\ i \in Nat
  BY <1>1
<1>3. \A i : IsClear(t, i) => i \in Nat /\ IsClear(q, i + 1) /\ i + 1 # 1
  BY <1>1, <1>2 DEF IsClear
<1>4. Head(q).cmd = "clear" => IsClear(q, 1)
  BY <1>1, <1>2 DEF IsClear
<1>5. OneClear(t, left)
  BY <1>3 DEF OneClear
<1>6. Head(q).cmd = "clear" => left # 0 /\ \A i : ~IsClear(t, i)
  BY <1>3, <1>4 DEF OneClear
<1> QED
  BY <1>1, <1>5, <1>6 DEF t

\* An answer taken out of the middle leaves answers.
LEMMA TakenOut ==
  ASSUME NEW S, NEW s \in Seq(S), NEW i \in DOMAIN s
  PROVE  View!RemoveAt(s, i) \in Seq(S)
<1>1. Len(s) \in Nat /\ i \in 1..Len(s) /\ \A k \in 1..Len(s) : s[k] \in S
  BY LenProperties
<1>2. (\A k \in 1..(i - 1) : s[k] \in S) /\ (\A k \in (i + 1)..Len(s) : s[k] \in S)
  BY <1>1
<1>3. SubSeq(s, 1, i - 1) \in Seq(S) /\ SubSeq(s, i + 1, Len(s)) \in Seq(S)
  BY <1>1, <1>2, SubSeqProperties
<1> QED
  BY <1>3, ConcatProperties DEF View!RemoveAt

LEMMA LogsStart == ASSUME ViewsInit PROVE LogsInv
<1>1. View!Init
  BY DEF ViewsInit
<1> USE <1>1 DEF View!Init
<1>2. Page
  BY LogsBounds DEF Page
<1>3. Errors
  BY Zenon DEF Errors
<1>4. Mail
  BY DEF Mail
<1>5. OneClear(queue, MaxClears - clears)
  BY DEF OneClear, IsClear
<1> QED
  BY <1>2, <1>3, <1>4, <1>5 DEF LogsInv

LEMMA LogsFacts ==
  ASSUME LogsInv
  PROVE  /\ queue \in Seq(View!Command) /\ answers \in Seq(View!Result)
         /\ \A c \in View!Command : c.cmd \in {"list", "clear"} /\ c.mount \in 1..MaxMounts
         /\ \A r \in View!Result : r.entries \subseteq View!Entry
         /\ mounts \in Nat /\ clears \in Nat
         /\ OneClear(queue, MaxClears - clears)
BY LogsBounds DEF LogsInv, Page, Mail, View!Command, View!Result

LEMMA MountKeeps ==
  ASSUME LogsInv, View!Mount
  PROVE  LogsInv'
<1>1. /\ ~mounted /\ mounts < MaxMounts /\ mounted' = TRUE /\ mounts' = mounts + 1
      /\ listed' = cached /\ queue' = Append(queue, [cmd |-> "list", mount |-> mounts + 1])
      /\ UNCHANGED <<log, recorded, clears, ends, failed, cached, answers>>
  BY DEF View!Mount, View!history
<1>2. [cmd |-> "list", mount |-> mounts + 1] \in View!Command
  BY <1>1, LogsFacts, LogsBounds DEF View!Command
<1>3. queue' \in Seq(View!Command) /\ OneClear(queue', MaxClears - clears)
  BY <1>1, <1>2, LogsFacts, AsksOnce
<1>4. Page'
  BY <1>1, LogsBounds DEF LogsInv, Page
<1>5. Errors'
  BY <1>1, Zenon DEF LogsInv, Errors
<1> QED
  BY <1>1, <1>3, <1>4, <1>5 DEF LogsInv, Mail

LEMMA UnmountKeeps ==
  ASSUME LogsInv, View!Unmount
  PROVE  LogsInv'
<1>1. /\ mounted' = FALSE /\ listed' = {} /\ failed' = FALSE
      /\ UNCHANGED <<log, recorded, clears, ends, mounts, cached, queue, answers>>
  BY DEF View!Unmount, View!history
<1>2. Page'
  BY <1>1 DEF LogsInv, Page
<1>3. Errors'
  BY <1>1, Zenon DEF Errors
<1> QED
  BY <1>1, <1>2, <1>3 DEF LogsInv, Mail

LEMMA AskKeeps ==
  ASSUME LogsInv, View!Tick \/ View!LogsPage
  PROVE  LogsInv'
<1>1. mounted /\ UNCHANGED <<log, recorded, clears, ends, mounted, mounts, listed, failed, cached,
                             answers>>
  BY DEF View!Tick, View!LogsPage, View!ClearLogs, View!history
<1>2. mounts \in 1..MaxMounts
  BY <1>1 DEF LogsInv, Page
<1>3. PICK c \in View!Command : /\ queue' = Append(queue, c)
                                /\ c.cmd = "clear" => View!LogsPage
  BY <1>2 DEF View!Tick, View!LogsPage, View!ClearLogs, View!Command
<1>4. ASSUME View!LogsPage
      PROVE  MaxClears - clears # 0 /\ \A i : ~IsClear(queue, i)
  <2>1. clears < MaxClears /\ View!Pending("clear") = {}
    BY <1>4 DEF View!LogsPage, View!ClearLogs
  <2>2. ASSUME NEW i, IsClear(queue, i)
        PROVE  FALSE
    <3>1. <<"queue", i>> \in View!Pending("clear")
      BY <2>2 DEF IsClear, View!Pending
    <3> QED
      BY <2>1, <3>1
  <2> QED
    BY <2>1, <2>2, LogsFacts, LogsBounds
<1>5. queue' \in Seq(View!Command) /\ OneClear(queue', MaxClears - clears)
  BY <1>3, <1>4, LogsFacts, AsksOnce
<1>6. Page'
  BY <1>1 DEF LogsInv, Page
<1>7. Errors'
  BY <1>1, Zenon DEF LogsInv, Errors
<1> QED
  BY <1>1, <1>5, <1>6, <1>7 DEF LogsInv, Mail

LEMMA ServeKeeps ==
  ASSUME LogsInv, View!ServeList \/ View!ServeClear \/ View!Refuse
  PROVE  LogsInv'
<1>1. /\ queue # <<>> /\ queue' = Tail(queue)
      /\ UNCHANGED <<recorded, ends, mounted, mounts, listed, failed, cached>>
  BY DEF View!ServeList, View!ServeClear, View!Refuse, View!Answer, View!history
<1>2. /\ Tail(queue) \in Seq(View!Command) /\ Head(queue) \in View!Command
      /\ OneClear(Tail(queue), MaxClears - clears)
      /\ Head(queue).cmd = "clear" =>
           MaxClears - clears # 0 /\ \A i : ~IsClear(Tail(queue), i)
  BY <1>1, LogsFacts, ServedOnce
<1>3. PICK ok \in BOOLEAN, entries \in SUBSET View!Entry :
        answers' = Append(answers, [cmd |-> Head(queue).cmd, mount |-> Head(queue).mount,
                                    ok |-> ok, entries |-> entries])
  <2>1. log \in SUBSET View!Entry /\ {} \in SUBSET View!Entry
    BY DEF LogsInv, Page
  <2>2. \/ View!Answer(TRUE, log) \/ View!Answer(TRUE, {}) \/ View!Answer(FALSE, {})
    BY DEF View!ServeList, View!ServeClear, View!Refuse
  <2> QED
    BY <2>1, <2>2, Zenon DEF View!Answer
<1>4. [cmd |-> Head(queue).cmd, mount |-> Head(queue).mount, ok |-> ok, entries |-> entries]
        \in View!Result
  BY <1>2, LogsFacts DEF View!Result
<1>5. Mail'
  BY <1>1, <1>2, <1>3, <1>4, LogsFacts, AppendProperties DEF Mail
<1>6. Errors'
  BY <1>1, Zenon DEF LogsInv, Errors
<1>7. \/ log' = log /\ clears' = clears
      \/ log' = {} /\ clears' = clears + 1 /\ Head(queue).cmd = "clear"
  BY DEF View!ServeList, View!ServeClear, View!Refuse, View!history
<1>8. Page'
  BY <1>1, <1>2, <1>7, LogsBounds DEF LogsInv, Page
<1>9. OneClear(queue', MaxClears - clears')
  BY <1>1, <1>2, <1>7 DEF OneClear
<1> QED
  BY <1>5, <1>6, <1>8, <1>9 DEF LogsInv

LEMMA TakeKeeps ==
  ASSUME LogsInv, NEW i \in DOMAIN answers, View!TakeAnswer(i) \/ View!TakeError(i)
  PROVE  LogsInv'
<1>1. /\ answers' = View!RemoveAt(answers, i)
      /\ UNCHANGED <<log, recorded, clears, ends, mounted, mounts, queue>>
  BY DEF View!TakeAnswer, View!TakeError, View!history
<1>2. Mail'
  BY <1>1, LogsFacts, TakenOut DEF Mail
<1>3. answers[i].entries \subseteq View!Entry
  BY LogsFacts, LenProperties, ElementOfSeq
<1>4. Errors'
  <2>1. mounted' = mounted /\ Errors
    BY <1>1 DEF LogsInv
  <2>2. CASE View!TakeError(i)
    <3>1. failed' = (failed \/ (answers[i].cmd = "list" /\ mounted /\ answers[i].mount = mounts))
      BY <2>2 DEF View!TakeError
    <3> QED
      BY <2>1, <3>1, Zenon DEF Errors
  <2>3. CASE View!TakeAnswer(i)
    <3>1. failed' = failed \/ (mounted /\ failed' = FALSE)
      BY <2>3 DEF View!TakeAnswer
    <3>2. CASE failed' = failed
      BY <2>1, <3>2, Zenon DEF Errors
    <3>3. CASE mounted /\ failed' = FALSE
      BY <2>1, <3>3, Zenon DEF Errors
    <3> QED
      BY <3>1, <3>2, <3>3
  <2> QED
    BY <2>2, <2>3
<1>5. /\ cached' \in {cached, answers[i].entries}
      /\ listed' = listed \/ (mounted /\ listed' = answers[i].entries)
  BY DEF View!TakeAnswer, View!TakeError
<1>6. Page'
  BY <1>1, <1>3, <1>5 DEF LogsInv, Page
<1> QED
  BY <1>1, <1>2, <1>4, <1>6 DEF LogsInv

LEMMA RecordKeeps ==
  ASSUME LogsInv, View!Record \/ View!End
  PROVE  LogsInv'
<1>1. CASE View!Record
  <2>1. /\ recorded < MaxRecords /\ recorded' = recorded + 1 /\ log' = log \cup {recorded + 1}
        /\ UNCHANGED <<clears, ends, mounted, mounts, listed, failed, cached, queue, answers>>
    BY <1>1 DEF View!Record
  <2>2. Page'
    BY <2>1, LogsBounds DEF LogsInv, Page, View!Entry
  <2>3. Errors'
    BY <2>1, Zenon DEF LogsInv, Errors
  <2> QED
    BY <2>1, <2>2, <2>3 DEF LogsInv, Mail
<1>2. CASE View!End
  <2>1. /\ ends < MaxEnds /\ ends' = ends + 1 /\ mounted' = FALSE /\ listed' = {}
        /\ failed' = FALSE /\ cached' = {} /\ queue' = <<>> /\ answers' = <<>>
        /\ UNCHANGED <<log, recorded, clears, mounts>>
    BY <1>2 DEF View!End
  <2>2. Page'
    BY <2>1, LogsBounds DEF LogsInv, Page
  <2>3. Errors'
    BY <2>1, Zenon DEF Errors
  <2>4. Mail'
    BY <2>1 DEF Mail
  <2>5. OneClear(queue', MaxClears - clears')
    BY <2>1 DEF OneClear, IsClear
  <2> QED
    BY <2>2, <2>3, <2>4, <2>5 DEF LogsInv
<1> QED
  BY <1>1, <1>2

LEMMA LogsInvariant == ViewsSpec => []LogsInv
<1>1. ViewsInit => LogsInv
  BY LogsStart
<1>2. ASSUME LogsInv, View!Next
      PROVE  LogsInv'
  BY <1>2, MountKeeps, UnmountKeeps, AskKeeps, ServeKeeps, TakeKeeps, RecordKeeps DEF View!Next
<1>3. LogsInv /\ [ViewsNext]_allVars => LogsInv'
  <2> SUFFICES ASSUME LogsInv, [ViewsNext]_allVars
               PROVE  LogsInv'
    OBVIOUS
  <2>1. CASE UNCHANGED viewVars
    BY <2>1 DEF viewVars, LogsInv, Page, Errors, Mail
  <2>2. CASE OnLogs(View!Next)
    BY <1>2, <2>2 DEF OnLogs
  <2> QED
    BY <2>1, <2>2 DEF ViewsNext, OnTerminal, OnShell, allVars
<1> QED
  BY <1>1, <1>3, PTL DEF ViewsSpec

-----------------------------------------------------------------------------
(* The window.  A link that was followed without a race arrives where it   *)
(* was asked to go; localStorage holds every message that was sent.        *)

Spot ==
  /\ place \in {"start", "module", "dashboard"}
  /\ url \in Shell!Address \cup {None} /\ arriving \in Shell!Address \cup {None}
  /\ wanted \in Shell!Address

Look ==
  /\ activeTab \in Shell!Tab /\ activeSection \in Section \cup {"sessions"}
  /\ viewMode \in {"sessions", "management"}
  /\ viewMode = "management" => activeSection \in Section

Switches ==
  /\ persistent \in BOOLEAN /\ loading \in BOOLEAN /\ timer \in BOOLEAN
  /\ collaborationOpen \in BOOLEAN
  /\ raced \in BOOLEAN /\ silent \in BOOLEAN

Connections ==
  /\ ssh \in Shell!Work /\ sftp \in Shell!Work
  /\ Shell!ShowSsh => ssh # None
  /\ Shell!ShowSftp => sftp # None

Messages ==
  /\ said \in 0..MaxMessages /\ stored = said /\ messages \in 0..MaxMessages
  /\ Shell!PanelMounted => messages = said

Landing ==
  /\ place = "module" /\ arriving # None => wanted = arriving
  /\ place = "dashboard" => arriving \in Section \cup {None}
  /\ place = "dashboard" /\ ~raced =>
       IF arriving = None THEN Shell!Screen = wanted ELSE wanted = arriving

ShellInv ==
  Spot /\ Look /\ Switches /\ Connections /\ Messages /\ Landing /\ clicks \in 0..MaxClicks

LEMMA ShellNames ==
  /\ "hosts" \in Section /\ Section \cap {"sftp", "ssh", "add-ssh", "sessions"} = {}
  /\ MaxClicks \in Nat /\ MaxMessages \in Nat
  /\ None \notin Section \cup {"sftp", "ssh", "add-ssh", "idle", "connected"}
  /\ None \notin Shell!Address
BY Assumptions DEF Shell!AppShellAssumption, Shell!Address, Shell!Tab

LEMMA ShellStart == ASSUME ViewsInit PROVE ShellInv
<1>1. Shell!Init
  BY DEF ViewsInit
<1> USE DEF Shell!Init
<1>2. Spot
  BY <1>1, ShellNames DEF Spot, Shell!Address
<1>3. Look
  BY <1>1, ShellNames DEF Look, Shell!Tab
<1>4. Switches
  BY <1>1, Zenon DEF Switches
<1>5. Connections
  BY <1>1 DEF Connections, Shell!Work, Shell!ShowSsh, Shell!ShowSftp
<1>6. Messages /\ clicks \in 0..MaxClicks
  BY <1>1, ShellNames DEF Messages
<1>7. Landing
  BY <1>1 DEF Landing
<1> QED
  BY <1>2, <1>3, <1>4, <1>5, <1>6, <1>7 DEF ShellInv

LEMMA Clicked ==
  ASSUME ShellInv, Shell!Click
  PROVE  clicks' \in 0..MaxClicks
BY ShellNames DEF ShellInv, Shell!Click

\* What the window does to its parts when the screen changes.
LEMMA FollowKeeps ==
  ASSUME ShellInv, Shell!Follow, place' \in {place, "dashboard"}
  PROVE  Connections' /\ Messages' /\ collaborationOpen' \in BOOLEAN
<1> USE DEF ShellInv
<1>1. /\ ssh' = Shell!Kept(ssh, persistent' \/ Shell!ShowSsh')
      /\ sftp' = Shell!Kept(sftp, Shell!ShowSftp' \/ sftp = "connected")
      /\ messages' = IF Shell!ShowSsh \/ place' # place THEN stored ELSE messages
      /\ stored' = stored /\ said' = said
  BY DEF Shell!Follow
<1>2. collaborationOpen' \in BOOLEAN
  BY Zenon DEF Shell!Follow
<1>3. ssh' \in Shell!Work /\ (Shell!ShowSsh' => ssh' # None)
  BY <1>1, ShellNames DEF Connections, Shell!Kept, Shell!Work
<1>4. sftp' \in Shell!Work /\ (Shell!ShowSftp' => sftp' # None)
  BY <1>1, ShellNames DEF Connections, Shell!Kept, Shell!Work
<1>5. Messages'
  BY <1>1 DEF Messages, Shell!PanelMounted
<1> QED
  BY <1>2, <1>3, <1>4, <1>5 DEF Connections

LEMMA SectionLinkKeeps ==
  ASSUME ShellInv, NEW s \in Section, Shell!SectionLink(s)
  PROVE  ShellInv'
<1> USE DEF ShellInv
<1>1. /\ place = "dashboard" /\ Shell!Click
      /\ UNCHANGED <<place, url>>
      /\ arriving' = IF s = url THEN None ELSE s
      /\ wanted' = s /\ raced' = FALSE
  BY DEF Shell!SectionLink
<1>2. s \in Shell!Address
  BY DEF Shell!Address
<1>3. Spot' /\ clicks' \in 0..MaxClicks
  BY <1>1, <1>2, Clicked DEF Spot
<1>4. CASE viewMode = "management" /\ activeSection = s
  <2>1. UNCHANGED <<activeTab, activeSection, viewMode, persistent, loading, timer, silent, ssh,
                    sftp, collaborationOpen, messages, stored, said>>
    BY <1>4 DEF Shell!SectionLink, Shell!screen, Shell!overlay, Shell!panel
  <2>2. Look' /\ Connections' /\ Messages'
    BY <1>1, <2>1 DEF Look, Connections, Messages, Shell!ShowSsh, Shell!ShowSftp, Shell!PanelMounted
  <2>3. Switches'
    BY <1>1, <2>1, Zenon DEF Switches
  <2>4. Landing'
    BY <1>1, <1>4, <2>1 DEF Landing, Shell!Screen
  <2> QED
    BY <1>3, <2>2, <2>3, <2>4
<1>5. CASE ~(viewMode = "management" /\ activeSection = s)
  <2>1. /\ loading' = TRUE /\ timer' = FALSE /\ silent' = (s = url)
        /\ activeTab' = activeTab /\ activeSection' = s /\ viewMode' = "management"
        /\ persistent' = persistent /\ Shell!Follow
    BY <1>5, Zenon DEF Shell!SectionLink, Shell!BeginSystemLoading, Shell!Show
  <2>2. Connections' /\ Messages' /\ collaborationOpen' \in BOOLEAN
    BY <1>1, <2>1, FollowKeeps DEF Connections
  <2>3. Look'
    BY <2>1 DEF Look
  <2>4. Switches'
    BY <1>1, <2>1, <2>2, Zenon DEF Switches
  <2>5. Landing'
    BY <1>1, <2>1 DEF Landing, Shell!Screen
  <2> QED
    BY <1>3, <2>2, <2>3, <2>4, <2>5
<1> QED
  BY <1>4, <1>5

\* The buttons that show a screen of sessions at once.
LEMMA SessionsKeep ==
  ASSUME ShellInv, place = "dashboard", Shell!Click, NEW t \in Shell!Tab, Shell!Asked(t),
         Shell!BeginAndFinish, NEW s \in Section \cup {"sessions"},
         Shell!Show(t, s, "sessions"), UNCHANGED <<place, url, arriving>>, Shell!Follow,
         persistent' \in BOOLEAN
  PROVE  ShellInv'
<1> USE DEF ShellInv
<1>1. /\ wanted' = t /\ raced' = (arriving # None)
      /\ activeTab' = t /\ activeSection' = s /\ viewMode' = "sessions"
      /\ UNCHANGED <<place, url, arriving>>
  BY DEF Shell!Asked, Shell!Show
<1>2. loading' = TRUE /\ timer' = TRUE /\ silent' = FALSE
  BY DEF Shell!BeginAndFinish
<1>3. Connections' /\ Messages' /\ collaborationOpen' \in BOOLEAN
  BY FollowKeeps
<1>4. Spot' /\ Look' /\ clicks' \in 0..MaxClicks
  BY <1>1, Clicked DEF Spot, Look, Shell!Address
<1>5. Switches'
  BY <1>1, <1>2, <1>3, Zenon DEF Switches
<1>6. Landing'
  BY <1>1 DEF Landing, Shell!Screen
<1> QED
  BY <1>3, <1>4, <1>5, <1>6

LEMMA TabClickKeeps ==
  ASSUME ShellInv, NEW t \in Shell!Tab, Shell!TabClick(t)
  PROVE  ShellInv'
<1>1. activeSection \in Section \cup {"sessions"}
  BY DEF ShellInv, Look
<1>2. persistent' \in BOOLEAN
  BY DEF ShellInv, Switches, Shell!TabClick
<1> QED
  BY <1>1, <1>2, SessionsKeep DEF Shell!TabClick

LEMMA OpenSshKeeps ==
  ASSUME ShellInv, Shell!HandleAddSsh \/ Shell!HandleOpenSshFromHost
  PROVE  ShellInv'
<1>1. activeSection \in Section \cup {"sessions"} /\ "ssh" \in Shell!Tab
  BY DEF ShellInv, Look, Shell!Tab
<1>2. persistent' \in BOOLEAN
  BY DEF Shell!HandleAddSsh, Shell!HandleOpenSshFromHost, Shell!OpenWorkspace
<1>3. CASE Shell!HandleAddSsh
  BY <1>1, <1>2, <1>3, SessionsKeep DEF Shell!HandleAddSsh, Shell!OpenWorkspace
<1>4. CASE Shell!HandleOpenSshFromHost
  BY <1>1, <1>2, <1>4, SessionsKeep DEF Shell!HandleOpenSshFromHost, Shell!OpenWorkspace
<1> QED
  BY <1>3, <1>4

LEMMA LayoutKeeps ==
  ASSUME ShellInv, NEW a \in Shell!Address, Shell!LayoutNavigates(a)
  PROVE  ShellInv'
<1> USE DEF ShellInv
<1>1. /\ place = "module" /\ arriving' = a /\ wanted' = a /\ raced' = FALSE /\ Shell!Click
      /\ UNCHANGED <<place, url, activeTab, activeSection, viewMode, persistent, loading, timer,
                     collaborationOpen, messages, stored, said, ssh, sftp, silent>>
  BY DEF Shell!LayoutNavigates, Shell!screen, Shell!overlay, Shell!panel
<1>2. Spot' /\ Look' /\ Landing' /\ clicks' \in 0..MaxClicks
  BY <1>1, Clicked DEF Spot, Look, Landing
<1>3. Connections' /\ Messages'
  BY <1>1 DEF Connections, Messages, Shell!ShowSsh, Shell!ShowSftp, Shell!PanelMounted
<1>4. Switches'
  BY <1>1, Zenon DEF Switches
<1> QED
  BY <1>2, <1>3, <1>4

LEMMA ArriveKeeps ==
  ASSUME ShellInv, Shell!Arrive
  PROVE  ShellInv'
<1> USE DEF ShellInv
<1>1. /\ arriving # None /\ arriving \in Shell!Address
      /\ place' = "dashboard" /\ url' = arriving /\ arriving' = None
      /\ Shell!Follow
      /\ wanted' = IF place = "start" THEN Shell!Screen'
                   ELSE IF wanted = "add-ssh" THEN "ssh" ELSE wanted
      /\ UNCHANGED <<raced, clicks>>
  BY DEF Shell!Arrive, Spot
<1>2. persistent \in BOOLEAN /\ loading \in BOOLEAN /\ raced \in BOOLEAN
  BY DEF Switches
<1>3. /\ persistent' \in BOOLEAN /\ loading' \in BOOLEAN /\ timer' \in BOOLEAN
      /\ silent' \in BOOLEAN
  <2>1. CASE Shell!ArriveAtSection
    BY <1>2, <2>1, Zenon DEF Shell!ArriveAtSection
  <2>2. CASE Shell!ArriveAtTab
    BY <1>2, <2>2, Zenon DEF Shell!ArriveAtTab
  <2>3. CASE Shell!ArriveAtAddSsh
    BY <2>3, Zenon DEF Shell!ArriveAtAddSsh, Shell!OpenWorkspace, Shell!BeginAndFinish
  <2> QED
    BY <2>1, <2>2, <2>3 DEF Shell!Arrive
<1>4. Look' /\ Shell!Screen' = (IF arriving = "add-ssh" THEN "ssh" ELSE arriving)
  <2>1. CASE Shell!ArriveAtSection
    BY <2>1, ShellNames DEF Shell!ArriveAtSection, Shell!Show, Look, Shell!Screen
  <2>2. CASE Shell!ArriveAtTab
    BY <2>2, ShellNames DEF Shell!ArriveAtTab, Shell!Show, Look, Shell!Screen, Shell!Tab
  <2>3. CASE Shell!ArriveAtAddSsh
    BY <2>3, ShellNames
       DEF Shell!ArriveAtAddSsh, Shell!OpenWorkspace, Shell!Show, Look, Shell!Screen, Shell!Tab
  <2> QED
    BY <2>1, <2>2, <2>3 DEF Shell!Arrive
<1>5. Connections' /\ Messages' /\ collaborationOpen' \in BOOLEAN
  BY <1>1, FollowKeeps
<1>6. Spot'
  BY <1>1, <1>4 DEF Spot, Shell!Address, Shell!Tab
<1>7. Switches'
  BY <1>1, <1>2, <1>3, <1>5, Zenon DEF Switches
<1>8. Landing'
  BY <1>1, <1>4, ShellNames DEF Landing, Spot
<1>9. clicks' \in 0..MaxClicks
  BY <1>1
<1> QED
  BY <1>4, <1>5, <1>6, <1>7, <1>8, <1>9

\* The timer, the sessions of the pages, and the panel, which leave the screen alone.
LEMMA RestKeeps ==
  ASSUME ShellInv,
         \/ Shell!LoadingTimer \/ Shell!SshSessionChanges \/ Shell!SftpSessionChanges
         \/ Shell!ToggleCollaboration \/ Shell!HandleSendMessage
  PROVE  ShellInv'
<1> USE DEF ShellInv
<1>1. UNCHANGED <<place, url, arriving, activeTab, activeSection, viewMode, persistent, clicks,
                  wanted, raced>>
  BY DEF Shell!LoadingTimer, Shell!SshSessionChanges, Shell!SftpSessionChanges,
         Shell!ToggleCollaboration, Shell!HandleSendMessage, Shell!screen, Shell!overlay,
         Shell!panel
<1>2. Spot' /\ Look' /\ Landing' /\ clicks' \in 0..MaxClicks
  BY <1>1 DEF Spot, Look, Landing, Shell!Screen
<1>3. Switches'
  BY <1>1, Zenon
     DEF Switches, Shell!LoadingTimer, Shell!SshSessionChanges, Shell!SftpSessionChanges,
         Shell!ToggleCollaboration, Shell!HandleSendMessage, Shell!overlay, Shell!panel
<1>4. /\ ssh' \in Shell!Work /\ sftp' \in Shell!Work
      /\ ssh # None => ssh' # None
      /\ Shell!ShowSftp => sftp' # None
  <2>1. CASE Shell!SshSessionChanges
    BY <2>1, ShellNames DEF Shell!SshSessionChanges, Connections, Shell!Work
  <2>2. CASE Shell!SftpSessionChanges
    BY <2>2, ShellNames DEF Shell!SftpSessionChanges, Shell!Kept, Connections, Shell!Work
  <2>3. CASE UNCHANGED <<ssh, sftp>>
    BY <2>3 DEF Connections
  <2> QED
    BY <2>1, <2>2, <2>3
       DEF Shell!LoadingTimer, Shell!ToggleCollaboration, Shell!HandleSendMessage
<1>5. Connections'
  BY <1>1, <1>4 DEF Connections, Shell!ShowSsh, Shell!ShowSftp
<1>6. Messages'
  <2>1. CASE Shell!HandleSendMessage
    BY <1>1, <2>1, ShellNames
       DEF Messages, Shell!HandleSendMessage, Shell!PanelMounted, Shell!ShowSsh
  <2>2. CASE UNCHANGED <<messages, stored, said>>
    BY <1>1, <2>2 DEF Messages, Shell!PanelMounted, Shell!ShowSsh
  <2> QED
    BY <2>1, <2>2
       DEF Shell!LoadingTimer, Shell!SshSessionChanges, Shell!SftpSessionChanges,
           Shell!ToggleCollaboration, Shell!panel
<1> QED
  BY <1>2, <1>3, <1>5, <1>6

LEMMA ShellStep ==
  ASSUME ShellInv, Shell!Next
  PROVE  ShellInv'
<1>1. CASE Shell!Sidebar
  BY <1>1, SectionLinkKeeps DEF Shell!Sidebar
<1>2. CASE Shell!Header
  BY <1>2, TabClickKeeps, OpenSshKeeps DEF Shell!Header
<1>3. CASE Shell!HostsList
  BY <1>3, OpenSshKeeps DEF Shell!HostsList
<1>4. CASE Shell!ModulesLayout
  BY <1>4, LayoutKeeps DEF Shell!ModulesLayout
<1>5. CASE Shell!Arrive
  BY <1>5, ArriveKeeps
<1> QED
  BY <1>1, <1>2, <1>3, <1>4, <1>5, RestKeeps DEF Shell!Next, Shell!CollaborationPanel

LEMMA ShellInvariant == ViewsSpec => []ShellInv
<1>1. ViewsInit => ShellInv
  BY ShellStart
<1>2. ShellInv /\ [ViewsNext]_allVars => ShellInv'
  <2> SUFFICES ASSUME ShellInv, [ViewsNext]_allVars
               PROVE  ShellInv'
    OBVIOUS
  <2>1. CASE UNCHANGED shellVars
    BY <2>1 DEF shellVars, ShellInv, Spot, Look, Switches, Connections, Messages, Landing,
                Shell!ShowSsh, Shell!ShowSftp, Shell!PanelMounted, Shell!Screen
  <2>2. CASE OnShell(Shell!Next)
    BY <2>2, ShellStep DEF OnShell
  <2> QED
    BY <2>1, <2>2 DEF ViewsNext, OnTerminal, OnLogs, allVars
<1> QED
  BY <1>1, <1>2, PTL DEF ViewsSpec

-----------------------------------------------------------------------------
(* What always holds.                                                      *)

\* AppShell: for any sections and any number of clicks and messages, the window shows
\* the screen last asked for unless a navigation was on its way, and the panel
\* every message that was sent.
THEOREM WindowIsAlwaysAsLeft == ViewsSpec => []WindowIsAsLeft
<1>1. ShellInv => WindowIsAsLeft
  BY DEF ShellInv, Landing, Messages, WindowIsAsLeft, Shell!ScreenIsWanted, Shell!MessagesAreKept
<1> QED
  BY <1>1, ShellInvariant, PTL

\* TerminalView: for any cap and any amount of output, reconnects and remounts, what
\* is on the screen is in the order in which it arrived, and none of it is there twice.
THEOREM OutputIsAlwaysInOrder == ViewsSpec => []ShownInOrder
<1>1. TermInv => ShownInOrder
  BY DEF TermInv, InOrder, Rising, ShownInOrder
<1> QED
  BY <1>1, TerminalInvariant, PTL

\* TerminalView, ActivityView and AppShell: every variable of the three keeps its type;
\* the terminal never holds more than Cap chunks, a clear in the queue is one the bound
\* allows, a page that is not there shows nothing, and the pages of the screen that is
\* shown are mounted.
THEOREM ViewTypesAreKept == ViewsSpec => []ViewTypesOK
<1>1. ASSUME TermInv
      PROVE  TypeOK
  <2>1. Produced \subseteq Output /\ produced \in 0..MaxOutput
    BY <1>1, TermFacts, TerminalViewAssumption DEF Produced, Output
  <2>2. Seq(Produced) \subseteq Seq(Output)
    BY <2>1, SeqGrows
  <2>3. pending \in Seq(Output) /\ shown \in Seq(Output) /\ chunks \in Seq(Seq(Output))
    BY <1>1, <2>2, TermFacts, SeqGrows
  <2> QED
    BY <1>1, <2>1, <2>3, TermFacts DEF TypeOK, TermInv, Effects, Screenful
<1>2. ASSUME LogsInv
      PROVE  View!TypeOK
  <2>1. /\ \A i \in DOMAIN queue : queue[i] \in View!Command
        /\ \A i \in DOMAIN answers : answers[i] \in View!Result
    BY <1>2, LogsFacts, LenProperties, ElementOfSeq
  <2>2. mounted \in BOOLEAN /\ failed \in BOOLEAN /\ (~mounted => ~failed)
    BY <1>2 DEF LogsInv, Errors
  <2>3. Page
    BY <1>2 DEF LogsInv
  <2> QED
    BY <2>1, <2>2, <2>3, Zenon DEF View!TypeOK, Page
<1>3. ASSUME ShellInv
      PROVE  Shell!TypeOK
  <2>1. Spot /\ Look /\ Switches /\ Connections /\ Messages /\ clicks \in 0..MaxClicks
    BY <1>3 DEF ShellInv
  <2> QED
    BY <2>1 DEF Shell!TypeOK, Spot, Look, Switches, Connections, Messages
<1>4. TermInv /\ LogsInv /\ ShellInv => ViewTypesOK
  BY <1>1, <1>2, <1>3 DEF ViewTypesOK
<1> QED
  BY <1>4, TerminalInvariant, LogsInvariant, ShellInvariant, PTL

=============================================================================
