---------------------------- MODULE WorkerProofs ----------------------------
(***************************************************************************)
(* What is proved of the wallet worker: that every Qi pass asked for is    *)
(* counted back, and that a notice never announces what the screen does    *)
(* not show yet.                                                           *)
(***************************************************************************)
EXTENDS EngineWorker, FiniteSetTheorems, SequenceTheorems, WellFoundedInduction, TLAPS

-----------------------------------------------------------------------------
(* The queue of commands. *)

Cmds == [kind : Commands, place : Places, force : BOOLEAN]

\* The answers of Qi passes among the first n commands of a queue, and in all of it.
Answers(s, n) == {i \in 1..n : s[i].kind = "qisynced"}
Answered(s) == Cardinality(Answers(s, Len(s)))

\* What a step of Others makes of the queue so far, and the function it builds up to k commands.
KeptAt(f, s, n) ==
  IF n = 0 THEN <<>> ELSE IF s[n].kind = "refresh" THEN f[n - 1] ELSE Append(f[n - 1], s[n])
KeepsTo(f, s, k) == f = [n \in 0..k |-> KeptAt(f, s, n)]

\* A set of naturals that is not empty has a least element, and Min is it.
LEMMA LeastIs == ASSUME NEW S \in SUBSET Nat, S # {} PROVE Min(S) \in S /\ \A m \in S : Min(S) <= m
<1>1. PICK R : R = OpToRel(<, Nat)
  OBVIOUS
<1>2. IsWellFoundedOn(R, Nat)
  BY <1>1, NatLessThanWellFounded
<1>3. PICK x \in S : \A y \in S : ~ (<<y, x>> \in R)
  BY <1>2, WFMin
<1>4. \A z, y \in Nat : z < y => <<z, y>> \in R
  BY <1>1 DEF OpToRel
<1>5. \A y \in S : ~(y < x)
  BY <1>3, <1>4
<1>6. \A y \in S : x <= y
  BY <1>5
<1> QED BY <1>6 DEF Min

\* The function Others is computed with exists.
LEMMA KeptExists == ASSUME NEW S, NEW s \in Seq(S) PROVE \E f : KeepsTo(f, s, Len(s))
<1> DEFINE Bad == {k \in 0..Len(s) : ~ \E f : KeepsTo(f, s, k)}
<1>4. Len(s) \in 0..Len(s)
  OBVIOUS
<1> SUFFICES ASSUME Bad # {} PROVE FALSE
  BY <1>4
<1>1. PICK k \in Bad : \A m \in Bad : k <= m
  <2>1. Bad \in SUBSET Nat
    OBVIOUS
  <2> QED BY <2>1, LeastIs
<1>2. CASE k = 0
  <2> DEFINE g == [n \in 0..0 |-> <<>>]
  <2>1. g = [n \in 0..0 |-> KeptAt(g, s, n)]
    BY DEF KeptAt
  <2> QED BY <1>1, <1>2, <2>1 DEF KeepsTo
<1>3. CASE k # 0
  <2>1. k - 1 \in 0..Len(s) /\ ~(k <= k - 1) /\ k \in Nat
    BY <1>1, <1>3
  <2>2. PICK f : KeepsTo(f, s, k - 1)
    BY <1>1, <2>1
  <2> DEFINE g == [n \in 0..k |-> IF n = k THEN KeptAt(f, s, k) ELSE f[n]]
  <2>3. ASSUME NEW n \in 0..k PROVE g[n] = KeptAt(g, s, n)
    <3>1. CASE n = k
      <4>1. g[k - 1] = f[k - 1] /\ g[k] = KeptAt(f, s, k)
        BY <2>1
      <4> HIDE DEF g
      <4> QED BY <3>1, <4>1 DEF KeptAt
    <3>2. CASE n # k
      <4>1. g[n] = f[n] /\ f[n] = KeptAt(f, s, n)
        BY <2>1, <2>2, <3>2 DEF KeepsTo
      <4>2. n # 0 => g[n - 1] = f[n - 1]
        BY <2>1, <3>2
      <4> HIDE DEF g
      <4> QED BY <4>1, <4>2 DEF KeptAt
    <3> QED BY <3>1, <3>2
  <2>4. KeepsTo(g, s, k)
    <3>1. g = [n \in 0..k |-> g[n]]
      OBVIOUS
    <3> HIDE DEF g
    <3> QED BY <2>3, <3>1 DEF KeepsTo
  <2> HIDE DEF g
  <2> QED BY <1>1, <2>4
<1> QED BY <1>2, <1>3

\* How many answers there are is a number.
LEMMA AnswersType == ASSUME NEW s, NEW n \in Nat PROVE IsFiniteSet(Answers(s, n)) /\ Cardinality(Answers(s, n)) \in Nat
<1>1. IsFiniteSet(1..n) /\ Answers(s, n) \in SUBSET (1..n)
  BY FS_Interval DEF Answers
<1> QED BY <1>1, FS_Subset, FS_CardinalityType

\* One command more adds an answer if it is one.
LEMMA AnswersGrow ==
  ASSUME NEW s, NEW n \in Nat
  PROVE  Cardinality(Answers(s, n + 1)) = Cardinality(Answers(s, n)) + (IF s[n + 1].kind = "qisynced" THEN 1 ELSE 0)
<1>1. IsFiniteSet(Answers(s, n)) /\ n + 1 \notin Answers(s, n) /\ Cardinality(Answers(s, n)) \in Nat
  BY AnswersType DEF Answers
<1>2. CASE s[n + 1].kind = "qisynced"
  <2>1. Answers(s, n + 1) = Answers(s, n) \cup {n + 1}
    BY <1>2 DEF Answers
  <2> QED BY <1>1, <1>2, <2>1, FS_AddElement
<1>3. CASE s[n + 1].kind # "qisynced"
  <2>1. Answers(s, n + 1) = Answers(s, n)
    BY <1>3 DEF Answers
  <2> QED BY <1>1, <1>3, <2>1
<1> QED BY <1>2, <1>3

\* Two queues alike up to n hold the same answers up to n.
LEMMA AnswersAlike ==
  ASSUME NEW s, NEW t, NEW n \in Nat, \A i \in 1..n : s[i] = t[i]
  PROVE  Answers(s, n) = Answers(t, n)
BY DEF Answers

\* A command sent is at the end of the queue.
LEMMA SentAnswers ==
  ASSUME NEW s \in Seq(Cmds), NEW c \in Cmds
  PROVE  /\ Append(s, c) \in Seq(Cmds) /\ Answered(s) \in Nat
         /\ Answered(Append(s, c)) = Answered(s) + (IF c.kind = "qisynced" THEN 1 ELSE 0)
<1>1. PICK t : t = Append(s, c)
  OBVIOUS
<1>2. t \in Seq(Cmds) /\ Len(t) = Len(s) + 1 /\ Len(s) \in Nat /\ t[Len(s) + 1] = c
  BY <1>1
<1>3. \A i \in 1..Len(s) : t[i] = s[i]
  BY <1>1
<1>4. Answers(t, Len(s)) = Answers(s, Len(s))
  BY <1>2, <1>3, AnswersAlike
<1>5. Cardinality(Answers(t, Len(s) + 1)) = Cardinality(Answers(t, Len(s))) + (IF c.kind = "qisynced" THEN 1 ELSE 0)
  BY <1>2, AnswersGrow
<1>6. Cardinality(Answers(s, Len(s))) \in Nat
  BY <1>2, AnswersType
<1> QED BY <1>1, <1>2, <1>4, <1>5, <1>6 DEF Answered

\* Taking out the queued refreshes keeps every other command, and every answer with them.
LEMMA OthersKeep ==
  ASSUME NEW s \in Seq(Cmds)
  PROVE  /\ Others(s) \in Seq(Cmds) /\ Answered(Others(s)) = Answered(s)
         /\ \A j \in 1..Len(Others(s)) : \E i \in 1..Len(s) : Others(s)[j] = s[i]
<1>1. PICK f : f = (CHOOSE h : KeepsTo(h, s, Len(s)))
  OBVIOUS
<1>2. KeepsTo(f, s, Len(s))
  BY <1>1, KeptExists
<1>3. Others(s) = f[Len(s)]
  BY <1>1 DEF Others, KeepsTo, KeptAt
<1>4. Len(s) \in Nat
  OBVIOUS
<1> DEFINE Good(k) == /\ f[k] \in Seq(Cmds) /\ Answered(f[k]) = Cardinality(Answers(s, k))
                      /\ \A j \in 1..Len(f[k]) : \E i \in 1..k : f[k][j] = s[i]
           Bad == {k \in 0..Len(s) : ~Good(k)}
<1> SUFFICES Bad = {}
  BY <1>3, <1>4 DEF Answered
<1> SUFFICES ASSUME Bad # {} PROVE FALSE
  OBVIOUS
<1>5. PICK k \in Bad : \A m \in Bad : k <= m
  <2>1. Bad \in SUBSET Nat
    OBVIOUS
  <2> QED BY <2>1, LeastIs
<1>6. k \in 0..Len(s) /\ ~Good(k) /\ f[k] = KeptAt(f, s, k)
  BY <1>2, <1>5 DEF KeepsTo
<1>7. CASE k = 0
  <2>1. f[k] = <<>>
    BY <1>6, <1>7 DEF KeptAt
  <2>2. Answers(<<>>, 0) = {} /\ Answers(s, 0) = {}
    BY DEF Answers
  <2>3. Answered(f[k]) = Cardinality(Answers(s, k))
    BY <1>7, <2>1, <2>2 DEF Answered
  <2>4. f[k] \in Seq(Cmds) /\ \A j \in 1..Len(f[k]) : FALSE
    BY <2>1, EmptySeq
  <2> QED BY <1>6, <2>3, <2>4
<1>8. CASE k # 0
  <2>1. PICK m : m = k - 1
    OBVIOUS
  <2>2. m \in Nat /\ m \in 0..Len(s) /\ m + 1 = k /\ k \in 1..Len(s) /\ ~(k <= m)
    BY <1>6, <1>8, <2>1
  <2>3. Good(m)
    BY <1>5, <2>2
  <2>4. s[k] \in Cmds
    BY <2>2
  <2>5. Cardinality(Answers(s, k)) = Cardinality(Answers(s, m)) + (IF s[k].kind = "qisynced" THEN 1 ELSE 0)
    BY <2>2, AnswersGrow
  <2>6. f[k] = IF s[k].kind = "refresh" THEN f[m] ELSE Append(f[m], s[k])
    BY <1>6, <1>8, <2>1 DEF KeptAt
  <2>7. CASE s[k].kind = "refresh"
    <3>1. f[k] = f[m] /\ Cardinality(Answers(s, k)) = Cardinality(Answers(s, m))
      BY <2>2, <2>5, <2>6, <2>7, AnswersType
    <3>2. \A i \in 1..m : i \in 1..k
      BY <2>2
    <3> QED BY <1>6, <2>3, <3>1, <3>2
  <2>8. CASE s[k].kind # "refresh"
    <3>1. f[k] = Append(f[m], s[k]) /\ f[m] \in Seq(Cmds)
      BY <2>3, <2>6, <2>8
    <3>2. f[k] \in Seq(Cmds) /\ Answered(f[k]) = Cardinality(Answers(s, k))
      BY <2>3, <2>4, <2>5, <3>1, SentAnswers
    <3>3. ASSUME NEW j \in 1..Len(f[k]) PROVE \E i \in 1..k : f[k][j] = s[i]
      <4>1. Len(f[k]) = Len(f[m]) + 1 /\ Len(f[m]) \in Nat
        BY <3>1, <2>4
      <4>2. CASE j = Len(f[m]) + 1
        BY <2>2, <2>4, <3>1, <4>1, <4>2
      <4>3. CASE j # Len(f[m]) + 1
        <5>1. j \in 1..Len(f[m]) /\ f[k][j] = f[m][j]
          BY <2>4, <3>1, <4>1, <4>3
        <5>2. PICK i \in 1..m : f[m][j] = s[i]
          BY <2>3, <5>1
        <5> QED BY <2>2, <5>1, <5>2
      <4> QED BY <4>2, <4>3
    <3> QED BY <1>6, <3>2, <3>3
  <2> QED BY <2>7, <2>8
<1> QED BY <1>7, <1>8

\* Taking a command out of the queue leaves the others, and their answers.
LEMMA RemovedKeep ==
  ASSUME NEW s \in Seq(Cmds), NEW k \in 1..Len(s)
  PROVE  /\ RemoveAt(s, k) \in Seq(Cmds)
         /\ Answered(s) = Answered(RemoveAt(s, k)) + (IF s[k].kind = "qisynced" THEN 1 ELSE 0)
         /\ \A j \in 1..Len(RemoveAt(s, k)) : \E i \in 1..Len(s) : RemoveAt(s, k)[j] = s[i]
<1>1. PICK t : t = RemoveAt(s, k)
  OBVIOUS
<1>2. PICK a : a = SubSeq(s, 1, k - 1)
  OBVIOUS
<1>3. PICK b : b = SubSeq(s, k + 1, Len(s))
  OBVIOUS
<1>4. t = a \o b
  BY <1>1, <1>2, <1>3 DEF RemoveAt
<1>5. Len(s) \in Nat /\ k \in Nat /\ k - 1 \in Nat /\ \A i \in 1..Len(s) : s[i] \in Cmds
  OBVIOUS
<1>6. a \in Seq(Cmds) /\ Len(a) = k - 1 /\ \A i \in 1..(k - 1) : a[i] = s[i]
  <2>1. \A i \in 1..(k - 1) : s[i] \in Cmds
    BY <1>5
  <2>2. 1 \in Int /\ k - 1 \in Int
    BY <1>5
  <2>3. /\ a \in Seq(Cmds) /\ Len(a) = IF 1 <= k - 1 THEN k - 1 - 1 + 1 ELSE 0
        /\ \A i \in 1..(k - 1 - 1 + 1) : a[i] = s[1 + i - 1]
    BY <1>2, <2>1, <2>2, SubSeqProperties
  <2> QED BY <1>5, <2>3
<1>7. b \in Seq(Cmds) /\ Len(b) = Len(s) - k /\ \A i \in 1..(Len(s) - k) : b[i] = s[k + i]
  <2>1. \A i \in (k + 1)..Len(s) : s[i] \in Cmds
    BY <1>5
  <2>2. k + 1 \in Int /\ Len(s) \in Int
    BY <1>5
  <2>3. /\ b \in Seq(Cmds) /\ Len(b) = IF k + 1 <= Len(s) THEN Len(s) - (k + 1) + 1 ELSE 0
        /\ \A i \in 1..(Len(s) - (k + 1) + 1) : b[i] = s[k + 1 + i - 1]
    BY <1>3, <2>1, <2>2, SubSeqProperties
  <2> QED BY <1>5, <2>3
<1>8. /\ t \in Seq(Cmds) /\ Len(t) = Len(s) - 1
      /\ \A i \in 1..(Len(s) - 1) : t[i] = IF i < k THEN s[i] ELSE s[i + 1]
  <2>1. /\ t \in Seq(Cmds) /\ Len(t) = Len(a) + Len(b)
        /\ \A i \in 1..(Len(a) + Len(b)) : t[i] = IF i <= Len(a) THEN a[i] ELSE b[i - Len(a)]
    BY <1>4, <1>6, <1>7, ConcatProperties
  <2>2. Len(a) + Len(b) = Len(s) - 1
    BY <1>5, <1>6, <1>7
  <2>3. ASSUME NEW i \in 1..(Len(s) - 1) PROVE t[i] = IF i < k THEN s[i] ELSE s[i + 1]
    <3>1. CASE i < k
      BY <1>5, <1>6, <2>1, <2>2, <3>1
    <3>2. CASE ~(i < k)
      <4>1. i - (k - 1) \in 1..(Len(s) - k) /\ ~(i <= k - 1) /\ k + (i - (k - 1)) = i + 1
        BY <1>5, <3>2
      <4>2. t[i] = b[i - (k - 1)]
        BY <1>6, <2>1, <2>2, <4>1
      <4> QED BY <1>7, <3>2, <4>1, <4>2
    <3> QED BY <3>1, <3>2
  <2> QED BY <2>1, <2>2, <2>3
<1>9. \A j \in 1..Len(t) : \E i \in 1..Len(s) : t[j] = s[i]
  <2> TAKE j \in 1..Len(t)
  <2>1. j \in 1..Len(s) /\ j + 1 \in 1..Len(s)
    BY <1>5, <1>8
  <2> QED BY <1>8, <2>1
<1>10. Answered(s) = Answered(t) + (IF s[k].kind = "qisynced" THEN 1 ELSE 0)
  <2> DEFINE A == Answers(t, Len(t))
             B == Answers(s, Len(s)) \ {k}
             g == [i \in A |-> IF i < k THEN i ELSE i + 1]
  <2>1. IsFiniteSet(A) /\ IsFiniteSet(Answers(s, Len(s))) /\ Cardinality(Answers(s, Len(s))) \in Nat
    <3>1. Len(t) \in Nat
      BY <1>8
    <3> QED BY <1>5, <3>1, AnswersType
  <2>2. g \in Bijection(A, B)
    <3>1. ASSUME NEW i \in A PROVE g[i] \in B
      <4>1. i \in 1..(Len(s) - 1) /\ t[i].kind = "qisynced"
        BY <1>8 DEF Answers
      <4> QED BY <1>5, <1>8, <4>1 DEF Answers
    <3>2. ASSUME NEW i \in A, NEW j \in A, g[i] = g[j] PROVE i = j
      <4>1. i \in Nat /\ j \in Nat
        BY <1>8 DEF Answers
      <4> QED BY <1>5, <3>2, <4>1
    <3>3. ASSUME NEW m \in B PROVE \E i \in A : g[i] = m
      <4>1. m \in 1..Len(s) /\ m # k /\ s[m].kind = "qisynced"
        BY DEF Answers
      <4>2. CASE m < k
        <5>1. m \in 1..(Len(s) - 1)
          BY <1>5, <4>1, <4>2
        <5>2. t[m] = s[m]
          BY <1>8, <4>2, <5>1
        <5>3. m \in A
          BY <1>8, <4>1, <5>1, <5>2 DEF Answers
        <5> QED BY <4>2, <5>3
      <4>3. CASE ~(m < k)
        <5>1. m - 1 \in 1..(Len(s) - 1) /\ ~(m - 1 < k) /\ m - 1 + 1 = m
          BY <1>5, <4>1, <4>3
        <5>2. t[m - 1] = s[m]
          BY <1>8, <5>1
        <5>3. m - 1 \in A
          BY <1>8, <4>1, <5>1, <5>2 DEF Answers
        <5> QED BY <5>1, <5>3
      <4> QED BY <4>2, <4>3
    <3>4. g \in [A -> B]
      BY <3>1
    <3> HIDE DEF g, A, B
    <3>5. g \in Injection(A, B)
      BY <3>2, <3>4 DEF Injection, IsInjective
    <3>6. g \in Surjection(A, B)
      BY <3>3, <3>4 DEF Surjection
    <3> QED BY <3>5, <3>6 DEF Bijection
  <2>3. Cardinality(A) = Cardinality(B)
    <3> HIDE DEF A, B, g
    <3>1. ExistsBijection(A, B)
      BY <2>2 DEF ExistsBijection
    <3> QED BY <2>1, <3>1, FS_Bijection
  <2>4. Cardinality(B) = IF s[k].kind = "qisynced" THEN Cardinality(Answers(s, Len(s))) - 1 ELSE Cardinality(Answers(s, Len(s)))
    <3>1. k \in Answers(s, Len(s)) <=> s[k].kind = "qisynced"
      BY DEF Answers
    <3> QED BY <2>1, <3>1, FS_RemoveElement
  <2> QED BY <2>1, <2>3, <2>4 DEF Answered
<1> QED BY <1>1, <1>8, <1>9, <1>10

-----------------------------------------------------------------------------
(* Types. *)

Boards == [place : Places, ops : Nat, at : Nat, bal : Nat]
Notices == [kind : {"notify"}, place : Places, ver : Nat, sw : Nat]
OpsReads == [kind : {"ops"}, place : Places, ops : Nat, at : Nat]
Said == [kind : {"dash"}, place : Places, ops : Nat, at : Nat, bal : Nat] \cup OpsReads \cup Notices
Jobs == [kind : {"none", "refresh", "committed", "switch"}, force : BOOLEAN, read : Nat, notes : Seq(Notices)]
LanePlaces == {"idle", "stamp", "read", "send", "notify"}
Lookings == [pc : LanePlaces, place : Places, ver : Nat, at : Nat, ops : Nat, sw : Nat, next : Seq(Places)]

WorkTypes ==
  /\ height \in [Nets -> Nat] /\ journal \in [Places -> Nat] /\ wleft \in [WorkKinds -> Nat]
  /\ session \in Places /\ stamp \in Nat /\ switches \in Nat
  /\ dash \in Boards /\ screen \in Boards /\ dash.place = session
  /\ job \in Jobs /\ pending \in Lookings
  /\ heads \in [seen : Nat, announced : Nat, refreshed : Nat]
  /\ inbox \in Seq(Cmds) /\ events \in Seq(Said)
  /\ qi \in [out : Nat, jobs : Seq(Places)]

\* The next command is one of the queue's.
LEMMA AtIs == ASSUME WorkTypes, inbox # <<>> PROVE At \in 1..Len(inbox) /\ inbox[At] \in Cmds
<1>1. inbox \in Seq(Cmds)
  BY DEF WorkTypes
<1>2. At \in 1..Len(inbox)
  <2>1. CASE UserWaits
    <3> DEFINE U == {i \in 1..Len(inbox) : Urgent(inbox[i])}
    <3>1. U # {} /\ U \in SUBSET Nat
      BY <1>1, <2>1 DEF UserWaits
    <3>2. Min(U) \in U
      BY <3>1, LeastIs
    <3>3. At = Min(U)
      BY <2>1 DEF At
    <3> QED BY <3>2, <3>3
  <2>2. CASE ~UserWaits
    BY <1>1, <2>2, EmptySeq DEF At
  <2> QED BY <2>1, <2>2
<1> QED BY <1>1, <1>2

\* What is left of the queue when a command is taken.
LEMMA RestKeeps ==
  ASSUME WorkTypes, inbox # <<>>
  PROVE  /\ Rest(inbox[At]) \in Seq(Cmds)
         /\ Answered(inbox) = Answered(Rest(inbox[At])) + (IF inbox[At].kind = "qisynced" THEN 1 ELSE 0)
         /\ \A j \in 1..Len(Rest(inbox[At])) : \E i \in 1..Len(inbox) : Rest(inbox[At])[j] = inbox[i]
<1>1. inbox \in Seq(Cmds) /\ At \in 1..Len(inbox)
  BY AtIs DEF WorkTypes
<1>2. Answered(Others(inbox)) \in Nat /\ Answered(RemoveAt(inbox, At)) \in Nat
  <2>1. Others(inbox) \in Seq(Cmds) /\ RemoveAt(inbox, At) \in Seq(Cmds)
    BY <1>1, OthersKeep, RemovedKeep
  <2>2. Len(Others(inbox)) \in Nat /\ Len(RemoveAt(inbox, At)) \in Nat
    BY <2>1
  <2> QED BY <2>2, AnswersType DEF Answered
<1>3. CASE inbox[At].kind = "refresh"
  <2>1. Rest(inbox[At]) = Others(inbox)
    BY <1>3 DEF Rest
  <2>2. /\ Others(inbox) \in Seq(Cmds) /\ Answered(Others(inbox)) = Answered(inbox)
        /\ \A j \in 1..Len(Others(inbox)) : \E i \in 1..Len(inbox) : Others(inbox)[j] = inbox[i]
    BY <1>1, OthersKeep
  <2> QED BY <1>2, <1>3, <2>1, <2>2
<1>4. CASE inbox[At].kind # "refresh"
  <2>1. Rest(inbox[At]) = RemoveAt(inbox, At)
    BY <1>4 DEF Rest
  <2> QED BY <1>1, <2>1, RemovedKeep
<1> QED BY <1>3, <1>4

\* What is polled of the heads is a height.
LEMMA PolledType == ASSUME WorkTypes, NEW h, Polled(h) PROVE h \in Nat /\ Told(h) \in [seen : Nat, announced : Nat, refreshed : Nat]
<1>1. height[Net(session)] \in Nat /\ heads.seen \in Nat /\ heads.announced \in Nat /\ heads.refreshed \in Nat
  BY DEF WorkTypes, Nets
<1>2. h \in Nat
  BY <1>1 DEF Polled, Peak
<1>3. Peak(heads.announced, h) \in Nat
  BY <1>1, <1>2 DEF Peak
<1> QED BY <1>1, <1>2, <1>3 DEF Told, WorkTypes

\* The dashboard's read of the journal is a dashboard, and the next stamp a number.
LEMMA ReadType == ASSUME WorkTypes PROVE ReadLocal(dash) \in Boards /\ ReadLocal(dash).place = session /\ Stamped \in Nat
<1>1. dash \in Boards /\ session \in Places /\ journal[session] \in Nat /\ stamp \in Nat
  BY DEF WorkTypes
<1>2. ReadLocal(dash) \in Boards /\ ReadLocal(dash).place = session
  BY <1>1 DEF ReadLocal, Boards
<1>3. Stamped \in Nat
  BY <1>1 DEF Stamped
<1> QED BY <1>2, <1>3

\* What is said to the screen is in its type, and so is the list it is appended to.
LEMMA SaysType == ASSUME WorkTypes, NEW s \in Seq(Said), Says(s) PROVE events' \in Seq(Said)
BY ConcatProperties DEF WorkTypes, Says

\* A dashboard told is one of the things said.
LEMMA TellType == ASSUME NEW d \in Boards PROVE <<Dashboard(d)>> \in Seq(Said) /\ Dashboard(d) \in Said
BY DEF Boards, Dashboard, Said

\* The first commands and answers keep their types.
LEMMA CmdType ==
  ASSUME NEW p \in Places, NEW k \in Commands, NEW b \in BOOLEAN
  PROVE  Cmd(k, p, b) \in Cmds /\ Cmd(k, p, b).kind = k
BY DEF Cmd, Cmds

\* What a turn's start, and the start of a refresh, leave in the variables they change.
LEMMA StartType ==
  ASSUME WorkTypes, NEW k \in {"refresh", "committed"}, NEW b \in BOOLEAN, NEW n \in Nat, Starts(k, b, n)
  PROVE  job' \in Jobs /\ dash' \in Boards /\ dash'.place = session /\ stamp' \in Nat
<1>1. <<>> \in Seq(Notices)
  BY EmptySeq
<1>2. job' \in Jobs
  BY <1>1 DEF Starts, Jobs
<1> QED BY <1>2, ReadType DEF Starts

\* The budget stays numbers.
LEMMA SpendType == ASSUME WorkTypes, NEW k \in WorkKinds, WSpend(k) PROVE wleft' \in [WorkKinds -> Nat]
<1>1. wleft \in [WorkKinds -> Nat] /\ wleft[k] \in Nat /\ wleft[k] > 0
  BY DEF WorkTypes, WSpend
<1> QED BY <1>1 DEF WSpend

\* A pass asked for keeps the Qi lane's type.
LEMMA AskedType ==
  ASSUME WorkTypes
  PROVE  /\ Asked(qi) \in [out : Nat, jobs : Seq(Places)] /\ Periodic(qi) \in [out : Nat, jobs : Seq(Places)]
         /\ Asked(qi).out = qi.out + 1 /\ Len(Asked(qi).jobs) = Len(qi.jobs) + 1
<1>1. qi.out \in Nat /\ qi.jobs \in Seq(Places) /\ session \in Places /\ qi \in [out : Nat, jobs : Seq(Places)]
  BY DEF WorkTypes
<1>2. Append(qi.jobs, session) \in Seq(Places) /\ Len(Append(qi.jobs, session)) = Len(qi.jobs) + 1
  BY <1>1
<1> QED BY <1>1, <1>2 DEF Asked, Periodic

\* A picked command leaves a queue, and the heads it was told.
LEMMA PickType ==
  ASSUME WorkTypes, NEW h, NEW k, Picks(h, k)
  PROVE  /\ inbox # <<>> /\ inbox[At] \in Cmds /\ inbox[At].kind = k /\ inbox' \in Seq(Cmds) /\ inbox' = Rest(inbox[At])
         /\ Told(h) \in [seen : Nat, announced : Nat, refreshed : Nat]
<1>1. inbox # <<>> /\ inbox[At].kind = k /\ inbox' = Rest(inbox[At]) /\ Polled(h)
  BY DEF Picks, Hears
<1> QED BY <1>1, AtIs, RestKeeps, PolledType

\* A turn of the worker keeps the types.
LEMMA TurnTypes ==
  ASSUME WorkTypes, NEW h,
         \/ Idle(h) \/ TakeRefresh(h) \/ TakeCommitted(h) \/ TakeEdit(h) \/ TakeScan(h)
         \/ TakeQiSynced(h) \/ TakePoll(h) \/ TakeSwitch(h) \/ SwitchFails(h)
  PROVE  WorkTypes'
<1>1. CASE Idle(h)
  <2>1. h \in Nat /\ Told(h) \in [seen : Nat, announced : Nat, refreshed : Nat]
    BY <1>1, PolledType DEF Idle, Hears
  <2>2. heads' \in [seen : Nat, announced : Nat, refreshed : Nat] /\ heads'.announced \in Nat
    BY <1>1, <2>1 DEF Idle
  <2>3. job' \in Jobs /\ dash' \in Boards /\ dash'.place = session /\ stamp' \in Nat
    <3>1. ASSUME Starts("refresh", FALSE, heads'.announced)
          PROVE  job' \in Jobs /\ dash' \in Boards /\ dash'.place = session /\ stamp' \in Nat
      BY <2>2, <3>1, StartType
    <3>2. ASSUME UNCHANGED <<step, job, dash, stamp>>
          PROVE  job' \in Jobs /\ dash' \in Boards /\ dash'.place = session /\ stamp' \in Nat
      BY <3>2 DEF WorkTypes
    <3> QED BY <1>1, <3>1, <3>2 DEF Idle
  <2>4. UNCHANGED <<height, journal, session, inbox, pending, qi, events, screen, switches, wleft>>
    BY <1>1 DEF Idle
  <2> QED BY <2>2, <2>3, <2>4 DEF WorkTypes
<1>2. CASE TakeRefresh(h)
  <2>1. Picks(h, "refresh") /\ heads' = Told(h) /\ Starts("refresh", Merged(inbox[At]).force, heads'.announced)
        /\ UNCHANGED <<session, qi, events, wleft, height, journal, pending, screen, switches>>
    BY <1>2 DEF TakeRefresh, Picks
  <2>2. inbox' \in Seq(Cmds) /\ heads' \in [seen : Nat, announced : Nat, refreshed : Nat] /\ heads'.announced \in Nat
        /\ Merged(inbox[At]).force \in BOOLEAN
    <3>1. inbox[At].kind = "refresh" /\ inbox' \in Seq(Cmds) /\ Told(h) \in [seen : Nat, announced : Nat, refreshed : Nat]
      BY <2>1, PickType
    <3> QED BY <2>1, <3>1 DEF Merged, Cmd
  <2>3. job' \in Jobs /\ dash' \in Boards /\ dash'.place = session /\ stamp' \in Nat
    BY <2>1, <2>2, StartType
  <2> QED BY <2>1, <2>2, <2>3 DEF WorkTypes
<1>3. CASE TakeCommitted(h)
  <2>1. Picks(h, "committed") /\ heads' = Told(h) /\ Starts("committed", TRUE, 0)
        /\ UNCHANGED <<session, qi, events, wleft, height, journal, pending, screen, switches>>
    BY <1>3 DEF TakeCommitted, Picks
  <2>2. inbox' \in Seq(Cmds) /\ heads' \in [seen : Nat, announced : Nat, refreshed : Nat]
    BY <2>1, PickType
  <2>3. job' \in Jobs /\ dash' \in Boards /\ dash'.place = session /\ stamp' \in Nat
    BY <2>1, StartType
  <2> QED BY <2>1, <2>2, <2>3 DEF WorkTypes
<1>4. CASE TakeEdit(h)
  <2>1. Picks(h, "edit") /\ heads' = Told(h) /\ dash' = ReadLocal(dash) /\ stamp' = Stamped /\ Says(<<Dashboard(dash')>>)
        /\ UNCHANGED <<session, job, qi, wleft, height, journal, pending, screen, switches>>
    BY <1>4 DEF TakeEdit, Picks
  <2>2. inbox' \in Seq(Cmds) /\ heads' \in [seen : Nat, announced : Nat, refreshed : Nat]
    BY <2>1, PickType
  <2>3. dash' \in Boards /\ dash'.place = session /\ stamp' \in Nat
    BY <2>1, ReadType
  <2>4. events' \in Seq(Said)
    BY <2>1, <2>3, TellType, SaysType
  <2> QED BY <2>1, <2>2, <2>3, <2>4 DEF WorkTypes
<1>5. CASE TakeScan(h)
  <2>1. Picks(h, "scan") /\ heads' = Told(h) /\ dash' = ReadLocal(dash) /\ stamp' = Stamped /\ Says(<<Dashboard(dash')>>)
        /\ qi' = Asked(qi) /\ UNCHANGED <<session, job, wleft, height, journal, pending, screen, switches>>
    BY <1>5 DEF TakeScan, Picks
  <2>2. inbox' \in Seq(Cmds) /\ heads' \in [seen : Nat, announced : Nat, refreshed : Nat]
    BY <2>1, PickType
  <2>3. dash' \in Boards /\ dash'.place = session /\ stamp' \in Nat
    BY <2>1, ReadType
  <2>4. events' \in Seq(Said) /\ qi' \in [out : Nat, jobs : Seq(Places)]
    BY <2>1, <2>3, TellType, SaysType, AskedType
  <2> QED BY <2>1, <2>2, <2>3, <2>4 DEF WorkTypes
<1>6. CASE TakeQiSynced(h)
  <2>1. Picks(h, "qisynced") /\ heads' = Told(h) /\ qi' = Counted(inbox[At].place)
        /\ (Says(<<Dashboard(dash)>>) \/ UNCHANGED events)
        /\ UNCHANGED <<session, job, dash, stamp, wleft, height, journal, pending, screen, switches>>
    BY <1>6 DEF TakeQiSynced, Picks
  <2>2. inbox' \in Seq(Cmds) /\ heads' \in [seen : Nat, announced : Nat, refreshed : Nat]
    BY <2>1, PickType
  <2>3. events' \in Seq(Said)
    <3>1. <<Dashboard(dash)>> \in Seq(Said)
      BY TellType DEF WorkTypes
    <3> QED BY <2>1, <3>1, SaysType DEF WorkTypes
  <2>4. qi' \in [out : Nat, jobs : Seq(Places)]
    <3>1. qi \in [out : Nat, jobs : Seq(Places)]
      BY DEF WorkTypes
    <3> QED BY <2>1, <3>1 DEF Counted
  <2> QED BY <2>1, <2>2, <2>3, <2>4 DEF WorkTypes
<1>7. CASE TakePoll(h)
  <2>1. Picks(h, "poll") /\ heads' = Told(h)
        /\ UNCHANGED <<session, job, dash, qi, stamp, events, wleft, height, journal, pending, screen, switches>>
    BY <1>7 DEF TakePoll, Picks
  <2>2. inbox' \in Seq(Cmds) /\ heads' \in [seen : Nat, announced : Nat, refreshed : Nat]
    BY <2>1, PickType
  <2> QED BY <2>1, <2>2 DEF WorkTypes
<1>8. CASE TakeSwitch(h)
  <2>1. /\ inbox # <<>> /\ inbox' = Rest(inbox[At]) /\ session' = inbox[At].place /\ heads' = [Told(h) EXCEPT !.seen = 0]
        /\ Says(<<Dashboard(Empty(session'))>>)
        /\ job' = [kind |-> "switch", force |-> TRUE, read |-> 0, notes |-> <<>>]
        /\ dash' = [place |-> session', ops |-> journal[session'], at |-> stamp, bal |-> 0] /\ stamp' = Stamped
        /\ UNCHANGED <<height, journal, pending, qi, screen, switches, wleft>> /\ Polled(h)
    BY <1>8 DEF TakeSwitch
  <2>2. session' \in Places /\ inbox' \in Seq(Cmds)
    BY <2>1, AtIs, RestKeeps DEF Cmds
  <2>3. heads' \in [seen : Nat, announced : Nat, refreshed : Nat]
    BY <2>1, PolledType
  <2>4. dash' \in Boards /\ dash'.place = session' /\ Empty(session') \in Boards /\ stamp' \in Nat
    <3>1. journal[session'] \in Nat /\ stamp \in Nat
      BY <2>2 DEF WorkTypes
    <3> QED BY <2>1, <2>2, <3>1, ReadType DEF Boards, Empty
  <2>5. job' \in Jobs
    BY <2>1, EmptySeq DEF Jobs
  <2>6. events' \in Seq(Said)
    <3>1. <<Dashboard(Empty(session'))>> \in Seq(Said)
      BY <2>4, TellType
    <3> QED BY <2>1, <3>1, SaysType
  <2> QED BY <2>1, <2>2, <2>3, <2>4, <2>5, <2>6 DEF WorkTypes
<1>9. CASE SwitchFails(h)
  <2>1. Picks(h, "switch") /\ heads' = Told(h) /\ WSpend("fail")
        /\ UNCHANGED <<session, job, dash, qi, stamp, events, height, journal, pending, screen, switches>>
    BY <1>9 DEF SwitchFails, Picks
  <2>2. inbox' \in Seq(Cmds) /\ heads' \in [seen : Nat, announced : Nat, refreshed : Nat] /\ wleft' \in [WorkKinds -> Nat]
    BY <2>1, PickType, SpendType DEF WorkKinds
  <2> QED BY <2>1, <2>2 DEF WorkTypes
<1> QED BY <1>1, <1>2, <1>3, <1>4, <1>5, <1>6, <1>7, <1>8, <1>9

\* What tracking finds, and what it spends, are numbers.
LEMMA FindsType ==
  ASSUME WorkTypes, NEW found \in BOOLEAN, NEW p \in Places, Finds(found, p)
  PROVE  journal' \in [Places -> Nat] /\ journal'[p] \in Nat /\ (found => wleft.mined \in Nat /\ wleft.mined - 1 \in Nat)
<1>1. journal \in [Places -> Nat] /\ wleft.mined \in Nat /\ journal[p] \in Nat
  BY DEF WorkTypes, WorkKinds
<1>2. CASE found
  BY <1>1, <1>2 DEF Finds
<1>3. CASE ~found
  BY <1>1, <1>3 DEF Finds
<1> QED BY <1>2, <1>3

\* The journal's read after tracking keeps the dashboard's type.
LEMMA RereadType ==
  ASSUME WorkTypes, journal' \in [Places -> Nat], dash' = [dash EXCEPT !.ops = journal'[session], !.at = stamp], stamp' = Stamped
  PROVE  dash' \in Boards /\ dash'.place = session /\ stamp' \in Nat
<1>1. dash \in Boards /\ journal'[session] \in Nat /\ stamp \in Nat /\ dash.place = session
  BY DEF WorkTypes
<1>2. [dash EXCEPT !.ops = journal'[session], !.at = stamp] \in Boards
  BY <1>1 DEF Boards
<1>3. [dash EXCEPT !.ops = journal'[session], !.at = stamp].place = session
  BY <1>1 DEF Boards
<1> QED BY <1>2, <1>3, ReadType

\* A refresh keeps the types.
LEMMA RefreshTypes ==
  ASSUME WorkTypes, NodeAnswers \/ Balances \/ Track \/ TrackSkipped \/ TokensAndQi \/ Completes \/ NodeFails \/ CutShort
  PROVE  WorkTypes'
<1>d. <<Dashboard(dash)>> \in Seq(Said) /\ dash \in Boards /\ dash.place = session
  BY TellType DEF WorkTypes
<1>1. CASE NodeAnswers
  <2>1. Says(<<Dashboard(dash)>>) /\ UNCHANGED <<Rests, job, dash, wleft>>
    BY <1>1 DEF NodeAnswers
  <2>2. events' \in Seq(Said)
    BY <1>d, <2>1, SaysType
  <2> QED BY <2>1, <2>2 DEF WorkTypes, Rests
<1>2. CASE Balances
  <2>1. /\ (dash' = [dash EXCEPT !.bal = BlockRead] /\ UNCHANGED wleft) \/ (WSpend("fail") /\ UNCHANGED dash)
        /\ Says(<<Dashboard(dash')>>) /\ UNCHANGED <<Rests, job>>
    BY <1>2 DEF Balances
  <2>2. BlockRead \in Nat
    <3>1. height[Net(session)] \in Nat /\ job.read \in Nat
      BY DEF WorkTypes, Nets, Jobs
    <3> QED BY <3>1 DEF BlockRead
  <2>3. dash' \in Boards /\ dash'.place = session
    BY <1>d, <2>1, <2>2 DEF Boards
  <2>4. events' \in Seq(Said)
    BY <2>1, <2>3, TellType, SaysType
  <2>5. wleft' \in [WorkKinds -> Nat]
    <3>1. WSpend("fail") => wleft' \in [WorkKinds -> Nat]
      BY SpendType DEF WorkKinds
    <3> QED BY <2>1, <3>1 DEF WorkTypes
  <2> QED BY <2>1, <2>3, <2>4, <2>5 DEF WorkTypes, Rests
<1>3. CASE Track
  <2>1. PICK found \in BOOLEAN, more \in BOOLEAN :
          /\ wleft' = [wleft EXCEPT !.mined = IF found THEN @ - 1 ELSE @, !.scan = IF more THEN @ - 1 ELSE @]
          /\ Finds(found, session)
          /\ job' = IF found /\ job.kind = "refresh"
                    THEN [job EXCEPT !.notes = Append(@, Notify(session, journal'[session], Seat))] ELSE job
          /\ more => qi.out < MaxQi /\ wleft.scan > 0
          /\ qi' = IF more THEN Asked(qi) ELSE qi
    BY <1>3 DEF Track
  <2>2. /\ dash' = [dash EXCEPT !.ops = journal'[session], !.at = stamp] /\ stamp' = Stamped
        /\ UNCHANGED <<height, session, heads, inbox, pending, events, screen, switches>>
    BY <1>3 DEF Track
  <2>3. journal' \in [Places -> Nat] /\ journal'[session] \in Nat /\ (found => wleft.mined - 1 \in Nat)
    <3>1. session \in Places
      BY DEF WorkTypes
    <3> QED BY <2>1, <3>1, FindsType
  <2>4. wleft' \in [WorkKinds -> Nat]
    <3>1. wleft \in [WorkKinds -> Nat] /\ wleft.scan \in Nat
      BY DEF WorkTypes, WorkKinds
    <3>2. more => wleft.scan - 1 \in Nat
      BY <2>1, <3>1
    <3> QED BY <2>1, <2>3, <3>1, <3>2
  <2>5. job' \in Jobs
    <3>1. Notify(session, journal'[session], Seat) \in Notices
      BY <2>3 DEF Notify, Notices, Seat, WorkTypes
    <3>2. job \in Jobs /\ job.notes \in Seq(Notices)
      BY DEF WorkTypes, Jobs
    <3>3. Append(job.notes, Notify(session, journal'[session], Seat)) \in Seq(Notices)
      BY <3>1, <3>2
    <3> QED BY <2>1, <3>2, <3>3 DEF Jobs
  <2>6. qi' \in [out : Nat, jobs : Seq(Places)]
    BY <2>1, AskedType DEF WorkTypes
  <2>7. dash' \in Boards /\ dash'.place = session /\ stamp' \in Nat
    BY <2>2, <2>3, RereadType
  <2> QED BY <2>2, <2>3, <2>4, <2>5, <2>6, <2>7 DEF WorkTypes
<1>4. CASE TrackSkipped
  <2>1. PICK found \in BOOLEAN :
          Finds(found, session) /\ wleft' = [wleft EXCEPT !.mined = IF found THEN @ - 1 ELSE @]
    BY <1>4 DEF TrackSkipped
  <2>2. /\ dash' = [dash EXCEPT !.ops = journal'[session], !.at = stamp] /\ stamp' = Stamped
        /\ UNCHANGED <<height, session, job, heads, inbox, pending, qi, events, screen, switches>>
    BY <1>4 DEF TrackSkipped
  <2>3. journal' \in [Places -> Nat] /\ (found => wleft.mined - 1 \in Nat)
    <3>1. session \in Places
      BY DEF WorkTypes
    <3> QED BY <2>1, <3>1, FindsType
  <2>4. wleft' \in [WorkKinds -> Nat]
    <3>1. wleft \in [WorkKinds -> Nat]
      BY DEF WorkTypes
    <3> QED BY <2>1, <2>3, <3>1
  <2>5. dash' \in Boards /\ dash'.place = session /\ stamp' \in Nat
    BY <2>2, <2>3, RereadType
  <2> QED BY <2>2, <2>3, <2>4, <2>5 DEF WorkTypes
<1>5. CASE TokensAndQi
  <2>1. /\ Says(<<Dashboard(dash)>>) \/ UNCHANGED events
        /\ qi' = Periodic(qi) \/ UNCHANGED qi
        /\ UNCHANGED <<height, journal, session, job, dash, heads, inbox, stamp, pending, screen, switches, wleft>>
    BY <1>5 DEF TokensAndQi
  <2>2. events' \in Seq(Said)
    BY <1>d, <2>1, SaysType DEF WorkTypes
  <2>3. qi' \in [out : Nat, jobs : Seq(Places)]
    BY <2>1, AskedType DEF WorkTypes
  <2> QED BY <2>1, <2>2, <2>3 DEF WorkTypes
<1>6. CASE Completes \/ NodeFails \/ CutShort
  <2>1. (Ends(TRUE) \/ Ends(FALSE)) /\ (UNCHANGED wleft \/ WSpend("fail"))
    BY <1>6 DEF Completes, NodeFails, CutShort
  <2>2. /\ Says(<<Dashboard(dash)>> \o job.notes) /\ job' = NoWork
        /\ UNCHANGED <<height, journal, session, dash, heads, inbox, stamp, pending, qi, screen, switches>>
    BY <2>1 DEF Ends
  <2>3. <<Dashboard(dash)>> \o job.notes \in Seq(Said)
    <3>1. job.notes \in Seq(Notices) /\ Notices \subseteq Said
      BY DEF WorkTypes, Jobs, Said
    <3>2. job.notes \in Seq(Said)
      BY <3>1, SeqMonotonic
    <3> QED BY <1>d, <3>2, ConcatProperties
  <2>4. events' \in Seq(Said)
    BY <2>2, <2>3, SaysType
  <2>5. job' \in Jobs
    BY <2>2, EmptySeq DEF NoWork, Jobs
  <2>6. wleft' \in [WorkKinds -> Nat]
    <3>1. WSpend("fail") => wleft' \in [WorkKinds -> Nat]
      BY SpendType DEF WorkKinds
    <3> QED BY <2>1, <3>1 DEF WorkTypes
  <2> QED BY <2>2, <2>4, <2>5, <2>6 DEF WorkTypes
<1> QED BY <1>1, <1>2, <1>3, <1>4, <1>5, <1>6

\* The pending lane and the Qi lane keep the types.
LEMMA LaneTypes ==
  ASSUME WorkTypes, LaneMoves \/ LaneTracks \/ LaneStamps \/ LaneReads \/ LaneSends \/ LaneNotifies \/ QiPass
  PROVE  WorkTypes'
<1>p. /\ pending \in Lookings /\ pending.place \in Places /\ pending.next \in Seq(Places) /\ pending.ver \in Nat
      /\ pending.at \in Nat /\ pending.ops \in Nat /\ pending.sw \in Nat
  BY DEF WorkTypes, Lookings
<1>w. \A p \in Places, q \in Seq(Places) : [Watching(p) EXCEPT !.next = q] \in Lookings
  BY DEF Watching, Lookings, LanePlaces
<1>n. Notify(pending.place, pending.ver, pending.sw) \in Said
  BY <1>p DEF Notify, Said, Notices
<1>1. CASE LaneMoves
  <2>1. Head(pending.next) \in Places /\ Tail(pending.next) \in Seq(Places)
    BY <1>1, <1>p, HeadTailProperties DEF LaneMoves
  <2>2. pending' \in Lookings
    BY <1>1, <1>w, <2>1 DEF LaneMoves
  <2>3. UNCHANGED <<Lane, wleft, journal, inbox, stamp, events>>
    BY <1>1 DEF LaneMoves
  <2> QED BY <2>2, <2>3 DEF WorkTypes, Lane
<1>2. CASE LaneTracks
  <2>1. /\ Finds(TRUE, pending.place) /\ WSpend("mined") /\ UNCHANGED <<Lane, inbox, stamp, events>>
        /\ pending' = [pending EXCEPT !.pc = "stamp", !.ver = journal'[pending.place], !.sw = Seat]
    BY <1>2 DEF LaneTracks
  <2>2. journal' \in [Places -> Nat] /\ journal'[pending.place] \in Nat /\ wleft' \in [WorkKinds -> Nat]
    BY <1>p, <2>1, FindsType, SpendType DEF WorkKinds
  <2>3. Seat \in Nat
    BY DEF Seat, WorkTypes
  <2>4. pending' \in Lookings
    BY <1>p, <2>1, <2>2, <2>3 DEF Lookings, LanePlaces
  <2> QED BY <2>1, <2>2, <2>4 DEF WorkTypes, Lane
<1>3. CASE LaneStamps
  <2>1. pending' = [pending EXCEPT !.pc = "read", !.at = stamp] /\ stamp' = Stamped
        /\ UNCHANGED <<Lane, wleft, journal, inbox, events>>
    BY <1>3 DEF LaneStamps
  <2>2. stamp \in Nat
    BY DEF WorkTypes
  <2>3. pending' \in Lookings /\ stamp' \in Nat
    BY <1>p, <2>1, <2>2, ReadType DEF Lookings, LanePlaces
  <2> QED BY <2>1, <2>3 DEF WorkTypes, Lane
<1>4. CASE LaneReads
  <2>1. pending' = [pending EXCEPT !.pc = "send", !.ops = journal[pending.place]]
        /\ UNCHANGED <<Lane, wleft, journal, inbox, stamp, events>>
    BY <1>4 DEF LaneReads
  <2>2. journal[pending.place] \in Nat
    BY <1>p DEF WorkTypes
  <2>3. pending' \in Lookings
    BY <1>p, <2>1, <2>2 DEF Lookings, LanePlaces
  <2> QED BY <2>1, <2>3 DEF WorkTypes, Lane
<1>5. CASE LaneSends
  <2>1. pending' = [pending EXCEPT !.pc = "notify"] /\ Says(<<Ops(pending.place, pending.ops, pending.at)>>)
        /\ UNCHANGED <<Lane, wleft, journal, inbox, stamp>>
    BY <1>5 DEF LaneSends
  <2>2. Ops(pending.place, pending.ops, pending.at) \in Said
    BY <1>p DEF Ops, Said, OpsReads
  <2>3. <<Ops(pending.place, pending.ops, pending.at)>> \in Seq(Said)
    BY <2>2
  <2>4. events' \in Seq(Said)
    BY <2>1, <2>3, SaysType
  <2>5. pending' \in Lookings
    BY <1>p, <2>1 DEF Lookings, LanePlaces
  <2> QED BY <2>1, <2>4, <2>5 DEF WorkTypes, Lane
<1>6. CASE LaneNotifies
  <2>1. pending' = [Watching(pending.place) EXCEPT !.next = pending.next]
        /\ Says(<<Notify(pending.place, pending.ver, pending.sw)>>)
        /\ inbox' = Append(inbox, Cmd("refresh", pending.place, FALSE)) /\ UNCHANGED <<Lane, wleft, journal, stamp>>
    BY <1>6 DEF LaneNotifies
  <2>2. <<Notify(pending.place, pending.ver, pending.sw)>> \in Seq(Said)
    BY <1>n
  <2>3. events' \in Seq(Said)
    BY <2>1, <2>2, SaysType
  <2>4. pending' \in Lookings
    BY <1>p, <1>w, <2>1
  <2>5. inbox' \in Seq(Cmds)
    <3>1. Cmd("refresh", pending.place, FALSE) \in Cmds /\ inbox \in Seq(Cmds)
      BY <1>p, CmdType DEF Commands, WorkTypes
    <3> QED BY <2>1, <3>1, SentAnswers
  <2> QED BY <2>1, <2>3, <2>4, <2>5 DEF WorkTypes, Lane
<1>7. CASE QiPass
  <2>1. /\ qi.jobs # <<>> /\ qi' = [qi EXCEPT !.jobs = Tail(@)] /\ inbox' = Append(inbox, Cmd("qisynced", Head(qi.jobs), FALSE))
        /\ UNCHANGED <<height, journal, session, job, dash, heads, stamp, pending, events, screen, switches, wleft>>
    BY <1>7 DEF QiPass
  <2>2. Head(qi.jobs) \in Places /\ Tail(qi.jobs) \in Seq(Places) /\ qi \in [out : Nat, jobs : Seq(Places)]
    <3>1. qi \in [out : Nat, jobs : Seq(Places)] /\ qi.jobs \in Seq(Places)
      BY DEF WorkTypes
    <3> QED BY <2>1, <3>1, HeadTailProperties
  <2>3. Cmd("qisynced", Head(qi.jobs), FALSE) \in Cmds /\ inbox \in Seq(Cmds)
    BY <2>2, CmdType DEF Commands, WorkTypes
  <2>4. inbox' \in Seq(Cmds)
    BY <2>1, <2>3, SentAnswers
  <2>5. qi' \in [out : Nat, jobs : Seq(Places)]
    BY <2>1, <2>2
  <2> QED BY <2>1, <2>4, <2>5 DEF WorkTypes
<1> QED BY <1>1, <1>2, <1>3, <1>4, <1>5, <1>6, <1>7

\* The screen, the user, blocks and time keep the types.
LEMMA OtherTypes ==
  ASSUME WorkTypes,
         \/ Hear \/ Edit \/ Scan \/ FullRefresh \/ Commit \/ Poll \/ Elapse
         \/ \E p \in Places : Switch(p)
         \/ \E n \in Nets : Block(n)
         \/ \E s \in Stages : StageDue(s)
  PROVE  WorkTypes'
<1>s. \A c \in Cmds : Append(inbox, c) \in Seq(Cmds)
  BY SentAnswers DEF WorkTypes
<1>c. \A k \in Commands, p \in Places, b \in BOOLEAN : Cmd(k, p, b) \in Cmds
  BY CmdType
<1>w. \A k \in WorkKinds : WSpend(k) => wleft' \in [WorkKinds -> Nat]
  BY SpendType
<1>1. CASE Hear
  <2>1. PICK e : e = Head(events)
    OBVIOUS
  <2>2. e \in Said /\ events' \in Seq(Said)
    <3>1. events \in Seq(Said) /\ events # <<>> /\ events' = Tail(events)
      BY <1>1 DEF Hear, WorkTypes
    <3> QED BY <2>1, <3>1, HeadTailProperties
  <2>3. /\ screen' = CASE e.kind = "dash" -> Shown(e)
                       [] e.kind = "ops" /\ e.at > screen.at /\ e.place = screen.place ->
                            [screen EXCEPT !.ops = e.ops, !.at = e.at]
                       [] OTHER -> screen
        /\ UNCHANGED <<height, journal, session, job, dash, heads, inbox, stamp, pending, qi, switches, wleft>>
    BY <1>1, <2>1 DEF Hear
  <2>4. screen \in Boards /\ screen.ops \in Nat /\ screen.at \in Nat /\ screen.bal \in Nat
    BY DEF WorkTypes, Boards
  <2>5. screen' \in Boards
    <3>1. CASE e.kind = "dash"
      <4>1. e.place \in Places /\ e.ops \in Nat /\ e.at \in Nat /\ e.bal \in Nat
        BY <2>2, <3>1 DEF Said, OpsReads, Notices
      <4> QED BY <2>3, <2>4, <3>1, <4>1 DEF Shown, Boards
    <3>2. CASE e.kind = "ops"
      <4>1. e.ops \in Nat /\ e.at \in Nat
        BY <2>2, <3>2 DEF Said, OpsReads, Notices
      <4> QED BY <2>3, <2>4, <3>2, <4>1 DEF Boards
    <3>3. CASE e.kind # "dash" /\ e.kind # "ops"
      BY <2>3, <2>4, <3>3
    <3> QED BY <3>1, <3>2, <3>3
  <2> QED BY <2>2, <2>3, <2>5 DEF WorkTypes
<1>2. CASE Edit \/ Scan \/ FullRefresh \/ Poll
  <2>1. PICK c : /\ inbox' = Append(inbox, c)
                 /\ \/ c = Cmd("edit", session, TRUE) \/ c = Cmd("edit", session, FALSE)
                    \/ c = Cmd("scan", session, FALSE) \/ c = Cmd("refresh", session, TRUE) \/ c = Cmd("poll", session, FALSE)
    BY <1>2 DEF Edit, Scan, FullRefresh, Poll, Sends
  <2>2. /\ UNCHANGED <<height, session, job, dash, heads, stamp, pending, qi, events, screen, switches, journal>>
        /\ (UNCHANGED wleft \/ WSpend("edit") \/ WSpend("scan"))
    BY <1>2 DEF Edit, Scan, FullRefresh, Poll, Sends
  <2>3. c \in Cmds
    <3>1. session \in Places
      BY DEF WorkTypes
    <3> QED BY <1>c, <2>1, <3>1 DEF Commands
  <2>4. inbox' \in Seq(Cmds)
    BY <1>s, <2>1, <2>3
  <2>5. wleft' \in [WorkKinds -> Nat]
    <3>1. UNCHANGED wleft => wleft' \in [WorkKinds -> Nat]
      BY DEF WorkTypes
    <3> QED BY <1>w, <2>2, <3>1 DEF WorkKinds
  <2> QED BY <2>2, <2>4, <2>5 DEF WorkTypes
<1>3. CASE Commit
  <2>1. /\ WSpend("commit") /\ journal' = [journal EXCEPT ![session] = @ + 1] /\ inbox' = Append(inbox, Cmd("committed", session, FALSE))
        /\ UNCHANGED <<height, session, job, dash, heads, stamp, pending, qi, events, screen, switches>>
    BY <1>3 DEF Commit, Sends
  <2>2. session \in Places /\ journal \in [Places -> Nat]
    BY DEF WorkTypes
  <2>3. journal' \in [Places -> Nat] /\ wleft' \in [WorkKinds -> Nat]
    BY <1>w, <2>1, <2>2 DEF WorkKinds
  <2>4. inbox' \in Seq(Cmds)
    <3>1. Cmd("committed", session, FALSE) \in Cmds
      BY <1>c, <2>2 DEF Commands
    <3> QED BY <1>s, <2>1, <3>1
  <2> QED BY <2>1, <2>3, <2>4 DEF WorkTypes
<1>4. CASE Elapse
  BY <1>4 DEF Elapse, WorkTypes
<1>5. CASE \E p \in Places : Switch(p)
  <2>1. PICK p \in Places : Switch(p)
    BY <1>5
  <2>2. /\ WSpend("switch") /\ screen' = Empty(p) /\ switches' = switches + 1
        /\ pending' = [pending EXCEPT !.next = Append(@, p)] /\ inbox' = Append(inbox, Cmd("switch", p, FALSE))
        /\ UNCHANGED <<height, journal, session, job, dash, heads, stamp, qi, events>>
    BY <2>1 DEF Switch
  <2>3. inbox' \in Seq(Cmds)
    <3>1. Cmd("switch", p, FALSE) \in Cmds
      BY <1>c DEF Commands
    <3> QED BY <1>s, <2>2, <3>1
  <2>4. pending' \in Lookings
    <3>1. pending \in Lookings /\ pending.next \in Seq(Places)
      BY DEF WorkTypes, Lookings
    <3>2. Append(pending.next, p) \in Seq(Places)
      BY <3>1
    <3> QED BY <2>2, <3>1, <3>2 DEF Lookings
  <2>5. screen' \in Boards /\ switches' \in Nat
    <3>1. Empty(p) \in Boards
      BY DEF Empty, Boards
    <3>2. switches \in Nat
      BY DEF WorkTypes
    <3> QED BY <2>2, <3>1, <3>2
  <2>6. wleft' \in [WorkKinds -> Nat]
    BY <1>w, <2>2 DEF WorkKinds
  <2> QED BY <2>2, <2>3, <2>4, <2>5, <2>6 DEF WorkTypes
<1>6. CASE \E n \in Nets : Block(n)
  <2>1. PICK n \in Nets : Block(n)
    BY <1>6
  <2>2. height \in [Nets -> Nat]
    BY DEF WorkTypes
  <2>3. height' \in [Nets -> Nat] /\ wleft' \in [WorkKinds -> Nat]
    BY <1>w, <2>1, <2>2 DEF Block, WorkKinds
  <2> QED BY <2>1, <2>3 DEF WorkTypes, Block
<1>7. CASE \E s \in Stages : StageDue(s)
  <2>1. PICK s \in Stages : StageDue(s)
    BY <1>7
  <2>2. wleft' \in [WorkKinds -> Nat]
    BY <1>w, <2>1 DEF StageDue, WorkKinds
  <2> QED BY <2>1, <2>2 DEF WorkTypes, StageDue
<1> QED BY <1>1, <1>2, <1>3, <1>4, <1>5, <1>6, <1>7

\* Every step of the worker, its lanes, the user and the screen keeps the types.
LEMMA WorkTypeStep == WorkTypes /\ [WorkerNext]_wvars => WorkTypes'
<1> SUFFICES ASSUME WorkTypes, [WorkerNext]_wvars PROVE WorkTypes'
  OBVIOUS
<1>1. CASE UNCHANGED wvars
  BY <1>1 DEF WorkTypes, wvars
<1>2. CASE WorkerNext
  BY <1>2, TurnTypes, RefreshTypes, LaneTypes, OtherTypes DEF WorkerNext, WorkerSteps
<1> QED BY <1>1, <1>2

\* The worker starts in its types.
LEMMA WorkTypeInit == WorkerInit => WorkTypes
<1> SUFFICES ASSUME WorkerInit PROVE WorkTypes
  OBVIOUS
<1>1. height \in [Nets -> Nat] /\ FirstPlace \in Places /\ wleft \in [WorkKinds -> Nat]
  BY WorkBounds DEF WorkerInit
<1>2. NoWork \in Jobs /\ Empty(FirstPlace) \in Boards /\ Empty(FirstPlace).place = FirstPlace
  BY <1>1, EmptySeq DEF NoWork, Jobs, Empty, Boards
<1>3. Watching(FirstPlace) \in Lookings /\ [out |-> 0, jobs |-> <<>>] \in [out : Nat, jobs : Seq(Places)]
  BY <1>1, EmptySeq DEF Watching, Lookings, LanePlaces
<1>4. inbox \in Seq(Cmds) /\ events \in Seq(Said)
  BY EmptySeq DEF WorkerInit
<1>5. heads \in [seen : Nat, announced : Nat, refreshed : Nat] /\ journal \in [Places -> Nat]
  BY DEF WorkerInit, Fresh
<1> QED BY <1>1, <1>2, <1>3, <1>4, <1>5 DEF WorkerInit, WorkTypes

-----------------------------------------------------------------------------
(* The Qi passes. *)

\* A command that is no answer to a Qi pass joins the queue: a switch only when the user switches.
Asks ==
  \E c \in Cmds : /\ c.kind # "qisynced" /\ (c.kind = "switch" => switches' = switches + 1)
                  /\ inbox' = Append(inbox, c) /\ UNCHANGED qi

\* A command leaves it: one that is no answer, and may ask for a pass; or an answer, counted back.
Takes ==
  /\ inbox # <<>> /\ inbox' = Rest(inbox[At])
  /\ \/ inbox[At].kind # "qisynced" /\ qi' \in {qi, Asked(qi)}
     \/ inbox[At].kind = "qisynced" /\ qi' = Counted(inbox[At].place)

\* What a step may do to the queue and to the Qi lane.
LEMMA QiMoves ==
  ASSUME WorkTypes, [WorkerNext]_wvars
  PROVE  \/ UNCHANGED inbox /\ qi' \in {qi, Asked(qi)}
         \/ Asks \/ Takes \/ QiPass
<1>c. \A k \in Commands, p \in Places, b \in BOOLEAN : Cmd(k, p, b) \in Cmds /\ Cmd(k, p, b).kind = k
  BY CmdType
<1>p. session \in Places /\ pending.place \in Places
  BY DEF WorkTypes, Lookings
<1>1. CASE \E h \in Heights : Idle(h)
  BY <1>1 DEF Idle
<1>2. ASSUME NEW h, TakeRefresh(h) \/ TakeCommitted(h) \/ TakeEdit(h) \/ TakeScan(h) \/ TakePoll(h) \/ SwitchFails(h)
      PROVE  Takes
  BY <1>2 DEF Takes, TakeRefresh, TakeCommitted, TakeEdit, TakeScan, TakePoll, SwitchFails, Picks
<1>3. ASSUME NEW h, TakeQiSynced(h) PROVE Takes
  BY <1>3 DEF Takes, TakeQiSynced, Picks
<1>4. ASSUME NEW h, TakeSwitch(h) PROVE Takes
  BY <1>4 DEF Takes, TakeSwitch
<1>5. CASE NodeAnswers \/ Balances \/ Track \/ TrackSkipped \/ TokensAndQi \/ Completes \/ NodeFails \/ CutShort
  BY <1>5 DEF NodeAnswers, Balances, Track, TrackSkipped, TokensAndQi, Completes, NodeFails, CutShort, Ends, Rests, Periodic
<1>6. CASE LaneMoves \/ LaneTracks \/ LaneStamps \/ LaneReads \/ LaneSends
  BY <1>6 DEF LaneMoves, LaneTracks, LaneStamps, LaneReads, LaneSends, Lane
<1>7. CASE LaneNotifies
  <2>1. inbox' = Append(inbox, Cmd("refresh", pending.place, FALSE)) /\ UNCHANGED qi
    BY <1>7 DEF LaneNotifies, Lane
  <2>2. Cmd("refresh", pending.place, FALSE) \in Cmds /\ Cmd("refresh", pending.place, FALSE).kind = "refresh"
    BY <1>c, <1>p DEF Commands
  <2> QED BY <2>1, <2>2 DEF Asks
<1>8. CASE Edit \/ Scan \/ FullRefresh \/ Poll \/ Commit
  <2>1. PICK k \in {"edit", "scan", "refresh", "poll", "committed"}, b \in BOOLEAN :
          inbox' = Append(inbox, Cmd(k, session, b)) /\ UNCHANGED qi
    BY <1>8 DEF Edit, Scan, FullRefresh, Poll, Commit, Sends
  <2>2. Cmd(k, session, b) \in Cmds /\ Cmd(k, session, b).kind = k
    BY <1>c, <1>p, <2>1 DEF Commands
  <2> QED BY <2>1, <2>2 DEF Asks
<1>9. CASE \E p \in Places : Switch(p)
  <2>1. PICK p \in Places : Switch(p)
    BY <1>9
  <2>2. inbox' = Append(inbox, Cmd("switch", p, FALSE)) /\ UNCHANGED qi /\ switches' = switches + 1
    BY <2>1 DEF Switch
  <2>3. Cmd("switch", p, FALSE) \in Cmds /\ Cmd("switch", p, FALSE).kind = "switch"
    BY <1>c DEF Commands
  <2> QED BY <2>2, <2>3 DEF Asks
<1>10. CASE Hear \/ Elapse \/ (\E n \in Nets : Block(n)) \/ (\E s \in Stages : StageDue(s)) \/ UNCHANGED wvars
  BY <1>10 DEF Hear, Elapse, Block, StageDue, wvars
<1> QED BY <1>1, <1>2, <1>3, <1>4, <1>5, <1>6, <1>7, <1>8, <1>9, <1>10 DEF WorkerNext, WorkerSteps

\* Every step of the worker, its lanes, the user and the screen keeps the Qi passes counted.
LEMMA QiCountStep == WorkTypes /\ QiPassesCounted /\ [WorkerNext]_wvars => QiPassesCounted'
<1> SUFFICES ASSUME WorkTypes, QiPassesCounted, [WorkerNext]_wvars PROVE QiPassesCounted'
  OBVIOUS
<1>1. qi.out = Len(qi.jobs) + Answered(inbox)
  BY DEF QiPassesCounted, Answered, Answers
<1>2. /\ inbox \in Seq(Cmds) /\ qi \in [out : Nat, jobs : Seq(Places)] /\ qi.jobs \in Seq(Places)
      /\ Len(qi.jobs) \in Nat /\ Answered(inbox) \in Nat /\ qi.out \in Nat
  <2>1. inbox \in Seq(Cmds) /\ qi \in [out : Nat, jobs : Seq(Places)]
    BY DEF WorkTypes
  <2>2. Len(inbox) \in Nat
    BY <2>1
  <2> QED BY <2>1, <2>2, AnswersType DEF Answered
<1> SUFFICES qi'.out = Len(qi'.jobs) + Answered(inbox')
  BY DEF QiPassesCounted, Answered, Answers
<1>a. Asked(qi).out = qi.out + 1 /\ Len(Asked(qi).jobs) = Len(qi.jobs) + 1
  BY AskedType
<1>n. Len(qi.jobs) \in Nat /\ Answered(inbox) \in Nat /\ qi.out \in Nat
  BY <1>2
<1>b. ASSUME qi' \in {qi, Asked(qi)} PROVE \E d \in {0, 1} : qi'.out = qi.out + d /\ Len(qi'.jobs) = Len(qi.jobs) + d
  <2>1. CASE qi' = qi
    <3>1. qi'.out = qi.out /\ Len(qi'.jobs) = Len(qi.jobs)
      BY <2>1
    <3>2. qi'.out = qi.out + 0 /\ Len(qi'.jobs) = Len(qi.jobs) + 0
      BY <1>n, <3>1
    <3> QED BY <3>2
  <2>2. CASE qi' = Asked(qi)
    <3>1. qi'.out = qi.out + 1 /\ Len(qi'.jobs) = Len(qi.jobs) + 1
      BY <1>a, <2>2
    <3> QED BY <3>1
  <2> QED BY <1>b, <2>1, <2>2
<1>3. CASE UNCHANGED inbox /\ qi' \in {qi, Asked(qi)}
  <2>1. Answered(inbox') = Answered(inbox)
    BY <1>3
  <2>2. PICK d \in {0, 1} : qi'.out = qi.out + d /\ Len(qi'.jobs) = Len(qi.jobs) + d
    BY <1>3, <1>b
  <2> QED BY <1>1, <1>n, <2>1, <2>2
<1>4. CASE Asks
  <2>1. PICK c \in Cmds : c.kind # "qisynced" /\ inbox' = Append(inbox, c) /\ UNCHANGED qi
    BY <1>4 DEF Asks
  <2>2. Answered(inbox') = Answered(inbox) + 0
    BY <1>2, <2>1, SentAnswers
  <2> QED BY <1>1, <1>2, <2>1, <2>2
<1>5. CASE Takes
  <2>1. /\ inbox # <<>> /\ inbox' = Rest(inbox[At])
        /\ \/ inbox[At].kind # "qisynced" /\ qi' \in {qi, Asked(qi)}
           \/ inbox[At].kind = "qisynced" /\ qi' = Counted(inbox[At].place)
    BY <1>5 DEF Takes
  <2>2. inbox' \in Seq(Cmds) /\ Answered(inbox) = Answered(inbox') + (IF inbox[At].kind = "qisynced" THEN 1 ELSE 0)
    BY <2>1, RestKeeps
  <2>3. Answered(inbox') \in Nat
    <3>1. Len(inbox') \in Nat
      BY <2>2
    <3> QED BY <3>1, AnswersType DEF Answered
  <2>4. CASE inbox[At].kind # "qisynced"
    <3>1. qi' \in {qi, Asked(qi)} /\ Answered(inbox') = Answered(inbox)
      BY <2>1, <2>2, <2>3, <2>4
    <3>2. PICK d \in {0, 1} : qi'.out = qi.out + d /\ Len(qi'.jobs) = Len(qi.jobs) + d
      BY <1>b, <3>1
    <3>3. Answered(inbox') = Answered(inbox)
      BY <3>1
    <3> QED BY <1>1, <1>n, <3>2, <3>3
  <2>5. CASE inbox[At].kind = "qisynced"
    <3>1. qi' = [qi EXCEPT !.out = IF @ = 0 THEN 0 ELSE @ - 1]
      BY <2>1, <2>5 DEF Counted
    <3>2. qi'.jobs = qi.jobs /\ qi'.out = qi.out - 1
      BY <1>1, <1>2, <2>2, <2>3, <2>5, <3>1
    <3> QED BY <1>1, <1>2, <2>2, <2>3, <2>5, <3>2
  <2> QED BY <2>4, <2>5
<1>6. CASE QiPass
  <2>1. /\ qi.jobs # <<>> /\ qi' = [qi EXCEPT !.jobs = Tail(@)] /\ inbox' = Append(inbox, Cmd("qisynced", Head(qi.jobs), FALSE))
    BY <1>6 DEF QiPass
  <2>2. Head(qi.jobs) \in Places /\ Len(Tail(qi.jobs)) = Len(qi.jobs) - 1
    BY <1>2, <2>1, HeadTailProperties
  <2>3. PICK c : c = Cmd("qisynced", Head(qi.jobs), FALSE)
    OBVIOUS
  <2>4. c \in Cmds /\ c.kind = "qisynced"
    BY <2>2, <2>3, CmdType DEF Commands
  <2>5. Answered(inbox') = Answered(inbox) + 1
    BY <1>2, <2>1, <2>3, <2>4, SentAnswers
  <2>6. qi'.out = qi.out /\ Len(qi'.jobs) = Len(qi.jobs) - 1
    BY <1>2, <2>1, <2>2
  <2> QED BY <1>1, <1>2, <2>5, <2>6
<1> QED BY <1>3, <1>4, <1>5, <1>6, QiMoves

\* No pass is counted before the first is asked for.
LEMMA QiCountInit == WorkerInit => QiPassesCounted
<1> SUFFICES ASSUME WorkerInit PROVE QiPassesCounted
  OBVIOUS
<1>1. qi.out = 0 /\ qi.jobs = <<>> /\ inbox = <<>>
  BY DEF WorkerInit
<1>2. {i \in 1..Len(inbox) : inbox[i].kind = "qisynced"} = {}
  BY <1>1
<1> QED BY <1>1, <1>2, FS_EmptySet DEF QiPassesCounted

\* Every Qi pass counted as out is waiting, running, or answered and not yet taken (QiLane::ask,
\* QiLane::refresh, Cmd::QiSynced), whatever the order of the commands: the worker's types, and
\* what a step may do to its queue and to the lane.
THEOREM PassesAreCounted == WorkerSpec => []QiPassesCounted
<1>1. WorkerInit => WorkTypes /\ QiPassesCounted
  BY WorkTypeInit, QiCountInit
<1>2. WorkTypes /\ QiPassesCounted /\ [WorkerNext]_wvars => (WorkTypes /\ QiPassesCounted)'
  BY WorkTypeStep, QiCountStep
<1> QED BY <1>1, <1>2, PTL DEF WorkerSpec

-----------------------------------------------------------------------------
(* Reads of the journal, and their stamps. *)

\* A read of the journal that is known somewhere: on the dashboard, on the screen, on its way to
\* it, or in the pending lane's hands.
Read(o, a) ==
  \/ o = dash.ops /\ a = dash.at
  \/ o = screen.ops /\ a = screen.at
  \/ \E i \in 1..Len(events) : events[i].kind # "notify" /\ o = events[i].ops /\ a = events[i].at
  \/ pending.pc = "send" /\ o = pending.ops /\ a = pending.at

\* A stamp that was given out: less than the next one, while stamps are told apart.
Given(a) == a <= stamp /\ (stamp < MaxStamp => a < stamp)
StampInv ==
  /\ stamp > 0 /\ (pending.pc = "read" => Given(pending.at))
  /\ \A o, a \in Nat : Read(o, a) => Given(a)

\* A notice that waits for the end of a refresh is of the place the worker has open.
NotesInv == \A i \in 1..Len(job.notes) : job.notes[i].place = session

\* One thing that a step says to the screen: the dashboard as it is after the step, an empty one of
\* a place just opened, the lane's read, its notice, or a notice that waited behind the dashboard.
Tells(s, k) ==
  \/ s[k].kind = "dash" /\ s[k].place = session' /\ s[k].ops = dash'.ops /\ s[k].at = dash'.at
  \/ s[k].kind = "dash" /\ s[k].place = session' /\ s[k].ops = 0 /\ s[k].at = 0 /\ ~Settled
  \/ s[k] = Ops(pending.place, pending.ops, pending.at) /\ pending.pc = "send"
  \/ s[k] = Notify(pending.place, pending.ver, pending.sw) /\ pending.pc = "notify"
  \/ /\ k - 1 \in 1..Len(job.notes) /\ s[k] = job.notes[k - 1]
     /\ s[1].kind = "dash" /\ s[1].at = dash.at

\* The dashboard, after a step: the read it held, or a fresh one.
DashMoves ==
  \/ dash'.ops = dash.ops /\ dash'.at = dash.at /\ session' = session
  \/ dash'.ops = journal'[session'] /\ dash'.at = stamp /\ stamp' = Stamped

\* The pending lane, after a step.
LaneStays == /\ pending'.pc = pending.pc /\ pending'.place = pending.place /\ pending'.ver = pending.ver
             /\ pending'.at = pending.at /\ pending'.ops = pending.ops /\ pending'.sw = pending.sw
             /\ (UNCHANGED switches => pending'.next = pending.next)
LaneMove == \/ LaneStays \/ LaneMoves \/ LaneTracks \/ LaneStamps \/ LaneReads \/ LaneSends \/ LaneNotifies

\* A user who is settled has no switch in the queue, so none is taken.
LEMMA NoSwitchTaken == ASSUME WorkTypes, Settled, inbox # <<>> PROVE inbox[At].kind # "switch"
BY AtIs DEF Settled

\* A step that says nothing adds nothing to what is on its way.
LEMMA SaysNothing ==
  ASSUME WorkTypes, UNCHANGED events
  PROVE  \E s \in Seq(Said) : events' = events \o s /\ \A k \in 1..Len(s) : Tells(s, k)
<1>1. events \in Seq(Said)
  BY DEF WorkTypes
<1>2. PICK s : s = <<>>
  OBVIOUS
<1>3. s \in Seq(Said) /\ Len(s) = 0 /\ events \o s = events
  BY <1>1, <1>2, ConcatEmptySeq, EmptySeq
<1>4. \A k \in 1..Len(s) : Tells(s, k)
  BY <1>3
<1> QED BY <1>3, <1>4

\* What a turn of the worker does to the dashboard and tells the screen.
LEMMA TurnTells ==
  ASSUME WorkTypes, NEW h,
         \/ Idle(h) \/ TakeRefresh(h) \/ TakeCommitted(h) \/ TakeEdit(h) \/ TakeScan(h)
         \/ TakeQiSynced(h) \/ TakePoll(h) \/ TakeSwitch(h) \/ SwitchFails(h)
  PROVE  /\ \E s \in Seq(Said) : events' = events \o s /\ \A k \in 1..Len(s) : Tells(s, k)
         /\ DashMoves /\ UNCHANGED <<journal, pending, screen, switches, early>>
         /\ stamp' \in {stamp, Stamped} /\ wleft'.stamp = wleft.stamp
         /\ (job'.notes = <<>> \/ (UNCHANGED <<job, session>>)) /\ (session' = session \/ ~Settled)
         /\ (job'.kind = "switch" => job.kind = "switch" \/ ~Settled)
<1>d. /\ dash \in Boards /\ dash.place = session /\ events \in Seq(Said)
  BY DEF WorkTypes
<1>e. ASSUME UNCHANGED events PROVE \E s \in Seq(Said) : events' = events \o s /\ \A k \in 1..Len(s) : Tells(s, k)
  BY <1>e, SaysNothing
<1>f. ASSUME Says(<<Dashboard(dash')>>), dash' \in Boards, dash'.place = session'
      PROVE  \E s \in Seq(Said) : events' = events \o s /\ \A k \in 1..Len(s) : Tells(s, k)
  <2>1. PICK s : s = <<Dashboard(dash')>>
    OBVIOUS
  <2>2. s \in Seq(Said) /\ events' = events \o s
    BY <1>f, <2>1, TellType DEF Says
  <2>3. \A k \in 1..Len(s) : Tells(s, k)
    BY <1>f, <2>1 DEF Tells, Dashboard
  <2> QED BY <2>2, <2>3
<1>t. WorkTypes' /\ dash' \in Boards /\ dash'.place = session'
  <2>1. WorkTypes'
    BY TurnTypes
  <2> QED BY <2>1 DEF WorkTypes
<1>1. CASE Idle(h)
  <2>1. ASSUME Starts("refresh", FALSE, heads'.announced) PROVE DashMoves /\ job'.notes = <<>> /\ stamp' = Stamped /\ job'.kind = "refresh"
    BY <1>1, <2>1 DEF Starts, DashMoves, ReadLocal, Idle
  <2> QED BY <1>1, <1>e, <2>1 DEF Idle, DashMoves
<1>2. CASE TakeRefresh(h)
  BY <1>2, <1>d, <1>e DEF TakeRefresh, Picks, Starts, DashMoves, ReadLocal, Boards
<1>3. CASE TakeCommitted(h)
  BY <1>3, <1>d, <1>e DEF TakeCommitted, Picks, Starts, DashMoves, ReadLocal, Boards
<1>4. CASE TakeEdit(h)
  BY <1>4, <1>d, <1>f, <1>t DEF TakeEdit, Picks, DashMoves, ReadLocal, Boards
<1>5. CASE TakeScan(h)
  BY <1>5, <1>d, <1>f, <1>t DEF TakeScan, Picks, DashMoves, ReadLocal, Boards
<1>6. CASE TakeQiSynced(h)
  <2>1. UNCHANGED <<session, job, dash, stamp, wleft, journal, pending, screen, switches, early>>
    BY <1>6 DEF TakeQiSynced, Picks
  <2>2. Says(<<Dashboard(dash')>>) \/ UNCHANGED events
    BY <1>6, <2>1 DEF TakeQiSynced
  <2> QED BY <1>t, <1>e, <1>f, <2>1, <2>2 DEF DashMoves
<1>7. CASE TakePoll(h)
  BY <1>7, <1>e DEF TakePoll, Picks, DashMoves
<1>8. CASE TakeSwitch(h)
  <2>1. /\ inbox # <<>> /\ inbox[At].kind = "switch"
        /\ Says(<<Dashboard(Empty(session'))>>)
        /\ job' = [kind |-> "switch", force |-> TRUE, read |-> 0, notes |-> <<>>]
        /\ dash' = [place |-> session', ops |-> journal[session'], at |-> stamp, bal |-> 0] /\ stamp' = Stamped
        /\ UNCHANGED <<journal, pending, screen, switches, wleft, early>>
    BY <1>8 DEF TakeSwitch
  <2>2. ~Settled
    BY <2>1, NoSwitchTaken
  <2>3. PICK s : s = <<Dashboard(Empty(session'))>>
    OBVIOUS
  <2>4. s \in Seq(Said) /\ events' = events \o s
    <3>1. Empty(session') \in Boards
      BY <1>t DEF Empty, Boards, WorkTypes
    <3> QED BY <2>1, <2>3, <3>1, TellType DEF Says
  <2>5. \A k \in 1..Len(s) : Tells(s, k)
    BY <2>2, <2>3 DEF Tells, Dashboard, Empty
  <2> QED BY <2>1, <2>2, <2>4, <2>5 DEF DashMoves
<1>9. CASE SwitchFails(h)
  <2>1. wleft'.stamp = wleft.stamp
    BY <1>9 DEF SwitchFails, WSpend, WorkTypes, WorkKinds
  <2> QED BY <1>9, <1>e, <2>1 DEF SwitchFails, Picks, DashMoves
<1> QED BY <1>1, <1>2, <1>3, <1>4, <1>5, <1>6, <1>7, <1>8, <1>9

\* What a step of a refresh does to the dashboard and tells the screen.
LEMMA RefreshTells ==
  ASSUME WorkTypes, NotesInv,
         NodeAnswers \/ Balances \/ Track \/ TrackSkipped \/ TokensAndQi \/ Completes \/ NodeFails \/ CutShort
  PROVE  /\ \E s \in Seq(Said) : events' = events \o s /\ \A k \in 1..Len(s) : Tells(s, k)
         /\ DashMoves /\ UNCHANGED <<session, pending, screen, switches, early>> /\ (UNCHANGED journal \/ Track \/ TrackSkipped)
         /\ stamp' \in {stamp, Stamped} /\ wleft'.stamp = wleft.stamp
         /\ (job'.notes = <<>> \/ UNCHANGED job \/ Track) /\ (job'.kind = "switch" => job.kind = "switch")
<1>t. /\ WorkTypes' /\ dash' \in Boards /\ dash'.place = session' /\ dash \in Boards /\ dash.place = session
      /\ wleft \in [WorkKinds -> Nat] /\ "stamp" \in WorkKinds
  <2>1. WorkTypes'
    BY RefreshTypes
  <2> QED BY <2>1 DEF WorkTypes, WorkKinds
<1>f. ASSUME Says(<<Dashboard(dash')>>), dash' \in Boards, dash'.place = session'
      PROVE  \E s \in Seq(Said) : events' = events \o s /\ \A k \in 1..Len(s) : Tells(s, k)
  <2>1. PICK s : s = <<Dashboard(dash')>>
    OBVIOUS
  <2>2. s \in Seq(Said) /\ events' = events \o s
    BY <1>f, <2>1, TellType DEF Says
  <2>3. \A k \in 1..Len(s) : Tells(s, k)
    BY <1>f, <2>1 DEF Tells, Dashboard
  <2> QED BY <2>2, <2>3
<1>g. ASSUME WSpend("fail") PROVE wleft'.stamp = wleft.stamp
  BY <1>g, <1>t DEF WSpend
<1>1. CASE NodeAnswers
  <2>1. Says(<<Dashboard(dash')>>) /\ UNCHANGED <<Rests, job, dash, wleft>>
    BY <1>1 DEF NodeAnswers
  <2> QED BY <1>f, <1>t, <2>1 DEF DashMoves, Rests
<1>2. CASE Balances
  <2>1. /\ (dash' = [dash EXCEPT !.bal = BlockRead] /\ UNCHANGED wleft) \/ (WSpend("fail") /\ UNCHANGED dash)
        /\ Says(<<Dashboard(dash')>>) /\ UNCHANGED <<Rests, job>>
    BY <1>2 DEF Balances
  <2>2. dash'.ops = dash.ops /\ dash'.at = dash.at
    BY <1>t, <2>1 DEF Boards
  <2>3. wleft'.stamp = wleft.stamp
    BY <1>g, <2>1
  <2> QED BY <1>f, <1>t, <2>1, <2>2, <2>3 DEF DashMoves, Rests
<1>3. CASE Track \/ TrackSkipped
  <2>1. /\ dash' = [dash EXCEPT !.ops = journal'[session], !.at = stamp] /\ stamp' = Stamped
        /\ UNCHANGED <<session, pending, events, screen, switches, early>>
    BY <1>3 DEF Track, TrackSkipped
  <2>2. DashMoves
    BY <1>t, <2>1 DEF DashMoves, Boards
  <2>3. wleft'.stamp = wleft.stamp
    <3>1. CASE Track
      <4>1. PICK found \in BOOLEAN, more \in BOOLEAN :
              wleft' = [wleft EXCEPT !.mined = IF found THEN @ - 1 ELSE @, !.scan = IF more THEN @ - 1 ELSE @]
        BY <3>1 DEF Track
      <4> QED BY <1>t, <4>1
    <3>2. CASE TrackSkipped
      <4>1. PICK found \in BOOLEAN : wleft' = [wleft EXCEPT !.mined = IF found THEN @ - 1 ELSE @]
        BY <3>2 DEF TrackSkipped
      <4> QED BY <1>t, <4>1
    <3> QED BY <1>3, <3>1, <3>2
  <2>4. TrackSkipped => UNCHANGED job
    BY DEF TrackSkipped
  <2>5. Track => job'.kind = job.kind
    BY DEF Track, WorkTypes, Jobs
  <2> QED BY <1>3, <2>1, <2>2, <2>3, <2>4, <2>5, SaysNothing
<1>4. CASE TokensAndQi
  <2>1. /\ Says(<<Dashboard(dash')>>) \/ UNCHANGED events
        /\ UNCHANGED <<journal, session, job, dash, stamp, pending, screen, switches, early, wleft>>
    BY <1>4 DEF TokensAndQi
  <2> QED BY <1>f, <1>t, <2>1, SaysNothing DEF DashMoves
<1>5. CASE Completes \/ NodeFails \/ CutShort
  <2>1. (Ends(TRUE) \/ Ends(FALSE)) /\ (UNCHANGED wleft \/ WSpend("fail"))
    BY <1>5 DEF Completes, NodeFails, CutShort
  <2>2. /\ Says(<<Dashboard(dash)>> \o job.notes) /\ job' = NoWork
        /\ UNCHANGED <<journal, session, dash, stamp, pending, screen, switches, early>>
    BY <2>1 DEF Ends
  <2>3. PICK s : s = <<Dashboard(dash)>> \o job.notes
    OBVIOUS
  <2>4. /\ s \in Seq(Said) /\ events' = events \o s /\ Len(s) = Len(job.notes) + 1 /\ Len(job.notes) \in Nat
        /\ s[1] = Dashboard(dash) /\ \A k \in 2..Len(s) : s[k] = job.notes[k - 1]
    <3>1. job.notes \in Seq(Notices) /\ Notices \subseteq Said
      BY DEF WorkTypes, Jobs, Said
    <3>2. PICK d : d = <<Dashboard(dash)>>
      OBVIOUS
    <3>3. d \in Seq(Said) /\ Len(d) = 1 /\ d[1] = Dashboard(dash)
      BY <1>t, <3>2, TellType
    <3>4. job.notes \in Seq(Said) /\ Len(job.notes) \in Nat
      BY <3>1, SeqMonotonic
    <3>5. /\ d \o job.notes \in Seq(Said) /\ Len(d \o job.notes) = 1 + Len(job.notes)
          /\ \A i \in 1..(1 + Len(job.notes)) : (d \o job.notes)[i] = IF i <= 1 THEN d[i] ELSE job.notes[i - 1]
      BY <3>3, <3>4, ConcatProperties
    <3>6. events' = events \o s
      BY <2>2, <2>3 DEF Says
    <3> QED BY <2>3, <3>2, <3>3, <3>4, <3>5, <3>6
  <2>5. ASSUME NEW k \in 1..Len(s) PROVE Tells(s, k)
    <3>1. s[1].kind = "dash" /\ s[1].place = session' /\ s[1].ops = dash'.ops /\ s[1].at = dash'.at /\ s[1].at = dash.at
      BY <1>t, <2>2, <2>4 DEF Dashboard
    <3>2. CASE k = 1
      BY <3>1, <3>2 DEF Tells
    <3>3. CASE k # 1
      <4>1. k \in 2..Len(s) /\ k - 1 \in 1..Len(job.notes)
        BY <2>4, <3>3
      <4> QED BY <2>4, <3>1, <4>1 DEF Tells
    <3> QED BY <3>2, <3>3
  <2>6. wleft'.stamp = wleft.stamp
    BY <1>g, <2>1
  <2>7. job'.notes = <<>> /\ job'.kind = "none"
    BY <2>2 DEF NoWork
  <2> QED BY <2>2, <2>4, <2>5, <2>6, <2>7 DEF DashMoves
<1> QED BY <1>1, <1>2, <1>3, <1>4, <1>5

\* What the lanes do to the dashboard and tell the screen.
LEMMA LaneTells ==
  ASSUME WorkTypes, LaneMoves \/ LaneTracks \/ LaneStamps \/ LaneReads \/ LaneSends \/ LaneNotifies \/ QiPass
  PROVE  /\ \E s \in Seq(Said) : events' = events \o s /\ \A k \in 1..Len(s) : Tells(s, k)
         /\ UNCHANGED <<session, job, dash, screen, switches, early>> /\ (UNCHANGED journal \/ LaneTracks) /\ LaneMove
         /\ stamp' \in {stamp, Stamped} /\ wleft'.stamp = wleft.stamp
<1>t. wleft \in [WorkKinds -> Nat] /\ "stamp" \in WorkKinds /\ pending \in Lookings
  BY DEF WorkTypes, WorkKinds
<1>1. CASE LaneMoves \/ LaneStamps \/ LaneReads
  BY <1>1, SaysNothing DEF LaneMoves, LaneStamps, LaneReads, Lane, LaneMove
<1>2. CASE LaneTracks
  <2>1. WSpend("mined") /\ UNCHANGED <<Lane, inbox, stamp, events>>
    BY <1>2 DEF LaneTracks
  <2>2. wleft'.stamp = wleft.stamp
    BY <1>t, <2>1 DEF WSpend
  <2> QED BY <1>2, <2>1, <2>2, SaysNothing DEF Lane, LaneMove
<1>3. CASE LaneSends
  <2>1. /\ pending.pc = "send" /\ Says(<<Ops(pending.place, pending.ops, pending.at)>>)
        /\ UNCHANGED <<Lane, wleft, journal, inbox, stamp>>
    BY <1>3 DEF LaneSends
  <2>2. PICK s : s = <<Ops(pending.place, pending.ops, pending.at)>>
    OBVIOUS
  <2>3. Ops(pending.place, pending.ops, pending.at) \in Said
    BY <1>t DEF Ops, Said, OpsReads, Lookings
  <2>4. s \in Seq(Said) /\ events' = events \o s
    BY <2>1, <2>2, <2>3 DEF Says
  <2>5. \A k \in 1..Len(s) : Tells(s, k)
    BY <2>1, <2>2 DEF Tells
  <2> QED BY <1>3, <2>1, <2>4, <2>5 DEF Lane, LaneMove
<1>4. CASE LaneNotifies
  <2>1. /\ pending.pc = "notify" /\ Says(<<Notify(pending.place, pending.ver, pending.sw)>>)
        /\ UNCHANGED <<Lane, wleft, journal, stamp>>
    BY <1>4 DEF LaneNotifies
  <2>2. PICK s : s = <<Notify(pending.place, pending.ver, pending.sw)>>
    OBVIOUS
  <2>3. Notify(pending.place, pending.ver, pending.sw) \in Said
    BY <1>t DEF Notify, Said, Notices, Lookings
  <2>4. s \in Seq(Said) /\ events' = events \o s
    BY <2>1, <2>2, <2>3 DEF Says
  <2>5. \A k \in 1..Len(s) : Tells(s, k)
    BY <2>1, <2>2 DEF Tells
  <2> QED BY <1>4, <2>1, <2>4, <2>5 DEF Lane, LaneMove
<1>5. CASE QiPass
  BY <1>5, SaysNothing DEF QiPass, LaneMove, LaneStays
<1> QED BY <1>1, <1>2, <1>3, <1>4, <1>5

\* What a step may do to what is read, said and heard.
Moved ==
  /\ Hear \/ \E s \in Seq(Said) : events' = events \o s /\ \A k \in 1..Len(s) : Tells(s, k)
  /\ DashMoves /\ LaneMove
  /\ UNCHANGED screen \/ Hear \/ (switches' # switches /\ screen'.ops = 0 /\ screen'.at = 0)
  /\ UNCHANGED early \/ Hear
  /\ UNCHANGED switches \/ switches' = switches + 1
  /\ stamp' \in {stamp, Stamped} /\ wleft'.stamp = wleft.stamp
  /\ session' = session \/ ~Settled
  /\ job'.notes = <<>> \/ UNCHANGED <<job, session>> \/ (Track /\ UNCHANGED session)
  /\ job'.kind = "switch" => job.kind = "switch" \/ ~Settled

\* Every step moves so.
LEMMA Moving == ASSUME WorkTypes, NotesInv, [WorkerNext]_wvars PROVE Moved
<1>t. wleft \in [WorkKinds -> Nat] /\ "stamp" \in WorkKinds
  BY DEF WorkTypes, WorkKinds
<1>s. \A k \in WorkKinds : k # "stamp" /\ WSpend(k) => wleft'.stamp = wleft.stamp
  BY <1>t DEF WSpend
<1>1. ASSUME NEW h, \/ Idle(h) \/ TakeRefresh(h) \/ TakeCommitted(h) \/ TakeEdit(h) \/ TakeScan(h)
                    \/ TakeQiSynced(h) \/ TakePoll(h) \/ TakeSwitch(h) \/ SwitchFails(h)
      PROVE  Moved
  BY <1>1, TurnTells DEF Moved, LaneMove, LaneStays
<1>2. CASE NodeAnswers \/ Balances \/ Track \/ TrackSkipped \/ TokensAndQi \/ Completes \/ NodeFails \/ CutShort
  BY <1>2, RefreshTells DEF Moved, LaneMove, LaneStays
<1>3. CASE LaneMoves \/ LaneTracks \/ LaneStamps \/ LaneReads \/ LaneSends \/ LaneNotifies \/ QiPass
  BY <1>3, LaneTells DEF Moved, DashMoves
<1>4. CASE Hear
  BY <1>4 DEF Hear, Moved, DashMoves, LaneMove, LaneStays
<1>5. CASE Edit \/ Scan \/ FullRefresh \/ Commit \/ Poll
  <2>1. UNCHANGED <<session, job, dash, stamp, pending, events, screen, switches, early>>
    BY <1>5 DEF Edit, Scan, FullRefresh, Commit, Poll, Sends
  <2>2. wleft'.stamp = wleft.stamp
    BY <1>5, <1>s DEF Edit, Scan, FullRefresh, Commit, Poll, WorkKinds
  <2> QED BY <2>1, <2>2, SaysNothing DEF Moved, DashMoves, LaneMove, LaneStays
<1>6. CASE Elapse \/ (\E n \in Nets : Block(n)) \/ (\E s \in Stages : StageDue(s)) \/ UNCHANGED wvars
  <2>1. UNCHANGED <<session, job, dash, stamp, pending, events, screen, switches, early>>
    BY <1>6 DEF Elapse, Block, StageDue, wvars
  <2>2. wleft'.stamp = wleft.stamp
    BY <1>6, <1>s DEF Elapse, Block, StageDue, wvars, WorkKinds
  <2> QED BY <2>1, <2>2, SaysNothing DEF Moved, DashMoves, LaneMove, LaneStays
<1>7. CASE \E p \in Places : Switch(p)
  <2>1. PICK p \in Places : Switch(p)
    BY <1>7
  <2>2. /\ WSpend("switch") /\ screen' = Empty(p) /\ switches' = switches + 1
        /\ pending' = [pending EXCEPT !.next = Append(@, p)]
        /\ UNCHANGED <<session, job, dash, stamp, events, early>>
    BY <2>1 DEF Switch
  <2>3. wleft'.stamp = wleft.stamp
    BY <1>s, <2>2 DEF WorkKinds
  <2>4. switches' # switches /\ screen'.ops = 0 /\ screen'.at = 0
    BY <2>2 DEF Empty, WorkTypes
  <2>5. LaneStays
    BY <2>2 DEF LaneStays, WorkTypes, Lookings
  <2> QED BY <2>2, <2>3, <2>4, <2>5, SaysNothing DEF Moved, DashMoves, LaneMove
<1> QED BY <1>1, <1>2, <1>3, <1>4, <1>5, <1>6, <1>7 DEF WorkerNext, WorkerSteps

\* A journal only grows.
LEMMA JournalGrows == ASSUME WorkTypes, [WorkerNext]_wvars, NEW p \in Places PROVE journal[p] <= journal'[p] /\ journal[p] \in Nat /\ journal'[p] \in Nat
<1>1. journal \in [Places -> Nat] /\ journal[p] \in Nat
  BY DEF WorkTypes
<1>2. ASSUME NEW q \in Places, journal' = [journal EXCEPT ![q] = @ + 1] PROVE journal[p] <= journal'[p] /\ journal'[p] \in Nat
  <2>1. CASE p = q
    BY <1>1, <1>2, <2>1
  <2>2. CASE p # q
    BY <1>1, <1>2, <2>2
  <2> QED BY <2>1, <2>2
<1>p. session \in Places /\ pending.place \in Places
  BY DEF WorkTypes, Lookings
<1>3. CASE UNCHANGED journal
  BY <1>1, <1>3
<1>4. \A f \in BOOLEAN, q \in Places : Finds(f, q) => UNCHANGED journal \/ journal' = [journal EXCEPT ![q] = @ + 1]
  BY DEF Finds
<1>5. CASE Track \/ TrackSkipped \/ LaneTracks \/ Commit
  <2>1. UNCHANGED journal \/ \E q \in Places : journal' = [journal EXCEPT ![q] = @ + 1]
    BY <1>p, <1>4, <1>5 DEF Track, TrackSkipped, LaneTracks, Commit
  <2> QED BY <1>1, <1>2, <1>3, <2>1
<1>6. \/ UNCHANGED journal \/ Track \/ TrackSkipped \/ LaneTracks \/ Commit
  <2>1. ASSUME NEW h, \/ Idle(h) \/ TakeRefresh(h) \/ TakeCommitted(h) \/ TakeEdit(h) \/ TakeScan(h)
                      \/ TakeQiSynced(h) \/ TakePoll(h) \/ TakeSwitch(h) \/ SwitchFails(h)
        PROVE  UNCHANGED journal
    BY <2>1 DEF Idle, TakeRefresh, TakeCommitted, TakeEdit, TakeScan, TakeQiSynced, TakePoll, TakeSwitch, SwitchFails, Picks
  <2>2. CASE NodeAnswers \/ Balances \/ TokensAndQi \/ Completes \/ NodeFails \/ CutShort
    BY <2>2 DEF NodeAnswers, Balances, TokensAndQi, Completes, NodeFails, CutShort, Ends, Rests
  <2>3. CASE LaneMoves \/ LaneStamps \/ LaneReads \/ LaneSends \/ LaneNotifies \/ QiPass
    BY <2>3 DEF LaneMoves, LaneStamps, LaneReads, LaneSends, LaneNotifies, QiPass
  <2>4. CASE Hear \/ Edit \/ Scan \/ FullRefresh \/ Poll \/ Elapse \/ UNCHANGED wvars
    BY <2>4 DEF Hear, Edit, Scan, FullRefresh, Poll, Elapse, wvars
  <2>5. CASE (\E q \in Places : Switch(q)) \/ (\E n \in Nets : Block(n)) \/ (\E s \in Stages : StageDue(s))
    BY <2>5 DEF Switch, Block, StageDue
  <2> QED BY <2>1, <2>2, <2>3, <2>4, <2>5 DEF WorkerNext, WorkerSteps
<1> QED BY <1>1, <1>3, <1>5, <1>6

\* What the screen shows after it heard of something: the read it showed, or the one it heard of.
LEMMA HeardShown ==
  ASSUME WorkTypes, Hear
  PROVE  /\ 1 \in 1..Len(events) /\ Len(events) \in Nat /\ events[1] \in Said
         /\ Len(events') = Len(events) - 1 /\ (\A i \in 1..Len(events') : i + 1 \in 1..Len(events) /\ events'[i] = events[i + 1])
         /\ \/ screen'.ops = screen.ops /\ screen'.at = screen.at
            \/ events[1].kind # "notify" /\ screen'.ops = events[1].ops /\ screen'.at = events[1].at
         /\ (events[1].kind # "notify" /\ events[1].place = screen.place => screen.at <= screen'.at /\ events[1].at <= screen'.at)
         /\ (events[1].kind = "notify" => screen' = screen)
         /\ (events[1].kind # "dash" => screen'.place = screen.place)
         /\ (events[1].kind = "dash" => screen'.place = events[1].place)
<1>1. PICK e : e = Head(events)
  OBVIOUS
<1>2. /\ events \in Seq(Said) /\ events # <<>> /\ events' = Tail(events)
  BY DEF Hear, WorkTypes
<1>3. /\ e \in Said /\ e = events[1] /\ Len(events) \in Nat /\ 1 \in 1..Len(events) /\ Len(events') = Len(events) - 1
      /\ \A i \in 1..Len(events') : events'[i] = events[i + 1]
  BY <1>1, <1>2, HeadTailProperties, EmptySeq
<1>4. screen' = CASE e.kind = "dash" -> Shown(e)
                  [] e.kind = "ops" /\ e.at > screen.at /\ e.place = screen.place ->
                       [screen EXCEPT !.ops = e.ops, !.at = e.at]
                  [] OTHER -> screen
  BY <1>1 DEF Hear
<1>5. screen \in Boards /\ screen.at \in Nat /\ screen.ops \in Nat
  BY DEF WorkTypes, Boards
<1>6. \A i \in 1..Len(events') : i + 1 \in 1..Len(events)
  BY <1>3
<1>7. CASE e.kind = "dash"
  <2>1. e.at \in Nat /\ e.place \in Places
    BY <1>3, <1>7 DEF Said, OpsReads, Notices
  <2>2. screen' = Shown(e)
    BY <1>4, <1>7
  <2>3. screen'.place = e.place
    BY <2>2 DEF Shown
  <2>4. \/ screen'.ops = screen.ops /\ screen'.at = screen.at
        \/ screen'.ops = e.ops /\ screen'.at = e.at
    BY <2>2 DEF Shown
  <2>5. e.place = screen.place => screen.at <= screen'.at /\ e.at <= screen'.at
    BY <1>5, <2>1, <2>2 DEF Shown
  <2> QED BY <1>3, <1>6, <1>7, <2>3, <2>4, <2>5
<1>8. CASE e.kind = "ops"
  <2>1. e.at \in Nat /\ e.place \in Places
    BY <1>3, <1>8 DEF Said, OpsReads, Notices
  <2>2. CASE e.at > screen.at /\ e.place = screen.place
    <3>1. screen' = [screen EXCEPT !.ops = e.ops, !.at = e.at]
      BY <1>4, <1>8, <2>2
    <3>2. screen'.place = screen.place /\ screen'.ops = e.ops /\ screen'.at = e.at
      BY <1>5, <3>1 DEF Boards
    <3> QED BY <1>3, <1>5, <1>6, <1>8, <2>1, <2>2, <3>2
  <2>3. CASE ~(e.at > screen.at /\ e.place = screen.place)
    <3>1. screen' = screen
      BY <1>4, <1>8, <2>3
    <3> QED BY <1>3, <1>5, <1>6, <1>8, <2>1, <2>3, <3>1
  <2> QED BY <2>2, <2>3
<1>9. CASE e.kind = "notify"
  <2>1. screen' = screen
    BY <1>4, <1>9
  <2> QED BY <1>3, <1>6, <1>9, <2>1
<1>10. e.kind \in {"dash", "ops", "notify"}
  BY <1>3 DEF Said, OpsReads, Notices
<1> QED BY <1>7, <1>8, <1>9, <1>10

\* Where what is on its way after a step comes from: it was on its way, or the step said it.
LEMMA EventFrom ==
  ASSUME WorkTypes, NEW s \in Seq(Said), events' = events \o s, \A k \in 1..Len(s) : Tells(s, k), NEW i \in 1..Len(events')
  PROVE  /\ Len(events) \in Nat /\ Len(events') = Len(events) + Len(s)
         /\ \/ i \in 1..Len(events) /\ events'[i] = events[i]
            \/ \E k \in 1..Len(s) : i = Len(events) + k /\ events'[i] = s[k] /\ Tells(s, k)
<1>1. events \in Seq(Said) /\ Len(events) \in Nat /\ Len(s) \in Nat
  BY DEF WorkTypes
<1>2. /\ Len(events') = Len(events) + Len(s)
      /\ \A j \in 1..Len(events) + Len(s) : events'[j] = IF j <= Len(events) THEN events[j] ELSE s[j - Len(events)]
  BY <1>1, ConcatProperties
<1>3. CASE i <= Len(events)
  BY <1>1, <1>2, <1>3
<1>4. CASE ~(i <= Len(events))
  <2>1. PICK k : k = i - Len(events)
    OBVIOUS
  <2>2. k \in 1..Len(s) /\ i = Len(events) + k
    BY <1>1, <1>2, <1>4, <2>1
  <2> QED BY <1>1, <1>2, <1>4, <2>1, <2>2
<1> QED BY <1>3, <1>4

\* A notice is no read.
LEMMA NoticeKind ==
  ASSUME WorkTypes
  PROVE  /\ Notify(pending.place, pending.ver, pending.sw).kind = "notify"
         /\ \A i \in 1..Len(job.notes) : job.notes[i] \in Notices /\ job.notes[i].kind = "notify"
<1>1. \A i \in 1..Len(job.notes) : job.notes[i] \in Notices
  BY ElementOfSeq DEF WorkTypes, Jobs
<1> QED BY <1>1 DEF Notify, Notices

\* A read known after a step was known before it, or is a fresh one of the worker or of the lane;
\* an empty screen or dashboard is one of a place just opened.
LEMMA ReadFrom ==
  ASSUME WorkTypes, Moved, NEW o \in Nat, NEW a \in Nat, Read(o, a)'
  PROVE  \/ Read(o, a)
         \/ o = journal'[session'] /\ a = stamp /\ stamp' = Stamped
         \/ LaneReads /\ o = journal[pending.place] /\ a = pending.at
         \/ o = 0 /\ a = 0 /\ (~Settled \/ switches' # switches)
<1> DEFINE Source == \/ Read(o, a)
                     \/ o = journal'[session'] /\ a = stamp /\ stamp' = Stamped
                     \/ LaneReads /\ o = journal[pending.place] /\ a = pending.at
                     \/ o = 0 /\ a = 0 /\ (~Settled \/ switches' # switches)
<1>1. ASSUME o = dash'.ops, a = dash'.at PROVE Source
  BY <1>1 DEF Moved, DashMoves, Read
<1>2. ASSUME o = screen'.ops, a = screen'.at PROVE Source
  <2>1. CASE UNCHANGED screen
    BY <1>2, <2>1 DEF Read
  <2>2. CASE Hear
    BY <1>2, <2>2, HeardShown DEF Read
  <2>3. CASE switches' # switches /\ screen'.ops = 0 /\ screen'.at = 0
    BY <1>2, <2>3
  <2> QED BY <2>1, <2>2, <2>3 DEF Moved
<1>3. ASSUME NEW i \in 1..Len(events'), events'[i].kind # "notify", o = events'[i].ops, a = events'[i].at PROVE Source
  <2>1. CASE Hear
    BY <1>3, <2>1, HeardShown DEF Read
  <2>2. CASE ~Hear
    <3>1. PICK s \in Seq(Said) : events' = events \o s /\ \A k \in 1..Len(s) : Tells(s, k)
      BY <2>2 DEF Moved
    <3>2. CASE i \in 1..Len(events) /\ events'[i] = events[i]
      BY <1>3, <3>2 DEF Read
    <3>3. ASSUME NEW k \in 1..Len(s), events'[i] = s[k], Tells(s, k) PROVE Source
      <4>1. CASE s[k].ops = dash'.ops /\ s[k].at = dash'.at
        BY <1>1, <1>3, <3>3, <4>1
      <4>2. CASE s[k].ops = 0 /\ s[k].at = 0 /\ ~Settled
        BY <1>3, <3>3, <4>2
      <4>3. CASE s[k] = Ops(pending.place, pending.ops, pending.at) /\ pending.pc = "send"
        <5>1. s[k].ops = pending.ops /\ s[k].at = pending.at
          BY <4>3 DEF Ops
        <5> QED BY <1>3, <3>3, <4>3, <5>1 DEF Read
      <4>4. s[k].kind # "notify"
        BY <1>3, <3>3
      <4> QED BY <3>3, <4>1, <4>2, <4>3, <4>4, NoticeKind DEF Tells
    <3>4. \/ i \in 1..Len(events) /\ events'[i] = events[i]
          \/ \E k \in 1..Len(s) : i = Len(events) + k /\ events'[i] = s[k] /\ Tells(s, k)
      BY <3>1, EventFrom
    <3> QED BY <3>2, <3>3, <3>4
  <2> QED BY <2>1, <2>2
<1>4. ASSUME pending'.pc = "send", o = pending'.ops, a = pending'.at PROVE Source
  <2>p. pending \in Lookings
    BY DEF WorkTypes
  <2>1. CASE LaneStays
    BY <1>4, <2>1 DEF LaneStays, Read
  <2>2. CASE LaneMoves \/ LaneNotifies
    BY <1>4, <2>2 DEF LaneMoves, LaneNotifies, Watching
  <2>3. CASE LaneTracks \/ LaneStamps \/ LaneSends
    BY <1>4, <2>p, <2>3 DEF LaneTracks, LaneStamps, LaneSends, Lookings
  <2>4. CASE LaneReads
    <3>1. pending' = [pending EXCEPT !.pc = "send", !.ops = journal[pending.place]]
      BY <2>4 DEF LaneReads
    <3>2. pending'.ops = journal[pending.place] /\ pending'.at = pending.at
      BY <2>p, <3>1 DEF Lookings
    <3> QED BY <1>4, <2>4, <3>2
  <2> QED BY <2>1, <2>2, <2>3, <2>4 DEF Moved, LaneMove
<1> QED BY <1>1, <1>2, <1>3, <1>4 DEF Read

\* A stamp given out stays so, and the next one is given out when it is taken.
LEMMA GivenStep ==
  ASSUME WorkTypes, Moved, stamp > 0
  PROVE  /\ stamp \in Nat /\ stamp' \in Nat /\ stamp <= stamp' /\ stamp' > 0
         /\ \A a \in Nat : Given(a) => Given(a)'
         /\ (stamp' = Stamped => \A a : a = stamp => Given(a)')
<1>1. stamp \in Nat /\ MaxStamp \in Nat /\ MaxStamp' = MaxStamp /\ stamp' \in {stamp, Stamped}
  BY DEF WorkTypes, WorkKinds, MaxStamp, Moved
<1>2. stamp' \in Nat /\ stamp <= stamp' /\ stamp' > 0 /\ (stamp < MaxStamp \/ stamp' = stamp)
  BY <1>1 DEF Stamped
<1>3. \A a \in Nat : Given(a) => Given(a)'
  <2> TAKE a \in Nat
  <2> SUFFICES ASSUME a <= stamp, stamp < MaxStamp => a < stamp PROVE a <= stamp' /\ (stamp' < MaxStamp' => a < stamp')
    BY DEF Given
  <2>1. CASE stamp' = stamp
    BY <1>1, <2>1
  <2>2. CASE stamp < MaxStamp
    BY <1>1, <1>2, <2>2
  <2> QED BY <1>2, <2>1, <2>2
<1>4. ASSUME stamp' = Stamped PROVE \A a : a = stamp => Given(a)'
  <2>1. ASSUME NEW a, a = stamp PROVE Given(a)'
    <3>1. CASE stamp < MaxStamp
      <4>1. stamp' = stamp + 1
        BY <1>4, <3>1 DEF Stamped
      <4> QED BY <1>1, <2>1, <4>1 DEF Given
    <3>2. CASE ~(stamp < MaxStamp)
      <4>1. stamp' = stamp
        BY <1>4, <3>2 DEF Stamped
      <4> QED BY <1>1, <2>1, <3>2, <4>1 DEF Given
    <3> QED BY <3>1, <3>2
  <2> QED BY <2>1
<1> QED BY <1>1, <1>2, <1>3, <1>4

\* Every read known bears a stamp that was given out, and so does the one the lane is about to make.
LEMMA StampStep == ASSUME WorkTypes, WorkTypes', Moved, StampInv PROVE StampInv'
<1>1. /\ stamp > 0 /\ (pending.pc = "read" => Given(pending.at)) /\ \A o, a \in Nat : Read(o, a) => Given(a)
  BY DEF StampInv
<1>2. /\ stamp \in Nat /\ stamp' \in Nat /\ stamp <= stamp' /\ stamp' > 0
      /\ \A a \in Nat : Given(a) => Given(a)'
      /\ (stamp' = Stamped => \A a : a = stamp => Given(a)')
  BY <1>1, GivenStep
<1>3. ASSUME pending'.pc = "read" PROVE Given(pending.at)'
  <2>p. pending \in Lookings /\ pending.at \in Nat
    BY DEF WorkTypes, Lookings
  <2>1. CASE LaneStays
    <3>1. PICK a \in Nat : a = pending.at
      BY <2>p
    <3>2. pending'.at = a /\ Given(a)
      BY <1>1, <1>3, <2>1, <3>1 DEF LaneStays
    <3>3. Given(a)'
      BY <1>2, <3>2
    <3> QED BY <3>2, <3>3
  <2>2. CASE LaneMoves \/ LaneNotifies
    BY <1>3, <2>2 DEF LaneMoves, LaneNotifies, Watching
  <2>3. CASE LaneTracks \/ LaneReads \/ LaneSends
    BY <1>3, <2>p, <2>3 DEF LaneTracks, LaneReads, LaneSends, Lookings
  <2>4. CASE LaneStamps
    <3>1. PICK a : a = stamp
      OBVIOUS
    <3>2. pending'.at = a /\ stamp' = Stamped
      BY <2>p, <2>4, <3>1 DEF LaneStamps, Lookings
    <3>3. Given(a)'
      BY <1>2, <3>1, <3>2
    <3> QED BY <3>2, <3>3
  <2> QED BY <2>1, <2>2, <2>3, <2>4 DEF Moved, LaneMove
<1>4. ASSUME NEW o \in Nat, NEW a \in Nat, Read(o, a)' PROVE Given(a)'
  <2>1. CASE Read(o, a)
    BY <1>1, <1>2, <2>1
  <2>2. CASE a = stamp /\ stamp' = Stamped
    BY <1>2, <2>2
  <2>3. CASE LaneReads /\ a = pending.at
    BY <1>1, <1>2, <2>3 DEF LaneReads
  <2>4. CASE a = 0
    BY <1>2, <2>4 DEF Given
  <2> QED BY <1>4, <2>1, <2>2, <2>3, <2>4, ReadFrom
<1> QED BY <1>2, <1>3, <1>4 DEF StampInv

\* The notices that wait stay of the place the worker has open.
LEMMA NotesStep == ASSUME WorkTypes, WorkTypes', Moved, NotesInv PROVE NotesInv'
<1>1. CASE job'.notes = <<>>
  BY <1>1 DEF NotesInv
<1>2. CASE UNCHANGED <<job, session>>
  BY <1>2 DEF NotesInv
<1>3. CASE Track /\ UNCHANGED session
  <2>1. PICK found \in BOOLEAN :
          job' = IF found /\ job.kind = "refresh"
                 THEN [job EXCEPT !.notes = Append(@, Notify(session, journal'[session], Seat))] ELSE job
    BY <1>3 DEF Track
  <2>2. job \in Jobs /\ job.notes \in Seq(Notices)
    BY DEF WorkTypes, Jobs
  <2>3. PICK n : n = Notify(session, journal'[session], Seat)
    OBVIOUS
  <2>4. CASE job'.notes = Append(job.notes, n)
    <3>1. \A i \in 1..Len(job'.notes) : job'.notes[i] = n \/ (i \in 1..Len(job.notes) /\ job'.notes[i] = job.notes[i])
      BY <2>2, <2>4
    <3>2. n.place = session
      BY <2>3 DEF Notify
    <3> QED BY <1>3, <3>1, <3>2 DEF NotesInv
  <2>5. CASE job' = job
    BY <1>3, <2>5 DEF NotesInv
  <2>6. job'.notes = Append(job.notes, n) \/ job' = job
    BY <2>1, <2>2, <2>3 DEF Jobs
  <2> QED BY <2>4, <2>5, <2>6
<1> QED BY <1>1, <1>2, <1>3 DEF Moved

\* The command a step sends is a switch only when the user switches.
LEMMA QueueMoves ==
  ASSUME WorkTypes, [WorkerNext]_wvars, UNCHANGED switches, \A i \in 1..Len(inbox) : inbox[i].kind # "switch"
  PROVE  \A i \in 1..Len(inbox') : inbox'[i].kind # "switch"
<1>1. inbox \in Seq(Cmds) /\ switches \in Nat
  BY DEF WorkTypes
<1>2. ASSUME NEW c \in Cmds, c.kind # "switch", inbox' = Append(inbox, c)
      PROVE  \A i \in 1..Len(inbox') : inbox'[i].kind # "switch"
  <2>1. \A i \in 1..Len(inbox') : inbox'[i] = c \/ (i \in 1..Len(inbox) /\ inbox'[i] = inbox[i])
    BY <1>1, <1>2
  <2> QED BY <1>2, <2>1
<1>3. CASE UNCHANGED inbox
  BY <1>3
<1>4. CASE Asks
  BY <1>1, <1>2, <1>4 DEF Asks
<1>5. CASE Takes
  <2>1. \A j \in 1..Len(inbox') : \E i \in 1..Len(inbox) : inbox'[j] = inbox[i]
    BY <1>5, RestKeeps DEF Takes
  <2> QED BY <2>1
<1>6. CASE QiPass
  <2>1. PICK c : c = Cmd("qisynced", Head(qi.jobs), FALSE)
    OBVIOUS
  <2>2. Head(qi.jobs) \in Places
    BY <1>6, HeadTailProperties DEF QiPass, WorkTypes
  <2>3. c \in Cmds /\ c.kind = "qisynced" /\ inbox' = Append(inbox, c)
    BY <1>6, <2>1, <2>2, CmdType DEF QiPass, Commands
  <2> QED BY <1>2, <2>3
<1> QED BY <1>3, <1>4, <1>5, <1>6, QiMoves

\* Nobody leaves the place where all of them are, unless the user switches; and there, what the
\* screen and the dashboard show is never of an earlier read.
LEMMA SettledStep ==
  ASSUME WorkTypes, WorkTypes', Moved, NotesInv, StampInv, [WorkerNext]_wvars, Settled, UNCHANGED switches
  PROVE  /\ Settled' /\ session' = session /\ pending.place = session /\ session \in Places
         /\ dash.at <= dash'.at /\ screen.at <= screen'.at
<1>1. /\ screen.place = session /\ pending.place = session /\ pending.next = <<>> /\ job.kind # "switch"
      /\ \A i \in 1..Len(inbox) : inbox[i].kind # "switch"
      /\ \A i \in 1..Len(events) : events[i].place = session
  BY DEF Settled
<1>2. session' = session /\ job'.kind # "switch" /\ session \in Places
  BY <1>1 DEF Moved, WorkTypes
<1>3. \A i \in 1..Len(inbox') : inbox'[i].kind # "switch"
  BY <1>1, QueueMoves
<1>4. pending'.place = session /\ pending'.next = <<>>
  <2>p. pending \in Lookings
    BY DEF WorkTypes
  <2>1. ~LaneMoves
    BY <1>1 DEF LaneMoves
  <2>2. CASE LaneStays
    BY <1>1, <2>2 DEF LaneStays
  <2>3. CASE LaneTracks \/ LaneStamps \/ LaneReads \/ LaneSends
    BY <1>1, <2>p, <2>3 DEF LaneTracks, LaneStamps, LaneReads, LaneSends, Lookings
  <2>4. CASE LaneNotifies
    BY <1>1, <2>4 DEF LaneNotifies, Watching
  <2> QED BY <2>1, <2>2, <2>3, <2>4 DEF Moved, LaneMove
<1>5. screen'.place = session /\ screen.at <= screen'.at
  <2>1. CASE UNCHANGED screen
    BY <1>1, <2>1 DEF WorkTypes, Boards
  <2>2. CASE Hear
    <3>1. events[1].place = session /\ screen.at \in Nat
      BY <1>1, <2>2, HeardShown DEF WorkTypes, Boards
    <3>2. CASE events[1].kind = "notify"
      BY <1>1, <2>2, <3>1, <3>2, HeardShown
    <3>3. CASE events[1].kind # "notify"
      BY <1>1, <2>2, <3>1, <3>3, HeardShown
    <3> QED BY <3>2, <3>3
  <2> QED BY <2>1, <2>2 DEF Moved
<1>6. ASSUME NEW i \in 1..Len(events') PROVE events'[i].place = session
  <2>1. CASE Hear
    BY <1>1, <2>1, HeardShown
  <2>2. CASE ~Hear
    <3>1. PICK s \in Seq(Said) : events' = events \o s /\ \A k \in 1..Len(s) : Tells(s, k)
      BY <2>2 DEF Moved
    <3>2. ASSUME NEW k \in 1..Len(s), Tells(s, k) PROVE s[k].place = session
      <4>1. Ops(pending.place, pending.ops, pending.at).place = session /\ Notify(pending.place, pending.ver, pending.sw).place = session
        BY <1>1 DEF Ops, Notify
      <4>2. \A n \in 1..Len(job.notes) : job.notes[n].place = session
        BY DEF NotesInv
      <4> QED BY <1>2, <3>2, <4>1, <4>2 DEF Tells
    <3>3. \/ i \in 1..Len(events) /\ events'[i] = events[i]
          \/ \E k \in 1..Len(s) : i = Len(events) + k /\ events'[i] = s[k] /\ Tells(s, k)
      BY <3>1, EventFrom
    <3> QED BY <1>1, <3>2, <3>3
  <2> QED BY <2>1, <2>2
<1>7. dash.at <= dash'.at
  <2>1. dash \in Boards /\ dash.ops \in Nat /\ dash.at \in Nat
    BY DEF WorkTypes, Boards
  <2>2. Given(dash.at)
    BY <2>1 DEF StampInv, Read
  <2>3. dash.at <= stamp
    BY <2>2 DEF Given
  <2> QED BY <2>1, <2>3 DEF Moved, DashMoves
<1>8. Settled'
  BY <1>2, <1>3, <1>4, <1>5, <1>6 DEF Settled
<1> QED BY <1>1, <1>2, <1>5, <1>7, <1>8

-----------------------------------------------------------------------------
(* Notices, and what is shown when they are heard. *)

\* A seat is taken when everyone is in one place, and they still are while it is the current one.
Seated(sw) == sw <= switches + 1 /\ (sw = switches + 1 => Settled)
SeatInv ==
  /\ Seated(pending.sw)
  /\ \A i \in 1..Len(job.notes) : Seated(job.notes[i].sw)
  /\ \A i \in 1..Len(events) : events[i].kind = "notify" => Seated(events[i].sw)

\* The journal of the worker's place is at v or later, and so is every known read stamped a or later.
NoOlder(v, a) == v <= journal[session] /\ \A o, b \in Nat : Read(o, b) /\ a <= b => v <= o

\* Before the n first things on their way to the screen are heard, and after, v is shown.
ShownBy(v, n) ==
  \/ NoOlder(v, screen.at)
  \/ \E i \in 1..n : events[i].kind # "notify" /\ NoOlder(v, events[i].at)

\* What becomes of a change found while everyone was in one place: the lane stamps, reads, sends
\* and says it; a refresh keeps it beside a dashboard that shows it; on its way, it is behind a read.
LaneInv ==
  pending.sw = switches + 1 =>
    /\ pending.pc = "stamp" => pending.ver <= journal[session]
    /\ pending.pc \in {"read", "send"} => NoOlder(pending.ver, pending.at)
    /\ pending.pc = "notify" => ShownBy(pending.ver, Len(events))
WaitInv == \A i \in 1..Len(job.notes) : job.notes[i].sw = switches + 1 => NoOlder(job.notes[i].ver, dash.at)
SaidInv == \A i \in 1..Len(events) : events[i].kind = "notify" /\ events[i].sw = switches + 1 => ShownBy(events[i].ver, i - 1)

NoticeInv == WorkTypes /\ NotesInv /\ StampInv /\ SeatInv /\ LaneInv /\ WaitInv /\ SaidInv /\ NoticeAfterShown

\* What a step starts from.
Stepping == NoticeInv /\ Moved /\ WorkTypes' /\ StampInv' /\ NotesInv' /\ [WorkerNext]_wvars

\* Nothing that was found so is older than it, whatever is read next.
LEMMA OlderStep ==
  ASSUME Stepping, Settled, UNCHANGED switches, NEW v \in Nat, NEW a \in Nat, NEW b \in Nat, NoOlder(v, a), a <= b
  PROVE  NoOlder(v, b)'
<1>1. WorkTypes /\ WorkTypes' /\ Moved /\ NotesInv /\ StampInv /\ [WorkerNext]_wvars
  BY DEF Stepping, NoticeInv
<1>2. session' = session /\ session \in Places /\ pending.place = session
  BY <1>1, SettledStep
<1>3. journal[session] <= journal'[session] /\ journal[session] \in Nat /\ journal'[session] \in Nat
  BY <1>1, <1>2, JournalGrows
<1>4. v <= journal[session] /\ \A o, c \in Nat : Read(o, c) /\ a <= c => v <= o
  BY DEF NoOlder
<1>5. v <= journal'[session']
  BY <1>2, <1>3, <1>4
<1>6. ASSUME NEW o \in Nat, NEW c \in Nat, Read(o, c)', b <= c PROVE v <= o
  <2>1. CASE Read(o, c)
    BY <1>4, <1>6, <2>1
  <2>2. CASE o = journal'[session']
    BY <1>5, <2>2
  <2>3. CASE o = journal[pending.place]
    BY <1>2, <1>4, <2>3
  <2>4. ~(~Settled \/ switches' # switches)
    OBVIOUS
  <2> QED BY <1>1, <1>6, <2>1, <2>2, <2>3, <2>4, ReadFrom
<1> QED BY <1>5, <1>6 DEF NoOlder

\* A seat is kept, or is no longer the current one.
LEMMA SeatKept == ASSUME Stepping, NEW sw \in Nat, Seated(sw) PROVE Seated(sw)' /\ (sw = switches' + 1 => Settled /\ UNCHANGED switches)
<1>1. WorkTypes /\ WorkTypes' /\ Moved /\ NotesInv /\ StampInv /\ [WorkerNext]_wvars /\ switches \in Nat
  BY DEF Stepping, NoticeInv, WorkTypes
<1>2. sw <= switches + 1 /\ (sw = switches + 1 => Settled)
  BY DEF Seated
<1>3. CASE UNCHANGED switches
  <2>1. Settled => Settled'
    BY <1>1, <1>3, SettledStep
  <2> QED BY <1>2, <1>3, <2>1 DEF Seated
<1>4. CASE switches' = switches + 1
  <2>1. sw <= switches' + 1 /\ sw # switches' + 1
    BY <1>1, <1>2, <1>4
  <2> QED BY <2>1 DEF Seated
<1> QED BY <1>1, <1>3, <1>4 DEF Moved

\* A change found takes a seat.
LEMMA SeatTaken == ASSUME WorkTypes PROVE Seat \in Nat /\ Seated(Seat)
BY DEF Seat, Seated, WorkTypes

\* The types of what a notice holds.
LEMMA NoticeTypes ==
  ASSUME WorkTypes
  PROVE  /\ switches \in Nat /\ stamp \in Nat
         /\ pending.sw \in Nat /\ pending.ver \in Nat /\ pending.at \in Nat /\ pending.ops \in Nat
         /\ dash.at \in Nat /\ dash.ops \in Nat /\ screen.at \in Nat /\ screen.ops \in Nat
         /\ \A i \in 1..Len(job.notes) : job.notes[i].sw \in Nat /\ job.notes[i].ver \in Nat
         /\ Len(job.notes) \in Nat /\ Len(events) \in Nat
         /\ \A i \in 1..Len(events) : events[i].kind = "notify" => events[i].sw \in Nat /\ events[i].ver \in Nat
         /\ \A i \in 1..Len(events) : events[i].kind # "notify" => events[i].ops \in Nat /\ events[i].at \in Nat
<1>1. switches \in Nat /\ stamp \in Nat /\ pending \in Lookings /\ dash \in Boards /\ screen \in Boards
  BY DEF WorkTypes
<1>2. pending.sw \in Nat /\ pending.ver \in Nat /\ pending.at \in Nat /\ pending.ops \in Nat
  BY <1>1 DEF Lookings
<1>3. dash.at \in Nat /\ dash.ops \in Nat /\ screen.at \in Nat /\ screen.ops \in Nat
  BY <1>1 DEF Boards
<1>4. job.notes \in Seq(Notices) /\ Len(job.notes) \in Nat
  BY DEF WorkTypes, Jobs
<1>n. \A i \in 1..Len(job.notes) : job.notes[i] \in Notices
  BY <1>4, ElementOfSeq
<1>5. \A i \in 1..Len(job.notes) : job.notes[i].sw \in Nat /\ job.notes[i].ver \in Nat
  BY <1>n DEF Notices
<1>6. events \in Seq(Said) /\ Len(events) \in Nat /\ \A i \in 1..Len(events) : events[i] \in Said
  BY ElementOfSeq DEF WorkTypes
<1>7. \A i \in 1..Len(events) : events[i].kind = "notify" => events[i].sw \in Nat /\ events[i].ver \in Nat
  BY <1>6 DEF Said, OpsReads, Notices
<1>8. \A i \in 1..Len(events) : events[i].kind # "notify" => events[i].ops \in Nat /\ events[i].at \in Nat
  BY <1>6 DEF Said, OpsReads, Notices
<1> QED BY <1>1, <1>2, <1>3, <1>4, <1>5, <1>6, <1>7, <1>8

\* Every notice keeps its seat.
LEMMA SeatStep == ASSUME Stepping PROVE SeatInv'
<1>1. WorkTypes /\ WorkTypes' /\ Moved /\ SeatInv
  BY DEF Stepping, NoticeInv
<1>2. Seated(pending.sw)'
  <2>p. pending \in Lookings /\ pending.sw \in Nat /\ switches' \in Nat
    BY <1>1 DEF WorkTypes, Lookings
  <2>1. ASSUME NEW w \in Nat, Seated(w), pending'.sw = w PROVE Seated(pending.sw)'
    <3>1. Seated(w)'
      BY <2>1, SeatKept
    <3> QED BY <2>1, <3>1
  <2>2. CASE pending'.sw = pending.sw
    BY <1>1, <2>p, <2>1, <2>2 DEF SeatInv
  <2>3. CASE LaneMoves \/ LaneNotifies
    <3>1. pending'.sw = 0
      BY <2>3 DEF LaneMoves, LaneNotifies, Watching
    <3>2. switches \in Nat
      BY <1>1 DEF WorkTypes
    <3>3. 0 <= switches + 1 /\ 0 # switches + 1
      BY <3>2
    <3>4. Seated(0)
      BY <3>3 DEF Seated
    <3> QED BY <2>1, <3>1, <3>4
  <2>4. CASE LaneTracks
    <3>1. pending'.sw = Seat
      BY <2>p, <2>4 DEF LaneTracks, Lookings
    <3>2. PICK w : w = Seat
      OBVIOUS
    <3> QED BY <1>1, <2>1, <3>1, <3>2, SeatTaken
  <2>5. LaneStays \/ LaneStamps \/ LaneReads \/ LaneSends => pending'.sw = pending.sw
    BY <2>p DEF LaneStays, LaneStamps, LaneReads, LaneSends, Lookings
  <2> QED BY <1>1, <2>2, <2>3, <2>4, <2>5 DEF Moved, LaneMove
<1>3. \A i \in 1..Len(job'.notes) : Seated(job.notes[i].sw)'
  <2>1. ASSUME NEW i \in 1..Len(job'.notes), NEW w \in Nat, Seated(w), job'.notes[i].sw = w PROVE Seated(job.notes[i].sw)'
    <3>1. Seated(w)'
      BY <2>1, SeatKept
    <3> QED BY <2>1, <3>1
  <2>2. \A j \in 1..Len(job.notes) : job.notes[j].sw \in Nat /\ Seated(job.notes[j].sw)
    BY <1>1, NoticeTypes DEF SeatInv
  <2>3. CASE job'.notes = <<>>
    BY <2>3
  <2>4. CASE UNCHANGED job
    BY <2>1, <2>2, <2>4
  <2>5. CASE Track
    <3>1. PICK n : n = Notify(session, journal'[session], Seat)
      OBVIOUS
    <3>2. job.notes \in Seq(Notices) /\ job \in Jobs
      BY <1>1 DEF WorkTypes, Jobs
    <3>3. job'.notes = Append(job.notes, n) \/ job' = job
      BY <2>5, <3>1, <3>2 DEF Track, Jobs
    <3>4. CASE job'.notes = Append(job.notes, n)
      <4>1. \A i \in 1..Len(job'.notes) : job'.notes[i] = n \/ (i \in 1..Len(job.notes) /\ job'.notes[i] = job.notes[i])
        BY <3>2, <3>4
      <4>2. n.sw = Seat
        BY <3>1 DEF Notify
      <4>3. n.sw \in Nat /\ Seated(n.sw)
        BY <1>1, <4>2, SeatTaken
      <4>4. ASSUME NEW i \in 1..Len(job'.notes) PROVE Seated(job.notes[i].sw)'
        <5>1. PICK w \in Nat : Seated(w) /\ job'.notes[i].sw = w
          BY <2>2, <4>1, <4>3
        <5> QED BY <2>1, <5>1
      <4> QED BY <4>4
    <3> QED BY <2>4, <3>3, <3>4
  <2> QED BY <1>1, <2>3, <2>4, <2>5 DEF Moved
<1>4. ASSUME NEW i \in 1..Len(events'), events'[i].kind = "notify" PROVE Seated(events[i].sw)'
  <2>1. ASSUME NEW w \in Nat, Seated(w), events'[i].sw = w PROVE Seated(events[i].sw)'
    <3>1. Seated(w)'
      BY <2>1, SeatKept
    <3> QED BY <2>1, <3>1
  <2>2. \A j \in 1..Len(events) : events[j].kind = "notify" => events[j].sw \in Nat /\ Seated(events[j].sw)
    BY <1>1, NoticeTypes DEF SeatInv
  <2>3. CASE Hear
    BY <1>1, <1>4, <2>1, <2>2, <2>3, HeardShown
  <2>4. CASE ~Hear
    <3>1. PICK s \in Seq(Said) : events' = events \o s /\ \A k \in 1..Len(s) : Tells(s, k)
      BY <1>1, <2>4 DEF Moved
    <3>2. CASE i \in 1..Len(events) /\ events'[i] = events[i]
      BY <1>4, <2>1, <2>2, <3>2
    <3>3. ASSUME NEW k \in 1..Len(s), events'[i] = s[k], Tells(s, k) PROVE Seated(events[i].sw)'
      <4>1. CASE s[k] = Notify(pending.place, pending.ver, pending.sw)
        <5>1. s[k].sw = pending.sw /\ pending.sw \in Nat /\ Seated(pending.sw)
          BY <1>1, <4>1, NoticeTypes DEF Notify, SeatInv
        <5> QED BY <2>1, <3>3, <5>1
      <4>2. CASE k - 1 \in 1..Len(job.notes) /\ s[k] = job.notes[k - 1]
        <5>1. job.notes[k - 1].sw \in Nat /\ Seated(job.notes[k - 1].sw)
          BY <1>1, <4>2, NoticeTypes DEF SeatInv
        <5> QED BY <2>1, <3>3, <4>2, <5>1
      <4>3. Ops(pending.place, pending.ops, pending.at).kind = "ops"
        BY DEF Ops
      <4> QED BY <1>4, <3>3, <4>1, <4>2, <4>3 DEF Tells
    <3>4. \/ i \in 1..Len(events) /\ events'[i] = events[i]
          \/ \E k \in 1..Len(s) : i = Len(events) + k /\ events'[i] = s[k] /\ Tells(s, k)
      BY <1>1, <3>1, EventFrom
    <3> QED BY <3>2, <3>3, <3>4
  <2> QED BY <2>3, <2>4
<1> QED BY <1>2, <1>3, <1>4 DEF SeatInv

\* What every step starts from, part by part.
LEMMA SteppingIs ==
  ASSUME Stepping
  PROVE  /\ WorkTypes /\ WorkTypes' /\ Moved /\ NotesInv /\ StampInv /\ [WorkerNext]_wvars
         /\ SeatInv /\ LaneInv /\ WaitInv /\ SaidInv /\ NoticeAfterShown
BY DEF Stepping, NoticeInv

\* What was shown by some point of what is on its way still is, one thing earlier once one is heard.
LEMMA ShownStep ==
  ASSUME Stepping, Settled, UNCHANGED switches, NEW v \in Nat, NEW n \in Nat, n <= Len(events), ShownBy(v, n),
         NEW m \in Nat, IF Hear THEN n <= m + 1 ELSE n <= m
  PROVE  ShownBy(v, m)'
<1>1. WorkTypes /\ WorkTypes' /\ Moved /\ NotesInv /\ StampInv /\ [WorkerNext]_wvars
  BY SteppingIs
<1>2. screen.at \in Nat /\ screen'.at \in Nat /\ screen.at <= screen'.at
  <2>1. screen \in Boards /\ screen' \in Boards
    BY <1>1 DEF WorkTypes
  <2>2. screen.at <= screen'.at
    BY <1>1, SettledStep
  <2> QED BY <2>1, <2>2 DEF Boards
<1>3. ASSUME NEW b \in Nat, NoOlder(v, b), b <= screen'.at PROVE ShownBy(v, m)'
  <2>1. PICK c \in Nat : c = screen'.at
    BY <1>2
  <2>2. NoOlder(v, c)'
    BY <1>3, <2>1, OlderStep
  <2> QED BY <2>1, <2>2 DEF ShownBy
<1>4. CASE NoOlder(v, screen.at)
  BY <1>2, <1>3, <1>4
<1>5. ASSUME NEW i \in 1..n, events[i].kind # "notify", NoOlder(v, events[i].at) PROVE ShownBy(v, m)'
  <2>1. i \in 1..Len(events) /\ Len(events) \in Nat /\ events[i].at \in Nat
    BY <1>1, <1>5, NoticeTypes
  <2>2. PICK b \in Nat : b = events[i].at
    BY <2>1
  <2>3. NoOlder(v, b)'
    BY <1>5, <2>2, OlderStep
  <2>4. CASE Hear
    <3>1. CASE i = 1
      <4>1. events[1].place = screen.place
        BY <2>1, <3>1 DEF Settled
      <4>2. b <= screen'.at
        BY <1>1, <1>5, <2>2, <2>4, <3>1, <4>1, HeardShown
      <4> QED BY <1>3, <1>5, <2>2, <4>2
    <3>2. CASE i # 1
      <4>1. i - 1 \in 1..Len(events') /\ i - 1 \in 1..m
        BY <1>1, <2>1, <2>4, <3>2, HeardShown
      <4>2. events'[i - 1] = events[i]
        BY <1>1, <2>1, <2>4, <4>1, HeardShown
      <4> QED BY <1>5, <2>2, <2>3, <4>1, <4>2 DEF ShownBy
    <3> QED BY <3>1, <3>2
  <2>5. CASE ~Hear
    <3>1. PICK s \in Seq(Said) : events' = events \o s /\ \A k \in 1..Len(s) : Tells(s, k)
      BY <1>1, <2>5 DEF Moved
    <3>2. events \in Seq(Said)
      BY <1>1 DEF WorkTypes
    <3>3. events'[i] = events[i] /\ i \in 1..m
      BY <2>1, <2>5, <3>1, <3>2, ConcatProperties
    <3> QED BY <1>5, <2>2, <2>3, <3>3 DEF ShownBy
  <2> QED BY <2>4, <2>5
<1> QED BY <1>4, <1>5 DEF ShownBy

\* What was just found is no older than the next stamp, while stamps are told apart.
LEMMA FoundFresh ==
  ASSUME Stepping, Settled, UNCHANGED switches, stamp < MaxStamp, NEW v \in Nat, v <= journal'[session'], NEW b, b = stamp
  PROVE  NoOlder(v, b)'
<1>1. WorkTypes /\ Moved /\ StampInv /\ stamp \in Nat
  BY SteppingIs, NoticeTypes
<1>2. ASSUME NEW o \in Nat, NEW c \in Nat, Read(o, c)', b <= c PROVE v <= o
  <2>1. ~Given(c)
    BY <1>1, <1>2 DEF Given
  <2>2. CASE Read(o, c)
    BY <1>1, <2>1, <2>2 DEF StampInv
  <2>3. CASE o = journal'[session']
    BY <2>3
  <2>4. CASE LaneReads /\ c = pending.at
    BY <1>1, <2>1, <2>4 DEF StampInv, LaneReads
  <2>5. ~(~Settled \/ switches' # switches)
    OBVIOUS
  <2> QED BY <1>1, <1>2, <2>2, <2>3, <2>4, <2>5, ReadFrom
<1> QED BY <1>2 DEF NoOlder

\* The lane stamps after it has found, reads after it has stamped, and says after it has sent.
LEMMA LaneStep == ASSUME Stepping PROVE LaneInv'
<1> SUFFICES ASSUME pending'.sw = switches' + 1
             PROVE  /\ pending'.pc = "stamp" => pending'.ver <= journal'[session']
                    /\ pending'.pc \in {"read", "send"} => NoOlder(pending.ver, pending.at)'
                    /\ pending'.pc = "notify" => ShownBy(pending.ver, Len(events))'
  BY DEF LaneInv
<1>1. WorkTypes /\ WorkTypes' /\ Moved /\ NotesInv /\ StampInv /\ [WorkerNext]_wvars /\ SeatInv /\ LaneInv
  BY SteppingIs
<1>2. /\ pending \in Lookings /\ pending.ver \in Nat /\ pending.at \in Nat /\ pending.sw \in Nat /\ switches' \in Nat
      /\ Len(events) \in Nat /\ Len(events') \in Nat /\ stamp \in Nat
  <2>1. pending \in Lookings /\ switches' \in Nat /\ events' \in Seq(Said)
    BY <1>1 DEF WorkTypes
  <2>2. Len(events') \in Nat
    BY <2>1
  <2> QED BY <1>1, <2>1, <2>2, NoticeTypes
<1>3. ASSUME pending'.sw = pending.sw
      PROVE  /\ Settled /\ UNCHANGED switches /\ pending.sw = switches + 1 /\ session' = session /\ pending.place = session
             /\ journal[session] <= journal'[session] /\ journal[session] \in Nat /\ journal'[session] \in Nat
  <2>1. Settled /\ UNCHANGED switches
    BY <1>1, <1>2, <1>3, SeatKept DEF SeatInv
  <2>2. session' = session /\ pending.place = session /\ session \in Places
    BY <1>1, <2>1, SettledStep
  <2> QED BY <1>1, <1>3, <2>1, <2>2, JournalGrows
<1>4. PICK v \in Nat : v = pending.ver
  BY <1>2
<1>5. PICK a \in Nat : a = pending.at
  BY <1>2
<1>6. CASE LaneStays
  <2>1. pending'.sw = pending.sw /\ pending'.pc = pending.pc /\ pending'.ver = v /\ pending'.at = a
    BY <1>4, <1>5, <1>6 DEF LaneStays
  <2>2. CASE pending.pc = "stamp"
    BY <1>1, <1>2, <1>3, <1>4, <2>1, <2>2 DEF LaneInv
  <2>3. CASE pending.pc \in {"read", "send"}
    <3>1. NoOlder(v, a) /\ Settled /\ UNCHANGED switches
      BY <1>1, <1>3, <1>4, <1>5, <2>1, <2>3 DEF LaneInv
    <3>2. NoOlder(v, a)'
      BY <3>1, OlderStep
    <3> QED BY <2>1, <2>3, <3>2
  <2>4. CASE pending.pc = "notify"
    <3>1. ShownBy(v, Len(events)) /\ Settled /\ UNCHANGED switches
      BY <1>1, <1>3, <1>4, <2>1, <2>4 DEF LaneInv
    <3>2. IF Hear THEN Len(events) <= Len(events') + 1 ELSE Len(events) <= Len(events')
      <4>1. CASE Hear
        BY <1>1, <1>2, <4>1, HeardShown
      <4>2. CASE ~Hear
        <5>1. PICK s \in Seq(Said) : events' = events \o s
          BY <1>1, <4>2 DEF Moved
        <5>2. Len(events') = Len(events) + Len(s) /\ Len(s) \in Nat
          BY <1>1, <5>1, ConcatProperties DEF WorkTypes
        <5> QED BY <1>2, <4>2, <5>2
      <4> QED BY <4>1, <4>2
    <3>3. PICK n \in Nat : n = Len(events)
      BY <1>2
    <3>4. PICK m \in Nat : m = Len(events')
      BY <1>2
    <3>5. ShownBy(v, m)'
      BY <3>1, <3>2, <3>3, <3>4, ShownStep
    <3> QED BY <2>1, <2>4, <3>4, <3>5
  <2>5. CASE pending.pc = "idle"
    BY <2>1, <2>5
  <2>6. pending.pc \in LanePlaces
    BY <1>2 DEF Lookings
  <2> QED BY <2>2, <2>3, <2>4, <2>5, <2>6 DEF LanePlaces
<1>7. CASE LaneMoves \/ LaneNotifies
  <2>1. pending'.sw = 0
    BY <1>7 DEF LaneMoves, LaneNotifies, Watching
  <2> QED BY <1>2, <2>1
<1>8. CASE LaneTracks
  <2>1. pending'.pc = "stamp" /\ pending'.ver = journal'[pending.place] /\ pending'.sw = Seat /\ UNCHANGED switches
    BY <1>2, <1>8 DEF LaneTracks, Lookings, Lane
  <2>2. Settled
    BY <1>2, <2>1 DEF Seat
  <2>3. session' = session /\ pending.place = session /\ session \in Places
    BY <1>1, <2>1, <2>2, SettledStep
  <2>4. journal'[session] \in Nat
    BY <1>1, <2>3, JournalGrows
  <2> QED BY <2>1, <2>3, <2>4
<1>9. CASE LaneStamps
  <2>1. /\ pending.pc = "stamp" /\ stamp < MaxStamp /\ pending'.pc = "read" /\ pending'.at = stamp
        /\ pending'.ver = v /\ pending'.sw = pending.sw
    BY <1>2, <1>4, <1>9 DEF LaneStamps, Lookings
  <2>2. v <= journal'[session'] /\ Settled /\ UNCHANGED switches
    BY <1>1, <1>3, <1>4, <2>1 DEF LaneInv
  <2>3. PICK b : b = stamp
    OBVIOUS
  <2>4. NoOlder(v, b)'
    BY <2>1, <2>2, <2>3, FoundFresh
  <2> QED BY <2>1, <2>3, <2>4
<1>10. CASE LaneReads
  <2>1. pending.pc = "read" /\ pending'.pc = "send" /\ pending'.at = a /\ pending'.ver = v /\ pending'.sw = pending.sw
    BY <1>2, <1>4, <1>5, <1>10 DEF LaneReads, Lookings
  <2>2. NoOlder(v, a) /\ Settled /\ UNCHANGED switches
    BY <1>1, <1>3, <1>4, <1>5, <2>1 DEF LaneInv
  <2>3. NoOlder(v, a)'
    BY <2>2, OlderStep
  <2> QED BY <2>1, <2>3
<1>11. CASE LaneSends
  <2>1. /\ pending.pc = "send" /\ pending'.pc = "notify" /\ pending'.ver = v /\ pending'.sw = pending.sw
        /\ events' = events \o <<Ops(pending.place, pending.ops, pending.at)>>
    BY <1>2, <1>4, <1>11 DEF LaneSends, Lookings, Says
  <2>2. NoOlder(v, a) /\ Settled /\ UNCHANGED switches
    BY <1>1, <1>3, <1>4, <1>5, <2>1 DEF LaneInv
  <2>3. NoOlder(v, a)'
    BY <2>2, OlderStep
  <2>4. PICK e : e = Ops(pending.place, pending.ops, pending.at)
    OBVIOUS
  <2>5. e \in Said /\ e.kind = "ops" /\ e.at = a
    BY <1>2, <1>5, <2>4 DEF Ops, Said, OpsReads, Lookings
  <2>6. Len(events') = Len(events) + 1 /\ events'[Len(events')] = e
    <3>1. events \in Seq(Said) /\ <<e>> \in Seq(Said) /\ Len(<<e>>) = 1
      BY <1>1, <2>5 DEF WorkTypes
    <3>2. /\ Len(events') = Len(events) + 1
          /\ \A i \in 1..(Len(events) + 1) : events'[i] = IF i <= Len(events) THEN events[i] ELSE <<e>>[i - Len(events)]
      BY <2>1, <2>4, <3>1, ConcatProperties
    <3> QED BY <1>2, <3>2
  <2>7. PICK m \in Nat : m = Len(events')
    BY <1>2
  <2>8. m \in 1..m /\ events'[m].kind # "notify" /\ events'[m].at = a
    BY <1>2, <2>5, <2>6, <2>7
  <2>9. ShownBy(v, m)'
    BY <2>3, <2>8 DEF ShownBy
  <2> QED BY <2>1, <2>7, <2>9
<1> QED BY <1>1, <1>6, <1>7, <1>8, <1>9, <1>10, <1>11 DEF Moved, LaneMove

\* A notice waits behind a dashboard that shows what it is about.
LEMMA WaitStep == ASSUME Stepping PROVE WaitInv'
<1>1. WorkTypes /\ WorkTypes' /\ Moved /\ NotesInv /\ StampInv /\ [WorkerNext]_wvars /\ SeatInv /\ WaitInv
  BY SteppingIs
<1>t. /\ dash.at \in Nat /\ dash'.at \in Nat /\ stamp \in Nat
      /\ \A i \in 1..Len(job.notes) : job.notes[i].sw \in Nat /\ job.notes[i].ver \in Nat
  <2>1. dash' \in Boards
    BY <1>1 DEF WorkTypes
  <2>2. dash'.at \in Nat
    BY <2>1 DEF Boards
  <2> QED BY <1>1, <2>2, NoticeTypes
<1>2. ASSUME NEW i \in 1..Len(job.notes), job.notes[i].sw = switches' + 1
      PROVE  \A v \in Nat : v = job.notes[i].ver => NoOlder(v, dash.at)'
  <2> TAKE v \in Nat
  <2> HAVE v = job.notes[i].ver
  <2>1. Settled /\ UNCHANGED switches
    BY <1>1, <1>2, <1>t, SeatKept DEF SeatInv
  <2>2. NoOlder(v, dash.at)
    BY <1>1, <1>2, <2>1 DEF WaitInv
  <2>3. PICK a \in Nat : a = dash.at
    BY <1>t
  <2>4. PICK b \in Nat : b = dash'.at
    BY <1>t
  <2>5. a <= b
    BY <1>1, <2>1, <2>3, <2>4, SettledStep
  <2>6. NoOlder(v, b)'
    BY <2>1, <2>2, <2>3, <2>5, OlderStep
  <2> QED BY <2>4, <2>6
<1>3. CASE job'.notes = <<>>
  BY <1>3 DEF WaitInv
<1>4. CASE UNCHANGED job
  <2>1. ASSUME NEW i \in 1..Len(job'.notes), job'.notes[i].sw = switches' + 1 PROVE NoOlder(job.notes[i].ver, dash.at)'
    <3>1. PICK v \in Nat : v = job.notes[i].ver
      BY <1>4, <1>t
    <3>2. NoOlder(v, dash.at)'
      BY <1>2, <1>4, <2>1, <3>1
    <3> QED BY <1>4, <3>1, <3>2
  <2> QED BY <2>1 DEF WaitInv
<1>5. CASE Track /\ job' # job
  <2>1. PICK found \in BOOLEAN :
          /\ Finds(found, session)
          /\ job' = IF found /\ job.kind = "refresh"
                    THEN [job EXCEPT !.notes = Append(@, Notify(session, journal'[session], Seat))] ELSE job
    BY <1>5 DEF Track
  <2>2. found /\ stamp < MaxStamp
    BY <1>5, <2>1 DEF Finds
  <2>3. PICK n : n = Notify(session, journal'[session], Seat)
    OBVIOUS
  <2>4. job.notes \in Seq(Notices) /\ job \in Jobs
    BY <1>1 DEF WorkTypes, Jobs
  <2>5. job'.notes = Append(job.notes, n)
    BY <1>5, <2>1, <2>3, <2>4 DEF Jobs
  <2>6. \A i \in 1..Len(job'.notes) : job'.notes[i] = n \/ (i \in 1..Len(job.notes) /\ job'.notes[i] = job.notes[i])
    BY <2>4, <2>5
  <2>7. UNCHANGED <<session, switches>> /\ dash'.at = stamp /\ session \in Places
    BY <1>1, <1>5 DEF Track, WorkTypes, Boards
  <2>8. ASSUME n.sw = switches' + 1 PROVE \A v \in Nat : v = n.ver => NoOlder(v, dash.at)'
    <3> TAKE v \in Nat
    <3> HAVE v = n.ver
    <3>1. n.sw = Seat /\ n.ver = journal'[session]
      BY <2>3 DEF Notify
    <3>2. Settled
      BY <1>1, <2>7, <2>8, <3>1 DEF Seat, WorkTypes
    <3>3. v <= journal'[session']
      BY <2>7, <3>1
    <3>4. PICK b : b = stamp
      OBVIOUS
    <3>5. NoOlder(v, b)'
      BY <2>2, <2>7, <3>2, <3>3, <3>4, FoundFresh
    <3> QED BY <2>7, <3>4, <3>5
  <2>9. ASSUME NEW i \in 1..Len(job'.notes), job'.notes[i].sw = switches' + 1 PROVE NoOlder(job.notes[i].ver, dash.at)'
    <3>1. journal'[session] \in Nat
      BY <1>1, <2>7, JournalGrows
    <3>2. n.ver \in Nat
      BY <2>3, <3>1 DEF Notify
    <3>3. PICK v \in Nat : v = job'.notes[i].ver
      BY <1>t, <2>6, <3>2
    <3>4. NoOlder(v, dash.at)'
      BY <1>2, <2>6, <2>8, <2>9, <3>3
    <3> QED BY <3>3, <3>4
  <2> QED BY <2>9 DEF WaitInv
<1> QED BY <1>1, <1>3, <1>4, <1>5 DEF Moved

\* A notice on its way is behind a read that shows what it is about, or the screen shows it.
LEMMA SaidStep == ASSUME Stepping PROVE SaidInv'
<1>1. WorkTypes /\ WorkTypes' /\ Moved /\ NotesInv /\ StampInv /\ [WorkerNext]_wvars /\ SeatInv /\ LaneInv /\ WaitInv /\ SaidInv
  BY SteppingIs
<1>t. /\ Len(events) \in Nat /\ pending.sw \in Nat /\ pending.ver \in Nat /\ dash.at \in Nat
      /\ \A j \in 1..Len(job.notes) : job.notes[j].sw \in Nat /\ job.notes[j].ver \in Nat
      /\ \A j \in 1..Len(events) : events[j].kind = "notify" => events[j].sw \in Nat /\ events[j].ver \in Nat
  BY <1>1, NoticeTypes
<1> SUFFICES ASSUME NEW i \in 1..Len(events'), events'[i].kind = "notify", events'[i].sw = switches' + 1
             PROVE  ShownBy(events[i].ver, i - 1)'
  BY DEF SaidInv
<1>2. PICK m \in Nat : m = i - 1
  BY <1>1 DEF WorkTypes
<1>3. ASSUME NEW j \in 1..Len(events), events'[i] = events[j], IF Hear THEN j = i + 1 ELSE j = i
      PROVE  ShownBy(events[i].ver, m)'
  <2>1. events[j].sw \in Nat /\ events[j].ver \in Nat /\ Seated(events[j].sw)
    BY <1>1, <1>3, <1>t DEF SeatInv
  <2>2. Settled /\ UNCHANGED switches
    BY <1>3, <2>1, SeatKept
  <2>3. PICK v \in Nat : v = events[j].ver
    BY <2>1
  <2>4. PICK n \in Nat : n = j - 1
    BY <1>t
  <2>5. ShownBy(v, n)
    BY <1>1, <1>3, <2>2, <2>3, <2>4 DEF SaidInv
  <2>6. n <= Len(events) /\ (IF Hear THEN n <= m + 1 ELSE n <= m)
    BY <1>2, <1>3, <1>t, <2>4
  <2>7. ShownBy(v, m)'
    BY <2>2, <2>5, <2>6, ShownStep
  <2> QED BY <1>3, <2>3, <2>7
<1>4. CASE Hear
  <2>1. i + 1 \in 1..Len(events) /\ events'[i] = events[i + 1]
    BY <1>1, <1>4, HeardShown
  <2>2. ShownBy(events[i].ver, m)'
    BY <1>3, <1>4, <2>1
  <2> QED BY <1>2, <2>2
<1>5. CASE ~Hear
  <2>1. PICK s \in Seq(Said) : events' = events \o s /\ \A k \in 1..Len(s) : Tells(s, k)
    BY <1>1, <1>5 DEF Moved
  <2>2. \/ i \in 1..Len(events) /\ events'[i] = events[i]
        \/ \E k \in 1..Len(s) : i = Len(events) + k /\ events'[i] = s[k] /\ Tells(s, k)
    BY <1>1, <2>1, EventFrom
  <2>3. ASSUME i \in 1..Len(events), events'[i] = events[i] PROVE ShownBy(events[i].ver, m)'
    BY <1>3, <1>5, <2>3
  <2>4. ASSUME NEW k \in 1..Len(s), i = Len(events) + k, events'[i] = s[k], Tells(s, k) PROVE ShownBy(events[i].ver, m)'
    <3>1. CASE s[k] = Notify(pending.place, pending.ver, pending.sw) /\ pending.pc = "notify"
      <4>1. events'[i].sw = pending.sw /\ events'[i].ver = pending.ver
        BY <2>4, <3>1 DEF Notify
      <4>2. Settled /\ UNCHANGED switches
        BY <1>1, <1>t, <4>1, SeatKept DEF SeatInv
      <4>3. PICK v \in Nat : v = pending.ver
        BY <1>t
      <4>4. PICK n \in Nat : n = Len(events)
        BY <1>t
      <4>5. ShownBy(v, n)
        BY <1>1, <3>1, <4>1, <4>2, <4>3, <4>4 DEF LaneInv
      <4>6. n <= Len(events) /\ (IF Hear THEN n <= m + 1 ELSE n <= m)
        BY <1>2, <1>5, <1>t, <2>4, <4>4
      <4>7. ShownBy(v, m)'
        BY <4>2, <4>5, <4>6, ShownStep
      <4> QED BY <4>1, <4>3, <4>7
    <3>2. CASE /\ k - 1 \in 1..Len(job.notes) /\ s[k] = job.notes[k - 1]
               /\ s[1].kind = "dash" /\ s[1].at = dash.at
      <4>1. PICK j \in 1..Len(job.notes) : j = k - 1
        BY <3>2
      <4>2. events'[i] = job.notes[j]
        BY <2>4, <3>2, <4>1
      <4>3. Settled /\ UNCHANGED switches
        BY <1>1, <1>t, <4>1, <4>2, SeatKept DEF SeatInv
      <4>4. PICK v \in Nat : v = job.notes[j].ver
        BY <1>t
      <4>5. PICK a \in Nat : a = dash.at
        BY <1>t
      <4>6. NoOlder(v, a)
        BY <1>1, <4>2, <4>3, <4>4, <4>5 DEF WaitInv
      <4>7. NoOlder(v, a)'
        BY <4>3, <4>6, OlderStep
      <4>8. Len(events) + 1 \in 1..m /\ events'[Len(events) + 1] = s[1]
        <5>1. events \in Seq(Said) /\ Len(s) \in Nat
          BY <1>1 DEF WorkTypes
        <5>2. \A x \in 1..(Len(events) + Len(s)) : events'[x] = IF x <= Len(events) THEN events[x] ELSE s[x - Len(events)]
          BY <2>1, <5>1, ConcatProperties
        <5>3. Len(events) + 1 \in 1..(Len(events) + Len(s)) /\ ~(Len(events) + 1 <= Len(events)) /\ Len(events) + 1 - Len(events) = 1
          BY <1>t, <5>1
        <5>4. events'[Len(events) + 1] = s[1]
          BY <5>2, <5>3
        <5>5. k - 1 >= 1 /\ m = Len(events) + k - 1
          BY <1>2, <1>t, <2>4, <3>2
        <5> QED BY <1>t, <5>4, <5>5
      <4>9. PICK x \in 1..m : x = Len(events) + 1
        BY <4>8
      <4>10. events'[x].kind # "notify" /\ events'[x].at = a
        BY <3>2, <4>5, <4>8, <4>9
      <4>11. ShownBy(v, m)'
        BY <4>7, <4>9, <4>10 DEF ShownBy
      <4> QED BY <4>2, <4>4, <4>11
    <3>3. s[k].kind = "notify" /\ Ops(pending.place, pending.ops, pending.at).kind = "ops"
      BY <2>4 DEF Ops
    <3> QED BY <2>4, <3>1, <3>2, <3>3 DEF Tells
  <2>5. ShownBy(events[i].ver, m)'
    BY <2>2, <2>3, <2>4
  <2> QED BY <1>2, <2>5
<1> QED BY <1>4, <1>5

\* A notice heard in the place it was found in is of something the screen shows.
LEMMA HearStep == ASSUME Stepping PROVE NoticeAfterShown'
<1>1. WorkTypes /\ WorkTypes' /\ Moved /\ SeatInv /\ SaidInv /\ NoticeAfterShown
  BY SteppingIs
<1>2. CASE UNCHANGED early
  BY <1>1, <1>2 DEF NoticeAfterShown
<1>3. CASE Hear
  <2>1. PICK e : e = Head(events)
    OBVIOUS
  <2>2. early' = (early \/ (e.kind = "notify" /\ e.sw = switches + 1 /\ screen.ops < e.ver)) /\ UNCHANGED switches
    BY <1>3, <2>1 DEF Hear
  <2>3. e = events[1] /\ 1 \in 1..Len(events)
    <3>1. events \in Seq(Said) /\ events # <<>>
      BY <1>1, <1>3 DEF WorkTypes, Hear
    <3> QED BY <2>1, <3>1, HeadTailProperties, EmptySeq
  <2>4. ASSUME e.kind = "notify", e.sw = switches + 1 PROVE ~(screen.ops < e.ver)
    <3>1. ShownBy(e.ver, 0)
      BY <1>1, <2>3, <2>4 DEF SaidInv
    <3>2. NoOlder(e.ver, screen.at)
      BY <3>1 DEF ShownBy
    <3>3. screen.at \in Nat /\ screen.ops \in Nat /\ e.ver \in Nat
      BY <1>1, <2>3, <2>4, NoticeTypes
    <3>4. Read(screen.ops, screen.at) /\ screen.at <= screen.at
      BY <3>3 DEF Read
    <3>5. e.ver <= screen.ops
      BY <3>2, <3>3, <3>4 DEF NoOlder
    <3> QED BY <3>3, <3>5
  <2> QED BY <1>1, <2>2, <2>4 DEF NoticeAfterShown
<1> QED BY <1>1, <1>2, <1>3 DEF Moved

\* Every step keeps what the notices rest on.
LEMMA NoticeStep == NoticeInv /\ [WorkerNext]_wvars => NoticeInv'
<1> SUFFICES ASSUME NoticeInv, [WorkerNext]_wvars PROVE NoticeInv'
  OBVIOUS
<1>1. WorkTypes /\ NotesInv /\ StampInv
  BY DEF NoticeInv
<1>2. WorkTypes' /\ Moved
  BY <1>1, WorkTypeStep, Moving
<1>3. StampInv' /\ NotesInv'
  BY <1>1, <1>2, StampStep, NotesStep
<1>4. Stepping
  BY <1>2, <1>3 DEF Stepping
<1> QED BY <1>2, <1>3, <1>4, SeatStep, LaneStep, WaitStep, SaidStep, HearStep DEF NoticeInv

\* Nothing is found, read or said when the terminal starts.
LEMMA NoticeInit == WorkerInit => NoticeInv
<1> SUFFICES ASSUME WorkerInit PROVE NoticeInv
  OBVIOUS
<1>1. /\ job.notes = <<>> /\ events = <<>> /\ pending.pc = "idle" /\ pending.sw = 0 /\ stamp = 1 /\ switches = 0 /\ early = FALSE
      /\ dash.ops = 0 /\ dash.at = 0 /\ screen.ops = 0 /\ screen.at = 0
  BY DEF WorkerInit, NoWork, Watching, Empty
<1>2. NotesInv /\ SeatInv /\ WaitInv /\ SaidInv /\ LaneInv /\ NoticeAfterShown
  BY <1>1 DEF NotesInv, SeatInv, Seated, WaitInv, SaidInv, LaneInv, NoticeAfterShown
<1>3. \A o, a \in Nat : Read(o, a) => a = 0
  BY <1>1 DEF Read
<1>4. StampInv
  BY <1>1, <1>3 DEF StampInv, Given
<1> QED BY <1>2, <1>4, WorkTypeInit DEF NoticeInv

\* A notice never announces something the screen does not show yet (worker.rs:1886-1887), for a
\* change found while user, worker and lane were in one place and heard there: whatever the lane,
\* the worker and the screen do in between, the screen first hears of a read stamped after it.
THEOREM NothingAnnouncedEarly == WorkerSpec => []NoticeAfterShown
<1>1. NoticeInv => NoticeAfterShown
  BY DEF NoticeInv
<1> QED BY <1>1, NoticeInit, NoticeStep, PTL DEF WorkerSpec
=============================================================================
