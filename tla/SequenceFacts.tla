---------------------------- MODULE SequenceFacts ----------------------------
(***************************************************************************)
(* Facts about numbers, sequences and FlattenSeq that the proofs of several *)
(* components rest on.  Induction is done by sets: the numbers at which     *)
(* something fails have a least one.  FlattenSeq, a recursive function in   *)
(* its definition, is reached through the function it builds (Parts), which *)
(* is shown to exist and to be the only one.                                *)
(***************************************************************************)
EXTENDS Naturals, Sequences, SequencesExt, FiniteSets, FiniteSetTheorems,
        NaturalsInduction, WellFoundedInduction, SequenceTheorems, TLAPS

(* Induction over numbers: sets with a number miss nothing below it. *)
Less == OpToRel(<, Nat)

LEMMA LessWellFounded == IsWellFoundedOn(Less, Nat)
BY NatLessThanWellFounded DEF Less

LEMMA LessIsLess == \A x, y \in Nat : <<x, y>> \in Less <=> x < y
BY DEF Less, OpToRel

(* A set of numbers has a least one. *)
LEMMA LeastElement ==
  ASSUME NEW T \in SUBSET Nat, T # {}
  PROVE  \E x \in T : \A y \in T : x <= y
<1>1. \E x \in T : \A y \in T : ~(<<y, x>> \in Less)
  BY WFMin, LessWellFounded
<1> PICK x \in T : \A y \in T : ~(<<y, x>> \in Less)
  BY <1>1
<1>2. ASSUME NEW y \in T
      PROVE  x <= y
  <2>1. x \in Nat /\ y \in Nat
    OBVIOUS
  <2>2. ~(y < x)
    BY <2>1, LessIsLess
  <2> QED
    BY <2>1, <2>2
<1> QED
  BY <1>2

(* Induction to n: what holds of 0 and of each next number holds up to n. *)
LEMMA BySteps ==
  ASSUME NEW n \in Nat, NEW T, 0 \in T,
         \A k \in 0..(n - 1) : k \in T => k + 1 \in T
  PROVE  0..n \subseteq T
<1> DEFINE Missed == {k \in 0..n : k \notin T}
<1>1. SUFFICES ASSUME Missed # {} PROVE FALSE
  OBVIOUS
<1>2. PICK k \in Missed : \A j \in Missed : k <= j
  <2>1. Missed \in SUBSET Nat
    OBVIOUS
  <2> HIDE DEF Missed
  <2> QED BY <1>1, <2>1, LeastElement
<1>3. k # 0 /\ k - 1 \in 0..(n - 1) /\ k - 1 \in Nat /\ k \in Nat
  OBVIOUS
<1>4. k - 1 \notin T
  BY <1>3
<1> QED
  BY <1>2, <1>3, <1>4

(* A set of numbers up to n has a greatest one. *)
LEMMA GreatestElement ==
  ASSUME NEW n \in Nat, NEW T \in SUBSET (0..n), T # {}
  PROVE  \E x \in T : \A y \in T : y <= x
<1> DEFINE Rest == {n - x : x \in T}
<1>1. Rest \in SUBSET Nat /\ Rest # {}
  <2>1. \A x \in T : n - x \in Nat
    OBVIOUS
  <2> QED BY <2>1
<1>2. \E r \in Rest : \A s \in Rest : r <= s
  BY <1>1, LeastElement
<1> PICK x \in T : \A s \in Rest : n - x <= s
  BY <1>2
<1>3. ASSUME NEW y \in T
      PROVE  y <= x
  <2>1. n - x <= n - y /\ x \in Nat /\ y \in Nat
    OBVIOUS
  <2> QED
    BY <2>1
<1> QED
  BY <1>3

(* Min, of two numbers. *)
LEMMA MinOfTwo ==
  ASSUME NEW x \in Nat, NEW y \in Nat
  PROVE  Min({x, y}) = IF x <= y THEN x ELSE y
<1> DEFINE m == IF x <= y THEN x ELSE y
<1>1. m \in {x, y} /\ \A z \in {x, y} : m <= z
  OBVIOUS
<1>2. \A n \in {x, y} : (\A z \in {x, y} : n <= z) => n = m
  OBVIOUS
<1> QED BY <1>1, <1>2 DEF Min

(* Prefixes and stretches of sequences. *)
LEMMA ConcatPrefix ==
  ASSUME NEW T, NEW s \in Seq(T), NEW t \in Seq(T), NEW n \in 0..Len(s)
  PROVE  SubSeq(s \o t, 1, n) = SubSeq(s, 1, n)
<1>1. n \in Nat /\ Len(s) \in Nat /\ Len(s \o t) = Len(s) + Len(t) /\ Len(t) \in Nat
  OBVIOUS
<1>2. \A i \in 1..n : (s \o t)[i] = s[i]
  OBVIOUS
<1>3. SubSeq(s \o t, 1, n) = [i \in 1..n |-> (s \o t)[i]]
  OBVIOUS
<1>4. SubSeq(s, 1, n) = [i \in 1..n |-> s[i]]
  OBVIOUS
<1> QED BY <1>2, <1>3, <1>4

LEMMA OneMore ==
  ASSUME NEW T, NEW b \in Seq(T), NEW c \in Nat, NEW d \in Nat, c + d < Len(b)
  PROVE  SubSeq(b, c + 1, c + (d + 1)) = SubSeq(b, c + 1, c + d) \o <<b[c + d + 1]>>
<1>1. /\ c + 1 \in 1..Len(b) /\ c + (d + 1) \in (c + 1)..Len(b)
      /\ c + (d + 1) - 1 = c + d /\ c + (d + 1) = c + d + 1
  OBVIOUS
<1>2. SubSeq(b, c + 1, c + (d + 1)) = SubSeq(b, c + 1, c + (d + 1) - 1) \o <<b[c + (d + 1)]>>
  BY <1>1, SubSeqRecursiveSecond
<1> QED BY <1>1, <1>2

LEMMA OneAndOne ==
  ASSUME NEW T, NEW x \in T, NEW y \in T
  PROVE  <<x>> \o <<y>> = <<x, y>> /\ <<>> \o <<y>> = <<y>>
<1>1. <<x>> \in Seq(T) /\ <<y>> \in Seq(T) /\ <<x, y>> = Append(<<x>>, y)
  OBVIOUS
<1>2. Append(<<x>>, y) = <<x>> \o <<y>>
  BY <1>1, AppendIsConcat
<1>3. <<>> \o <<y>> = <<y>>
  BY <1>1, ConcatEmptySeq
<1> QED BY <1>1, <1>2, <1>3

LEMMA JustOne ==
  ASSUME NEW T, NEW b \in Seq(T), NEW c \in Nat, c + 1 <= Len(b)
  PROVE  SubSeq(b, c + 1, c + 1) = <<b[c + 1]>>
<1>1. c + 1 \in 1..Len(b) /\ c + 1 \in (c + 1)..Len(b) /\ c + 1 < c + 1 + 1 /\ c + 1 \in Int
      /\ c + 1 + 1 \in Int /\ b[c + 1] \in T /\ <<b[c + 1]>> \in Seq(T)
  OBVIOUS
<1>2. SubSeq(b, c + 1, c + 1) = <<b[c + 1]>> \o SubSeq(b, c + 1 + 1, c + 1)
  BY <1>1, SubSeqRecursiveFirst
<1>3. SubSeq(b, c + 1 + 1, c + 1) = <<>>
  BY <1>1, SubSeqEmpty
<1> QED BY <1>1, <1>2, <1>3, ConcatEmptySeq

LEMMA ConcatAssoc ==
  ASSUME NEW T, NEW s \in Seq(T), NEW t \in Seq(T), NEW u \in Seq(T), NEW v \in Seq(T)
  PROVE  (s \o (t \o u)) \o v = s \o (t \o (u \o v))
OBVIOUS

LEMMA SubSeqType ==
  ASSUME NEW T, NEW b \in Seq(T), NEW c \in Nat, NEW d \in Nat, c + d <= Len(b)
  PROVE  SubSeq(b, c + 1, c + d) \in Seq(T)
OBVIOUS

LEMMA SubSeqAt ==
  ASSUME NEW T, NEW s \in Seq(T), NEW c \in Nat, NEW k \in Nat, c + k <= Len(s)
  PROVE  Len(SubSeq(s, c + 1, c + k)) = k /\ \A i \in 1..k : SubSeq(s, c + 1, c + k)[i] = s[c + i]
<1>1. c + k - (c + 1) + 1 = k /\ \A i \in 1..k : (c + 1) + i - 1 = c + i
  OBVIOUS
<1>2. Len(SubSeq(s, c + 1, c + k)) = c + k - (c + 1) + 1
  OBVIOUS
<1>3. \A i \in 1..(c + k - (c + 1) + 1) : SubSeq(s, c + 1, c + k)[i] = s[(c + 1) + i - 1]
  OBVIOUS
<1> QED BY <1>1, <1>2, <1>3

LEMMA PrefixTransitive ==
  ASSUME NEW T, NEW s \in Seq(T), NEW t \in Seq(T), NEW u \in Seq(T), IsPrefix(s, t), IsPrefix(t, u)
  PROVE  IsPrefix(s, u)
<1>1. Len(s) \in Nat /\ Len(t) \in Nat /\ Len(u) \in Nat /\ Len(s) <= Len(t) /\ Len(t) <= Len(u)
  BY DEF IsPrefix
<1>2. SubSeq(s, 1, Len(s)) = SubSeq(t, 1, Len(s)) /\ SubSeq(t, 1, Len(t)) = SubSeq(u, 1, Len(t))
  BY DEF IsPrefix
<1>3. \A i \in 1..Len(s) : t[i] = u[i]
  <2> TAKE i \in 1..Len(s)
  <2>1. i \in 1..Len(t) /\ SubSeq(t, 1, Len(t))[i] = t[i] /\ SubSeq(u, 1, Len(t))[i] = u[i]
    BY <1>1
  <2> QED BY <1>2, <2>1
<1>4. SubSeq(t, 1, Len(s)) = [i \in 1..Len(s) |-> t[i]] /\ SubSeq(u, 1, Len(s)) = [i \in 1..Len(s) |-> u[i]]
  BY <1>1
<1>5. SubSeq(t, 1, Len(s)) = SubSeq(u, 1, Len(s))
  BY <1>3, <1>4
<1> QED BY <1>1, <1>2, <1>5 DEF IsPrefix

LEMMA CutIsPrefix ==
  ASSUME NEW T, NEW s \in Seq(T), NEW n \in 0..Len(s)
  PROVE  /\ SubSeq(s, 1, n) \in Seq(T) /\ Len(SubSeq(s, 1, n)) = n
         /\ \A i \in 1..n : SubSeq(s, 1, n)[i] = s[i]
         /\ IsPrefix(SubSeq(s, 1, n), s)
<1>1. n \in Nat /\ Len(s) \in Nat /\ n <= Len(s)
  OBVIOUS
<1>2. SubSeq(s, 1, n) \in Seq(T) /\ Len(SubSeq(s, 1, n)) = n /\ \A i \in 1..n : SubSeq(s, 1, n)[i] = s[i]
  BY <1>1
<1>3. SubSeq(SubSeq(s, 1, n), 1, n) = SubSeq(s, 1, n)
  BY <1>2, SubSeqFull
<1> QED BY <1>1, <1>2, <1>3 DEF IsPrefix

LEMMA AddOneOrTwo ==
  ASSUME NEW T, NEW s \in Seq(T), NEW a \in T, NEW c \in T
  PROVE  /\ s \o <<c>> = Append(s, c) /\ s \o <<a, c>> = Append(Append(s, a), c)
         /\ Append(s, a) \in Seq(T)
<1>1. Append(s, a) \in Seq(T) /\ <<a, c>> = Append(<<a>>, c) /\ <<a>> \in Seq(T)
  OBVIOUS
<1>2. s \o <<c>> = Append(s, c) /\ s \o <<a>> = Append(s, a)
  BY AppendIsConcat
<1>3. s \o Append(<<a>>, c) = Append(s \o <<a>>, c)
  BY <1>1
<1> QED BY <1>1, <1>2, <1>3

(* What FlattenSeq makes of s, part by part: f[i] is the first i parts joined. *)
Parts(s, f) == f = [i \in 1..Len(s) |-> IF i = 1 THEN s[i] ELSE f[i - 1] \o s[i]]

LEMMA PartsExist ==
  ASSUME NEW T, NEW s \in Seq(Seq(T))
  PROVE  \E f : Parts(s, f)
<1> DEFINE n == Len(s)
  Upto(f, m) == \A i \in 1..m : f[i] = IF i = 1 THEN s[i] ELSE f[i - 1] \o s[i]
  Good == {m \in 0..n : \E f \in [1..m -> Seq(T)] : Upto(f, m)}
<1>1. 0 \in Good
  <2>1. PICK f \in [1..0 -> Seq(T)] : TRUE
    <3>1. [i \in 1..0 |-> <<>>] \in [1..0 -> Seq(T)]
      OBVIOUS
    <3> QED BY <3>1
  <2>2. Upto(f, 0)
    OBVIOUS
  <2>3. 0 \in 0..n
    OBVIOUS
  <2> HIDE DEF Upto
  <2> QED BY <2>2, <2>3
<1>2. ASSUME NEW m \in 0..(n - 1), m \in Good
      PROVE  m + 1 \in Good
  <2>1. PICK f \in [1..m -> Seq(T)] : Upto(f, m)
    BY <1>2
  <2> DEFINE v == IF m = 0 THEN s[m + 1] ELSE f[m] \o s[m + 1]
             g == [i \in 1..(m + 1) |-> IF i <= m THEN f[i] ELSE v]
  <2>2. v \in Seq(T)
    <3>1. m + 1 \in 1..n /\ s[m + 1] \in Seq(T)
      OBVIOUS
    <3>2. CASE m = 0
      BY <3>1, <3>2
    <3>3. CASE m # 0
      <4>1. f[m] \in Seq(T)
        BY <3>3
      <4> QED BY <3>1, <4>1, <3>3
    <3> QED BY <3>2, <3>3
  <2>3. g \in [1..(m + 1) -> Seq(T)]
    <3> HIDE DEF v
    <3> QED BY <2>2
  <2>4. ASSUME NEW i \in 1..(m + 1)
        PROVE  g[i] = IF i = 1 THEN s[i] ELSE g[i - 1] \o s[i]
    <3>1. CASE i <= m
      <4>1. i \in 1..m /\ (i # 1 => i - 1 \in 1..m /\ i - 1 \in 1..(m + 1))
        BY <3>1
      <4>2. g[i] = f[i] /\ (i # 1 => g[i - 1] = f[i - 1])
        <5> HIDE DEF v
        <5> QED BY <4>1
      <4>3. f[i] = IF i = 1 THEN s[i] ELSE f[i - 1] \o s[i]
        BY <2>1, <4>1
      <4> HIDE DEF g
      <4> QED BY <4>2, <4>3
    <3>2. CASE i = m + 1 /\ m = 0
      BY <3>2 DEF v
    <3>3. CASE i = m + 1 /\ m # 0
      BY <3>3 DEF v
    <3> QED BY <3>1, <3>2, <3>3
  <2>5. m + 1 \in 0..n
    OBVIOUS
  <2>6. Upto(g, m + 1)
    <3> HIDE DEF g
    <3> QED BY <2>4
  <2> HIDE DEF g, Upto
  <2> QED BY <2>3, <2>6, <2>5
<1>3. n \in Good
  <2>1. n \in Nat /\ n \in 0..n
    OBVIOUS
  <2> HIDE DEF Good, n
  <2>2. 0..n \subseteq Good
    BY <1>1, <1>2, <2>1, BySteps
  <2> QED BY <2>1, <2>2
<1>4. PICK f \in [1..n -> Seq(T)] : Upto(f, n)
  BY <1>3
<1>5. f = [i \in 1..Len(s) |-> IF i = 1 THEN s[i] ELSE f[i - 1] \o s[i]]
  BY <1>4
<1> QED BY <1>5 DEF Parts

LEMMA FlattenParts ==
  ASSUME NEW T, NEW s \in Seq(Seq(T)), Len(s) # 0
  PROVE \E f : Parts(s, f) /\ FlattenSeq(s) = f[Len(s)]
<1> DEFINE f == CHOOSE f : Parts(s, f)
<1>1. FlattenSeq(s) = f[Len(s)]
  BY DEF FlattenSeq, Parts
<1>2. \E g : Parts(s, g)
  BY PartsExist
<1>3. Parts(s, f)
  BY <1>2
<1> QED BY <1>1, <1>3

LEMMA PartsAt ==
  ASSUME NEW s, NEW f, Parts(s, f), NEW i \in 1..Len(s)
  PROVE  f[i] = IF i = 1 THEN s[i] ELSE f[i - 1] \o s[i]
<1> DEFINE F == [j \in 1..Len(s) |-> IF j = 1 THEN s[j] ELSE f[j - 1] \o s[j]]
<1>1. f = F
  BY DEF Parts
<1>2. F[i] = IF i = 1 THEN s[i] ELSE f[i - 1] \o s[i]
  OBVIOUS
<1> HIDE DEF F
<1> QED
  BY <1>1, <1>2

Agree(n, f, g) == \A i \in 1..n : f[i] = g[i]

LEMMA PartsAgree ==
  ASSUME NEW n \in Nat, NEW s, NEW t,
         1..n \subseteq 1..Len(s), 1..n \subseteq 1..Len(t), Agree(n, s, t),
         NEW f, Parts(s, f), NEW g, Parts(t, g)
  PROVE  Agree(n, f, g)
<1> USE DEF Agree
<1> DEFINE Good == {m \in 0..n : m = 0 \/ f[m] = g[m]}
<1>1. 0 \in Good
  OBVIOUS
<1>2. ASSUME NEW m \in 0..(n - 1), m \in Good
      PROVE  m + 1 \in Good
  <2>1. m + 1 \in 1..n /\ m + 1 \in 1..Len(s) /\ m + 1 \in 1..Len(t)
    OBVIOUS
  <2>2. s[m + 1] = t[m + 1]
    BY <2>1
  <2>3. f[m + 1] = IF m + 1 = 1 THEN s[m + 1] ELSE f[m + 1 - 1] \o s[m + 1]
    BY <2>1, PartsAt
  <2>4. g[m + 1] = IF m + 1 = 1 THEN t[m + 1] ELSE g[m + 1 - 1] \o t[m + 1]
    BY <2>1, PartsAt
  <2>5. m + 1 - 1 = m /\ (m + 1 = 1 <=> m = 0)
    OBVIOUS
  <2>6. m = 0 \/ f[m] = g[m]
    BY <1>2
  <2>7. f[m + 1] = g[m + 1]
    <3>1. CASE m = 0
      BY <3>1, <2>2, <2>3, <2>4
    <3>2. CASE m # 0
      BY <3>2, <2>2, <2>3, <2>4, <2>5, <2>6
    <3> QED BY <3>1, <3>2
  <2> QED BY <2>7
<1>3. 0..n \subseteq Good
  <2>1. n \in Nat
    OBVIOUS
  <2> HIDE DEF Good
  <2> QED BY <2>1, <1>1, <1>2, BySteps
<1> QED BY <1>3

(* FlattenSeq: of nothing, its type, and of one part more. *)
LEMMA FlattenEmpty == FlattenSeq(<<>>) = <<>>
BY DEF FlattenSeq

LEMMA FlattenType ==
  ASSUME NEW T, NEW s \in Seq(Seq(T))
  PROVE  FlattenSeq(s) \in Seq(T)
<1>1. CASE Len(s) = 0
  BY <1>1 DEF FlattenSeq
<1>2. CASE Len(s) # 0
  <2>1. PICK f : Parts(s, f) /\ FlattenSeq(s) = f[Len(s)]
    BY <1>2, FlattenParts
  <2> DEFINE Good == {m \in 0..Len(s) : m = 0 \/ f[m] \in Seq(T)}
  <2>2. 0 \in Good
    OBVIOUS
  <2>3. ASSUME NEW m \in 0..(Len(s) - 1), m \in Good
        PROVE  m + 1 \in Good
    <3>1. m + 1 \in 1..Len(s) /\ s[m + 1] \in Seq(T)
      OBVIOUS
    <3>2. f[m + 1] = IF m = 0 THEN s[m + 1] ELSE f[m] \o s[m + 1]
      <4>1. m + 1 - 1 = m /\ (m + 1 = 1 <=> m = 0)
        OBVIOUS
      <4>2. f[m + 1] = IF m + 1 = 1 THEN s[m + 1] ELSE f[m + 1 - 1] \o s[m + 1]
        BY <2>1, <3>1, PartsAt
      <4> QED BY <4>1, <4>2
    <3>3. f[m + 1] \in Seq(T)
      <4>1. CASE m = 0
        BY <4>1, <3>1, <3>2
      <4>2. CASE m # 0
        <5>1. f[m] \in Seq(T)
          BY <4>2, <2>3
        <5> QED BY <4>2, <3>1, <3>2, <5>1
      <4> QED BY <4>1, <4>2
    <3> QED BY <3>3
  <2>4. 0..Len(s) \subseteq Good
    <3> HIDE DEF Good
    <3>1. Len(s) \in Nat
      OBVIOUS
    <3> QED BY <2>2, <2>3, <3>1, BySteps
  <2>5. Len(s) \in Good
    <3>1. Len(s) \in 0..Len(s)
      OBVIOUS
    <3> HIDE DEF Good
    <3> QED BY <2>4, <3>1
  <2> QED BY <2>1, <2>5, <1>2
<1> QED BY <1>1, <1>2

LEMMA FlattenExtended ==
  ASSUME NEW T, NEW s \in Seq(Seq(T)), NEW t \in Seq(Seq(T)), NEW n \in Nat,
         n = Len(s), Len(t) = n + 1, \A i \in 1..n : s[i] = t[i]
  PROVE  FlattenSeq(t) = FlattenSeq(s) \o t[n + 1]
<1>1. PICK g : Parts(t, g) /\ FlattenSeq(t) = g[n + 1]
  BY FlattenParts
<1>2. g[n + 1] = IF n = 0 THEN t[n + 1] ELSE g[n] \o t[n + 1]
  <2>1. n + 1 - 1 = n /\ (n + 1 = 1 <=> n = 0) /\ n + 1 \in 1..Len(t)
    OBVIOUS
  <2>2. g[n + 1] = IF n + 1 = 1 THEN t[n + 1] ELSE g[n + 1 - 1] \o t[n + 1]
    BY <2>1, <1>1, PartsAt
  <2> QED BY <2>1, <2>2
<1>3. CASE n = 0
  <2>1. s = <<>>
    BY <1>3, EmptySeq
  <2> FlattenSeq(s) = <<>>
    BY ONLY <2>1, FlattenEmpty
  <2>2. t[n + 1] \in Seq(T)
    OBVIOUS
  <2> QED BY <2>1, <2>2, <1>1, <1>2, <1>3
<1>4. CASE n # 0
  <2>1. PICK f : Parts(s, f) /\ FlattenSeq(s) = f[n]
    BY <1>4, FlattenParts
  <2>2. 1..n \subseteq 1..Len(s) /\ 1..n \subseteq 1..Len(t)
    OBVIOUS
  <2>3. Agree(n, s, t) /\ Parts(s, f) /\ Parts(t, g)
    BY <1>1, <2>1 DEF Agree
  <2>. Agree(n, f, g)
    BY <2>2, <2>3, PartsAgree
  <2>4. f[n] = g[n]
    BY <1>4 DEF Agree
  <2> QED BY <2>1, <2>4, <1>1, <1>2, <1>4
<1> QED BY <1>3, <1>4

LEMMA FlattenAppend ==
  ASSUME NEW T, NEW s \in Seq(Seq(T)), NEW x \in Seq(T)
  PROVE  FlattenSeq(Append(s, x)) = FlattenSeq(s) \o x
<1>1. /\ Append(s, x) \in Seq(Seq(T)) /\ Len(s) \in Nat
      /\ Len(Append(s, x)) = Len(s) + 1 /\ Append(s, x)[Len(s) + 1] = x
      /\ \A i \in 1..Len(s) : s[i] = Append(s, x)[i]
  OBVIOUS
<1>2. FlattenSeq(Append(s, x)) = FlattenSeq(s) \o Append(s, x)[Len(s) + 1]
  BY <1>1, FlattenExtended
<1> QED BY <1>1, <1>2
=============================================================================
