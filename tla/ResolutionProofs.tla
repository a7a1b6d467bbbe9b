---------------------------- MODULE ResolutionProofs ----------------------------
(***************************************************************************)
(* What the probe, rule 7 and the DNS records make of the resolvers'       *)
(* answers, for any resolvers, any addresses and any order of the answers. *)
(* The library's induction takes its property as an operator; here it is a *)
(* set of numbers instead (Induction).                                     *)
(***************************************************************************)
EXTENDS Resolution, SequenceTheorems, FiniteSetTheorems, NaturalsInduction, TLAPS

Below == {x \in Nat \X Nat : x[1] < x[2]}

\* A set of numbers that are not all natural numbers misses a least one.
LEMMA Induction ==
    ASSUME NEW S, 0 \in S, \A i \in Nat : i \in S => i + 1 \in S
    PROVE  Nat \subseteq S
<1> SUFFICES ASSUME Nat \ S # {} PROVE FALSE
  OBVIOUS
<1>1. IsWellFoundedOn(Below, Nat)
  <2>1. OpToRel(<, Nat) = Below
    BY DEF OpToRel, Below
  <2> QED BY <2>1, NatLessThanWellFounded
<1>2. PICK x \in Nat \ S : \A y \in Nat \ S : <<y, x>> \notin Below
  <2>1. Nat \ S \subseteq Nat
    OBVIOUS
  <2> QED BY <1>1, <2>1, WFMin
<1>3. x # 0 /\ x - 1 \in Nat
  OBVIOUS
<1>4. <<x - 1, x>> \in Below
  BY <1>3 DEF Below
<1>5. x - 1 \in S
  BY <1>2, <1>3, <1>4
<1>6. (x - 1) + 1 = x
  BY <1>3
<1> QED BY <1>2, <1>3, <1>5, <1>6

\* A property of the first element and of each next one holds up to n.
LEMMA UpTo ==
    ASSUME NEW n \in Nat, NEW S, 0 \in S, \A i \in 1..n : i - 1 \in S => i \in S
    PROVE  \A i \in 0..n : i \in S
<1> DEFINE T == {i \in Nat : i <= n => i \in S}
<1>1. 0 \in T
  OBVIOUS
<1>2. ASSUME NEW i \in Nat, i \in T PROVE i + 1 \in T
  <2>1. CASE i + 1 <= n
    <3>1. i \in S /\ i + 1 \in 1..n /\ (i + 1) - 1 = i
      BY <1>2, <2>1
    <3> QED BY <3>1
  <2>2. CASE ~(i + 1 <= n)
    BY <2>2
  <2> QED BY <2>1, <2>2
<1>3. Nat \subseteq T
  <2> HIDE DEF T
  <2> QED BY <1>1, <1>2, Induction
<1> QED BY <1>3

\* g is the sequence of values, from b on, that Step makes of each other.
Carries(g, n, V, b, Step) ==
    g \in [0..n -> V] /\ g[0] = b /\ \A i \in 1..n : g[i] = Step[<<i, g[i - 1]>>]

\* A value can be carried from each number to the next.
LEMMA Iteration ==
    ASSUME NEW n \in Nat, NEW V, NEW b \in V, NEW Step \in [Nat \X V -> V]
    PROVE  \E g : Carries(g, n, V, b, Step)
<1> DEFINE S == {m \in Nat : \E g : Carries(g, m, V, b, Step)}
<1>1. 0 \in S
  <2> DEFINE g == [i \in 0..0 |-> b]
  <2>1. Carries(g, 0, V, b, Step)
    BY DEF Carries
  <2> QED BY <2>1
<1>2. ASSUME NEW m \in Nat, m \in S PROVE m + 1 \in S
  <2>1. PICK g : Carries(g, m, V, b, Step)
    BY <1>2
  <2> DEFINE h == [i \in 0..m + 1 |-> IF i = m + 1 THEN Step[<<m + 1, g[m]>>] ELSE g[i]]
  <2>2. g[m] \in V /\ Step[<<m + 1, g[m]>>] \in V
    BY <2>1 DEF Carries
  <2>3. h \in [0..m + 1 -> V]
    BY <2>1, <2>2 DEF Carries
  <2>4. h[0] = b
    BY <2>1 DEF Carries
  <2>5. ASSUME NEW i \in 1..m + 1 PROVE h[i] = Step[<<i, h[i - 1]>>]
    <3>1. CASE i = m + 1
      <4>1. i - 1 = m /\ h[m] = g[m] /\ h[i] = Step[<<m + 1, g[m]>>]
        BY <3>1
      <4> QED BY <3>1, <4>1
    <3>2. CASE i # m + 1
      <4>1. i \in 1..m /\ h[i] = g[i] /\ h[i - 1] = g[i - 1]
        BY <3>2
      <4> QED BY <2>1, <4>1 DEF Carries
    <3> QED BY <3>1, <3>2
  <2>6. Carries(h, m + 1, V, b, Step)
    <3> HIDE DEF h
    <3> QED BY <2>3, <2>4, <2>5 DEF Carries
  <2> QED BY <2>6
<1>3. n \in S
  <2> HIDE DEF S
  <2> QED BY <1>1, <1>2, Induction
<1> QED BY <1>3
------------------------------------------------------------------------------
(* Within *)

\* f[i] is what lies in S of the first i elements of s.
WithinParts(f, T, s, S) ==
    /\ f \in [0..Len(s) -> Seq(T)] /\ f[0] = <<>>
    /\ \A i \in 1..Len(s) : f[i] = IF s[i] \in S THEN Append(f[i-1], s[i]) ELSE f[i-1]
    /\ Within(s, S) = f[Len(s)]

\* The recursion of Within has a solution: the elements of each prefix.
LEMMA WithinSteps ==
    ASSUME NEW T, NEW s \in Seq(T), NEW S
    PROVE  \E f : WithinParts(f, T, s, S)
<1> DEFINE n == Len(s)
           Step == [x \in Nat \X Seq(T) |->
                       IF x[1] \in 1..n /\ s[x[1]] \in S THEN Append(x[2], s[x[1]]) ELSE x[2]]
           Eq(f, i) == IF s[i] \in S THEN Append(f[i-1], s[i]) ELSE f[i-1]
           Solves(f) == f = [i \in 0..n |-> IF i = 0 THEN <<>> ELSE Eq(f, i)]
           h == CHOOSE f : Solves(f)
<1>1. n \in Nat /\ (\A i \in 1..n : s[i] \in T) /\ <<>> \in Seq(T)
  OBVIOUS
<1>2. Step \in [Nat \X Seq(T) -> Seq(T)]
  BY <1>1
<1>3. PICK g : Carries(g, n, Seq(T), <<>>, Step)
  <2> HIDE DEF Step, n
  <2> QED BY <1>1, <1>2, Iteration
<1>4. \A i \in 1..n : g[i] = Eq(g, i)
  <2>1. ASSUME NEW i \in 1..n PROVE g[i] = Eq(g, i)
    <3>1. i - 1 \in 0..n
      BY <1>1
    <3>2. g[i - 1] \in Seq(T) /\ i \in Nat
      BY <1>1, <1>3, <3>1 DEF Carries
    <3>3. Step[<<i, g[i - 1]>>] = Eq(g, i)
      BY <3>2
    <3> QED BY <1>3, <3>3 DEF Carries
  <2> QED BY <2>1
<1>5. Solves(g)
  <2>1. \A i \in 0..n : g[i] = IF i = 0 THEN <<>> ELSE Eq(g, i)
    <3> HIDE DEF Eq
    <3> QED BY <1>1, <1>3, <1>4 DEF Carries
  <2> QED BY <1>3, <2>1 DEF Carries
<1>6. Solves(h)
  <2> HIDE DEF Solves
  <2> QED BY <1>5 DEF h
<1>7. Within(s, S) = h[n]
  BY DEF Within
<1> HIDE DEF h
<1>8. /\ h = [i \in 0..n |-> h[i]] /\ h[0] = <<>> /\ \A i \in 1..n : h[i] = Eq(h, i)
  <2>1. h = [i \in 0..n |-> IF i = 0 THEN <<>> ELSE Eq(h, i)]
    BY <1>6
  <2>2. 0 \in 0..n /\ \A i \in 1..n : i \in 0..n /\ i # 0
    BY <1>1
  <2> HIDE DEF Eq, n
  <2>3. \A i \in 0..n : h[i] = IF i = 0 THEN <<>> ELSE Eq(h, i)
    BY <2>1
  <2>4. h = [i \in 0..n |-> h[i]]
    BY <2>1
  <2> QED BY <2>2, <2>3, <2>4
<1>9. \A i \in 0..n : h[i] \in Seq(T)
  <2> DEFINE Q == {i \in 0..n : h[i] \in Seq(T)}
  <2>1. 0 \in Q
    <3>1. 0 \in 0..n
      BY <1>1
    <3>2. h[0] \in Seq(T)
      <4> HIDE DEF Eq, n
      <4> QED BY <1>1, <1>8
    <3> QED BY <3>1, <3>2
  <2>2. ASSUME NEW i \in 1..n, i - 1 \in Q PROVE i \in Q
    <3>1. i \in 0..n /\ s[i] \in T /\ h[i - 1] \in Seq(T)
      BY <1>1, <2>2
    <3>2. h[i] = Eq(h, i)
      BY <1>8
    <3>3. h[i] \in Seq(T)
      BY <3>1, <3>2
    <3> QED BY <3>1, <3>3
  <2>3. \A i \in 0..n : i \in Q
    <3> HIDE DEF Q, n
    <3> QED BY <1>1, <2>1, <2>2, UpTo
  <2> QED BY <2>3
<1>10. h \in [0..n -> Seq(T)]
  BY <1>8, <1>9
<1>11. WithinParts(h, T, s, S)
  BY <1>7, <1>8, <1>10 DEF WithinParts
<1> QED BY <1>11

\* The first i elements of s.
Early(s, i) == {s[k] : k \in 1..i}

\* f[i] holds what the first i elements of s have in S.
LEMMA WithinPrefix ==
    ASSUME NEW T, NEW s \in Seq(T), NEW S, NEW f, WithinParts(f, T, s, S)
    PROVE  \A i \in 0..Len(s) : Range(f[i]) = Early(s, i) \intersect S
<1> DEFINE n == Len(s)
           Part(i) == {s[k] : k \in 1..i} \intersect S
<1>1. /\ f \in [0..n -> Seq(T)] /\ f[0] = <<>>
      /\ \A i \in 1..n : f[i] = IF s[i] \in S THEN Append(f[i-1], s[i]) ELSE f[i-1]
  BY DEF WithinParts
<1>2. n \in Nat /\ \A i \in 1..n : s[i] \in T
  OBVIOUS
<1>3. \A i \in 0..n : Range(f[i]) = Part(i)
  <2> DEFINE Q == {i \in 0..n : Range(f[i]) = Part(i)}
  <2>1. 0 \in Q
    <3>1. Range(<<>>) = {} /\ Part(0) = {}
      BY DEF Range
    <3> QED BY <1>1, <1>2, <3>1
  <2>2. ASSUME NEW i \in 1..n, i - 1 \in Q PROVE i \in Q
    <3>1. i \in 0..n /\ i - 1 \in 0..n /\ Range(f[i-1]) = Part(i-1)
      BY <1>2, <2>2
    <3>2. f[i-1] \in Seq(T) /\ s[i] \in T
      BY <1>1, <1>2, <3>1
    <3>3. Range(Append(f[i-1], s[i])) = Range(f[i-1]) \union {s[i]}
      <4>1. Append(f[i-1], s[i]) = f[i-1] \o <<s[i]>> /\ <<s[i]>> \in Seq(T)
        BY <3>2, AppendIsConcat
      <4>2. Range(<<s[i]>>) = {s[i]}
        <5>1. DOMAIN <<s[i]>> = {1}
          OBVIOUS
        <5> QED BY <5>1 DEF Range
      <4>3. Range(f[i-1] \o <<s[i]>>) = Range(f[i-1]) \union Range(<<s[i]>>)
        BY <3>2, <4>1, RangeConcatenation
      <4> QED BY <4>1, <4>2, <4>3
    <3>4. Part(i) = Part(i-1) \union ({s[i]} \intersect S)
      BY <1>2
    <3>5. Range(f[i]) = Part(i)
      <4>1. CASE s[i] \in S
        BY <1>1, <3>1, <3>3, <3>4, <4>1
      <4>2. CASE s[i] \notin S
        BY <1>1, <3>1, <3>4, <4>2
      <4> QED BY <4>1, <4>2
    <3> QED BY <3>1, <3>5
  <2>3. \A i \in 0..n : i \in Q
    <3> HIDE DEF Q, n
    <3> QED BY <1>2, <2>1, <2>2, UpTo
  <2> QED BY <2>3
<1> QED BY <1>3 DEF Early

\* What Within returns are the elements of s that lie in S, and no others.
LEMMA WithinRange ==
    ASSUME NEW T, NEW s \in Seq(T), NEW S
    PROVE  Within(s, S) \in Seq(T) /\ Range(Within(s, S)) = Range(s) \intersect S
<1> DEFINE n == Len(s)
<1>1. PICK f : WithinParts(f, T, s, S)
  BY WithinSteps
<1>2. f \in [0..n -> Seq(T)] /\ Within(s, S) = f[n]
  BY <1>1 DEF WithinParts
<1>3. n \in 0..n /\ Range(s) = Early(s, n)
  BY DEF Range, Early
<1>4. Range(f[n]) = Early(s, n) \intersect S
  BY <1>1, <1>3, WithinPrefix
<1> QED BY <1>2, <1>3, <1>4

\* Two sequences without repetitions that share nothing make one without.
LEMMA ConcatOnce ==
    ASSUME NEW T, NEW s \in Seq(T), NEW t \in Seq(T), IsInjective(s), IsInjective(t),
           Range(s) \intersect Range(t) = {}
    PROVE  IsInjective(s \o t)
<1> SUFFICES ASSUME NEW i \in DOMAIN (s \o t), NEW j \in DOMAIN (s \o t), (s \o t)[i] = (s \o t)[j]
             PROVE  i = j
  BY DEF IsInjective
<1>1. Len(s) \in Nat /\ Len(t) \in Nat /\ DOMAIN s = 1..Len(s) /\ DOMAIN t = 1..Len(t)
  OBVIOUS
<1>2. DOMAIN (s \o t) = 1..Len(s) + Len(t)
  BY <1>1
<1> DEFINE InS(k) == k \in DOMAIN s /\ (s \o t)[k] = s[k]
           InT(k) == k - Len(s) \in DOMAIN t /\ (s \o t)[k] = t[k - Len(s)]
<1>3. ASSUME NEW k \in DOMAIN (s \o t) PROVE InS(k) \/ InT(k)
  <2>1. CASE k <= Len(s)
    BY <1>1, <1>2, <2>1
  <2>2. CASE ~(k <= Len(s))
    BY <1>1, <1>2, <2>2
  <2> QED BY <2>1, <2>2
<1>4. i \in Int /\ j \in Int
  BY <1>1, <1>2
<1>5. \A a \in DOMAIN s, b \in DOMAIN t : s[a] # t[b]
  BY DEF Range
<1>6. CASE InS(i) /\ InS(j)
  BY <1>6 DEF IsInjective
<1>7. CASE InT(i) /\ InT(j)
  <2>1. i - Len(s) = j - Len(s)
    BY <1>7 DEF IsInjective
  <2> QED BY <1>1, <1>4, <2>1
<1>8. ~(InS(i) /\ InT(j)) /\ ~(InT(i) /\ InS(j))
  BY <1>5
<1> QED BY <1>3, <1>6, <1>7, <1>8

\* Nothing is repeated within a sequence that repeats nothing.
LEMMA WithinOnce ==
    ASSUME NEW T, NEW s \in Seq(T), NEW S, IsInjective(s)
    PROVE  IsInjective(Within(s, S))
<1> DEFINE n == Len(s)
<1>1. PICK f : WithinParts(f, T, s, S)
  BY WithinSteps
<1>2. /\ f \in [0..n -> Seq(T)] /\ f[0] = <<>>
      /\ \A i \in 1..n : f[i] = IF s[i] \in S THEN Append(f[i-1], s[i]) ELSE f[i-1]
      /\ Within(s, S) = f[n]
  BY <1>1 DEF WithinParts
<1>3. n \in Nat /\ DOMAIN s = 1..n /\ \A i \in 1..n : s[i] \in T
  OBVIOUS
<1> DEFINE Q == {i \in 0..n : IsInjective(f[i])}
<1>4. 0 \in Q
  <2>1. IsInjective(<<>>)
    BY DEF IsInjective
  <2> QED BY <1>2, <1>3, <2>1
<1>5. ASSUME NEW i \in 1..n, i - 1 \in Q PROVE i \in Q
  <2>1. i \in 0..n /\ i - 1 \in 0..n /\ IsInjective(f[i-1])
    BY <1>3, <1>5
  <2>2. f[i-1] \in Seq(T) /\ s[i] \in T
    BY <1>2, <1>3, <2>1
  <2>3. s[i] \notin Range(f[i-1])
    <3>1. Range(f[i-1]) \subseteq Early(s, i - 1)
      BY <1>1, <2>1, WithinPrefix
    <3>2. \A k \in 1..i-1 : s[k] # s[i]
      BY <1>3 DEF IsInjective
    <3> QED BY <3>1, <3>2 DEF Early
  <2>4. IsInjective(Append(f[i-1], s[i]))
    <3>1. Append(f[i-1], s[i]) = f[i-1] \o <<s[i]>> /\ <<s[i]>> \in Seq(T)
      BY <2>2, AppendIsConcat
    <3>2. IsInjective(<<s[i]>>) /\ Range(<<s[i]>>) = {s[i]}
      <4>1. DOMAIN <<s[i]>> = {1}
        OBVIOUS
      <4> QED BY <4>1 DEF Range, IsInjective
    <3>3. Range(f[i-1]) \intersect Range(<<s[i]>>) = {}
      BY <2>3, <3>2
    <3> QED BY <2>1, <2>2, <3>1, <3>2, <3>3, ConcatOnce
  <2>5. IsInjective(f[i])
    BY <1>2, <2>1, <2>4
  <2> QED BY <2>1, <2>5
<1>6. \A i \in 0..n : i \in Q
  <2> HIDE DEF Q, n
  <2> QED BY <1>3, <1>4, <1>5, UpTo
<1> QED BY <1>2, <1>3, <1>6

\* A sequence that lies in S is kept as it is.
LEMMA WithinAll ==
    ASSUME NEW T, NEW s \in Seq(T), NEW S, Range(s) \subseteq S
    PROVE  Within(s, S) = s
<1> DEFINE n == Len(s)
           Prefix(t, i) == Len(t) = i /\ \A k \in 1..i : t[k] = s[k]
<1>0. PICK f : WithinParts(f, T, s, S)
  BY WithinSteps
<1>1. /\ f \in [0..n -> Seq(T)] /\ f[0] = <<>>
      /\ \A i \in 1..n : f[i] = IF s[i] \in S THEN Append(f[i-1], s[i]) ELSE f[i-1]
      /\ Within(s, S) = f[n]
  BY <1>0 DEF WithinParts
<1>2. n \in Nat /\ \A i \in 1..n : s[i] \in T /\ s[i] \in S
  BY DEF Range
<1>3. \A i \in 0..n : Prefix(f[i], i)
  <2> DEFINE Q == {i \in 0..n : Prefix(f[i], i)}
  <2>1. 0 \in Q
    BY <1>1, <1>2
  <2>2. ASSUME NEW i \in 1..n, i - 1 \in Q PROVE i \in Q
    <3>1. i \in 0..n /\ i - 1 \in 0..n /\ Prefix(f[i-1], i-1)
      BY <1>2, <2>2
    <3>2. f[i-1] \in Seq(T) /\ f[i] = Append(f[i-1], s[i])
      BY <1>1, <1>2, <3>1
    <3>3. Len(f[i]) = i /\ \A k \in 1..i : f[i][k] = IF k = i THEN s[i] ELSE f[i-1][k]
      BY <1>2, <3>1, <3>2
    <3>4. Prefix(f[i], i)
      BY <1>2, <3>1, <3>3
    <3> QED BY <3>1, <3>4
  <2>3. \A i \in 0..n : i \in Q
    <3> HIDE DEF Q, n
    <3> QED BY <1>2, <2>1, <2>2, UpTo
  <2> QED BY <2>3
<1>4. f[n] \in Seq(T) /\ Prefix(f[n], n)
  BY <1>1, <1>2, <1>3
<1>5. f[n] = s
  BY <1>4, SeqEqual
<1> QED BY <1>1, <1>5

\* Of a sequence that has nothing in S, nothing is kept.
LEMMA WithinNone ==
    ASSUME NEW T, NEW s \in Seq(T), NEW S, Range(s) \intersect S = {}
    PROVE  Within(s, S) = <<>>
<1>1. Within(s, S) \in Seq(T) /\ Range(Within(s, S)) = {}
  BY WithinRange
<1> DEFINE w == Within(s, S)
<1>2. w \in Seq(T) /\ Range(w) = {w[i] : i \in 1..Len(w)}
  BY <1>1, RangeEquality
<1>3. Len(w) \in Nat
  BY <1>2
<1>4. 1 \notin 1..Len(w)
  BY <1>1, <1>2
<1>5. Len(w) = 0
  BY <1>3, <1>4
<1> QED BY <1>2, <1>5, EmptySeq
------------------------------------------------------------------------------
(* Merged *)

\* f[i] is what the first i lists make together.
MergedParts(f, lists) ==
    /\ f \in [0..Len(lists) -> Seq(Addr)] /\ f[0] = <<>>
    /\ \A i \in 1..Len(lists) : f[i] = f[i-1] \o Within(lists[i], Addr \ Range(f[i-1]))
    /\ Merged(lists) = f[Len(lists)]

\* The recursion of Merged has a solution: what the first lists give.
LEMMA MergedSteps ==
    ASSUME NEW lists \in Seq(Seq(Addr))
    PROVE  \E f : MergedParts(f, lists)
<1> DEFINE n == Len(lists)
           V == Seq(Addr)
           More(i, t) == t \o Within(lists[i], Addr \ Range(t))
           Step == [x \in Nat \X V |-> IF x[1] \in 1..n THEN More(x[1], x[2]) ELSE x[2]]
           Solves(f) == f = [i \in 0..n |-> IF i = 0 THEN <<>> ELSE More(i, f[i-1])]
           h == CHOOSE f : Solves(f)
<1>1. n \in Nat /\ (\A i \in 1..n : lists[i] \in V) /\ <<>> \in V
  OBVIOUS
<1>2. ASSUME NEW i \in 1..n, NEW t \in V PROVE More(i, t) \in V
  <2>1. lists[i] \in V
    BY <1>1
  <2>2. Within(lists[i], Addr \ Range(t)) \in V
    BY <2>1, WithinRange
  <2> QED BY <2>2
<1> HIDE DEF More
<1>3. Step \in [Nat \X V -> V]
  BY <1>1, <1>2
<1>4. PICK g : Carries(g, n, V, <<>>, Step)
  <2> HIDE DEF Step, n, V
  <2> QED BY <1>1, <1>3, Iteration
<1>5. \A i \in 1..n : g[i] = More(i, g[i-1])
  <2>1. ASSUME NEW i \in 1..n PROVE g[i] = More(i, g[i-1])
    <3>1. i - 1 \in 0..n /\ i \in Nat
      BY <1>1
    <3>2. g[i - 1] \in V /\ i \in Nat
      <4> HIDE DEF V, n
      <4>1. g \in [0..n -> V]
        BY <1>4 DEF Carries
      <4> QED BY <3>1, <4>1
    <3>3. Step[<<i, g[i - 1]>>] = More(i, g[i-1])
      BY <3>2
    <3> QED BY <1>4, <3>3 DEF Carries
  <2> QED BY <2>1
<1>6. Solves(g)
  <2>1. \A i \in 0..n : g[i] = IF i = 0 THEN <<>> ELSE More(i, g[i-1])
    BY <1>1, <1>4, <1>5 DEF Carries
  <2> QED BY <1>4, <2>1 DEF Carries
<1>7. Solves(h)
  <2> HIDE DEF Solves
  <2> QED BY <1>6 DEF h
<1>8. Merged(lists) = h[n]
  BY DEF Merged, More
<1> HIDE DEF h
<1>9. h = [i \in 0..n |-> h[i]] /\ h[0] = <<>> /\ \A i \in 1..n : h[i] = More(i, h[i-1])
  <2>1. h = [i \in 0..n |-> IF i = 0 THEN <<>> ELSE More(i, h[i-1])]
    BY <1>7
  <2>2. 0 \in 0..n /\ \A i \in 1..n : i \in 0..n /\ i # 0
    BY <1>1
  <2> HIDE DEF n
  <2>3. \A i \in 0..n : h[i] = IF i = 0 THEN <<>> ELSE More(i, h[i-1])
    BY <2>1
  <2>4. h = [i \in 0..n |-> h[i]]
    BY <2>1
  <2> QED BY <2>2, <2>3, <2>4
<1>10. \A i \in 0..n : h[i] \in V
  <2> DEFINE Q == {i \in 0..n : h[i] \in V}
  <2>1. 0 \in Q
    <3>1. 0 \in 0..n
      BY <1>1
    <3>2. h[0] \in V
      <4> HIDE DEF n, V
      <4> QED BY <1>1, <1>9
    <3> QED BY <3>1, <3>2
  <2>2. ASSUME NEW i \in 1..n, i - 1 \in Q PROVE i \in Q
    <3>1. i \in 0..n /\ h[i - 1] \in V
      BY <1>1, <2>2
    <3>2. h[i] \in V
      BY <1>2, <1>9, <3>1
    <3> QED BY <3>1, <3>2
  <2>3. \A i \in 0..n : i \in Q
    <3> HIDE DEF Q, n
    <3> QED BY <1>1, <2>1, <2>2, UpTo
  <2> QED BY <2>3
<1>11. h \in [0..n -> V]
  BY <1>9, <1>10
<1>12. MergedParts(h, lists)
  BY <1>8, <1>9, <1>11 DEF More, MergedParts
<1> QED BY <1>12

\* Where every list is empty, so is what they make together.
LEMMA MergedNone ==
    ASSUME NEW lists \in Seq(Seq(Addr)), \A i \in 1..Len(lists) : lists[i] = <<>>
    PROVE  Merged(lists) = <<>>
<1> DEFINE n == Len(lists)
<1>0. PICK f : MergedParts(f, lists)
  BY MergedSteps
<1>1. /\ f \in [0..n -> Seq(Addr)] /\ f[0] = <<>>
      /\ \A i \in 1..n : f[i] = f[i-1] \o Within(lists[i], Addr \ Range(f[i-1]))
      /\ Merged(lists) = f[n]
  BY <1>0 DEF MergedParts
<1>2. n \in Nat
  OBVIOUS
<1>3. \A S : Within(<<>>, S) = <<>>
  <2>1. \A S : <<>> \in Seq(Addr) /\ Range(<<>>) \intersect S = {}
    BY DEF Range
  <2> QED BY <2>1, WithinNone
<1> DEFINE Q == {i \in 0..n : f[i] = <<>>}
<1>4. 0 \in Q
  BY <1>1, <1>2
<1>5. ASSUME NEW i \in 1..n, i - 1 \in Q PROVE i \in Q
  <2>1. i \in 0..n /\ f[i-1] = <<>> /\ lists[i] = <<>>
    BY <1>2, <1>5
  <2>2. f[i] = <<>> \o <<>>
    BY <1>1, <1>3, <2>1
  <2> QED BY <2>1, <2>2
<1>6. \A i \in 0..n : i \in Q
  <2> HIDE DEF Q, n
  <2> QED BY <1>2, <1>4, <1>5, UpTo
<1> QED BY <1>1, <1>2, <1>6

\* The first list that is not empty begins what all of them make together.
LEMMA MergedFirst ==
    ASSUME NEW lists \in Seq(Seq(Addr)), NEW m \in 1..Len(lists), lists[m] # <<>>,
           \A k \in 1..m-1 : lists[k] = <<>>
    PROVE  Merged(lists) # <<>> /\ Merged(lists)[1] = lists[m][1] /\ Merged(lists) \in Seq(Addr)
<1> DEFINE n == Len(lists)
<1>0. PICK f : MergedParts(f, lists)
  BY MergedSteps
<1>1. /\ f \in [0..n -> Seq(Addr)] /\ f[0] = <<>>
      /\ \A i \in 1..n : f[i] = f[i-1] \o Within(lists[i], Addr \ Range(f[i-1]))
      /\ Merged(lists) = f[n]
  BY <1>0 DEF MergedParts
<1>2. n \in Nat /\ m \in Nat /\ \A i \in 1..n : lists[i] \in Seq(Addr)
  OBVIOUS
<1> DEFINE Q == {i \in 0..n : IF i < m THEN f[i] = <<>>
                              ELSE f[i] # <<>> /\ f[i][1] = lists[m][1]}
<1>3. 0 \in Q
  BY <1>1, <1>2
<1>4. ASSUME NEW i \in 1..n, i - 1 \in Q PROVE i \in Q
  <2>1. /\ i \in 0..n /\ f[i-1] \in Seq(Addr) /\ lists[i] \in Seq(Addr) /\ i \in Nat
        /\ Within(lists[i], Addr \ Range(f[i-1])) \in Seq(Addr)
    <3>1. i \in 0..n /\ i - 1 \in 0..n /\ lists[i] \in Seq(Addr) /\ i \in Nat
      BY <1>2
    <3> QED BY <1>1, <3>1, WithinRange
  <2>2. CASE i < m
    <3>1. lists[i] = <<>> /\ f[i-1] = <<>> /\ Range(<<>>) = {}
      BY <1>2, <1>4, <2>1, <2>2 DEF Range
    <3>2. Within(lists[i], Addr \ Range(f[i-1])) = <<>>
      BY <3>1, WithinNone
    <3>3. f[i] = <<>> \o <<>>
      BY <1>1, <3>1, <3>2
    <3> QED BY <2>1, <2>2, <3>3
  <2>3. CASE i = m
    <3>1. f[i-1] = <<>> /\ Range(f[i-1]) = {}
      BY <1>2, <1>4, <2>1, <2>3 DEF Range
    <3>2. Range(lists[i]) \subseteq Addr
      BY <2>1 DEF Range
    <3>3. Within(lists[i], Addr \ Range(f[i-1])) = lists[i]
      BY <2>1, <3>1, <3>2, WithinAll
    <3>4. f[i] = <<>> \o lists[i]
      BY <1>1, <3>1, <3>3
    <3>5. f[i] = lists[m]
      BY <2>1, <2>3, <3>4, ConcatEmptySeq
    <3> QED BY <2>1, <2>3, <3>5
  <2>4. CASE i > m
    <3>1. f[i-1] # <<>> /\ f[i-1][1] = lists[m][1]
      BY <1>2, <1>4, <2>1, <2>4
    <3>2. f[i] = f[i-1] \o Within(lists[i], Addr \ Range(f[i-1]))
      BY <1>1
    <3>3. ASSUME NEW x \in Seq(Addr), NEW y \in Seq(Addr), x # <<>>
          PROVE  x \o y # <<>> /\ (x \o y)[1] = x[1]
      <4>1. Len(x) \in Nat /\ Len(y) \in Nat /\ Len(x) > 0
        BY <3>3
      <4>2. Len(x \o y) = Len(x) + Len(y)
        BY <3>3
      <4> QED BY <3>3, <4>1, <4>2
    <3>4. f[i] # <<>> /\ f[i][1] = f[i-1][1]
      BY <2>1, <3>1, <3>2, <3>3
    <3> QED BY <1>2, <2>1, <2>4, <3>1, <3>4
  <2> QED BY <1>2, <2>1, <2>2, <2>3, <2>4
<1>5. \A i \in 0..n : i \in Q
  <2> HIDE DEF Q, n
  <2> QED BY <1>2, <1>3, <1>4, UpTo
<1>6. n \in 0..n /\ ~(n < m)
  BY <1>2
<1> QED BY <1>1, <1>5, <1>6

\* Lists that agree where they are not empty make one of them.
LEMMA MergedAgreed ==
    ASSUME NEW lists \in Seq(Seq(Addr)), NEW r \in Seq(Addr),
           \A i \in 1..Len(lists) : lists[i] \in {<<>>, r}
    PROVE  Merged(lists) \in {<<>>, r}
<1> DEFINE n == Len(lists)
<1>0. PICK f : MergedParts(f, lists)
  BY MergedSteps
<1>1. /\ f \in [0..n -> Seq(Addr)] /\ f[0] = <<>>
      /\ \A i \in 1..n : f[i] = f[i-1] \o Within(lists[i], Addr \ Range(f[i-1]))
      /\ Merged(lists) = f[n]
  BY <1>0 DEF MergedParts
<1>2. n \in Nat
  OBVIOUS
<1>3. /\ <<>> \in Seq(Addr) /\ Range(<<>>) = {} /\ Range(r) \subseteq Addr
  BY DEF Range
<1>4. /\ \A S : Within(<<>>, S) = <<>>
      /\ Within(r, Addr \ Range(<<>>)) = r
      /\ Within(r, Addr \ Range(r)) = <<>>
  <2>1. \A S : Within(<<>>, S) = <<>>
    BY <1>3, WithinNone
  <2>2. Within(r, Addr \ Range(<<>>)) = r
    BY <1>3, WithinAll
  <2>3. Range(r) \intersect (Addr \ Range(r)) = {}
    OBVIOUS
  <2>4. Within(r, Addr \ Range(r)) = <<>>
    BY <2>3, WithinNone
  <2> QED BY <2>1, <2>2, <2>4
<1>5. <<>> \o <<>> = <<>> /\ <<>> \o r = r /\ r \o <<>> = r
  OBVIOUS
<1> DEFINE Q == {i \in 0..n : f[i] \in {<<>>, r}}
<1>6. 0 \in Q
  BY <1>1, <1>2
<1>7. ASSUME NEW i \in 1..n, i - 1 \in Q PROVE i \in Q
  <2>1. i \in 0..n /\ f[i-1] \in {<<>>, r} /\ lists[i] \in {<<>>, r}
    BY <1>2, <1>7
  <2>2. f[i] = f[i-1] \o Within(lists[i], Addr \ Range(f[i-1]))
    BY <1>1
  <2>3. f[i] \in {<<>>, r}
    BY <1>4, <1>5, <2>1, <2>2
  <2> QED BY <2>1, <2>3
<1>8. \A i \in 0..n : i \in Q
  <2> HIDE DEF Q, n
  <2> QED BY <1>2, <1>6, <1>7, UpTo
<1> QED BY <1>1, <1>2, <1>8

\* Lists without repetitions make one without, of all that is in any of them.
LEMMA MergedOnce ==
    ASSUME NEW lists \in Seq(Seq(Addr)), \A i \in 1..Len(lists) : IsInjective(lists[i])
    PROVE  /\ IsInjective(Merged(lists))
           /\ Range(Merged(lists)) = UNION {Range(lists[i]) : i \in 1..Len(lists)}
<1> DEFINE n == Len(lists)
           Part(i) == UNION {Range(lists[k]) : k \in 1..i}
<1>0. PICK f : MergedParts(f, lists)
  BY MergedSteps
<1>1. /\ f \in [0..n -> Seq(Addr)] /\ f[0] = <<>>
      /\ \A i \in 1..n : f[i] = f[i-1] \o Within(lists[i], Addr \ Range(f[i-1]))
      /\ Merged(lists) = f[n]
  BY <1>0 DEF MergedParts
<1>2. n \in Nat /\ \A i \in 1..n : lists[i] \in Seq(Addr)
  OBVIOUS
<1> DEFINE Q == {i \in 0..n : IsInjective(f[i]) /\ Range(f[i]) = Part(i)}
<1>3. 0 \in Q
  <2>1. IsInjective(<<>>) /\ Range(<<>>) = {} /\ Part(0) = {}
    BY DEF IsInjective, Range
  <2> QED BY <1>1, <1>2, <2>1
<1>4. ASSUME NEW i \in 1..n, i - 1 \in Q PROVE i \in Q
  <2> DEFINE more == Within(lists[i], Addr \ Range(f[i-1]))
  <2>1. i \in 0..n /\ i - 1 \in 0..n /\ IsInjective(f[i-1]) /\ Range(f[i-1]) = Part(i-1)
    BY <1>2, <1>4
  <2>2. f[i-1] \in Seq(Addr) /\ lists[i] \in Seq(Addr) /\ IsInjective(lists[i])
    BY <1>1, <1>2, <2>1
  <2>3. /\ more \in Seq(Addr) /\ IsInjective(more)
        /\ Range(more) = Range(lists[i]) \intersect (Addr \ Range(f[i-1]))
    BY <2>2, WithinRange, WithinOnce
  <2>4. Range(lists[i]) \subseteq Addr
    BY <2>2, RangeOfSeq
  <2> HIDE DEF more
  <2>5. IsInjective(f[i-1] \o more) /\ Range(f[i-1] \o more) = Range(f[i-1]) \union Range(more)
    <3>1. Range(f[i-1]) \intersect Range(more) = {}
      BY <2>3
    <3> QED BY <2>1, <2>2, <2>3, <3>1, ConcatOnce, RangeConcatenation
  <2>6. f[i] = f[i-1] \o more
    BY <1>1 DEF more
  <2>7. Range(f[i]) = Range(f[i-1]) \union Range(lists[i])
    BY <2>3, <2>4, <2>5, <2>6
  <2>8. Part(i) = Part(i-1) \union Range(lists[i])
    <3>1. \A k \in 1..i : k = i \/ k \in 1..i-1
      BY <1>2
    <3>2. i \in 1..i /\ \A k \in 1..i-1 : k \in 1..i
      BY <1>2
    <3> QED BY <3>1, <3>2
  <2> QED BY <2>1, <2>5, <2>6, <2>7, <2>8
<1>5. \A i \in 0..n : i \in Q
  <2> HIDE DEF Q, n
  <2> QED BY <1>2, <1>3, <1>4, UpTo
<1> QED BY <1>1, <1>2, <1>5
------------------------------------------------------------------------------
(* The lists the queries come back with *)

\* What _query can return: some of the addresses, in the order of their text.
SortedSeq == {Within(TextOrder, S) : S \in SUBSET Addr}
Lists == [DOMAIN Resolvers -> SortedSeq]

\* Every address has its place in the order, so such a list is known by its elements.
LEMMA Sorted ==
    /\ \A S \in SUBSET Addr : Within(TextOrder, S) \in Seq(Addr) /\ Range(Within(TextOrder, S)) = S
    /\ \A r \in SortedSeq : /\ r \in Seq(Addr) /\ r = Within(TextOrder, Range(r))
                            /\ Range(r) \subseteq Addr
                            /\ r = <<>> <=> Range(r) = {}
<1>1. TextOrder \in Seq(Addr) /\ Range(TextOrder) = Addr
  BY TextOrderAssumption DEF Range
<1>2. ASSUME NEW S \in SUBSET Addr
      PROVE  Within(TextOrder, S) \in Seq(Addr) /\ Range(Within(TextOrder, S)) = S
  <2>1. Addr \intersect S = S
    OBVIOUS
  <2> QED BY <1>1, <2>1, WithinRange
<1>3. ASSUME NEW r \in SortedSeq
      PROVE  /\ r \in Seq(Addr) /\ r = Within(TextOrder, Range(r)) /\ Range(r) \subseteq Addr
             /\ r = <<>> <=> Range(r) = {}
  <2>1. PICK S \in SUBSET Addr : r = Within(TextOrder, S)
    BY DEF SortedSeq
  <2>2. r \in Seq(Addr) /\ Range(r) = S
    BY <1>2, <2>1
  <2>3. r = <<>> => Range(r) = {}
    BY DEF Range
  <2>4. Range(r) = {} => r = <<>>
    <3>1. Range(TextOrder) \intersect {} = {}
      OBVIOUS
    <3>2. Within(TextOrder, {}) = <<>>
      BY <1>1, <3>1, WithinNone
    <3> QED BY <2>1, <2>2, <3>2
  <2> QED BY <2>1, <2>2, <2>3, <2>4
<1> QED BY <1>2, <1>3

\* The lists of all resolvers are a sequence of sequences of addresses.
LEMMA ListsAreLists ==
    ASSUME NEW lists \in Lists
    PROVE  /\ lists \in Seq(Seq(Addr)) /\ Len(lists) = Len(Resolvers)
           /\ DOMAIN lists = 1..Len(Resolvers) /\ Len(Resolvers) \in Nat
           /\ \A i \in 1..Len(Resolvers) : lists[i] \in SortedSeq
<1>1. DOMAIN Resolvers = 1..Len(Resolvers) /\ Len(Resolvers) \in Nat
  BY ResolversAssumption
<1>2. lists \in [1..Len(Resolvers) -> SortedSeq]
  BY <1>1 DEF Lists
<1>3. lists \in [1..Len(Resolvers) -> Seq(Addr)]
  <2>1. SortedSeq \subseteq Seq(Addr)
    BY Sorted
  <2> QED BY <1>2, <2>1
<1> QED BY <1>1, <1>2, <1>3

Silence(lists) == \A i \in DOMAIN lists : lists[i] = <<>>
First(lists, m) == m \in DOMAIN lists /\ lists[m] # <<>> /\ \A k \in 1..m-1 : lists[k] = <<>>

\* Where some resolver has an answer, one is the first that has.
LEMMA SomeFirst ==
    ASSUME NEW lists \in Lists, ~Silence(lists)
    PROVE  \E m : First(lists, m)
<1> DEFINE n == Len(Resolvers)
           Q == {i \in 0..n : \A k \in 1..i : lists[k] = <<>>}
<1>1. DOMAIN lists = 1..n /\ n \in Nat
  BY ListsAreLists
<1>2. PICK i \in 1..n : lists[i] # <<>>
  BY <1>1 DEF Silence
<1> SUFFICES ASSUME ~\E m : First(lists, m) PROVE FALSE
  OBVIOUS
<1>3. 0 \in Q
  BY <1>1
<1>4. ASSUME NEW j \in 1..n, j - 1 \in Q PROVE j \in Q
  <2>1. \A k \in 1..j-1 : lists[k] = <<>>
    BY <1>4
  <2>2. lists[j] = <<>>
    BY <1>1, <2>1 DEF First
  <2>3. \A k \in 1..j : k = j \/ k \in 1..j-1
    BY <1>1
  <2> QED BY <1>1, <2>1, <2>2, <2>3
<1>5. \A j \in 0..n : j \in Q
  <2> HIDE DEF Q, n
  <2> QED BY <1>1, <1>3, <1>4, UpTo
<1> QED BY <1>1, <1>2, <1>5

\* All together make nothing just where every list is empty.
LEMMA MergedEmpty ==
    ASSUME NEW lists \in Lists
    PROVE  Merged(lists) = <<>> <=> Silence(lists)
<1>1. lists \in Seq(Seq(Addr)) /\ DOMAIN lists = 1..Len(lists)
  BY ListsAreLists
<1>2. ASSUME Silence(lists) PROVE Merged(lists) = <<>>
  BY <1>1, <1>2, MergedNone DEF Silence
<1>3. ASSUME ~Silence(lists) PROVE Merged(lists) # <<>>
  <2>1. PICK m : First(lists, m)
    BY <1>3, SomeFirst
  <2> QED BY <1>1, <2>1, MergedFirst DEF First
<1> QED BY <1>2, <1>3

\* The address whose name is looked up heads what all together make.
LEMMA FirstAIsTheirs ==
    ASSUME NEW lists \in Lists
    PROVE  FirstA(lists) = IF Merged(lists) = <<>> THEN {} ELSE {Merged(lists)[1]}
<1>1. lists \in Seq(Seq(Addr)) /\ DOMAIN lists = 1..Len(lists) /\ Len(lists) \in Nat
  BY ListsAreLists
<1>2. FirstA(lists) = {lists[i][1] : i \in {j \in DOMAIN lists : First(lists, j)}}
  BY DEF FirstA, First
<1>3. CASE Silence(lists)
  <2>1. {j \in DOMAIN lists : First(lists, j)} = {}
    BY <1>3 DEF Silence, First
  <2> QED BY <1>2, <1>3, <2>1, MergedEmpty
<1>4. CASE ~Silence(lists)
  <2>1. PICK m : First(lists, m)
    BY <1>4, SomeFirst
  <2>2. Merged(lists) # <<>> /\ Merged(lists)[1] = lists[m][1]
    BY <1>1, <2>1, MergedFirst DEF First
  <2>3. ASSUME NEW j, First(lists, j) PROVE j = m
    <3>1. j \in 1..Len(lists) /\ m \in 1..Len(lists)
      BY <1>1, <2>1, <2>3 DEF First
    <3>2. ~(j < m) /\ ~(m < j)
      BY <1>1, <2>1, <2>3, <3>1 DEF First
    <3> QED BY <1>1, <3>1, <3>2
  <2>4. {j \in DOMAIN lists : First(lists, j)} = {m}
    <3>1. m \in DOMAIN lists
      BY <2>1 DEF First
    <3> QED BY <2>1, <2>3, <3>1
  <2>5. FirstA(lists) = {lists[m][1]}
    BY <1>2, <2>4
  <2> QED BY <2>2, <2>5
<1> QED BY <1>3, <1>4

\* The sets of records the lists hold, those that are empty aside.
Sets(lists) == {Range(rs) : rs \in Range(lists)} \ {{}}

\* Each is that of some list.
LEMMA SetsOf ==
    ASSUME NEW lists
    PROVE  /\ \A i \in DOMAIN lists : Range(lists[i]) = {} \/ Range(lists[i]) \in Sets(lists)
           /\ \A R \in Sets(lists) : R # {} /\ \E i \in DOMAIN lists : Range(lists[i]) = R
<1>1. ASSUME NEW i \in DOMAIN lists, Range(lists[i]) # {} PROVE Range(lists[i]) \in Sets(lists)
  <2>1. \E rs \in Range(lists) : Range(lists[i]) = Range(rs)
    <3>1. lists[i] \in Range(lists)
      BY DEF Range
    <3> QED BY <3>1
  <2> QED BY <1>1, <2>1 DEF Sets
<1>2. ASSUME NEW R \in Sets(lists)
      PROVE  R # {} /\ \E i \in DOMAIN lists : Range(lists[i]) = R
  <2>1. R # {} /\ \E rs \in Range(lists) : R = Range(rs)
    BY DEF Sets
  <2>2. PICK rs \in Range(lists) : R = Range(rs)
    BY <2>1
  <2>3. \E i \in DOMAIN lists : rs = lists[i]
    BY <2>2 DEF Range
  <2> QED BY <2>1, <2>2, <2>3
<1> QED BY <1>1, <1>2

\* They are finitely many.
LEMMA SetsFinite ==
    ASSUME NEW lists \in Lists
    PROVE  IsFiniteSet(Sets(lists))
<1> DEFINE n == Len(Resolvers)
           T == {Range(rs) : rs \in Range(lists)}
           f == [i \in 1..n |-> Range(lists[i])]
<1>1. DOMAIN lists = 1..n /\ n \in Nat
  BY ListsAreLists
<1>2. IsFiniteSet(1..n)
  BY <1>1, FS_Interval
<1>3. f \in Surjection(1..n, T)
  <2>1. f \in [1..n -> T]
    BY <1>1 DEF Range
  <2>2. \A t \in T : \E i \in 1..n : f[i] = t
    BY <1>1 DEF Range
  <2> QED BY <2>1, <2>2 DEF Surjection
<1>4. IsFiniteSet(T)
  <2> HIDE DEF f, T, n
  <2> QED BY <1>2, <1>3, FS_Surjection
<1>5. Sets(lists) = T \ {{}}
  BY DEF Sets
<1> HIDE DEF T
<1> QED BY <1>4, <1>5, FS_Difference

\* Where the resolvers that answered hold the same records R, they make these in
\* the order of their text, whichever of them did.
LEMMA Agreement ==
    ASSUME NEW lists \in Lists, NEW R, Sets(lists) = {R}
    PROVE  Merged(lists) = Within(TextOrder, R)
<1> DEFINE n == Len(Resolvers)
           r == Within(TextOrder, R)
<1>1. /\ lists \in Seq(Seq(Addr)) /\ Len(lists) = n /\ DOMAIN lists = 1..n
      /\ \A i \in 1..n : lists[i] \in SortedSeq
  BY ListsAreLists
<1>2. \A i \in 1..n : Range(lists[i]) \in {{}, R}
  BY <1>1, SetsOf
<1>3. PICK m \in 1..n : Range(lists[m]) = R /\ R # {}
  BY <1>1, SetsOf
<1>4. \A i \in 1..n : lists[i] = <<>> \/ (Range(lists[i]) = R /\ lists[i] = r)
  <2>1. ASSUME NEW i \in 1..n PROVE lists[i] = <<>> \/ (Range(lists[i]) = R /\ lists[i] = r)
    <3>1. lists[i] = Within(TextOrder, Range(lists[i])) /\ (lists[i] = <<>> <=> Range(lists[i]) = {})
      BY <1>1, Sorted
    <3> QED BY <1>2, <3>1
  <2> QED BY <2>1
<1>5. lists[m] # <<>>
  BY <1>1, <1>3, Sorted
<1>6. r \in Seq(Addr)
  BY <1>1, <1>4, <1>5, Sorted
<1>7. Merged(lists) \in {<<>>, r}
  BY <1>1, <1>4, <1>6, MergedAgreed
<1>8. Merged(lists) # <<>>
  BY <1>1, <1>5, MergedEmpty DEF Silence
<1> QED BY <1>7, <1>8
------------------------------------------------------------------------------
(* The specification *)

\* What the probe left of the lists it resolved.
Left(d, as, aaaas) ==
    /\ d.a_records = Merged(as) /\ d.reverse_of = FirstA(as)
    /\ d.aaaa_records = UNION {Range(rs) : rs \in Range(aaaas)}
\* What an earlier inspection left of its lists.
LeftBehind(e, as) ==
    e.records = Sets(as) /\ e.targets = Targets([a_records |-> Merged(as)])

RepliesInv ==
    DOMAIN replies \subseteq Asked /\ \A q \in DOMAIN replies : replies[q] \in SortedSeq
DnsInv ==
    \A d \in dns : DOMAIN replies = Asked /\ Left(d, Found("A"), Found("AAAA"))
EarlierInv == \A e \in earlier : \E as \in Lists : LeftBehind(e, as)
\* Every list is in the order of the text, and each record is that of its lists.
LookupInv == RepliesInv /\ DnsInv /\ EarlierInv

\* Once all is asked, what is found is a list for each resolver.
LEMMA FoundLists ==
    ASSUME RepliesInv, DOMAIN replies = Asked
    PROVE  Found("A") \in Lists /\ Found("AAAA") \in Lists
BY DEF RepliesInv, Asked, Found, Lists

\* An answer is kept in the order of the text.
LEMMA QuerySorted ==
    ASSUME NEW answer \in Answer
    PROVE  Query(answer) \in SortedSeq
<1>1. PICK S \in SUBSET Addr : answer \in Arrangements(S)
  BY DEF Answer
<1>2. Range(answer) = S
  BY <1>1 DEF Arrangements
<1> QED BY <1>2 DEF Query, SortedSeq

\* LookupInv holds at first and after every step.
LEMMA LookupInvHolds == LookupSpec => []LookupInv
<1>1. LookupInit => LookupInv
  BY DEF LookupInit, LookupInv, RepliesInv, DnsInv, EarlierInv, NoReplies
<1>2. LookupInv /\ [LookupNext]_lookups => LookupInv'
  <2> SUFFICES ASSUME LookupInv, [LookupNext]_lookups PROVE LookupInv'
    OBVIOUS
  <2> USE DEF LookupInv
  <2>1. CASE Reply
    <3>1. PICK q \in Asked \ DOMAIN replies, answer \in Answer :
             replies' = [p \in DOMAIN replies \union {q} |->
                            IF p = q THEN Query(answer) ELSE replies[p]]
      BY <2>1 DEF Reply
    <3>2. RepliesInv'
      <4>1. Query(answer) \in SortedSeq
        BY <3>1, QuerySorted
      <4>2. Asked' = Asked /\ SortedSeq' = SortedSeq
        BY DEF Asked, SortedSeq
      <4> QED BY <3>1, <4>1, <4>2 DEF RepliesInv
    <3>3. dns = {} /\ dns' = dns /\ earlier' = earlier
      BY <2>1, <3>1 DEF Reply, DnsInv
    <3> QED BY <3>2, <3>3 DEF DnsInv, EarlierInv
  <2>2. CASE Resolve
    <3>1. /\ DOMAIN replies = Asked /\ replies' = replies /\ earlier' = earlier
          /\ \A d \in dns' : Left(d, Found("A"), Found("AAAA"))
      BY <2>2 DEF Resolve, Left
    <3>2. RepliesInv' /\ EarlierInv'
      BY <3>1 DEF RepliesInv, EarlierInv, Asked
    <3>3. DnsInv'
      BY <3>1 DEF DnsInv, Asked, Found
    <3> QED BY <3>2, <3>3
  <2>3. CASE InspectAgain
    <3>1. PICK d \in dns : earlier' = {[records |-> RecordSets, targets |-> Targets(d)]}
      BY <2>3 DEF InspectAgain
    <3>2. replies' = NoReplies /\ dns' = {}
      BY <2>3 DEF InspectAgain
    <3>3. RepliesInv' /\ DnsInv'
      BY <3>2 DEF RepliesInv, DnsInv, NoReplies
    <3>4. DOMAIN replies = Asked /\ d.a_records = Merged(Found("A"))
      BY <3>1 DEF DnsInv, Left
    <3>5. Found("A") \in Lists
      BY <3>4, FoundLists
    <3>6. \A e \in earlier' : LeftBehind(e, Found("A"))
      BY <3>1, <3>4 DEF LeftBehind, RecordSets, Sets, Targets
    <3>7. EarlierInv'
      BY <3>5, <3>6 DEF EarlierInv
    <3> QED BY <3>3, <3>7
  <2>4. CASE UNCHANGED lookups
    BY <2>4 DEF lookups, RepliesInv, DnsInv, EarlierInv, Asked, Found
  <2> QED BY <2>1, <2>2, <2>3, <2>4 DEF LookupNext, InspectedTwice
<1> QED BY <1>1, <1>2, PTL DEF LookupSpec

\* One answer of one resolver, for either type, is enough for rule 7 and for the
\* runbook's warning, and no loss of answers makes a hostname resolve: for any
\* resolvers and addresses (OneAnswerSuffices).
THEOREM AnyAnswerCounts == LookupSpec => []OneAnswerSuffices
<1>1. LookupInv => OneAnswerSuffices
  <2> SUFFICES ASSUME LookupInv, NEW d \in dns
               PROVE  /\ HostnameResolves([snapshot |-> d]) <=> Silent
                      /\ WarnsOfRecords([snapshot |-> d]) <=> Silent
    BY DEF OneAnswerSuffices
  <2>1. RepliesInv /\ DOMAIN replies = Asked /\ Left(d, Found("A"), Found("AAAA"))
    BY DEF LookupInv, DnsInv
  <2>2. Found("A") \in Lists /\ Found("AAAA") \in Lists
    BY <2>1, FoundLists
  <2>3. d.a_records = <<>> <=> Silence(Found("A"))
    BY <2>1, <2>2, MergedEmpty DEF Left
  <2>4. d.aaaa_records = {} <=> Silence(Found("AAAA"))
    <3> DEFINE as == Found("AAAA")
    <3>1. DOMAIN as = DOMAIN Resolvers /\ \A i \in DOMAIN as : as[i] \in SortedSeq
      BY <2>2 DEF Lists
    <3>2. d.aaaa_records = UNION {Range(as[i]) : i \in DOMAIN as}
      BY <2>1 DEF Left, Range
    <3>3. \A i \in DOMAIN as : as[i] = <<>> <=> Range(as[i]) = {}
      BY <3>1, Sorted
    <3> HIDE DEF as
    <3>4. d.aaaa_records = {} <=> \A i \in DOMAIN as : Range(as[i]) = {}
      <4>1. ASSUME NEW i \in DOMAIN as, Range(as[i]) # {} PROVE d.aaaa_records # {}
        <5>1. PICK x : x \in Range(as[i])
          BY <4>1
        <5>2. x \in UNION {Range(as[k]) : k \in DOMAIN as}
          BY <5>1
        <5> QED BY <3>2, <5>2
      <4>2. ASSUME NEW x \in d.aaaa_records PROVE \E i \in DOMAIN as : x \in Range(as[i])
        <5>1. x \in UNION {Range(as[i]) : i \in DOMAIN as}
          BY <3>2
        <5> QED BY <5>1
      <4> QED BY <4>1, <4>2
    <3>5. d.aaaa_records = {} <=> Silence(as)
      BY <3>3, <3>4 DEF Silence
    <3> QED BY <3>5 DEF as
  <2>5. Silent <=> Silence(Found("A")) /\ Silence(Found("AAAA"))
    <3>1. Silent <=> \A i \in DOMAIN Resolvers :
                        replies[<<"A", i>>] = <<>> /\ replies[<<"AAAA", i>>] = <<>>
      <4>1. ASSUME Silent, NEW i \in DOMAIN Resolvers
            PROVE  replies[<<"A", i>>] = <<>> /\ replies[<<"AAAA", i>>] = <<>>
        <5>1. <<"A", i>> \in Asked /\ <<"AAAA", i>> \in Asked
          BY DEF Asked
        <5> QED BY <2>1, <4>1, <5>1 DEF Silent
      <4>2. ASSUME \A i \in DOMAIN Resolvers :
                      replies[<<"A", i>>] = <<>> /\ replies[<<"AAAA", i>>] = <<>>,
                   NEW q \in Asked
            PROVE  replies[q] = <<>>
        <5>1. PICK i \in DOMAIN Resolvers : q = <<"A", i>> \/ q = <<"AAAA", i>>
          BY DEF Asked
        <5> QED BY <4>2, <5>1
      <4> QED BY <2>1, <4>1, <4>2 DEF Silent
    <3> QED BY <3>1 DEF Silence, Found
  <2> QED BY <2>3, <2>4, <2>5 DEF HostnameResolves, WarnsOfRecords, Resolved
<1> QED BY <1>1, LookupInvHolds, PTL

\* Two inspections in which the resolvers hold the same records give the artifacts the
\* same addresses in the same order, however the answers rotate and whichever
\* are lost, as long as one gets through (TargetStable).
THEOREM SameTargets == LookupSpec => []TargetStable
<1>1. LookupInv => TargetStable
  <2> SUFFICES ASSUME LookupInv, NEW d \in dns, NEW e \in earlier,
                      RecordSets = e.records, Cardinality(RecordSets) = 1
               PROVE  Targets(d) = e.targets
    BY DEF TargetStable
  <2>1. RepliesInv /\ DOMAIN replies = Asked /\ d.a_records = Merged(Found("A"))
    BY DEF LookupInv, DnsInv, Left
  <2>2. Found("A") \in Lists
    BY <2>1, FoundLists
  <2>3. PICK as \in Lists : LeftBehind(e, as)
    BY DEF LookupInv, EarlierInv
  <2>4. RecordSets = Sets(Found("A")) /\ RecordSets = Sets(as)
    BY <2>3 DEF RecordSets, Sets, LeftBehind
  <2>5. PICK R : RecordSets = {R}
    <3>1. IsFiniteSet(RecordSets)
      BY <2>3, <2>4, SetsFinite
    <3> QED BY <3>1, FS_Singleton
  <2>6. d.a_records = Merged(as)
    BY <2>1, <2>2, <2>3, <2>4, <2>5, Agreement
  <2> QED BY <2>3, <2>6 DEF LeftBehind, Targets
<1> QED BY <1>1, LookupInvHolds, PTL

\* The artifacts list every address that any resolver returned, each of them once,
\* whatever the resolvers share (dns_records.py:23-30).
RecordsOnce ==
    \A d \in dns : IsInjective(d.a_records) /\ Range(d.a_records) = UNION RecordSets

\* RecordsOnce holds for any resolvers and addresses and any loss of answers.
THEOREM EachOnce == LookupSpec => []RecordsOnce
<1>1. LookupInv => RecordsOnce
  <2> SUFFICES ASSUME LookupInv, NEW d \in dns
               PROVE  IsInjective(d.a_records) /\ Range(d.a_records) = UNION RecordSets
    BY DEF RecordsOnce
  <2> DEFINE as == Found("A")
  <2>1. RepliesInv /\ DOMAIN replies = Asked /\ d.a_records = Merged(as)
    BY DEF LookupInv, DnsInv, Left
  <2>2. as \in Lists
    BY <2>1, FoundLists
  <2> HIDE DEF as
  <2>3. /\ as \in Seq(Seq(Addr)) /\ DOMAIN as = 1..Len(as)
        /\ \A i \in 1..Len(as) : as[i] \in SortedSeq
    BY <2>2, ListsAreLists
  <2>4. \A r \in SortedSeq : IsInjective(r)
    BY TextOrderAssumption, WithinOnce DEF SortedSeq
  <2>5. /\ IsInjective(Merged(as))
        /\ Range(Merged(as)) = UNION {Range(as[i]) : i \in 1..Len(as)}
    BY <2>3, <2>4, MergedOnce
  <2>6. UNION {Range(as[i]) : i \in 1..Len(as)} = UNION Sets(as)
    <3>1. ASSUME NEW i \in 1..Len(as) PROVE Range(as[i]) \subseteq UNION Sets(as)
      BY <2>3, SetsOf
    <3>2. ASSUME NEW R \in Sets(as) PROVE R \subseteq UNION {Range(as[i]) : i \in 1..Len(as)}
      BY <2>3, SetsOf
    <3> QED BY <3>1, <3>2
  <2>7. RecordSets = Sets(as)
    BY DEF RecordSets, Sets, as
  <2> QED BY <2>1, <2>5, <2>6, <2>7
<1> QED BY <1>1, LookupInvHolds, PTL

\* The reverse name in the snapshot is that of the address dns-records.json gives the
\* hostname, also where the resolvers disagree or the first of them is silent
\* (PtrOfTarget).
THEOREM ReverseOfTarget == LookupSpec => []PtrOfTarget
<1>1. LookupInv => PtrOfTarget
  <2> SUFFICES ASSUME LookupInv, NEW d \in dns
               PROVE  d.reverse_of = IF d.a_records = <<>> THEN {} ELSE {Targets(d)[1]}
    BY DEF PtrOfTarget
  <2>1. RepliesInv /\ DOMAIN replies = Asked /\ Left(d, Found("A"), Found("AAAA"))
    BY DEF LookupInv, DnsInv
  <2>2. Found("A") \in Lists
    BY <2>1, FoundLists
  <2> QED BY <2>1, <2>2, FirstAIsTheirs DEF Left, Targets
<1> QED BY <1>1, LookupInvHolds, PTL
==============================================================================
