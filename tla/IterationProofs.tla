--------------------------- MODULE IterationProofs ---------------------------
(***************************************************************************)
(* The theorems about Iteration, for every set of worlds that              *)
(* IterationAssumption admits: any collections, keys, values, iterators    *)
(* and depth.                                                              *)
(***************************************************************************)
EXTENDS Iteration, StackLemmas

-----------------------------------------------------------------------------
(* The live slots of a collection.                                          *)

LivePart(f, s) ==
    f = [n \in 0..Len(s) |->
            IF n = 0 THEN <<>>
            ELSE IF IsLive(s[n]) THEN Append(f[n - 1], s[n]) ELSE f[n - 1]]

\* The recursion of Live has a solution, and so Live is its last value.
LEMMA LiveIs ==
    ASSUME NEW S, NEW s \in Seq(S)
    PROVE  \E f : LivePart(f, s) /\ Live(s) = f[Len(s)]
<1> DEFINE Step(f, n) == IF n = 0 THEN <<>>
                         ELSE IF IsLive(s[n]) THEN Append(f[n - 1], s[n]) ELSE f[n - 1]
           Good(k, f) == f = [n \in 0..k |-> Step(f, n)]
           T == {k \in Nat : ~ \E f : Good(k, f)}
<1>0. Len(s) \in Nat
  OBVIOUS
<1>1. ASSUME T # {} PROVE FALSE
  <2>1. PICK k \in T : \A j \in T : k <= j
    BY <1>1, LeastElement
  <2>2. k \in Nat
    OBVIOUS
  <2>3. k # 0
    <3> DEFINE f == [n \in 0..0 |-> <<>>]
    <3>1. f = [n \in 0..0 |-> Step(f, n)]
      OBVIOUS
    <3>2. Good(0, f)
      BY <3>1
    <3> QED BY <3>2
  <2>4. PICK f : Good(k - 1, f)
    <3>1. k - 1 \in Nat /\ ~ (k <= k - 1)
      BY <2>2, <2>3
    <3> QED BY <2>1, <3>1
  <2> DEFINE g == [n \in 0..k |-> IF n = k THEN Step(f, k) ELSE f[n]]
  <2>5. \A n \in 0..(k - 1) : g[n] = f[n]
    BY <2>2
  <2>6. g[k] = Step(f, k)
    BY <2>2
  <2>7. DOMAIN g = 0..k /\ g = [n \in 0..k |-> g[n]]
    OBVIOUS
  <2> HIDE DEF g
  <2>8. \A n \in 0..k : g[n] = Step(g, n)
    <3> TAKE n \in 0..k
    <3>1. CASE n = k
      <4>1. g[k - 1] = f[k - 1]
        BY <2>2, <2>3, <2>5
      <4> QED BY <2>3, <2>6, <3>1, <4>1
    <3>2. CASE n # k
      <4>1. n \in 0..(k - 1)
        BY <2>2, <3>2
      <4>2. f[n] = Step(f, n)
        BY <2>4, <4>1
      <4>3. n # 0 => n - 1 \in 0..(k - 1)
        BY <4>1
      <4>4. n # 0 => g[n - 1] = f[n - 1]
        BY <2>5, <4>3
      <4> QED BY <2>5, <4>1, <4>2, <4>4
    <3> QED BY <3>1, <3>2
  <2>9. Good(k, g)
    BY <2>7, <2>8
  <2> QED BY <2>1, <2>9
<1>2. PICK f : Good(Len(s), f)
  BY <1>0, <1>1
<1>3. LivePart(f, s)
  BY <1>2 DEF LivePart
<1> DEFINE g == CHOOSE g : LivePart(g, s)
<1>4. LivePart(g, s)
  BY <1>3
<1>5. Live(s) = g[Len(s)]
  BY DEF Live, LivePart
<1> QED BY <1>4, <1>5
LEMMA LiveSeq ==
    ASSUME NEW S, NEW s \in Seq(S)
    PROVE  Live(s) \in Seq(S)
<1>0. Len(s) \in Nat /\ \A n \in 1..Len(s) : s[n] \in S
  OBVIOUS
<1>1. PICK f : LivePart(f, s) /\ Live(s) = f[Len(s)]
  BY LiveIs
<1> DEFINE T == {n \in 0..Len(s) : f[n] \notin Seq(S)}
<1>2. \A n \in 0..Len(s) :
         f[n] = IF n = 0 THEN <<>>
                ELSE IF IsLive(s[n]) THEN Append(f[n - 1], s[n]) ELSE f[n - 1]
  BY <1>1 DEF LivePart
<1>3. ASSUME T # {} PROVE FALSE
  <2>1. T \in SUBSET Nat
    BY <1>0
  <2>2. PICK n \in T : \A j \in T : n <= j
    BY <1>3, <2>1, LeastElement
  <2>3. n \in 0..Len(s) /\ n \in Nat
    BY <1>0
  <2>4. n # 0
    BY <1>2, <2>3, EmptySeq
  <2>5. n - 1 \in 0..Len(s) /\ n \in 1..Len(s) /\ ~ (n <= n - 1)
    BY <1>0, <2>3, <2>4
  <2>6. f[n - 1] \in Seq(S)
    BY <2>2, <2>5
  <2>7. f[n] = Append(f[n - 1], s[n]) \/ f[n] = f[n - 1]
    BY <1>2, <2>3, <2>4
  <2>8. Append(f[n - 1], s[n]) \in Seq(S)
    BY <1>0, <2>5, <2>6
  <2> QED BY <2>6, <2>7, <2>8
<1>4. Len(s) \notin T /\ Len(s) \in 0..Len(s)
  BY <1>0, <1>3
<1> QED BY <1>1, <1>4

LEMMA LiveEmpty == Live(<<>>) = <<>>
<1>1. <<>> \in Seq({}) /\ Len(<<>>) = 0
  BY EmptySeq
<1>2. PICK f : LivePart(f, <<>>) /\ Live(<<>>) = f[0]
  BY <1>1, LiveIs
<1>3. 0 \in 0..Len(<<>>)
  BY <1>1
<1> QED BY <1>2, <1>3 DEF LivePart

LEMMA LiveAppend ==
    ASSUME NEW S, NEW s \in Seq(S), NEW e \in S
    PROVE  Live(Append(s, e)) = IF IsLive(e) THEN Append(Live(s), e) ELSE Live(s)
<1> DEFINE t == Append(s, e)
<1>0. Len(s) \in Nat
  OBVIOUS
<1>1. t \in Seq(S) /\ Len(t) = Len(s) + 1 /\ t[Len(s) + 1] = e /\ \A n \in 1..Len(s) : t[n] = s[n]
  BY AppendFacts
<1> HIDE DEF t
<1>2. PICK f : LivePart(f, s) /\ Live(s) = f[Len(s)]
  BY LiveIs
<1>3. PICK g : LivePart(g, t) /\ Live(t) = g[Len(t)]
  BY <1>1, LiveIs
<1>4. \A n \in 0..Len(s) :
         f[n] = IF n = 0 THEN <<>>
                ELSE IF IsLive(s[n]) THEN Append(f[n - 1], s[n]) ELSE f[n - 1]
  BY <1>2 DEF LivePart
<1>5. \A n \in 0..(Len(s) + 1) :
         g[n] = IF n = 0 THEN <<>>
                ELSE IF IsLive(t[n]) THEN Append(g[n - 1], t[n]) ELSE g[n - 1]
  BY <1>1, <1>3 DEF LivePart
<1> DEFINE T == {n \in 0..Len(s) : f[n] # g[n]}
<1>6. ASSUME T # {} PROVE FALSE
  <2>1. T \in SUBSET Nat
    BY <1>0
  <2>2. PICK n \in T : \A j \in T : n <= j
    BY <1>6, <2>1, LeastElement
  <2>3. n \in 0..Len(s) /\ n \in 0..(Len(s) + 1) /\ n \in Nat
    BY <1>0
  <2>4. n # 0
    BY <1>4, <1>5, <2>3
  <2>5. n - 1 \in 0..Len(s) /\ n \in 1..Len(s) /\ ~ (n <= n - 1)
    BY <1>0, <2>3, <2>4
  <2>6. f[n - 1] = g[n - 1] /\ t[n] = s[n]
    BY <1>1, <2>2, <2>5
  <2>7. f[n] = g[n]
    BY <1>4, <1>5, <2>3, <2>4, <2>6
  <2> QED BY <2>7
<1>7. f[Len(s)] = g[Len(s)]
  BY <1>0, <1>6
<1>8. g[Len(s) + 1] = IF IsLive(e) THEN Append(g[Len(s)], e) ELSE g[Len(s)]
  <2>1. Len(s) + 1 \in 0..(Len(s) + 1) /\ Len(s) + 1 # 0 /\ Len(s) + 1 - 1 = Len(s)
    BY <1>0
  <2> QED BY <1>1, <1>5, <2>1
<1> QED BY <1>1, <1>2, <1>3, <1>7, <1>8 DEF t

LEMMA AppendJoin ==
    ASSUME NEW S, NEW s \in Seq(S), NEW t \in Seq(S), NEW e \in S
    PROVE  s \o Append(t, e) = Append(s \o t, e)
<1>1. <<e>> \in Seq(S)
  OBVIOUS
<1>2. Append(t, e) = t \o <<e>> /\ Append(s \o t, e) = (s \o t) \o <<e>> /\ s \o t \in Seq(S)
  OBVIOUS
<1> QED BY <1>1, <1>2, ConcatAssociative

\* Any sequence but the empty one is another with an element appended.
LEMMA LastAppended ==
    ASSUME NEW S, NEW s \in Seq(S), s # <<>>
    PROVE  /\ Front(s) \in Seq(S) /\ Last(s) \in S /\ s = Append(Front(s), Last(s))
           /\ Len(s) \in Nat /\ Len(Front(s)) = Len(s) - 1
<1>1. /\ Len(s) \in Nat \ {0} /\ Front(s) \in Seq(S) /\ Len(Front(s)) = Len(s) - 1
      /\ \A i \in 1..(Len(s) - 1) : Front(s)[i] = s[i]
      /\ Last(s) = s[Len(s)] /\ Last(s) \in S
  BY PopFacts
<1> DEFINE t == Append(Front(s), Last(s))
<1>2. /\ t \in Seq(S) /\ Len(t) = Len(Front(s)) + 1 /\ t[Len(Front(s)) + 1] = Last(s)
      /\ \A i \in 1..Len(Front(s)) : t[i] = Front(s)[i]
  BY <1>1, AppendFacts
<1> HIDE DEF t
<1>3. Len(t) = Len(s) /\ t[Len(s)] = s[Len(s)] /\ \A i \in 1..(Len(s) - 1) : t[i] = s[i]
  BY <1>1, <1>2
<1>4. s = t
  BY <1>1, <1>2, <1>3, SeqEqual
<1> QED BY <1>1, <1>4 DEF t

LEMMA LiveJoin ==
    ASSUME NEW S, NEW s \in Seq(S), NEW t \in Seq(S)
    PROVE  Live(s \o t) = Live(s) \o Live(t)
<1> DEFINE T == {n \in Nat : \E u \in Seq(S) : Len(u) = n /\ Live(s \o u) # Live(s) \o Live(u)}
<1>0. Live(s) \in Seq(S)
  BY LiveSeq
<1>1. ASSUME T # {} PROVE FALSE
  <2>1. PICK n \in T : \A j \in T : n <= j
    BY <1>1, LeastElement
  <2>2. PICK u \in Seq(S) : Len(u) = n /\ Live(s \o u) # Live(s) \o Live(u)
    OBVIOUS
  <2>3. u # <<>>
    <3>1. Live(s \o <<>>) = Live(s) \o Live(<<>>)
      BY <1>0, LiveEmpty, ConcatEmptySeq
    <3> QED BY <2>2, <3>1
  <2>4. PICK v \in Seq(S), e \in S : u = Append(v, e) /\ Len(v) = Len(u) - 1
    BY <2>3, LastAppended
  <2>5. Len(v) \in Nat /\ ~ (n <= Len(v))
    BY <2>2, <2>4
  <2>6. Live(s \o v) = Live(s) \o Live(v)
    BY <2>1, <2>5
  <2>7. s \o u = Append(s \o v, e) /\ s \o v \in Seq(S)
    BY <2>4, AppendJoin
  <2>8. /\ Live(s \o u) = IF IsLive(e) THEN Append(Live(s \o v), e) ELSE Live(s \o v)
        /\ Live(u) = IF IsLive(e) THEN Append(Live(v), e) ELSE Live(v)
    <3>1. Live(Append(s \o v, e)) = IF IsLive(e) THEN Append(Live(s \o v), e) ELSE Live(s \o v)
      BY <2>4, <2>7, LiveAppend
    <3>2. Live(Append(v, e)) = IF IsLive(e) THEN Append(Live(v), e) ELSE Live(v)
      BY <2>4, LiveAppend
    <3> QED BY <2>4, <2>7, <3>1, <3>2
  <2>9. Live(s) \o Append(Live(v), e) = Append(Live(s) \o Live(v), e)
    <3>1. Live(v) \in Seq(S)
      BY LiveSeq
    <3>2. Live(s) \in Seq(S) /\ e \in S
      BY <1>0, <2>4
    <3> HIDE DEF T
    <3> QED BY <3>1, <3>2, AppendJoin
  <2> QED BY <2>2, <2>6, <2>8, <2>9
<1>2. Len(t) \in Nat /\ Len(t) \notin T
  BY <1>1
<1> QED BY <1>2
LEMMA LiveOne ==
    ASSUME NEW e
    PROVE  Live(<<e>>) = IF IsLive(e) THEN <<e>> ELSE <<>>
<1>1. <<>> \in Seq({e}) /\ e \in {e} /\ Append(<<>>, e) = <<e>>
  OBVIOUS
<1>2. Live(Append(<<>>, e)) = IF IsLive(e) THEN Append(Live(<<>>), e) ELSE Live(<<>>)
  BY <1>1, LiveAppend
<1> QED BY <1>1, <1>2, LiveEmpty

\* What lies around a place of a sequence.
IsAround(s, p, a, b) ==
    /\ Len(a) = p - 1 /\ Len(b) = Len(s) - p
    /\ \A i \in 1..(p - 1) : a[i] = s[i]
    /\ \A i \in 1..(Len(s) - p) : b[i] = s[p + i]

LEMMA AroundExists ==
    ASSUME NEW S, NEW s \in Seq(S), NEW p \in 1..Len(s)
    PROVE  \E a, b \in Seq(S) : IsAround(s, p, a, b)
<1>0. Len(s) \in Nat /\ p \in Nat /\ p - 1 \in 0..Len(s) /\ \A i \in 1..Len(s) : s[i] \in S
  OBVIOUS
<1> DEFINE a == SubSeq(s, 1, p - 1)
           b == SubSeq(s, p + 1, Len(s))
<1>1. a \in Seq(S) /\ Len(a) = p - 1 /\ \A i \in 1..(p - 1) : a[i] = s[i]
  BY <1>0, CutFacts
<1>2. /\ b \in Seq(S)
      /\ Len(b) = IF p + 1 <= Len(s) THEN Len(s) - (p + 1) + 1 ELSE 0
      /\ \A i \in 1..(Len(s) - (p + 1) + 1) : b[i] = s[p + 1 + i - 1]
  <2>1. p + 1 \in Int /\ Len(s) \in Int /\ \A i \in (p + 1)..Len(s) : s[i] \in S
    BY <1>0
  <2> QED BY <2>1, SubSeqProperties
<1> HIDE DEF a, b
<1>3. Len(b) = Len(s) - p
  BY <1>0, <1>2
<1>4. \A i \in 1..(Len(s) - p) : b[i] = s[p + i]
  BY <1>0, <1>2
<1> QED BY <1>1, <1>2, <1>3, <1>4 DEF IsAround

\* The sequence is what lies around the place with its element in between.
LEMMA AroundFacts ==
    ASSUME NEW S, NEW s \in Seq(S), NEW p \in 1..Len(s), NEW a \in Seq(S), NEW b \in Seq(S),
           IsAround(s, p, a, b)
    PROVE  s = (a \o <<s[p]>>) \o b /\ \A x \in S : [s EXCEPT ![p] = x] = (a \o <<x>>) \o b
<1>0. Len(s) \in Nat /\ p \in Nat /\ s[p] \in S
  OBVIOUS
<1>1. ASSUME NEW x \in S, NEW t \in Seq(S), Len(t) = Len(s),
             \A i \in 1..Len(s) : t[i] = IF i = p THEN x ELSE s[i]
      PROVE  t = (a \o <<x>>) \o b
  <2> DEFINE m == a \o <<x>>
             u == m \o b
  <2>1. <<x>> \in Seq(S) /\ Len(<<x>>) = 1 /\ <<x>>[1] = x
    OBVIOUS
  <2>2. /\ m \in Seq(S) /\ Len(m) = p
        /\ \A i \in 1..(p - 1) : m[i] = a[i]
        /\ m[p] = x
    <3>1. /\ m \in Seq(S) /\ Len(m) = Len(a) + Len(<<x>>)
          /\ \A i \in 1..Len(a) : m[i] = a[i]
          /\ \A i \in 1..Len(<<x>>) : m[Len(a) + i] = <<x>>[i]
      BY <2>1, JoinFacts
    <3> HIDE DEF m
    <3>2. Len(a) = p - 1
      BY DEF IsAround
    <3>3. m[Len(a) + 1] = x
      BY <2>1, <3>1
    <3>4. p - 1 + 1 = p
      BY <1>0
    <3> QED BY <1>0, <2>1, <3>1, <3>2, <3>3, <3>4
  <2> HIDE DEF m
  <2>3. /\ u \in Seq(S) /\ Len(u) = Len(s)
        /\ \A i \in 1..p : u[i] = m[i]
        /\ \A i \in 1..(Len(s) - p) : u[p + i] = b[i]
    <3>1. /\ u \in Seq(S) /\ Len(u) = Len(m) + Len(b)
          /\ \A i \in 1..Len(m) : u[i] = m[i]
          /\ \A i \in 1..Len(b) : u[Len(m) + i] = b[i]
      <4>1. m \in Seq(S)
        BY <2>2
      <4>2. /\ m \o b \in Seq(S) /\ Len(m \o b) = Len(m) + Len(b)
            /\ \A i \in 1..Len(m) : (m \o b)[i] = m[i]
            /\ \A i \in 1..Len(b) : (m \o b)[Len(m) + i] = b[i]
        BY <4>1, JoinFacts
      <4> QED BY <4>2
    <3> HIDE DEF u
    <3>2. Len(b) = Len(s) - p
      BY DEF IsAround
    <3> QED BY <1>0, <2>2, <3>1, <3>2
  <2> HIDE DEF u
  <2>4. ASSUME NEW i \in 1..Len(s) PROVE u[i] = t[i]
    <3>1. CASE i < p
      <4>1. i \in 1..(p - 1) /\ i \in 1..p /\ i # p
        BY <1>0, <3>1
      <4>2. u[i] = m[i] /\ m[i] = a[i]
        BY <2>2, <2>3, <4>1
      <4>3. a[i] = s[i]
        BY <4>1 DEF IsAround
      <4> QED BY <1>1, <4>1, <4>2, <4>3
    <3>2. CASE i = p
      <4>1. p \in 1..p
        BY <1>0
      <4>2. u[p] = m[p]
        BY <2>3, <4>1
      <4> QED BY <1>1, <2>2, <3>2, <4>2
    <3>3. CASE p < i
      <4> DEFINE j == i - p
      <4>1. j \in 1..(Len(s) - p) /\ p + j = i
        BY <1>0, <3>3
      <4> HIDE DEF j
      <4>2. u[i] = b[j]
        BY <2>3, <4>1
      <4>3. b[j] = s[i]
        BY <4>1 DEF IsAround
      <4> QED BY <1>1, <3>3, <4>2, <4>3
    <3> QED BY <1>0, <3>1, <3>2, <3>3
  <2>5. Len(u) = Len(t)
    BY <1>0, <1>1, <2>3
  <2>6. u = t
    BY <1>1, <2>3, <2>4, <2>5, SeqEqual
  <2> QED BY <2>6 DEF u, m
<1>2. s = (a \o <<s[p]>>) \o b
  BY <1>0, <1>1
<1>3. ASSUME NEW x \in S PROVE [s EXCEPT ![p] = x] = (a \o <<x>>) \o b
  <2> DEFINE t == [s EXCEPT ![p] = x]
  <2>1. /\ t \in Seq(S) /\ Len(t) = Len(s)
        /\ \A i \in 1..Len(s) : t[i] = IF i = p THEN x ELSE s[i]
    <3>1. t \in Seq(S) /\ Len(t) = Len(s)
      BY ExceptSeq
    <3> QED BY <1>0, <3>1
  <2> HIDE DEF t
  <2>2. t = (a \o <<x>>) \o b
    BY <1>1, <2>1
  <2> QED BY <2>2 DEF t
<1> QED BY <1>2, <1>3

\* The live slots, with another slot at a place.
OneLive(e) == IF IsLive(e) THEN <<e>> ELSE <<>>
Splits(s, a, e, b) == \E p \in 1..Len(s) : IsAround(s, p, a, b) /\ s[p] = e

LEMMA LiveSplit ==
    ASSUME NEW S, NEW s \in Seq(S), NEW a \in Seq(S), NEW e \in S, NEW b \in Seq(S), Splits(s, a, e, b)
    PROVE  Live(s) = (Live(a) \o OneLive(e)) \o Live(b)
<1>1. s = (a \o <<e>>) \o b
  <2>1. PICK p \in 1..Len(s) : IsAround(s, p, a, b) /\ s[p] = e
    BY DEF Splits
  <2> QED BY <2>1, AroundFacts
<1>2. <<e>> \in Seq(S) /\ Live(<<e>>) = OneLive(e)
  BY LiveOne DEF OneLive
<1>3. a \o <<e>> \in Seq(S)
  BY <1>2, ConcatProperties
<1>4. Live(a \o <<e>>) = Live(a) \o Live(<<e>>)
  BY <1>2, LiveJoin
<1>5. Live((a \o <<e>>) \o b) = Live(a \o <<e>>) \o Live(b)
  BY <1>3, LiveJoin
<1> QED BY <1>1, <1>2, <1>4, <1>5

\* t is s with an element y replaced by x.
Swaps(s, t, y, x) == \E p \in 1..Len(s) : s[p] = y /\ t = [s EXCEPT ![p] = x]

\* Then the two have the same around them.
LEMMA SwapSplits ==
    ASSUME NEW S, NEW s \in Seq(S), NEW t, NEW y, NEW x \in S, Swaps(s, t, y, x)
    PROVE  /\ t \in Seq(S) /\ Len(t) = Len(s) /\ y \in S
           /\ \E a, b \in Seq(S) : Splits(s, a, y, b) /\ Splits(t, a, x, b)
<1>0. PICK p \in 1..Len(s) : s[p] = y /\ t = [s EXCEPT ![p] = x]
  BY DEF Swaps
<1>1. PICK a \in Seq(S), b \in Seq(S) : IsAround(s, p, a, b)
  BY AroundExists
<1>2. Splits(s, a, y, b) /\ y \in S
  BY <1>0, <1>1 DEF Splits
<1>3. t \in Seq(S) /\ Len(t) = Len(s) /\ \A i \in 1..Len(s) : t[i] = IF i = p THEN x ELSE s[i]
  BY <1>0, ExceptSeq
<1>4. Len(s) \in Nat /\ p \in 1..Len(t) /\ t[p] = x
  BY <1>3
<1>5. ASSUME NEW i \in 1..(p - 1) PROVE a[i] = t[i]
  <2>1. i \in 1..Len(s) /\ i # p
    BY <1>4
  <2> QED BY <1>1, <1>3, <2>1 DEF IsAround
<1>6. ASSUME NEW i \in 1..(Len(s) - p) PROVE b[i] = t[p + i]
  <2>1. p + i \in 1..Len(s) /\ p + i # p
    BY <1>4
  <2> QED BY <1>1, <1>3, <2>1 DEF IsAround
<1>7. IsAround(t, p, a, b)
  BY <1>1, <1>3, <1>5, <1>6 DEF IsAround
<1>8. Splits(t, a, x, b)
  BY <1>4, <1>7 DEF Splits
<1> QED BY <1>2, <1>3, <1>8

\* The live slots are those slots that are live.
LEMMA LiveElements ==
    ASSUME NEW S, NEW s \in Seq(S), NEW e
    PROVE  (\E i \in 1..Len(Live(s)) : Live(s)[i] = e) <=> IsLive(e) /\ \E i \in 1..Len(s) : s[i] = e
<1> DEFINE Holds(u) == (\E i \in 1..Len(Live(u)) : Live(u)[i] = e)
                          <=> IsLive(e) /\ \E i \in 1..Len(u) : u[i] = e
           T == {n \in Nat : \E u \in Seq(S) : Len(u) = n /\ ~Holds(u)}
<1>1. ASSUME T # {} PROVE FALSE
  <2>1. PICK n \in T : \A j \in T : n <= j
    BY <1>1, LeastElement
  <2>2. PICK u \in Seq(S) : Len(u) = n /\ ~Holds(u)
    OBVIOUS
  <2>3. u # <<>>
    <3>1. Len(Live(<<>>)) = 0 /\ Len(<<>>) = 0
      BY LiveEmpty
    <3>2. Holds(<<>>)
      BY <3>1
    <3> QED BY <2>2, <3>2
  <2>4. PICK v \in Seq(S), x \in S : u = Append(v, x) /\ Len(v) = Len(u) - 1
    BY <2>3, LastAppended
  <2>5. Len(v) \in Nat /\ ~ (n <= Len(v))
    BY <2>2, <2>4
  <2>6. Holds(v)
    BY <2>1, <2>5
  <2>7. (\E i \in 1..Len(u) : u[i] = e) <=> x = e \/ \E i \in 1..Len(v) : v[i] = e
    BY <2>4, AppendFacts
  <2>8. Live(v) \in Seq(S)
    BY LiveSeq
  <2>9. Live(u) = IF IsLive(x) THEN Append(Live(v), x) ELSE Live(v)
    BY <2>4, LiveAppend
  <2>10. (\E i \in 1..Len(Append(Live(v), x)) : Append(Live(v), x)[i] = e)
            <=> x = e \/ \E i \in 1..Len(Live(v)) : Live(v)[i] = e
    BY <2>8, AppendFacts
  <2> QED BY <2>2, <2>6, <2>7, <2>9, <2>10
<1>2. Len(s) \in Nat /\ Len(s) \notin T
  BY <1>1
<1> QED BY <1>2
-----------------------------------------------------------------------------
(* What the invariant says of the consumers under way.                      *)

Ops == {"forEach", "computed", "forOf", "pattern", "spread", "groupBy"}
          \cup SetMethods \cup Constructors
Ats == {"step", "next", "body", "close", "return", "ask", "has", "over"}

\* The parts of a world w: keys as they are stored, slots, walks, sources.
StoredKeys(w) == (w.keys \cup {Zero}) \ {NegativeZero}
Slot(w) == {Tombstone} \cup [key : StoredKeys(w), value : w.values \cup {NoValue}]
Walkers(w) == [of : DOMAIN w.kind, idx : 0..MaxSlots, done : BOOLEAN]
Srcs(w) == {Script, Array, Own} \cup {Walk(i) : i \in 1..w.iters}

Frame(w) ==
    [op : Ops, src : Srcs(w), walk : {Nobody} \cup Walkers(w), at : Ats,
     c : {Nobody} \cup DOMAIN w.kind, other : {Nobody, SetLike} \cup DOMAIN w.kind,
     key : {Nobody, "builtin", "patched"} \cup StoredKeys(w),
     todo : Seq(StoredKeys(w)), got : Seq(StoredKeys(w)), left : 0..2, more : BOOLEAN,
     cause : {"none", "stopped", "bodyThrew", "nextThrew", "exhausted"},
     method : {"none", "callable"}, calls : 0..1, answer : {"none"}]

\* Only what may be closed is closed, and only a `return` that was found is
\* called; who has a body, who asks and who walks by itself.
FrameOK(f) ==
    /\ f.at = "return" => f.src = Script /\ f.calls = 1 /\ f.method = "callable"
    /\ f.at # "return" => f.calls = 0 /\ f.method = "none"
    /\ f.at \in {"close", "return"} =>
          /\ f.cause # "none"
          /\ f.cause \in {"bodyThrew", "nextThrew"} => f.op \in Constructors
          /\ f.cause = "exhausted" => f.op = "forOf"
    /\ f.at \notin {"close", "return"} => f.cause = "none"
    /\ f.at = "body" =>
          f.op \in {"forOf", "pattern", "groupBy", "forEach", "computed"} \cup Constructors
    /\ f.at = "next" => f.src # Own
    /\ f.at = "has" => f.todo # <<>>
    /\ f.at \in {"ask", "has"} => f.src = Own /\ f.op \in SetMethods
    /\ f.op \in {"forEach", "computed"} => f.src = Own
    /\ f.op \in {"forOf", "pattern"} => f.src # Own
    /\ f.op = "computed" => f.at = "body"
    /\ f.src = Own /\ f.at \in {"step", "body"} /\ f.op # "computed" => f.walk # Nobody
    /\ f.walk # Nobody => f.src = Own /\ f.op # "computed"

LEMMA AtsHave ==
    /\ "step" \in Ats /\ "next" \in Ats /\ "body" \in Ats /\ "close" \in Ats
    /\ "return" \in Ats /\ "ask" \in Ats /\ "has" \in Ats /\ "over" \in Ats
BY DEF Ats

LEMMA FrameWalks ==
    ASSUME NEW w, NEW f \in Frame(w), NEW n \in Walkers(w), NEW c \in DOMAIN w.kind
    PROVE  [f EXCEPT !.walk = n, !.c = c] \in Frame(w)
BY DEF Frame

LEMMA FrameKeyed ==
    ASSUME NEW w, NEW f \in Frame(w), NEW key \in StoredKeys(w), NEW c \in DOMAIN w.kind
    PROVE  [f EXCEPT !.c = c, !.key = key, !.at = "body"] \in Frame(w)
BY AtsHave DEF Frame

LEMMA FrameGathers ==
    ASSUME NEW w, NEW f \in Frame(w), NEW got \in Seq(StoredKeys(w)),
           NEW walk \in {Nobody} \cup Walkers(w)
    PROVE  [f EXCEPT !.got = got, !.walk = walk] \in Frame(w)
BY DEF Frame

LEMMA FrameAsks ==
    ASSUME NEW w, NEW f \in Frame(w), NEW todo \in Seq(StoredKeys(w))
    PROVE  [f EXCEPT !.todo = todo, !.at = "ask"] \in Frame(w)
BY AtsHave DEF Frame

LEMMA FrameOver ==
    ASSUME NEW w, NEW f \in Frame(w), NEW c \in {Nobody} \cup DOMAIN w.kind,
           NEW other \in {Nobody, SetLike} \cup DOMAIN w.kind
    PROVE  [f EXCEPT !.c = c, !.other = other] \in Frame(w)
BY DEF Frame

\* What is built holds no key twice, and none that is still to be asked for.
GotOK(f) ==
    /\ IsInjective(f.got)
    /\ f.at \in {"ask", "has"} =>
          /\ IsInjective(f.todo)
          /\ \A i \in 1..Len(f.got), j \in 1..Len(f.todo) : f.got[i] # f.todo[j]

Fine(f, w, its) ==
    /\ f \in Frame(w) /\ FrameOK(f) /\ GotOK(f)
    /\ f.op = "computed" => f.c \in DOMAIN w.kind /\ f.key \in StoredKeys(w)
    /\ f.src.kind = "walk" => its[f.src.i] # Nobody

StackOK ==
    /\ stack \in Seq(Frame(World))
    /\ \A d \in 1..Len(stack) : Fine(stack[d], World, iters)

\* How a consumer may end.
AsOwed(f, completion) ==
    f.src = Script /\ ~Differs(f) =>
        /\ f.calls = IF Owed(f) /\ f.method = "callable" THEN 1 ELSE 0
        /\ Owed(f) /\ f.op \notin {"forEach", "computed"} => f.method # "none"
        /\ completion \in Outcome(f)

\* The world stays, and no iterator is lost.
Lasting == setup' = setup /\ \A i \in Iters : iters[i] # Nobody => iters'[i] # Nobody

LEMMA TopFine ==
    ASSUME StackOK, Running
    PROVE  Fine(Top, World, iters) /\ Top \in Frame(World) /\ Len(stack) \in Nat \ {0}
<1>1. stack \in Seq(Frame(World)) /\ stack # <<>>
  BY DEF StackOK, Running
<1>2. Len(stack) \in Nat \ {0} /\ Last(stack) = stack[Len(stack)] /\ Last(stack) \in Frame(World)
  BY <1>1, PopFacts
<1>3. Len(stack) \in 1..Len(stack)
  BY <1>2
<1> QED BY <1>2, <1>3 DEF StackOK, Top

LEMMA FineLasts ==
    ASSUME StackOK, Lasting, NEW d \in 1..Len(stack)
    PROVE  Fine(stack[d], World', iters')
<1> DEFINE f == stack[d]
<1>1. Fine(f, World, iters)
  BY DEF StackOK
<1> HIDE DEF f
<1>2. World' = World
  BY DEF World, Lasting
<1>3. f.src.kind = "walk" => iters'[f.src.i] # Nobody
  <2>1. SUFFICES ASSUME f.src.kind = "walk" PROVE iters'[f.src.i] # Nobody
    OBVIOUS
  <2>2. f.src \in Srcs(World)
    BY <1>1 DEF Fine, Frame
  <2>3. PICK i \in 1..World.iters : f.src = Walk(i)
    BY <2>1, <2>2 DEF Srcs, Script, Array, Own
  <2>4. f.src.i = i
    BY <2>3 DEF Walk
  <2> QED BY <1>1, <2>1, <2>3, <2>4 DEF Fine, Lasting, Iters
<1>4. Fine(f, World', iters')
  BY <1>1, <1>2, <1>3 DEF Fine
<1> QED BY <1>4 DEF f

LEMMA StackStays ==
    ASSUME StackOK, Lasting, stack' = stack
    PROVE  StackOK'
<1>1. World' = World
  BY DEF World, Lasting
<1>2. \A d \in 1..Len(stack) : Fine(stack[d], World', iters')
  BY FineLasts
<1> QED BY <1>1, <1>2 DEF StackOK

LEMMA FrontOK ==
    ASSUME StackOK, Running, Lasting
    PROVE  /\ Front(stack) \in Seq(Frame(World')) /\ Len(Front(stack)) \in Nat
           /\ \A d \in 1..Len(Front(stack)) : Fine(Front(stack)[d], World', iters')
<1>1. stack \in Seq(Frame(World)) /\ stack # <<>>
  BY DEF StackOK, Running
<1>2. /\ Len(stack) \in Nat \ {0} /\ Front(stack) \in Seq(Frame(World))
      /\ Len(Front(stack)) = Len(stack) - 1
      /\ \A i \in 1..(Len(stack) - 1) : Front(stack)[i] = stack[i]
  BY <1>1, PopFacts
<1>3. World' = World
  BY DEF World, Lasting
<1>4. ASSUME NEW d \in 1..(Len(stack) - 1) PROVE Fine(Front(stack)[d], World', iters')
  <2>1. d \in 1..Len(stack)
    BY <1>2
  <2>2. Fine(stack[d], World', iters')
    BY <2>1, FineLasts
  <2> QED BY <1>2, <2>2
<1> QED BY <1>2, <1>3, <1>4

LEMMA PushOK ==
    ASSUME NEW w, NEW its, NEW s \in Seq(Frame(w)), NEW f, Fine(f, w, its),
           \A d \in 1..Len(s) : Fine(s[d], w, its)
    PROVE  /\ Append(s, f) \in Seq(Frame(w))
           /\ \A d \in 1..Len(Append(s, f)) : Fine(Append(s, f)[d], w, its)
<1>1. f \in Frame(w)
  BY DEF Fine
<1>2. /\ Append(s, f) \in Seq(Frame(w)) /\ Len(Append(s, f)) = Len(s) + 1
      /\ Len(s) \in Nat /\ Append(s, f)[Len(s) + 1] = f
      /\ \A i \in 1..Len(s) : Append(s, f)[i] = s[i]
  BY <1>1, AppendFacts
<1>3. ASSUME NEW d \in 1..(Len(s) + 1) PROVE Fine(Append(s, f)[d], w, its)
  <2>1. CASE d = Len(s) + 1
    BY <1>2, <2>1
  <2>2. CASE d # Len(s) + 1
    <3>1. d \in 1..Len(s)
      BY <1>2, <2>2
    <3> QED BY <1>2, <3>1
  <2> QED BY <2>1, <2>2
<1> QED BY <1>2, <1>3

LEMMA BecomeOK ==
    ASSUME StackOK, Running, Lasting, NEW f, Fine(f, World, iters'), Become(f)
    PROVE  StackOK' /\ ClosedAsOwed'
<1>1. World' = World
  BY DEF World, Lasting
<1>2. Fine(f, World', iters')
  BY <1>1
<1>3. /\ Front(stack) \in Seq(Frame(World'))
      /\ \A d \in 1..Len(Front(stack)) : Fine(Front(stack)[d], World', iters')
  BY FrontOK
<1>4. stack' = Append(Front(stack), f) /\ ended' = Nobody
  BY DEF Become
<1>5. StackOK'
  BY <1>2, <1>3, <1>4, PushOK DEF StackOK
<1> QED BY <1>4, <1>5 DEF ClosedAsOwed

LEMMA BeginOK ==
    ASSUME StackOK, Lasting, NEW f, Fine(f, World, iters'), Begin(f)
    PROVE  StackOK' /\ ClosedAsOwed'
<1>1. World' = World
  BY DEF World, Lasting
<1>2. Fine(f, World', iters')
  BY <1>1
<1>3. /\ stack \in Seq(Frame(World'))
      /\ \A d \in 1..Len(stack) : Fine(stack[d], World', iters')
  BY <1>1, FineLasts DEF StackOK
<1>4. stack' = Append(stack, f) /\ ended' = Nobody
  BY DEF Begin
<1>5. StackOK'
  BY <1>2, <1>3, <1>4, PushOK DEF StackOK
<1> QED BY <1>4, <1>5 DEF ClosedAsOwed

LEMMA EndOK ==
    ASSUME StackOK, Running, Lasting, NEW f, NEW completion, AsOwed(f, completion),
           End(f, completion)
    PROVE  StackOK' /\ ClosedAsOwed'
<1>1. /\ Front(stack) \in Seq(Frame(World'))
      /\ \A d \in 1..Len(Front(stack)) : Fine(Front(stack)[d], World', iters')
  BY FrontOK
<1>2. stack' = Front(stack)
  BY DEF End
<1>3. StackOK'
  BY <1>1, <1>2 DEF StackOK
<1> DEFINE e == ended'
<1>4. /\ e.op = f.op /\ e.src = f.src /\ e.cause = f.cause /\ e.method = f.method
      /\ e.calls = f.calls /\ e.answer = f.answer /\ e.completion = completion
  BY DEF End
<1> HIDE DEF e
<1>5. /\ Differs(e) <=> Differs(f)
      /\ Owed(e) <=> Owed(f)
      /\ Outcome(e) = Outcome(f)
  BY <1>4 DEF Differs, Owed, Outcome
<1>6. /\ e # Nobody /\ e.src = Script /\ ~Differs(e) =>
            /\ e.calls = IF Owed(e) /\ e.method = "callable" THEN 1 ELSE 0
            /\ Owed(e) /\ e.op \notin {"forEach", "computed"} => e.method # "none"
            /\ e.completion \in Outcome(e)
  BY <1>4, <1>5 DEF AsOwed
<1> QED BY <1>3, <1>6 DEF ClosedAsOwed, Differs, Owed, Outcome, e
-----------------------------------------------------------------------------
(* Sequences without repetition, and taking an element out of one.          *)

LEMMA MinFacts ==
    ASSUME NEW S \in SUBSET Nat, S # {}
    PROVE  Min(S) \in S /\ \A y \in S : Min(S) <= y
<1>1. PICK m \in S : \A y \in S : m <= y
  BY LeastElement
<1> QED BY <1>1 DEF Min

\* Taking an element out leaves what lies around it.
LEMMA RemoveAtFacts ==
    ASSUME NEW S, NEW s \in Seq(S), NEW p \in 1..Len(s)
    PROVE  /\ RemoveAt(s, p) \in Seq(S)
           /\ \E a, b \in Seq(S) : IsAround(s, p, a, b) /\ RemoveAt(s, p) = a \o b
<1>0. Len(s) \in Nat /\ p \in Nat /\ p - 1 \in 0..Len(s) /\ \A i \in 1..Len(s) : s[i] \in S
  OBVIOUS
<1> DEFINE a == SubSeq(s, 1, p - 1)
           b == SubSeq(s, p + 1, Len(s))
<1>1. a \in Seq(S) /\ Len(a) = p - 1 /\ \A i \in 1..(p - 1) : a[i] = s[i]
  BY <1>0, CutFacts
<1>2. /\ b \in Seq(S)
      /\ Len(b) = IF p + 1 <= Len(s) THEN Len(s) - (p + 1) + 1 ELSE 0
      /\ \A i \in 1..(Len(s) - (p + 1) + 1) : b[i] = s[p + 1 + i - 1]
  <2>1. p + 1 \in Int /\ Len(s) \in Int /\ \A i \in (p + 1)..Len(s) : s[i] \in S
    BY <1>0
  <2> QED BY <2>1, SubSeqProperties
<1>3. RemoveAt(s, p) = a \o b
  BY DEF RemoveAt
<1> HIDE DEF a, b
<1>4. Len(b) = Len(s) - p
  BY <1>0, <1>2
<1>5. \A i \in 1..(Len(s) - p) : b[i] = s[p + i]
  BY <1>0, <1>2
<1>6. IsAround(s, p, a, b)
  BY <1>1, <1>4, <1>5 DEF IsAround
<1>7. a \o b \in Seq(S)
  BY <1>1, <1>2, ConcatProperties
<1> QED BY <1>1, <1>2, <1>3, <1>6, <1>7

\* Its elements, by place.
LEMMA RemoveAtElements ==
    ASSUME NEW S, NEW s \in Seq(S), NEW p \in 1..Len(s)
    PROVE  /\ RemoveAt(s, p) \in Seq(S) /\ Len(RemoveAt(s, p)) = Len(s) - 1
           /\ \A i \in 1..(p - 1) : RemoveAt(s, p)[i] = s[i]
           /\ \A i \in p..(Len(s) - 1) : RemoveAt(s, p)[i] = s[i + 1]
<1>0. Len(s) \in Nat /\ p \in Nat
  OBVIOUS
<1>1. PICK a \in Seq(S), b \in Seq(S) : IsAround(s, p, a, b) /\ RemoveAt(s, p) = a \o b
  BY RemoveAtFacts
<1>2. /\ a \o b \in Seq(S) /\ Len(a \o b) = Len(a) + Len(b)
      /\ \A i \in 1..Len(a) : (a \o b)[i] = a[i]
      /\ \A i \in 1..Len(b) : (a \o b)[Len(a) + i] = b[i]
  BY JoinFacts
<1>3. /\ Len(a) = p - 1 /\ Len(b) = Len(s) - p
      /\ \A i \in 1..(p - 1) : a[i] = s[i]
      /\ \A i \in 1..(Len(s) - p) : b[i] = s[p + i]
  BY <1>1 DEF IsAround
<1>4. Len(a \o b) = Len(s) - 1
  BY <1>0, <1>2, <1>3
<1>5. \A i \in 1..(p - 1) : (a \o b)[i] = s[i]
  BY <1>2, <1>3
<1>6. ASSUME NEW i \in p..(Len(s) - 1) PROVE (a \o b)[i] = s[i + 1]
  <2> DEFINE j == i - (p - 1)
  <2>1. j \in 1..(Len(s) - p) /\ p - 1 + j = i /\ p + j = i + 1
    BY <1>0
  <2> HIDE DEF j
  <2>2. (a \o b)[p - 1 + j] = b[j]
    BY <1>2, <1>3, <2>1
  <2>3. b[j] = s[p + j]
    BY <1>3, <2>1
  <2> QED BY <2>1, <2>2, <2>3
<1> QED BY <1>1, <1>2, <1>4, <1>5, <1>6

LEMMA InjectiveAppend ==
    ASSUME NEW S, NEW s \in Seq(S), NEW e \in S, IsInjective(s), ~Contains(s, e)
    PROVE  Append(s, e) \in Seq(S) /\ IsInjective(Append(s, e))
<1>1. /\ Append(s, e) \in Seq(S) /\ Len(Append(s, e)) = Len(s) + 1
      /\ Len(s) \in Nat /\ Append(s, e)[Len(s) + 1] = e
      /\ \A i \in 1..Len(s) : Append(s, e)[i] = s[i]
  BY AppendFacts
<1>2. DOMAIN Append(s, e) = 1..(Len(s) + 1) /\ DOMAIN s = 1..Len(s)
  BY <1>1
<1> QED BY <1>1, <1>2 DEF IsInjective, Contains

LEMMA InjectiveRemoveAt ==
    ASSUME NEW S, NEW s \in Seq(S), NEW p \in 1..Len(s), IsInjective(s)
    PROVE  RemoveAt(s, p) \in Seq(S) /\ IsInjective(RemoveAt(s, p))
<1> DEFINE t == RemoveAt(s, p)
<1>0. Len(s) \in Nat /\ p \in Nat
  OBVIOUS
<1>1. /\ t \in Seq(S) /\ Len(t) = Len(s) - 1
      /\ \A i \in 1..(p - 1) : t[i] = s[i]
      /\ \A i \in p..(Len(s) - 1) : t[i] = s[i + 1]
  BY RemoveAtElements
<1> HIDE DEF t
<1>2. DOMAIN t = 1..(Len(s) - 1) /\ DOMAIN s = 1..Len(s)
  BY <1>0, <1>1
<1>3. ASSUME NEW i \in 1..(Len(s) - 1)
      PROVE  t[i] = s[IF i < p THEN i ELSE i + 1] /\ (IF i < p THEN i ELSE i + 1) \in 1..Len(s)
  BY <1>0, <1>1
<1>4. ASSUME NEW i \in 1..(Len(s) - 1), NEW j \in 1..(Len(s) - 1), t[i] = t[j] PROVE i = j
  <2> DEFINE m == IF i < p THEN i ELSE i + 1
             n == IF j < p THEN j ELSE j + 1
  <2>1. t[i] = s[m] /\ t[j] = s[n] /\ m \in 1..Len(s) /\ n \in 1..Len(s)
    BY <1>3
  <2>2. m = n
    BY <1>2, <1>4, <2>1 DEF IsInjective
  <2> QED BY <1>0, <2>2
<1>5. IsInjective(t)
  BY <1>2, <1>4 DEF IsInjective
<1> QED BY <1>1, <1>5 DEF t

LEMMA InjectiveRemoveFirst ==
    ASSUME NEW S, NEW s \in Seq(S), NEW e, IsInjective(s)
    PROVE  RemoveFirst(s, e) \in Seq(S) /\ IsInjective(RemoveFirst(s, e))
<1> DEFINE I == {i \in 1..Len(s) : s[i] = e}
<1>1. CASE I = {}
  <2>1. RemoveFirst(s, e) = s
    BY <1>1 DEF RemoveFirst
  <2> QED BY <2>1
<1>2. CASE I # {}
  <2>1. I \in SUBSET Nat
    OBVIOUS
  <2>2. Min(I) \in I
    BY <1>2, <2>1, MinFacts
  <2>3. SelectInSeq(s, LAMBDA v : v = e) = Min(I)
    BY <1>2 DEF SelectInSeq
  <2>4. RemoveFirst(s, e) = RemoveAt(s, Min(I))
    BY <1>2, <2>3 DEF RemoveFirst
  <2> HIDE DEF I
  <2>5. Min(I) \in 1..Len(s)
    BY <2>2 DEF I
  <2> QED BY <2>4, <2>5, InjectiveRemoveAt
<1> QED BY <1>1, <1>2

\* What a set method collects holds no key twice.
LEMMA CollectedOK ==
    ASSUME IterationAssumption, NEW w \in DOMAIN Setup, NEW f, f.got \in Seq(StoredKeys(Setup[w])),
           IsInjective(f.got), f.op \in SetMethods \ Predicates, NEW key \in Setup[w].keys \cup {Zero}
    PROVE  Collected(f, key) \in Seq(StoredKeys(Setup[w])) /\ IsInjective(Collected(f, key))
<1> DEFINE k == MapKey(key)
           K == StoredKeys(Setup[w])
           R == RemoveFirst(f.got, k)
           A == Append(f.got, k)
<1>1. k \in K
  BY DEF MapKey, StoredKeys, IterationAssumption
<1>2. /\ R \in Seq(K) /\ IsInjective(R)
      /\ ~Contains(f.got, k) => A \in Seq(K) /\ IsInjective(A)
  <2> HIDE DEF k, K
  <2>1. R \in Seq(K) /\ IsInjective(R)
    BY InjectiveRemoveFirst DEF K
  <2>2. ~Contains(f.got, k) => A \in Seq(K) /\ IsInjective(A)
    BY <1>1, InjectiveAppend DEF K
  <2> QED BY <2>1, <2>2
<1>3. f.op \in {"union", "intersection", "difference", "symmetricDifference"}
  BY DEF SetMethods, Predicates
<1>4. Collected(f, key) \in {f.got, R} \/ (Collected(f, key) = A /\ ~Contains(f.got, k))
  BY <1>3 DEF Collected
<1> HIDE DEF k, K, R, A
<1> QED BY <1>2, <1>4 DEF K
-----------------------------------------------------------------------------
(* What a step of a consumer does to the stack.                             *)

Kept == StackOK' /\ ClosedAsOwed'

\* A consumer in the middle of its work, not in a body or closing.
Mid(f, w, its) ==
    /\ f \in Frame(w) /\ f.calls = 0 /\ f.method = "none" /\ f.cause = "none"
    /\ f.op # "computed"
    /\ f.op = "forEach" => f.src = Own
    /\ f.op \in {"forOf", "pattern"} => f.src # Own
    /\ f.src = Own <=> f.walk # Nobody
    /\ IsInjective(f.got)
    /\ f.src.kind = "walk" => its[f.src.i] # Nobody

LEMMA AgainOK ==
    ASSUME StackOK, Running, Lasting, NEW f, Mid(f, World, iters'), Again(f)
    PROVE  Kept
<1> DEFINE g == [f EXCEPT !.at = "step"]
<1>1. f \in Frame(World)
  BY DEF Mid
<1>2. g \in Frame(World)
  BY <1>1, AtsHave DEF Frame
<1>3. /\ g.at = "step" /\ g.op = f.op /\ g.src = f.src /\ g.walk = f.walk /\ g.c = f.c
      /\ g.got = f.got /\ g.cause = f.cause /\ g.method = f.method /\ g.calls = f.calls
  BY <1>1 DEF Frame
<1>4. Become(g)
  BY DEF Again
<1> HIDE DEF g
<1>5. FrameOK(g) /\ GotOK(g)
  BY <1>3 DEF FrameOK, GotOK, Mid
<1>6. Fine(g, World, iters')
  BY <1>2, <1>3, <1>5 DEF Fine, Mid
<1> QED BY <1>4, <1>6, BecomeOK DEF Kept

LEMMA BodyOK ==
    ASSUME StackOK, Running, Lasting, NEW f, Mid(f, World, iters'),
           f.op \in {"forOf", "pattern", "groupBy", "forEach"} \cup Constructors,
           Become([f EXCEPT !.at = "body"])
    PROVE  Kept
<1> DEFINE g == [f EXCEPT !.at = "body"]
<1>1. f \in Frame(World)
  BY DEF Mid
<1>2. g \in Frame(World)
  BY <1>1, AtsHave DEF Frame
<1>3. /\ g.at = "body" /\ g.op = f.op /\ g.src = f.src /\ g.walk = f.walk /\ g.c = f.c
      /\ g.got = f.got /\ g.cause = f.cause /\ g.method = f.method /\ g.calls = f.calls
  BY <1>1 DEF Frame
<1>4. Become(g)
  OBVIOUS
<1> HIDE DEF g
<1>5. FrameOK(g) /\ GotOK(g)
  BY <1>3 DEF FrameOK, GotOK, Mid
<1>6. Fine(g, World, iters')
  BY <1>2, <1>3, <1>5 DEF Fine, Mid
<1> QED BY <1>4, <1>6, BecomeOK DEF Kept

LEMMA ClosingOK ==
    ASSUME StackOK, Running, Lasting, NEW f, Mid(f, World, iters'),
           NEW cause \in {"stopped", "bodyThrew", "nextThrew", "exhausted"},
           cause \in {"bodyThrew", "nextThrew"} => f.op \in Constructors,
           cause = "exhausted" => f.op = "forOf", Closing(f, cause)
    PROVE  Kept
<1> DEFINE g == [f EXCEPT !.at = "close", !.cause = cause]
<1>1. f \in Frame(World)
  BY DEF Mid
<1>2. g \in Frame(World)
  BY <1>1, AtsHave DEF Frame
<1>3. /\ g.at = "close" /\ g.op = f.op /\ g.src = f.src /\ g.walk = f.walk /\ g.c = f.c
      /\ g.got = f.got /\ g.cause = cause /\ g.method = f.method /\ g.calls = f.calls
  BY <1>1 DEF Frame
<1>4. Become(g)
  BY DEF Closing
<1> HIDE DEF g
<1>5. FrameOK(g) /\ GotOK(g)
  BY <1>3 DEF FrameOK, GotOK, Mid
<1>6. Fine(g, World, iters')
  BY <1>2, <1>3, <1>5 DEF Fine, Mid
<1> QED BY <1>4, <1>6, BecomeOK DEF Kept

\* A consumer that ends without closing.
LEMMA AbandonOK ==
    ASSUME StackOK, Running, Lasting, NEW f, f \in Frame(World), f.calls = 0, f.method = "none",
           NEW cause \in {"stopped", "bodyThrew", "nextThrew", "exhausted", "left"},
           \/ cause = "exhausted"
           \/ cause = "nextThrew" /\ f.op \notin Constructors
           \/ f.src # Script
           \/ cause = "bodyThrew" /\ f.op \in {"forOf", "pattern", "groupBy"}
           \/ cause = "left" /\ f.op = "forOf",
           Abandon(f, cause)
    PROVE  Kept
<1> DEFINE g == [f EXCEPT !.cause = cause]
           how == CASE g.cause \in {"nextThrew", "bodyThrew", "left"} -> g.cause
                    [] g.cause = "stopped" /\ g.op \in Predicates -> "false"
                    [] g.cause = "exhausted" /\ g.op \in Predicates -> "true"
                    [] OTHER -> "normal"
<1>1. f.answer = "none"
  BY DEF Frame
<1>2. /\ g.op = f.op /\ g.src = f.src /\ g.cause = cause /\ g.method = f.method
      /\ g.calls = f.calls /\ g.answer = f.answer
  BY DEF Frame
<1>3. End(g, how)
  BY DEF Abandon, Finish
<1> HIDE DEF g
<1>4. g.src = Script /\ ~Differs(g) =>
         \/ cause = "exhausted" /\ how \in {"true", "normal"}
         \/ cause = "nextThrew" /\ how = "nextThrew"
  BY <1>2 DEF Differs
<1>5. AsOwed(g, how)
  BY <1>1, <1>2, <1>4 DEF AsOwed, Owed, Outcome
<1> HIDE DEF how
<1> QED BY <1>3, <1>5, EndOK DEF Kept

LEMMA ExhaustedOK ==
    ASSUME StackOK, Running, Lasting, NEW f, Mid(f, World, iters'), Exhausted(f)
    PROVE  Kept
<1>0. f \in Frame(World) /\ f.calls = 0 /\ f.method = "none"
  BY DEF Mid
<1>1. CASE f.op = "forOf"
  <2>1. Closing(f, "exhausted")
    BY <1>1 DEF Exhausted, Mid
  <2> QED BY <1>1, <2>1, ClosingOK
<1>2. CASE f.op = "pattern"
  <2> DEFINE h == [f EXCEPT !.more = FALSE]
  <2>1. Become([f EXCEPT !.more = FALSE, !.at = "body"])
    BY <1>2 DEF Exhausted, Mid
  <2>2. [f EXCEPT !.more = FALSE, !.at = "body"] = [h EXCEPT !.at = "body"]
    OBVIOUS
  <2>3. h \in Frame(World)
    BY <1>0 DEF Frame
  <2>4. /\ h.op = f.op /\ h.src = f.src /\ h.walk = f.walk /\ h.c = f.c
        /\ h.got = f.got /\ h.cause = f.cause /\ h.method = f.method /\ h.calls = f.calls
    BY <1>0 DEF Frame
  <2> HIDE DEF h
  <2>5. Mid(h, World, iters')
    BY <2>3, <2>4 DEF Mid
  <2> QED BY <1>2, <2>1, <2>2, <2>4, <2>5, BodyOK
<1>3. CASE f.op \notin {"forOf", "pattern"} /\ f.src = Own
  <2> DEFINE g == [f EXCEPT !.at = "over"]
  <2>1. Become(g)
    BY <1>3 DEF Exhausted
  <2>2. g \in Frame(World)
    BY <1>0, AtsHave DEF Frame
  <2>3. /\ g.at = "over" /\ g.op = f.op /\ g.src = f.src /\ g.walk = f.walk /\ g.c = f.c
        /\ g.got = f.got /\ g.cause = f.cause /\ g.method = f.method /\ g.calls = f.calls
    BY <1>0 DEF Frame
  <2> HIDE DEF g
  <2>4. FrameOK(g) /\ GotOK(g)
    BY <2>3 DEF FrameOK, GotOK, Mid
  <2>5. Fine(g, World, iters')
    BY <2>2, <2>3, <2>4 DEF Fine, Mid
  <2> QED BY <2>1, <2>5, BecomeOK DEF Kept
<1>4. CASE f.op \notin {"forOf", "pattern"} /\ f.src # Own
  <2>1. Abandon(f, "exhausted")
    BY <1>4 DEF Exhausted
  <2> QED BY <1>0, <2>1, AbandonOK
<1> QED BY <1>1, <1>2, <1>3, <1>4

LEMMA FailedOK ==
    ASSUME StackOK, Running, Lasting, NEW f, Mid(f, World, iters'), Failed(f)
    PROVE  Kept
<1>0. f \in Frame(World) /\ f.calls = 0 /\ f.method = "none"
  BY DEF Mid
<1>1. CASE f.op \in Constructors
  <2>1. Closing(f, "nextThrew")
    BY <1>1 DEF Failed
  <2> QED BY <1>1, <2>1, ClosingOK
<1>2. CASE f.op \notin Constructors
  <2>1. Abandon(f, "nextThrew")
    BY <1>2 DEF Failed
  <2> QED BY <1>0, <1>2, <2>1, AbandonOK
<1> QED BY <1>1, <1>2

LEMMA TakeOK ==
    ASSUME IterationAssumption, setup \in DOMAIN Setup, StackOK, Running, Lasting,
           NEW f, Mid(f, World, iters'), NEW key \in World.keys \cup {Zero}, Take(f, key)
    PROVE  Kept
<1>0. f \in Frame(World) /\ f.op \in Ops /\ f.op # "computed"
  BY DEF Mid, Frame
<1>1. CASE f.op \in {"forOf", "pattern", "groupBy", "forEach"}
  <2>1. Become([f EXCEPT !.at = "body"])
    BY <1>1 DEF Take, SetMethods, Predicates, Constructors
  <2> QED BY <1>1, <2>1, BodyOK
<1>2. CASE f.op = "spread"
  <2>1. Again(f)
    BY <1>2 DEF Take, SetMethods, Predicates, Constructors
  <2> QED BY <2>1, AgainOK
<1>3. CASE f.op \in Constructors
  <2>1. TakeItem(f)
    BY <1>3 DEF Take, SetMethods, Predicates, Constructors
  <2>2. CASE Become([f EXCEPT !.at = "body"])
    BY <1>3, <2>2, BodyOK
  <2>3. CASE Again(f)
    BY <2>3, AgainOK
  <2>4. CASE Closing(f, "bodyThrew")
    BY <1>3, <2>4, ClosingOK
  <2> QED BY <2>1, <2>2, <2>3, <2>4 DEF TakeItem
<1>4. CASE f.op \in SetMethods \ Predicates
  <2> DEFINE h == [f EXCEPT !.got = Collected(f, key)]
  <2>1. Again(h)
    BY <1>4 DEF Take, SetMethods, Predicates, Constructors
  <2>2. Collected(f, key) \in Seq(StoredKeys(World)) /\ IsInjective(Collected(f, key))
    <3>1. f.got \in Seq(StoredKeys(Setup[setup])) /\ IsInjective(f.got)
      BY <1>0 DEF Frame, Mid, World
    <3> QED BY <1>4, <3>1, CollectedOK DEF World
  <2>3. h \in Frame(World)
    BY <1>0, <2>2 DEF Frame
  <2>4. /\ h.op = f.op /\ h.src = f.src /\ h.walk = f.walk /\ h.c = f.c
        /\ h.got = Collected(f, key) /\ h.cause = f.cause /\ h.method = f.method
        /\ h.calls = f.calls
    BY <1>0 DEF Frame
  <2> HIDE DEF h
  <2>5. Mid(h, World, iters')
    BY <2>2, <2>3, <2>4 DEF Mid
  <2> QED BY <2>1, <2>5, AgainOK
<1>5. CASE f.op \in Predicates
  <2>1. IF Settles(f, key) THEN Closing(f, "stopped") ELSE Again(f)
    BY <1>5 DEF Take, SetMethods, Predicates, Constructors
  <2>2. CASE Closing(f, "stopped")
    BY <2>2, ClosingOK
  <2>3. CASE Again(f)
    BY <2>3, AgainOK
  <2> QED BY <2>1, <2>2, <2>3
<1> QED BY <1>0, <1>1, <1>2, <1>3, <1>4, <1>5 DEF Ops
-----------------------------------------------------------------------------
(* Collections hold each key at most once.                                  *)

UniqueKeys(s) ==
    \A i, j \in 1..Len(s) : IsLive(s[i]) /\ IsLive(s[j]) /\ s[i].key = s[j].key => i = j

Distinct(s) == \A i, j \in 1..Len(s) : s[i].key = s[j].key => i = j

LEMMA LiveUnique ==
    ASSUME NEW S, NEW s \in Seq(S), UniqueKeys(s)
    PROVE  Distinct(Live(s))
<1> DEFINE T == {n \in Nat : \E u \in Seq(S) : Len(u) = n /\ UniqueKeys(u) /\ ~Distinct(Live(u))}
<1>1. ASSUME T # {} PROVE FALSE
  <2>1. PICK n \in T : \A j \in T : n <= j
    BY <1>1, LeastElement
  <2>2. PICK u \in Seq(S) : Len(u) = n /\ UniqueKeys(u) /\ ~Distinct(Live(u))
    OBVIOUS
  <2>3. u # <<>>
    <3>1. Len(Live(<<>>)) = 0
      BY LiveEmpty
    <3>2. Distinct(Live(<<>>))
      BY <3>1 DEF Distinct
    <3> QED BY <2>2, <3>2
  <2>4. PICK v \in Seq(S), x \in S : u = Append(v, x) /\ Len(v) = Len(u) - 1
    BY <2>3, LastAppended
  <2>5. Len(v) \in Nat /\ ~ (n <= Len(v)) /\ Len(u) = Len(v) + 1
    BY <2>2, <2>4
  <2>6. u[Len(v) + 1] = x /\ \A i \in 1..Len(v) : u[i] = v[i]
    BY <2>4, AppendFacts
  <2>7. UniqueKeys(v)
    BY <2>2, <2>5, <2>6 DEF UniqueKeys
  <2>8. Distinct(Live(v))
    BY <2>1, <2>5, <2>7
  <2>9. Live(v) \in Seq(S)
    BY LiveSeq
  <2>10. CASE ~IsLive(x)
    <3>1. Live(u) = Live(v)
      BY <2>4, <2>10, LiveAppend
    <3> QED BY <2>2, <2>8, <3>1
  <2>11. CASE IsLive(x)
    <3> DEFINE l == Live(v)
               m == Append(l, x)
    <3>1. Live(u) = m
      BY <2>4, <2>11, LiveAppend
    <3>2. ASSUME NEW i \in 1..Len(l) PROVE l[i].key # x.key
      <4>1. PICK j \in 1..Len(v) : v[j] = l[i] /\ IsLive(l[i])
        BY LiveElements
      <4>2. j \in 1..Len(u) /\ Len(u) \in 1..Len(u) /\ j # Len(u)
        BY <2>5
      <4>3. u[j] = l[i] /\ u[Len(u)] = x
        BY <2>5, <2>6, <4>1
      <4> QED BY <2>2, <2>11, <4>1, <4>2, <4>3 DEF UniqueKeys
    <3> HIDE DEF l
    <3>3. l \in Seq(S) /\ Distinct(l)
      BY <2>8, <2>9 DEF l
    <3>4. /\ Len(m) = Len(l) + 1 /\ Len(l) \in Nat /\ m[Len(l) + 1] = x
          /\ \A i \in 1..Len(l) : m[i] = l[i]
      BY <3>3, AppendFacts
    <3>5. Distinct(m)
      <4> HIDE DEF m
      <4> SUFFICES ASSUME NEW i \in 1..Len(m), NEW j \in 1..Len(m), m[i].key = m[j].key
                   PROVE  i = j
        BY DEF Distinct
      <4>1. i \in 1..Len(l) \/ i = Len(l) + 1
        BY <3>4
      <4>2. j \in 1..Len(l) \/ j = Len(l) + 1
        BY <3>4
      <4> QED BY <3>2, <3>3, <3>4, <4>1, <4>2 DEF Distinct
    <3> QED BY <2>2, <3>1, <3>5
  <2> QED BY <2>10, <2>11
<1>2. Len(s) \in Nat /\ Len(s) \notin T
  BY <1>1
<1> QED BY <1>2

LEMMA KeysFacts ==
    ASSUME NEW w, NEW s \in Seq(Slot(w)), UniqueKeys(s)
    PROVE  KeysOf(s) \in Seq(StoredKeys(w)) /\ IsInjective(KeysOf(s))
<1> DEFINE l == Live(s)
<1>1. l \in Seq(Slot(w)) /\ Distinct(l) /\ Len(l) \in Nat
  BY LiveSeq, LiveUnique
<1>2. \A i \in 1..Len(l) : l[i] # Tombstone /\ l[i] \in Slot(w)
  <2> TAKE i \in 1..Len(l)
  <2>1. IsLive(l[i])
    BY LiveElements
  <2> HIDE DEF l
  <2> QED BY <1>1, <2>1 DEF IsLive
<1> DEFINE k == KeysOf(s)
<1>3. k = [i \in 1..Len(l) |-> l[i].key]
  BY DEF KeysOf, Size
<1> HIDE DEF l, k
<1>4. \A i \in 1..Len(l) : l[i].key \in StoredKeys(w)
  BY <1>2 DEF Slot
<1>5. k \in [1..Len(l) -> StoredKeys(w)]
  BY <1>3, <1>4
<1>6. k \in Seq(StoredKeys(w))
  BY <1>1, <1>5
<1>7. IsInjective(k)
  BY <1>1, <1>3 DEF IsInjective, Distinct
<1> QED BY <1>6, <1>7 DEF k

\* Looking a key up finds its slot.
LEMMA IndexFacts ==
    ASSUME NEW S, NEW s \in Seq(S), NEW key
    PROVE  /\ Has(s, key) =>
                 /\ IndexOf(s, key) \in 1..Len(s) /\ IsLive(s[IndexOf(s, key)])
                 /\ s[IndexOf(s, key)].key = MapKey(key)
           /\ ~Has(s, key) => \A i \in 1..Len(s) : ~(IsLive(s[i]) /\ s[i].key = MapKey(key))
<1> DEFINE I == {i \in 1..Len(s) : IsLive(s[i]) /\ s[i].key = MapKey(key)}
<1>1. IndexOf(s, key) = IF I # {} THEN Min(I) ELSE 0
  BY DEF IndexOf, SelectInSeq
<1>2. CASE I = {}
  BY <1>1, <1>2 DEF Has, NotFound
<1>3. CASE I # {}
  <2>1. I \in SUBSET Nat
    OBVIOUS
  <2>2. Min(I) \in I
    BY <1>3, <2>1, MinFacts
  <2>3. IndexOf(s, key) \in I
    BY <1>1, <1>3, <2>2
  <2>4. Has(s, key)
    BY <2>3 DEF Has, NotFound
  <2> QED BY <2>3, <2>4
<1> QED BY <1>2, <1>3

LEMMA ReplaceUnique ==
    ASSUME NEW S, NEW s \in Seq(S), UniqueKeys(s), NEW p \in 1..Len(s), NEW x \in S,
           IsLive(x) => IsLive(s[p]) /\ s[p].key = x.key
    PROVE  LET t == [s EXCEPT ![p] = x] IN t \in Seq(S) /\ UniqueKeys(t) /\ Len(t) = Len(s)
<1> DEFINE t == [s EXCEPT ![p] = x]
<1>1. t \in Seq(S) /\ Len(t) = Len(s) /\ \A i \in 1..Len(s) : t[i] = IF i = p THEN x ELSE s[i]
  BY ExceptSeq
<1> HIDE DEF t
<1>2. UniqueKeys(t)
  <2> SUFFICES ASSUME NEW i \in 1..Len(s), NEW j \in 1..Len(s), IsLive(t[i]), IsLive(t[j]),
                      t[i].key = t[j].key
               PROVE  i = j
    BY <1>1 DEF UniqueKeys
  <2>1. IsLive(s[i]) /\ t[i].key = s[i].key
    BY <1>1
  <2>2. IsLive(s[j]) /\ t[j].key = s[j].key
    BY <1>1
  <2> QED BY <2>1, <2>2 DEF UniqueKeys
<1> QED BY <1>1, <1>2 DEF t

LEMMA AppendUnique ==
    ASSUME NEW S, NEW s \in Seq(S), UniqueKeys(s), NEW x \in S,
           \A i \in 1..Len(s) : ~(IsLive(s[i]) /\ s[i].key = x.key)
    PROVE  Append(s, x) \in Seq(S) /\ UniqueKeys(Append(s, x)) /\ Len(Append(s, x)) = Len(s) + 1
<1> DEFINE t == Append(s, x)
<1>1. /\ t \in Seq(S) /\ Len(t) = Len(s) + 1 /\ Len(s) \in Nat /\ t[Len(s) + 1] = x
      /\ \A i \in 1..Len(s) : t[i] = s[i]
  BY AppendFacts
<1> HIDE DEF t
<1>2. UniqueKeys(t)
  <2> SUFFICES ASSUME NEW i \in 1..Len(t), NEW j \in 1..Len(t), IsLive(t[i]), IsLive(t[j]),
                      t[i].key = t[j].key
               PROVE  i = j
    BY DEF UniqueKeys
  <2>1. i \in 1..Len(s) \/ i = Len(s) + 1
    BY <1>1
  <2>2. j \in 1..Len(s) \/ j = Len(s) + 1
    BY <1>1
  <2> QED BY <1>1, <2>1, <2>2 DEF UniqueKeys
<1> QED BY <1>1, <1>2 DEF t

\* What a collection is, and what the operations on it keep.
Coll(w) == {s \in Seq(Slot(w)) : UniqueKeys(s) /\ Len(s) <= MaxSlots}

LEMMA StoredKey ==
    ASSUME IterationAssumption, NEW w, NEW key \in w.keys \cup {Zero}
    PROVE  MapKey(key) \in StoredKeys(w)
BY DEF MapKey, StoredKeys, IterationAssumption

LEMMA EntryFacts ==
    ASSUME IterationAssumption, NEW c \in DOMAIN Setup, NEW key \in StoredKeys(Setup[c]),
           NEW value \in Setup[c].values \cup {NoValue}
    PROVE  /\ Entry(key, value) \in Slot(Setup[c]) /\ IsLive(Entry(key, value))
           /\ Entry(key, value).key = key
<1>1. Entry(key, value) \in Slot(Setup[c]) /\ Entry(key, value).key = key
  BY DEF Entry, Slot
<1>2. Entry(key, value) \in [key : Setup[c].keys \cup {Zero}, value : Setup[c].values \cup {NoValue}]
  BY DEF Entry, StoredKeys
<1>3. Entry(key, value) # Tombstone
  BY <1>2 DEF IterationAssumption
<1> QED BY <1>1, <1>3 DEF IsLive

LEMMA MapSetFacts ==
    ASSUME IterationAssumption, NEW c \in DOMAIN Setup, NEW s \in Seq(Slot(Setup[c])),
           UniqueKeys(s), NEW key \in Setup[c].keys \cup {Zero},
           NEW value \in Setup[c].values \cup {NoValue}
    PROVE  /\ MapSet(s, key, value) \in Seq(Slot(Setup[c])) /\ UniqueKeys(MapSet(s, key, value))
           /\ Len(MapSet(s, key, value)) = IF Has(s, key) THEN Len(s) ELSE Len(s) + 1
<1> DEFINE S == Slot(Setup[c])
           x == Entry(MapKey(key), value)
           p == IndexOf(s, key)
<1>1. x \in S /\ IsLive(x) /\ x.key = MapKey(key)
  BY StoredKey, EntryFacts
<1> HIDE DEF S, x
<1>2. s \in Seq(S)
  BY DEF S
<1>3. CASE Has(s, key)
  <2>1. p \in 1..Len(s) /\ IsLive(s[p]) /\ s[p].key = MapKey(key)
    BY <1>3, IndexFacts
  <2>2. MapSet(s, key, value) = [s EXCEPT ![p] = x]
    BY <1>3 DEF MapSet, x
  <2> HIDE DEF p
  <2> DEFINE t == [s EXCEPT ![p] = x]
  <2>3. t \in Seq(S) /\ UniqueKeys(t) /\ Len(t) = Len(s)
    BY <1>1, <1>2, <2>1, ReplaceUnique
  <2> QED BY <1>3, <2>2, <2>3 DEF S
<1>4. CASE ~Has(s, key)
  <2>1. \A i \in 1..Len(s) : ~(IsLive(s[i]) /\ s[i].key = MapKey(key))
    BY <1>4, IndexFacts
  <2>2. MapSet(s, key, value) = Append(s, x)
    BY <1>4 DEF MapSet, x
  <2>3. Append(s, x) \in Seq(S) /\ UniqueKeys(Append(s, x)) /\ Len(Append(s, x)) = Len(s) + 1
    BY <1>1, <1>2, <2>1, AppendUnique
  <2> QED BY <1>4, <2>2, <2>3 DEF S
<1> QED BY <1>3, <1>4

LEMMA SetAddFacts ==
    ASSUME IterationAssumption, NEW c \in DOMAIN Setup, NEW s \in Seq(Slot(Setup[c])),
           UniqueKeys(s), NEW key \in Setup[c].keys \cup {Zero}
    PROVE  SetAdd(s, key) \in Seq(Slot(Setup[c])) /\ UniqueKeys(SetAdd(s, key))
<1> DEFINE S == Slot(Setup[c])
           x == Entry(MapKey(key), NoValue)
<1>1. x \in S /\ IsLive(x) /\ x.key = MapKey(key)
  BY StoredKey, EntryFacts
<1> HIDE DEF S, x
<1>2. s \in Seq(S)
  BY DEF S
<1>3. CASE Has(s, key)
  BY <1>3 DEF SetAdd
<1>4. CASE ~Has(s, key)
  <2>1. \A i \in 1..Len(s) : ~(IsLive(s[i]) /\ s[i].key = MapKey(key))
    BY <1>4, IndexFacts
  <2>2. SetAdd(s, key) = Append(s, x)
    BY <1>4 DEF SetAdd, x
  <2>3. Append(s, x) \in Seq(S) /\ UniqueKeys(Append(s, x))
    BY <1>1, <1>2, <2>1, AppendUnique
  <2> QED BY <2>2, <2>3 DEF S
<1> QED BY <1>3, <1>4

LEMMA DeleteFacts ==
    ASSUME NEW w, NEW s \in Coll(w), NEW key
    PROVE  Delete(s, key) \in Coll(w) /\ Len(Delete(s, key)) = Len(s)
<1> DEFINE S == Slot(w)
           p == IndexOf(s, key)
<1>1. s \in Seq(S) /\ UniqueKeys(s) /\ Len(s) <= MaxSlots /\ Tombstone \in S
  BY DEF Coll, Slot
<1>2. CASE Has(s, key)
  <2>1. p \in 1..Len(s)
    BY <1>1, <1>2, IndexFacts
  <2>2. Delete(s, key) = [s EXCEPT ![p] = Tombstone]
    BY <1>2 DEF Delete
  <2> HIDE DEF p, S
  <2> DEFINE t == [s EXCEPT ![p] = Tombstone]
  <2>3. ~IsLive(Tombstone)
    BY DEF IsLive
  <2>4. t \in Seq(S) /\ UniqueKeys(t) /\ Len(t) = Len(s)
    BY <1>1, <2>1, <2>3, ReplaceUnique
  <2> QED BY <1>1, <2>2, <2>4 DEF Coll, S
<1>3. CASE ~Has(s, key)
  BY <1>3 DEF Delete
<1> QED BY <1>2, <1>3

LEMMA ClearedFacts ==
    ASSUME IterationAssumption, NEW w
    PROVE  Cleared \in Coll(w)
<1>1. Cleared \in Seq(Slot(w)) /\ Len(Cleared) = 0
  BY DEF Cleared
<1> QED BY <1>1 DEF Coll, UniqueKeys, IterationAssumption

\* A step of a walk: to the next live slot, or it is over.
LEMMA StepFacts ==
    ASSUME IterationAssumption, NEW c \in DOMAIN Setup, NEW walk \in Walkers(Setup[c]),
           NEW s \in Coll(Setup[c])
    PROVE  /\ \/ StepAt(s, walk) = NotFound
              \/ StepAt(s, walk) \in (walk.idx + 1)..Len(s) /\ IsLive(s[StepAt(s, walk)])
           /\ StepAt(s, walk) = NotFound /\ ~walk.done =>
                 \A i \in (walk.idx + 1)..Len(s) : ~IsLive(s[i])
           /\ StepAt(s, walk) # NotFound =>
                 ~walk.done /\ \A i \in (walk.idx + 1)..(StepAt(s, walk) - 1) : ~IsLive(s[i])
           /\ Stepped(s, walk) \in Walkers(Setup[c])
<1> DEFINE I == {i \in (walk.idx + 1)..Len(s) : IsLive(s[i])}
           at == StepAt(s, walk)
<1>0. /\ walk.idx \in 0..MaxSlots /\ walk.done \in BOOLEAN /\ MaxSlots \in Nat
      /\ Len(s) \in Nat /\ Len(s) <= MaxSlots
  BY DEF Walkers, Coll, IterationAssumption
<1>1. at = IF walk.done THEN 0 ELSE IF I # {} THEN Min(I) ELSE 0
  BY DEF StepAt, EntryFrom, NotFound, SelectInSubSeq
<1>2. I \in SUBSET Nat
  BY <1>0
<1>3. I # {} => Min(I) \in I /\ \A y \in I : Min(I) <= y
  BY <1>2, MinFacts
<1> HIDE DEF at
<1>4. CASE walk.done
  <2>1. at = NotFound
    BY <1>1, <1>4 DEF NotFound
  <2>2. Stepped(s, walk) \in Walkers(Setup[c])
    BY <2>1 DEF Stepped, Walkers, at
  <2> QED BY <1>4, <2>1, <2>2 DEF at
<1>5. CASE ~walk.done /\ I = {}
  <2>1. at = NotFound
    BY <1>1, <1>5 DEF NotFound
  <2>2. Stepped(s, walk) \in Walkers(Setup[c])
    BY <2>1 DEF Stepped, Walkers, at
  <2> QED BY <1>5, <2>1, <2>2 DEF at
<1>6. CASE ~walk.done /\ I # {}
  <2>1. at \in I /\ at # NotFound /\ \A y \in I : at <= y
    BY <1>0, <1>1, <1>3, <1>6 DEF NotFound
  <2>2. Stepped(s, walk) = [walk EXCEPT !.idx = at]
    BY <2>1 DEF Stepped, at
  <2>3. at \in 0..MaxSlots
    BY <1>0, <2>1
  <2>4. Stepped(s, walk) \in Walkers(Setup[c])
    BY <2>2, <2>3 DEF Walkers
  <2>5. \A i \in (walk.idx + 1)..(at - 1) : ~IsLive(s[i])
    BY <1>0, <2>1
  <2> QED BY <1>6, <2>1, <2>4, <2>5 DEF at
<1> QED BY <1>0, <1>4, <1>5, <1>6
-----------------------------------------------------------------------------
(* The invariant, kept by every action.                                     *)

SlotsOK == slots \in [Colls -> Coll(World)]
ItersOK == iters \in [Iters -> {Nobody} \cup Walkers(World)]

IInv == setup \in DOMAIN Setup /\ SlotsOK /\ ItersOK /\ StackOK /\ ClosedAsOwed

LEMMA WalkersFacts ==
    ASSUME IterationAssumption, setup \in DOMAIN Setup
    PROVE  /\ Nobody \notin Walkers(World)
           /\ \A c \in Colls : NewWalk(c) \in Walkers(World)
<1>1. Walkers(World) \subseteq [of : DOMAIN World.kind, idx : Nat, done : BOOLEAN]
  BY DEF Walkers, IterationAssumption
<1>2. Nobody \notin [of : DOMAIN World.kind, idx : Nat, done : BOOLEAN]
  BY DEF IterationAssumption, World
<1>3. \A c \in Colls : NewWalk(c) \in Walkers(World)
  BY DEF NewWalk, Walkers, Colls, IterationAssumption
<1> QED BY <1>1, <1>2, <1>3

\* What the script does by itself leaves the stack alone.
LEMMA QuietOK ==
    ASSUME StackOK, Lasting, stack' = stack, ended' = Nobody
    PROVE  Kept
BY StackStays DEF ClosedAsOwed, Kept

LEMMA SameLasts ==
    ASSUME setup' = setup, iters' = iters
    PROVE  Lasting /\ (ItersOK => ItersOK')
BY DEF Lasting, ItersOK, Iters, World

LEMMA SameSlots ==
    ASSUME setup' = setup, slots' = slots
    PROVE  SlotsOK => SlotsOK'
BY DEF SlotsOK, Colls, World

LEMMA InsertOK ==
    ASSUME IterationAssumption, IInv, Insert
    PROVE  IInv'
<1>1. setup' = setup /\ iters' = iters /\ stack' = stack /\ ended' = Nobody
  BY DEF Insert, Quietly
<1>2. PICK c \in Colls, k \in World.keys, v \in World.values :
         /\ slots' = [slots EXCEPT ![c] = IF c \in Maps THEN MapSet(@, k, v) ELSE SetAdd(@, k)]
         /\ Len(slots'[c]) <= MaxSlots
  BY DEF Insert
<1>3. slots \in [Colls -> Coll(World)] /\ setup \in DOMAIN Setup
  BY DEF IInv, SlotsOK
<1> DEFINE t == IF c \in Maps THEN MapSet(slots[c], k, v) ELSE SetAdd(slots[c], k)
<1>4. slots[c] \in Seq(Slot(World)) /\ UniqueKeys(slots[c])
  BY <1>3 DEF Coll
<1>5. MapSet(slots[c], k, v) \in Seq(Slot(World)) /\ UniqueKeys(MapSet(slots[c], k, v))
  BY <1>3, <1>4, MapSetFacts DEF World
<1>6. SetAdd(slots[c], k) \in Seq(Slot(World)) /\ UniqueKeys(SetAdd(slots[c], k))
  BY <1>3, <1>4, SetAddFacts DEF World
<1>7. slots' = [slots EXCEPT ![c] = t] /\ t \in Seq(Slot(World)) /\ UniqueKeys(t)
  BY <1>2, <1>5, <1>6
<1> HIDE DEF t
<1>8. slots'[c] = t
  BY <1>3, <1>7
<1>9. t \in Coll(World)
  BY <1>2, <1>7, <1>8 DEF Coll
<1>10. slots' \in [Colls -> Coll(World)]
  BY <1>3, <1>7, <1>9
<1>11. SlotsOK'
  BY <1>1, <1>10 DEF SlotsOK, Colls, World
<1> QED BY <1>1, <1>3, <1>11, SameLasts, QuietOK DEF IInv, Kept

LEMMA EraseOK ==
    ASSUME IterationAssumption, IInv, Erase
    PROVE  IInv'
<1>1. setup' = setup /\ iters' = iters /\ stack' = stack /\ ended' = Nobody
  BY DEF Erase, Quietly
<1>2. PICK c \in Colls, k \in World.keys : slots' = [slots EXCEPT ![c] = Delete(@, k)]
  BY DEF Erase
<1>3. slots \in [Colls -> Coll(World)] /\ setup \in DOMAIN Setup
  BY DEF IInv, SlotsOK
<1>4. Delete(slots[c], k) \in Coll(World)
  BY <1>3, DeleteFacts
<1>5. slots' \in [Colls -> Coll(World)]
  BY <1>2, <1>3, <1>4
<1>6. SlotsOK'
  BY <1>1, <1>5 DEF SlotsOK, Colls, World
<1> QED BY <1>1, <1>3, <1>6, SameLasts, QuietOK DEF IInv, Kept

LEMMA ClearAllOK ==
    ASSUME IterationAssumption, IInv, ClearAll
    PROVE  IInv'
<1>1. setup' = setup /\ iters' = iters /\ stack' = stack /\ ended' = Nobody
  BY DEF ClearAll, Quietly
<1>2. PICK c \in Colls : slots' = [slots EXCEPT ![c] = Cleared]
  BY DEF ClearAll
<1>3. slots \in [Colls -> Coll(World)] /\ setup \in DOMAIN Setup
  BY DEF IInv, SlotsOK
<1>4. Cleared \in Coll(World)
  BY ClearedFacts
<1>5. slots' \in [Colls -> Coll(World)]
  BY <1>2, <1>3, <1>4
<1>6. SlotsOK'
  BY <1>1, <1>5 DEF SlotsOK, Colls, World
<1> QED BY <1>1, <1>3, <1>6, SameLasts, QuietOK DEF IInv, Kept

LEMMA GetOrInsertOK ==
    ASSUME IterationAssumption, IInv, GetOrInsert
    PROVE  IInv'
<1>1. setup' = setup /\ iters' = iters /\ stack' = stack /\ ended' = Nobody
  BY DEF GetOrInsert, Quietly
<1>2. PICK c \in Maps, k \in World.keys, v \in World.values :
         /\ ~Has(slots[c], k) /\ Len(slots[c]) < MaxSlots
         /\ slots' = [slots EXCEPT ![c] = MapSet(@, k, v)]
  BY DEF GetOrInsert
<1>3. slots \in [Colls -> Coll(World)] /\ setup \in DOMAIN Setup /\ c \in Colls
  BY DEF IInv, SlotsOK, Maps
<1> DEFINE t == MapSet(slots[c], k, v)
<1>4. slots[c] \in Seq(Slot(World)) /\ UniqueKeys(slots[c]) /\ Len(slots[c]) \in Nat
  BY <1>3 DEF Coll
<1>5. t \in Seq(Slot(World)) /\ UniqueKeys(t) /\ Len(t) = Len(slots[c]) + 1
  BY <1>2, <1>3, <1>4, MapSetFacts DEF World
<1> HIDE DEF t
<1>6. t \in Coll(World)
  BY <1>2, <1>4, <1>5 DEF Coll, IterationAssumption
<1>7. slots' = [slots EXCEPT ![c] = t]
  BY <1>2 DEF t
<1>8. slots' \in [Colls -> Coll(World)]
  BY <1>3, <1>6, <1>7
<1>9. SlotsOK'
  BY <1>1, <1>8 DEF SlotsOK, Colls, World
<1> QED BY <1>1, <1>3, <1>9, SameLasts, QuietOK DEF IInv, Kept

\* An iterator the script holds is replaced by a walk.
LEMMA WalkReplaced ==
    ASSUME IterationAssumption, IInv, NEW i \in Iters, NEW walk \in Walkers(World),
           setup' = setup, slots' = slots, iters' = [iters EXCEPT ![i] = walk]
    PROVE  ItersOK' /\ SlotsOK' /\ Lasting
<1>1. iters \in [Iters -> {Nobody} \cup Walkers(World)] /\ SlotsOK /\ setup \in DOMAIN Setup
  BY DEF IInv, ItersOK
<1>2. iters' \in [Iters -> {Nobody} \cup Walkers(World)]
  BY <1>1
<1>3. ItersOK'
  BY <1>2 DEF ItersOK, Iters, World
<1>4. walk # Nobody
  BY <1>1, WalkersFacts
<1>5. \A j \in Iters : iters[j] # Nobody => iters'[j] # Nobody
  BY <1>1, <1>4
<1> QED BY <1>1, <1>3, <1>5, SameSlots DEF Lasting

LEMMA MakeWalkOK ==
    ASSUME IterationAssumption, IInv, MakeWalk
    PROVE  IInv'
<1>1. PICK i \in Iters, c \in Colls : iters' = [iters EXCEPT ![i] = NewWalk(c)]
  BY DEF MakeWalk
<1>2. setup' = setup /\ slots' = slots /\ stack' = stack /\ ended' = Nobody
  BY DEF MakeWalk
<1>3. NewWalk(c) \in Walkers(World)
  BY WalkersFacts DEF IInv
<1>4. ItersOK' /\ SlotsOK' /\ Lasting
  BY <1>1, <1>2, <1>3, WalkReplaced
<1> QED BY <1>2, <1>4, QuietOK DEF IInv, Kept

\* A step of an iterator of the script keeps it a walk.
LEMMA StepWalker ==
    ASSUME IterationAssumption, IInv, NEW walk \in Walkers(World)
    PROVE  /\ Stepped(slots[walk.of], walk) \in Walkers(World)
           /\ LET at == StepAt(slots[walk.of], walk) IN
              at # NotFound => /\ at \in 1..Len(slots[walk.of])
                               /\ slots[walk.of][at].key \in StoredKeys(World)
<1>1. setup \in DOMAIN Setup /\ walk.of \in Colls /\ slots[walk.of] \in Coll(World)
  BY DEF IInv, SlotsOK, Walkers, Colls
<1> DEFINE s == slots[walk.of]
           at == StepAt(s, walk)
<1>2. s \in Coll(World) /\ s \in Seq(Slot(World)) /\ walk.idx \in Nat
  BY <1>1 DEF Coll, Walkers
<1> HIDE DEF s
<1>3. /\ at # NotFound => at \in (walk.idx + 1)..Len(s) /\ IsLive(s[at])
      /\ Stepped(s, walk) \in Walkers(World)
  <2>1. walk \in Walkers(Setup[setup]) /\ s \in Coll(Setup[setup]) /\ setup \in DOMAIN Setup
    BY <1>1, <1>2 DEF World
  <2>2. /\ at = NotFound \/ (at \in (walk.idx + 1)..Len(s) /\ IsLive(s[at]))
        /\ Stepped(s, walk) \in Walkers(Setup[setup])
    BY <2>1, StepFacts
  <2> QED BY <2>2 DEF World
<1> HIDE DEF at
<1>4. at # NotFound => at \in 1..Len(s) /\ IsLive(s[at])
  BY <1>2, <1>3
<1>5. at # NotFound => s[at] \in Slot(World) /\ s[at] # Tombstone
  BY <1>2, <1>4 DEF IsLive
<1>6. at # NotFound => s[at].key \in StoredKeys(World)
  BY <1>5 DEF Slot
<1> QED BY <1>3, <1>4, <1>6 DEF s, at

LEMMA StepWalkOK ==
    ASSUME IterationAssumption, IInv, StepWalk
    PROVE  IInv'
<1>1. PICK i \in Iters : /\ iters[i] # Nobody
                         /\ iters' = [iters EXCEPT ![i] = Stepped(slots[@.of], @)]
  BY DEF StepWalk
<1>2. setup' = setup /\ slots' = slots /\ stack' = stack /\ ended' = Nobody
  BY DEF StepWalk
<1>3. iters[i] \in Walkers(World)
  BY <1>1 DEF IInv, ItersOK
<1>4. Stepped(slots[iters[i].of], iters[i]) \in Walkers(World)
  BY <1>3, StepWalker
<1>5. ItersOK' /\ SlotsOK' /\ Lasting
  BY <1>1, <1>2, <1>4, WalkReplaced
<1> QED BY <1>2, <1>5, QuietOK DEF IInv, Kept
-----------------------------------------------------------------------------
(* Beginning a consumer.                                                    *)

LEMMA ConsumerFacts ==
    ASSUME NEW w, NEW op \in Ops, NEW src \in Srcs(w)
    PROVE  /\ Consumer(op, src) \in Frame(w)
           /\ LET f == Consumer(op, src) IN
              /\ f.op = op /\ f.src = src /\ f.walk = Nobody /\ f.at = "step" /\ f.c = Nobody
              /\ f.got = <<>> /\ f.todo = <<>> /\ f.cause = "none" /\ f.method = "none"
              /\ f.calls = 0 /\ f.key = Nobody
<1>1. <<>> \in Seq(StoredKeys(w))
  OBVIOUS
<1>2. Consumer(op, src) \in Frame(w)
  BY <1>1, AtsHave DEF Consumer, Frame
<1> QED BY <1>2 DEF Consumer

LEMMA SourcesFacts ==
    ASSUME NEW src \in Sources
    PROVE  src \in Srcs(World) /\ src # Own /\ (src.kind = "walk" => iters[src.i] # Nobody)
<1>1. CASE src \in {Script, Array}
  BY <1>1 DEF Srcs, Script, Array, Own
<1>2. CASE src \notin {Script, Array}
  <2>1. PICK i \in Iters : src = Walk(i) /\ iters[i] # Nobody
    BY <1>2 DEF Sources
  <2>2. src.i = i /\ src.kind = "walk"
    BY <2>1 DEF Walk
  <2>3. src \in Srcs(World)
    BY <2>1 DEF Srcs, Iters
  <2> QED BY <2>1, <2>2, <2>3 DEF Own
<1> QED BY <1>1, <1>2

LEMMA NothingInjective == IsInjective(<<>>) /\ Len(<<>>) = 0
BY DEF IsInjective

\* A consumer of an iterator, as it is when it begins.
LEMMA PlainFine ==
    ASSUME NEW op \in {"forOf", "pattern", "spread", "groupBy"} \cup Constructors,
           NEW src \in Sources, NEW g \in Frame(World), g.op = op, g.src = src, g.got = <<>>,
           g.walk = Nobody, g.method = "none", g.calls = 0,
           \/ g.at = "step" /\ g.cause = "none"
           \/ g.at = "close" /\ g.cause = "bodyThrew" /\ op \in Constructors
    PROVE  Fine(g, World, iters)
<1>1. src \in Srcs(World) /\ src # Own /\ (src.kind = "walk" => iters[src.i] # Nobody)
  BY SourcesFacts
<1>2. op \notin {"forEach", "computed"}
  BY DEF Constructors
<1>3. FrameOK(g)
  BY <1>1, <1>2 DEF FrameOK
<1>4. GotOK(g)
  BY NothingInjective DEF GotOK
<1> QED BY <1>1, <1>2, <1>3, <1>4 DEF Fine

\* What a beginning leaves alone.
LEMMA BegunOK ==
    ASSUME IterationAssumption, IInv, Unchanged, NEW f, Fine(f, World, iters), Begin(f)
    PROVE  IInv'
<1>1. setup' = setup /\ slots' = slots /\ iters' = iters
  BY DEF Unchanged
<1>2. Lasting /\ ItersOK' /\ SlotsOK' /\ setup' \in DOMAIN Setup
  BY <1>1, SameLasts, SameSlots DEF IInv
<1>3. Kept
  BY <1>1, <1>2, BeginOK DEF IInv, Kept
<1> QED BY <1>2, <1>3 DEF IInv, Kept

LEMMA PlainOK ==
    ASSUME IterationAssumption, IInv, Unchanged,
           NEW op \in {"forOf", "pattern", "spread", "groupBy"} \cup Constructors,
           NEW src \in Sources, NEW g \in Frame(World), g.op = op, g.src = src, g.got = <<>>,
           g.walk = Nobody, g.method = "none", g.calls = 0,
           \/ g.at = "step" /\ g.cause = "none"
           \/ g.at = "close" /\ g.cause = "bodyThrew" /\ op \in Constructors,
           Begin(g)
    PROVE  IInv'
<1>1. Fine(g, World, iters)
  BY PlainFine
<1> QED BY <1>1, BegunOK

\* The consumer of an iterator with some fields set.
Plain(g, op, src) ==
    /\ g \in Frame(World) /\ g.op = op /\ g.src = src /\ g.got = <<>>
    /\ g.method = "none" /\ g.calls = 0 /\ g.at = "step" /\ g.cause = "none" /\ g.walk = Nobody

Refused(g, op, src) ==
    /\ g \in Frame(World) /\ g.op = op /\ g.src = src /\ g.got = <<>>
    /\ g.method = "none" /\ g.calls = 0 /\ g.at = "close" /\ g.cause = "bodyThrew" /\ g.walk = Nobody

LEMMA PlainFacts ==
    ASSUME NEW op \in {"forOf", "pattern", "spread", "groupBy"} \cup Constructors,
           NEW src \in Sources, NEW left \in 0..2, NEW key \in {Nobody, "builtin", "patched"}
    PROVE  /\ Plain(Consumer(op, src), op, src)
           /\ Plain([Consumer(op, src) EXCEPT !.left = left], op, src)
           /\ Plain([Consumer(op, src) EXCEPT !.key = key], op, src)
           /\ Refused([Consumer(op, src) EXCEPT !.at = "close", !.cause = "bodyThrew"], op, src)
<1> DEFINE f == Consumer(op, src)
           l == [f EXCEPT !.left = left]
           k == [f EXCEPT !.key = key]
           h == [f EXCEPT !.at = "close", !.cause = "bodyThrew"]
<1>1. src \in Srcs(World) /\ op \in Ops
  BY SourcesFacts DEF Ops
<1>2. /\ f \in Frame(World) /\ f.op = op /\ f.src = src /\ f.at = "step" /\ f.got = <<>>
      /\ f.cause = "none" /\ f.method = "none" /\ f.calls = 0 /\ f.walk = Nobody
  BY <1>1, ConsumerFacts
<1> HIDE DEF f
<1>3. /\ l \in Frame(World) /\ l.op = op /\ l.src = src /\ l.at = "step" /\ l.got = <<>>
      /\ l.cause = "none" /\ l.method = "none" /\ l.calls = 0 /\ l.walk = Nobody
  BY <1>2 DEF Frame
<1>4. /\ k \in Frame(World) /\ k.op = op /\ k.src = src /\ k.at = "step" /\ k.got = <<>>
      /\ k.cause = "none" /\ k.method = "none" /\ k.calls = 0 /\ k.walk = Nobody
  BY <1>2 DEF Frame
<1>5. /\ h \in Frame(World) /\ h.op = op /\ h.src = src /\ h.at = "close" /\ h.got = <<>>
      /\ h.cause = "bodyThrew" /\ h.method = "none" /\ h.calls = 0 /\ h.walk = Nobody
  BY <1>2, AtsHave DEF Frame
<1> HIDE DEF l, k, h
<1>6. Plain(f, op, src) /\ Plain(l, op, src) /\ Plain(k, op, src) /\ Refused(h, op, src)
  BY <1>2, <1>3, <1>4, <1>5 DEF Plain, Refused
<1> QED BY <1>6 DEF f, l, k, h

LEMMA PlainBeginsOK ==
    ASSUME IterationAssumption, IInv, ForOf \/ ArrayPattern \/ Spread \/ GroupBy
    PROVE  IInv'
<1>1. PICK op \in {"forOf", "pattern", "spread", "groupBy"}, src \in Sources, n \in 1..2 :
         Begin(Consumer(op, src)) \/ Begin([Consumer(op, src) EXCEPT !.left = n])
  <2>1. 1 \in 1..2
    OBVIOUS
  <2>2. CASE ForOf
    BY <2>1, <2>2 DEF ForOf
  <2>3. CASE ArrayPattern
    BY <2>3 DEF ArrayPattern
  <2>4. CASE Spread
    BY <2>1, <2>4 DEF Spread
  <2>5. CASE GroupBy
    BY <2>1, <2>5 DEF GroupBy
  <2> QED BY <2>2, <2>3, <2>4, <2>5
<1>2. Unchanged
  BY DEF ForOf, ArrayPattern, Spread, GroupBy
<1>3. Plain(Consumer(op, src), op, src) /\ Plain([Consumer(op, src) EXCEPT !.left = n], op, src)
  <2>1. n \in 0..2 /\ Nobody \in {Nobody, "builtin", "patched"}
    OBVIOUS
  <2> QED BY <2>1, PlainFacts
<1>4. CASE Begin(Consumer(op, src))
  BY <1>2, <1>3, <1>4, PlainOK DEF Plain
<1>5. CASE Begin([Consumer(op, src) EXCEPT !.left = n])
  BY <1>2, <1>3, <1>5, PlainOK DEF Plain
<1> QED BY <1>1, <1>4, <1>5

LEMMA ConstructingOK ==
    ASSUME IterationAssumption, IInv, NEW op \in Constructors, Constructing(op)
    PROVE  IInv'
<1>1. PICK src \in Sources, adder \in {"builtin", "patched", "fails"} :
         Begin(IF adder = "fails"
               THEN [Consumer(op, src) EXCEPT !.at = "close", !.cause = "bodyThrew"]
               ELSE [Consumer(op, src) EXCEPT !.key = adder])
  BY DEF Constructing
<1>2. Unchanged
  BY DEF Constructing
<1>3. CASE adder = "fails"
  <2> DEFINE h == [Consumer(op, src) EXCEPT !.at = "close", !.cause = "bodyThrew"]
  <2>1. Begin(h)
    BY <1>1, <1>3
  <2>2. Refused(h, op, src)
    <3>1. 0 \in 0..2 /\ Nobody \in {Nobody, "builtin", "patched"}
      OBVIOUS
    <3> QED BY <3>1, PlainFacts
  <2> HIDE DEF h
  <2> QED BY <1>2, <2>1, <2>2, PlainOK DEF Refused
<1>4. CASE adder # "fails"
  <2> DEFINE k == [Consumer(op, src) EXCEPT !.key = adder]
  <2>1. Begin(k)
    BY <1>1, <1>4
  <2>2. Plain(k, op, src)
    <3>1. 0 \in 0..2 /\ adder \in {Nobody, "builtin", "patched"}
      BY <1>4
    <3> QED BY <3>1, PlainFacts
  <2> HIDE DEF k
  <2> QED BY <1>2, <2>1, <2>2, PlainOK DEF Plain
<1> QED BY <1>3, <1>4

LEMMA ForEachOK ==
    ASSUME IterationAssumption, IInv, ForEach
    PROVE  IInv'
<1>1. PICK c \in Colls : Begin([Consumer("forEach", Own) EXCEPT !.walk = NewWalk(c), !.c = c])
  BY DEF ForEach
<1> DEFINE f == Consumer("forEach", Own)
           g == [f EXCEPT !.walk = NewWalk(c), !.c = c]
<1>2. /\ f \in Frame(World) /\ f.op = "forEach" /\ f.src = Own /\ f.at = "step" /\ f.got = <<>>
      /\ f.cause = "none" /\ f.method = "none" /\ f.calls = 0
  <2>1. Own \in Srcs(World) /\ "forEach" \in Ops
    BY DEF Srcs, Ops
  <2> QED BY <2>1, ConsumerFacts
<1>3. NewWalk(c) \in Walkers(World) /\ NewWalk(c) # Nobody
  BY WalkersFacts DEF IInv
<1>4. Begin(g) /\ Unchanged
  BY <1>1 DEF ForEach
<1> HIDE DEF f
<1>5. /\ g \in Frame(World) /\ g.op = "forEach" /\ g.src = Own /\ g.at = "step" /\ g.got = <<>>
      /\ g.cause = "none" /\ g.method = "none" /\ g.calls = 0 /\ g.walk = NewWalk(c)
  <2> DEFINE n == NewWalk(c)
  <2>1. n \in Walkers(World) /\ c \in DOMAIN World.kind
    BY <1>3 DEF Colls
  <2> HIDE DEF n
  <2>2. g = [f EXCEPT !.walk = n, !.c = c]
    BY DEF n
  <2>3. g \in Frame(World)
    BY <1>2, <2>1, <2>2, FrameWalks
  <2>4. /\ g.op = "forEach" /\ g.src = Own /\ g.at = "step" /\ g.got = <<>>
        /\ g.cause = "none" /\ g.method = "none" /\ g.calls = 0 /\ g.walk = n
    BY <1>2, <2>2 DEF Frame
  <2> QED BY <2>3, <2>4 DEF n
<1> HIDE DEF g
<1>6. Fine(g, World, iters)
  BY <1>3, <1>5, NothingInjective DEF Fine, FrameOK, GotOK, Own
<1> QED BY <1>4, <1>6, BegunOK

LEMMA GetOrInsertComputedOK ==
    ASSUME IterationAssumption, IInv, GetOrInsertComputed
    PROVE  IInv'
<1>1. PICK c \in Maps, k \in World.keys :
         Begin([Consumer("computed", Own) EXCEPT !.c = c, !.key = MapKey(k), !.at = "body"])
  BY DEF GetOrInsertComputed
<1> DEFINE f == Consumer("computed", Own)
           g == [f EXCEPT !.c = c, !.key = MapKey(k), !.at = "body"]
<1>2. /\ f \in Frame(World) /\ f.op = "computed" /\ f.src = Own /\ f.at = "step" /\ f.got = <<>>
      /\ f.cause = "none" /\ f.method = "none" /\ f.calls = 0 /\ f.walk = Nobody
  <2>1. Own \in Srcs(World) /\ "computed" \in Ops
    BY DEF Srcs, Ops
  <2> QED BY <2>1, ConsumerFacts
<1>3. MapKey(k) \in StoredKeys(World) /\ c \in DOMAIN World.kind
  BY StoredKey DEF Maps, Colls
<1>4. Begin(g) /\ Unchanged
  BY <1>1 DEF GetOrInsertComputed
<1> HIDE DEF f
<1>5. /\ g \in Frame(World) /\ g.op = "computed" /\ g.src = Own /\ g.at = "body" /\ g.got = <<>>
      /\ g.cause = "none" /\ g.method = "none" /\ g.calls = 0 /\ g.walk = Nobody
      /\ g.c = c /\ g.key = MapKey(k)
  <2> DEFINE y == MapKey(k)
  <2>1. y \in StoredKeys(World)
    BY <1>3
  <2> HIDE DEF y
  <2>2. [f EXCEPT !.c = c, !.key = y, !.at = "body"] \in Frame(World)
    BY <1>2, <1>3, <2>1, FrameKeyed
  <2>3. \A h : h = [f EXCEPT !.c = c, !.key = y, !.at = "body"] =>
              /\ h.op = "computed" /\ h.src = Own /\ h.at = "body" /\ h.got = <<>>
              /\ h.cause = "none" /\ h.method = "none" /\ h.calls = 0 /\ h.walk = Nobody
              /\ h.c = c /\ h.key = y
    BY <1>2 DEF Frame
  <2>4. g = [f EXCEPT !.c = c, !.key = y, !.at = "body"]
    BY DEF y
  <2> HIDE DEF g
  <2> QED BY <2>2, <2>3, <2>4 DEF y
<1> HIDE DEF g
<1>6. Fine(g, World, iters)
  BY <1>3, <1>5, NothingInjective DEF Fine, FrameOK, GotOK, Own
<1> QED BY <1>4, <1>6, BegunOK

\* A set method begins on the keys it has now.
MethodStart(op, c, other, size, mine) ==
    LET asks == AsksOther(op, Len(mine), size)
        f == [Consumer(op, IF other = SetLike /\ ~asks THEN Script ELSE Own)
                 EXCEPT !.c = c, !.other = other]
    IN  Begin(IF asks
              THEN [f EXCEPT !.at = "ask", !.todo = mine]
              ELSE [f EXCEPT !.got = IF StartsAsCopy(op) THEN mine ELSE <<>>,
                             !.walk = IF other = SetLike THEN Nobody ELSE NewWalk(other)])

\* The consumer it begins as: with no walk, or one of the other set.
MethodFrame(g) ==
    /\ Begin(g) /\ Unchanged /\ Fine(g, World, iters)
    /\ g.walk = Nobody \/ \E c \in Colls : g.walk = NewWalk(c)

LEMMA MethodBegins ==
    ASSUME IterationAssumption, IInv, SetMethod
    PROVE  \E g \in Frame(World) : MethodFrame(g)
<1>0. PICK op \in SetMethods, c \in Sets, other \in Sets \cup {SetLike} :
         /\ Scripted(op)
         /\ other = SetLike => Does("script")
         /\ \E size \in IF other = SetLike THEN {0, MaxSize} ELSE {Size(slots[other])} :
               LET mine == KeysOf(slots[c])
                   asks == AsksOther(op, Len(mine), size)
                   f == [Consumer(op, IF other = SetLike /\ ~asks THEN Script ELSE Own)
                            EXCEPT !.c = c, !.other = other]
               IN  /\ ~(op = "isSubsetOf" /\ Len(mine) > size)
                   /\ ~(op = "isSupersetOf" /\ size > Len(mine))
                   /\ Begin(IF asks
                            THEN [f EXCEPT !.at = "ask", !.todo = mine]
                            ELSE [f EXCEPT !.got = IF StartsAsCopy(op) THEN mine ELSE <<>>,
                                           !.walk = IF other = SetLike THEN Nobody ELSE NewWalk(other)])
  BY Zenon DEF SetMethod
<1>1. PICK size : MethodStart(op, c, other, size, KeysOf(slots[c]))
  BY <1>0, Zenon DEF MethodStart
<1> DEFINE mine == KeysOf(slots[c])
<1>2. mine \in Seq(StoredKeys(World)) /\ IsInjective(mine) /\ Len(mine) \in Nat
  <2>1. slots[c] \in Seq(Slot(World)) /\ UniqueKeys(slots[c])
    BY DEF IInv, SlotsOK, Coll, Sets
  <2> QED BY <2>1, KeysFacts
<1> HIDE DEF mine
<1> DEFINE asks == AsksOther(op, Len(mine), size)
           src == IF other = SetLike /\ ~asks THEN Script ELSE Own
           e == Consumer(op, src)
           f == [e EXCEPT !.c = c, !.other = other]
           got == IF StartsAsCopy(op) THEN mine ELSE <<>>
           walk == IF other = SetLike THEN Nobody ELSE NewWalk(other)
           g == [f EXCEPT !.at = "ask", !.todo = mine]
           h == [f EXCEPT !.got = got, !.walk = walk]
<1>4. Begin(IF asks THEN g ELSE h) /\ Unchanged
  BY <1>1 DEF SetMethod, MethodStart, mine
<1>5. src \in Srcs(World) /\ op \in Ops /\ op \notin {"forEach", "computed", "forOf", "pattern"}
      /\ src \in {Script, Own}
  BY DEF Srcs, Ops, SetMethods
<1>6. asks => src = Own
  OBVIOUS
<1>7. ~asks /\ src = Own => other # SetLike
  BY DEF Script, Own
<1>8. src.kind # "walk"
  BY <1>5 DEF Script, Own
<1>9. c \in DOMAIN World.kind /\ other \in {Nobody, SetLike} \cup DOMAIN World.kind
  BY DEF Sets, Colls
<1>10. /\ walk \in {Nobody} \cup Walkers(World)
       /\ other # SetLike => walk # Nobody
       /\ walk # Nobody => src = Own
       /\ walk = Nobody \/ \E o \in Colls : walk = NewWalk(o)
  <2>1. other # SetLike => other \in Colls
    BY DEF Sets
  <2> QED BY <2>1, WalkersFacts DEF IInv
<1>11. got \in Seq(StoredKeys(World)) /\ IsInjective(got)
  BY <1>2, NothingInjective
<1> HIDE DEF asks, src, walk, got
<1>12. /\ e \in Frame(World) /\ e.op = op /\ e.src = src /\ e.at = "step" /\ e.got = <<>>
       /\ e.cause = "none" /\ e.method = "none" /\ e.calls = 0 /\ e.walk = Nobody
  BY <1>5, ConsumerFacts
<1> HIDE DEF e
<1>13. /\ f \in Frame(World) /\ f.op = op /\ f.src = src /\ f.at = "step" /\ f.got = <<>>
       /\ f.cause = "none" /\ f.method = "none" /\ f.calls = 0 /\ f.walk = Nobody
  <2>1. f \in Frame(World)
    BY <1>9, <1>12, FrameOver
  <2>2. f.op = e.op /\ f.src = e.src /\ f.at = e.at /\ f.got = e.got
    BY <1>12 DEF Frame
  <2>3. f.cause = e.cause /\ f.method = e.method /\ f.calls = e.calls /\ f.walk = e.walk
    BY <1>12 DEF Frame
  <2> QED BY <1>12, <2>1, <2>2, <2>3
<1> HIDE DEF f
<1>14. /\ g \in Frame(World) /\ g.op = op /\ g.src = src /\ g.at = "ask" /\ g.got = <<>>
       /\ g.cause = "none" /\ g.method = "none" /\ g.calls = 0 /\ g.todo = mine /\ g.walk = Nobody
  <2>1. g \in Frame(World)
    BY <1>2, <1>13, AtsHave DEF Frame
  <2>2. g.op = f.op /\ g.src = f.src /\ g.at = "ask" /\ g.todo = mine /\ g.got = f.got
    BY <1>13 DEF Frame
  <2>3. g.cause = f.cause /\ g.method = f.method /\ g.calls = f.calls /\ g.walk = f.walk
    BY <1>13 DEF Frame
  <2> QED BY <1>13, <2>1, <2>2, <2>3
<1>15. /\ h \in Frame(World) /\ h.op = op /\ h.src = src /\ h.at = "step" /\ h.got = got
       /\ h.cause = "none" /\ h.method = "none" /\ h.calls = 0 /\ h.walk = walk
  <2>1. h \in Frame(World)
    BY <1>10, <1>11, <1>13, FrameGathers
  <2>2. /\ h.op = f.op /\ h.src = f.src /\ h.at = f.at /\ h.got = got
        /\ h.cause = f.cause /\ h.method = f.method /\ h.calls = f.calls /\ h.walk = walk
    BY <1>13 DEF Frame
  <2> QED BY <1>13, <2>1, <2>2
<1> HIDE DEF g, h
<1>16. CASE asks
  <2>1. FrameOK(g)
    BY <1>5, <1>6, <1>14, <1>16 DEF FrameOK
  <2>2. GotOK(g)
    BY <1>2, <1>14, NothingInjective DEF GotOK
  <2>3. Fine(g, World, iters)
    BY <1>5, <1>8, <1>14, <2>1, <2>2 DEF Fine
  <2> QED BY <1>4, <1>14, <1>16, <2>3 DEF MethodFrame
<1>17. CASE ~asks
  <2>1. FrameOK(h)
    BY <1>5, <1>7, <1>10, <1>15, <1>17 DEF FrameOK
  <2>2. GotOK(h)
    BY <1>11, <1>15 DEF GotOK
  <2>3. Fine(h, World, iters)
    BY <1>5, <1>8, <1>15, <2>1, <2>2 DEF Fine
  <2> QED BY <1>4, <1>10, <1>15, <1>17, <2>3 DEF MethodFrame
<1> QED BY <1>16, <1>17

LEMMA SetMethodOK ==
    ASSUME IterationAssumption, IInv, SetMethod
    PROVE  IInv'
<1>1. PICK g \in Frame(World) : MethodFrame(g)
  BY MethodBegins
<1> QED BY <1>1, BegunOK DEF MethodFrame
-----------------------------------------------------------------------------
(* The steps of the innermost consumer.                                     *)

\* The consumer on top, when it is in the middle of its work.
LEMMA TopMid ==
    ASSUME StackOK, Running, Lasting, Top.at \in {"step", "next", "body", "over"}, Top.op # "computed",
           Top.at \in {"step", "body"} \/ Top.src # Own
    PROVE  Mid(Top, World, iters')
<1> DEFINE f == Top
<1>1. Fine(f, World, iters)
  BY TopFine
<1>3. f.src.kind = "walk" => iters'[f.src.i] # Nobody
  <2> SUFFICES ASSUME f.src.kind = "walk" PROVE iters'[f.src.i] # Nobody
    OBVIOUS
  <2> HIDE DEF f
  <2>1. f.src \in Srcs(World)
    BY <1>1 DEF Fine, Frame
  <2>2. PICK i \in 1..World.iters : f.src = Walk(i)
    BY <2>1 DEF Srcs, Script, Array, Own
  <2>3. f.src.i = i
    BY <2>2 DEF Walk
  <2> QED BY <1>1, <2>2, <2>3 DEF Fine, Lasting, Iters
<1>4. f.at \in {"step", "next", "body", "over"} /\ f.op # "computed"
      /\ (f.at \in {"step", "body"} \/ f.src # Own)
  OBVIOUS
<1> HIDE DEF f
<1> SUFFICES Mid(f, World, iters')
  BY DEF f
<1> QED BY <1>1, <1>3, <1>4 DEF Fine, FrameOK, GotOK, Mid

\* What a step that leaves collections and iterators alone has to show.
LEMMA UnchangedOK ==
    ASSUME IInv, Unchanged
    PROVE  Lasting /\ (Kept => IInv')
<1>1. setup' = setup /\ slots' = slots /\ iters' = iters
  BY DEF Unchanged
<1> QED BY <1>1, SameLasts, SameSlots DEF IInv, Kept

LEMMA ReceivedOK ==
    ASSUME IterationAssumption, setup \in DOMAIN Setup, StackOK, Running, Lasting,
           NEW f, Mid(f, World, iters'), NEW a \in {Done, Threw} \cup World.keys, Received(f, a)
    PROVE  Kept
<1>1. CASE a = Done
  <2>1. Exhausted(f)
    BY <1>1 DEF Received, Done, Threw
  <2> QED BY <2>1, ExhaustedOK
<1>2. CASE a = Threw
  <2>1. Failed(f)
    BY <1>2 DEF Received, Done, Threw
  <2> QED BY <2>1, FailedOK
<1>3. CASE a \notin {Done, Threw}
  <2>1. Take(f, a) /\ a \in World.keys \cup {Zero}
    BY <1>3 DEF Received
  <2> QED BY <2>1, TakeOK
<1> QED BY <1>1, <1>2, <1>3

\* A step of a live walk by the consumer that f is after it.
LEMMA StepLiveOK ==
    ASSUME IterationAssumption, IInv, Running, Lasting, NEW walk \in Walkers(World),
           NEW f, Mid(f, World, iters'), StepLive(walk, f)
    PROVE  Kept
<1> DEFINE at == StepAt(slots[walk.of], walk)
           key == slots[walk.of][at].key
<1>1. at # NotFound => key \in StoredKeys(World)
  BY StepWalker
<1>2. IF at = NotFound THEN Exhausted(f) ELSE Take(f, key)
  BY DEF StepLive
<1> HIDE DEF at, key
<1>3. setup \in DOMAIN Setup /\ StackOK
  BY DEF IInv
<1>4. CASE Exhausted(f)
  BY <1>3, <1>4, ExhaustedOK
<1>5. CASE at # NotFound /\ Take(f, key)
  <2>1. key \in World.keys \cup {Zero}
    BY <1>1, <1>5 DEF StoredKeys
  <2> QED BY <1>3, <1>5, <2>1, TakeOK
<1> QED BY <1>2, <1>4, <1>5

LEMMA StepOwnOK ==
    ASSUME IterationAssumption, IInv, StepOwn
    PROVE  IInv'
<1>1. /\ Running /\ Top.at = "step" /\ Top.src = Own /\ Unchanged
      /\ StepLive(Top.walk, [Top EXCEPT !.walk = Stepped(slots[Top.walk.of], Top.walk)])
  BY DEF StepOwn
<1>2. Lasting /\ (Kept => IInv') /\ StackOK /\ setup \in DOMAIN Setup
  BY <1>1, UnchangedOK DEF IInv
<1>3. Fine(Top, World, iters)
  BY <1>1, <1>2, TopFine
<1>4. Top.op # "computed"
  BY <1>1, <1>3 DEF Fine, FrameOK
<1>5. Mid(Top, World, iters')
  BY <1>1, <1>2, <1>4, TopMid
<1> DEFINE f == Top
           walk == f.walk
           next == Stepped(slots[walk.of], walk)
           g == [f EXCEPT !.walk = next]
<1>6. walk \in Walkers(World)
  BY <1>1, <1>5 DEF Mid, Frame
<1>7. next \in Walkers(World) /\ next # Nobody
  BY <1>2, <1>6, StepWalker, WalkersFacts
<1>8. StepLive(walk, g) /\ Mid(f, World, iters') /\ f.src = Own
  BY <1>1, <1>5
<1> HIDE DEF f, walk, next
<1>9. /\ g \in Frame(World) /\ g.op = f.op /\ g.src = f.src /\ g.walk = next
      /\ g.got = f.got /\ g.cause = f.cause /\ g.method = f.method /\ g.calls = f.calls
  BY <1>7, <1>8 DEF Mid, Frame
<1> HIDE DEF g
<1>10. Mid(g, World, iters')
  BY <1>7, <1>8, <1>9 DEF Mid
<1>11. Kept
  BY <1>1, <1>2, <1>6, <1>8, <1>10, StepLiveOK
<1> QED BY <1>2, <1>11

LEMMA StepIteratorOK ==
    ASSUME IterationAssumption, IInv, StepIterator
    PROVE  IInv'
<1>1. /\ Running /\ Top.at = "step" /\ Top.src.kind = "walk"
      /\ StepLive(iters[Top.src.i], Top)
      /\ iters' = [iters EXCEPT ![Top.src.i] = Stepped(slots[iters[Top.src.i].of], iters[Top.src.i])]
      /\ setup' = setup /\ slots' = slots
  BY DEF StepIterator
<1>2. StackOK /\ setup \in DOMAIN Setup /\ ItersOK
  BY DEF IInv
<1>3. Fine(Top, World, iters) /\ Top.src \in Srcs(World)
  BY <1>1, <1>2, TopFine DEF Frame
<1>4. PICK i \in Iters : Top.src = Walk(i)
  BY <1>1, <1>3 DEF Srcs, Script, Array, Own, Iters
<1>5. Top.src.i = i
  BY <1>4 DEF Walk
<1>6. iters[i] \in Walkers(World)
  BY <1>1, <1>2, <1>3, <1>5 DEF Fine, ItersOK
<1>7. Stepped(slots[iters[i].of], iters[i]) \in Walkers(World)
  BY <1>6, StepWalker
<1>8. ItersOK' /\ SlotsOK' /\ Lasting
  BY <1>1, <1>5, <1>7, WalkReplaced
<1>9. Top.op # "computed"
  BY <1>1, <1>3 DEF Fine, FrameOK
<1>10. Mid(Top, World, iters')
  BY <1>1, <1>2, <1>8, <1>9, TopMid
<1>11. Kept
  BY <1>1, <1>5, <1>6, <1>8, <1>10, StepLiveOK
<1> QED BY <1>1, <1>2, <1>8, <1>11 DEF IInv, Kept

LEMMA StepArrayOK ==
    ASSUME IterationAssumption, IInv, StepArray
    PROVE  IInv'
<1>1. Running /\ Top.at = "step" /\ Top.src = Array /\ Unchanged
  BY DEF StepArray
<1>2. PICK a \in {Done} \cup World.keys : Received(Top, a)
  BY DEF StepArray
<1>3. Lasting /\ (Kept => IInv') /\ StackOK /\ setup \in DOMAIN Setup
  BY <1>1, UnchangedOK DEF IInv
<1>4. Fine(Top, World, iters)
  BY <1>1, <1>3, TopFine
<1>5. Top.op # "computed"
  BY <1>1, <1>4 DEF Fine, FrameOK
<1>6. Mid(Top, World, iters')
  BY <1>1, <1>3, <1>5, TopMid
<1>7. Kept
  BY <1>1, <1>2, <1>3, <1>6, ReceivedOK
<1> QED BY <1>3, <1>7

LEMMA NextAnswersOK ==
    ASSUME IterationAssumption, IInv, NextAnswers
    PROVE  IInv'
<1>1. Running /\ Top.at = "next" /\ Unchanged
  BY DEF NextAnswers
<1>2. PICK a \in {Done, Threw} \cup World.keys : Received(Top, a)
  BY DEF NextAnswers
<1>3. Lasting /\ (Kept => IInv') /\ StackOK /\ setup \in DOMAIN Setup
  BY <1>1, UnchangedOK DEF IInv
<1>4. Fine(Top, World, iters)
  BY <1>1, <1>3, TopFine
<1>5. Top.op # "computed" /\ Top.src # Own
  BY <1>1, <1>4 DEF Fine, FrameOK
<1>6. Mid(Top, World, iters')
  BY <1>1, <1>3, <1>5, TopMid
<1>7. Kept
  BY <1>1, <1>2, <1>3, <1>6, ReceivedOK
<1> QED BY <1>3, <1>7

LEMMA CallNextOK ==
    ASSUME IterationAssumption, IInv, CallNext
    PROVE  IInv'
<1> DEFINE f == Top
           g == [f EXCEPT !.at = "next"]
<1>1. Running /\ f.at = "step" /\ f.src = Script /\ Unchanged /\ Become(g)
  BY DEF CallNext
<1>2. Lasting /\ (Kept => IInv') /\ StackOK
  BY <1>1, UnchangedOK DEF IInv
<1>3. Fine(f, World, iters)
  BY <1>1, <1>2, TopFine
<1> HIDE DEF f
<1>4. /\ g \in Frame(World) /\ g.at = "next" /\ g.op = f.op /\ g.src = f.src
      /\ g.got = f.got /\ g.walk = f.walk /\ g.cause = f.cause /\ g.method = f.method /\ g.calls = f.calls
  BY <1>3, AtsHave DEF Fine, Frame
<1> HIDE DEF g
<1>5. g.src # Own /\ g.src.kind # "walk"
  BY <1>1, <1>4 DEF Script, Own
<1>6. FrameOK(g)
  BY <1>1, <1>3, <1>4, <1>5 DEF Fine, FrameOK
<1>7. GotOK(g) /\ g.op # "computed"
  BY <1>1, <1>3, <1>4 DEF Fine, FrameOK, GotOK
<1>8. Fine(g, World, iters')
  BY <1>4, <1>5, <1>6, <1>7 DEF Fine
<1>9. Kept
  BY <1>1, <1>2, <1>8, BecomeOK DEF Kept
<1> QED BY <1>2, <1>9

LEMMA OverOK ==
    ASSUME IterationAssumption, IInv, Over
    PROVE  IInv'
<1>1. Running /\ Top.at = "over" /\ Unchanged /\ Abandon(Top, "exhausted")
  BY DEF Over
<1>2. Lasting /\ (Kept => IInv') /\ StackOK
  BY <1>1, UnchangedOK DEF IInv
<1>3. Fine(Top, World, iters) /\ Top \in Frame(World)
  BY <1>1, <1>2, TopFine
<1>4. Top.calls = 0 /\ Top.method = "none"
  BY <1>1, <1>3 DEF Fine, FrameOK
<1>5. Kept
  BY <1>1, <1>2, <1>3, <1>4, AbandonOK
<1> QED BY <1>2, <1>5
\* Where the other set is asked for the keys of this one.
LEMMA AskedOK ==
    ASSUME IterationAssumption, IInv, Running, Unchanged, Top.at \in {"ask", "has"},
           Top.todo # <<>>, NEW found \in BOOLEAN, Asked(Top, found)
    PROVE  Kept
<1> DEFINE f == Top
           key == Head(f.todo)
           rest == [f EXCEPT !.todo = Tail(f.todo), !.at = "ask"]
           grown == [rest EXCEPT !.got = Append(f.got, key)]
<1>1. Lasting /\ StackOK
  BY UnchangedOK DEF IInv
<1>2. Fine(f, World, iters) /\ iters' = iters
  BY <1>1, TopFine DEF Unchanged
<1>3. /\ f \in Frame(World) /\ f.at \in {"ask", "has"} /\ f.todo # <<>>
      /\ f.src = Own /\ f.op \in SetMethods
      /\ f.calls = 0 /\ f.method = "none" /\ f.cause = "none"
      /\ IsInjective(f.got) /\ IsInjective(f.todo)
      /\ \A i \in 1..Len(f.got), j \in 1..Len(f.todo) : f.got[i] # f.todo[j]
  BY <1>2 DEF Fine, FrameOK, GotOK
<1>4. Become(rest) \/ Become(grown) \/ Abandon(rest, "stopped")
  <2>1. rest.got = f.got
    BY <1>3 DEF Frame
  <2> QED BY <2>1 DEF Asked
<1> HIDE DEF f
<1> DEFINE K == StoredKeys(World)
           t == f.todo
           u == Tail(t)
           s == f.got
           n == Append(s, key)
<1>5. s \in Seq(K) /\ t \in Seq(K) /\ t # <<>>
  BY <1>3 DEF Frame
<1> HIDE DEF K, s, t
<1>6. /\ Len(t) \in Nat \ {0} /\ key = t[1] /\ key \in K
      /\ u \in Seq(K) /\ Len(u) = Len(t) - 1
      /\ \A i \in 1..(Len(t) - 1) : u[i] = t[i + 1]
  BY <1>5, TailFacts DEF t
<1> HIDE DEF key, u
<1>7. IsInjective(t) /\ IsInjective(s) /\ \A i \in 1..Len(s), j \in 1..Len(t) : s[i] # t[j]
  BY <1>3 DEF s, t
<1>8. DOMAIN t = 1..Len(t) /\ DOMAIN u = 1..Len(u)
  BY <1>5, <1>6
<1>9. IsInjective(u) /\ \A j \in 1..Len(u) : u[j] # key
  <2>1. \A i \in 1..Len(u) : i + 1 \in 1..Len(t) /\ u[i] = t[i + 1] /\ i + 1 # 1
    BY <1>6
  <2>2. 1 \in 1..Len(t)
    BY <1>6
  <2>3. ASSUME NEW i \in 1..Len(u), NEW j \in 1..Len(u), u[i] = u[j] PROVE i = j
    <3>1. t[i + 1] = t[j + 1]
      BY <2>1, <2>3
    <3>2. i + 1 = j + 1
      BY <1>7, <1>8, <2>1, <3>1 DEF IsInjective
    <3> QED BY <3>2
  <2>4. ASSUME NEW j \in 1..Len(u) PROVE u[j] # key
    BY <1>6, <1>7, <1>8, <2>1, <2>2 DEF IsInjective
  <2> QED BY <1>8, <2>3, <2>4 DEF IsInjective
<1>10. \A i \in 1..Len(s), j \in 1..Len(u) : s[i] # u[j]
  <2>1. \A j \in 1..Len(u) : j + 1 \in 1..Len(t) /\ u[j] = t[j + 1]
    BY <1>6
  <2> QED BY <1>7, <2>1
<1>11. /\ n \in Seq(K) /\ IsInjective(n)
       /\ \A i \in 1..Len(n), j \in 1..Len(u) : n[i] # u[j]
  <2>1. ~Contains(s, key)
    <3>1. 1 \in 1..Len(t)
      BY <1>6
    <3> QED BY <1>6, <1>7, <3>1 DEF Contains
  <2>2. n \in Seq(K) /\ IsInjective(n)
    BY <1>5, <1>6, <1>7, <2>1, InjectiveAppend
  <2>3. /\ Len(n) = Len(s) + 1 /\ Len(s) \in Nat /\ n[Len(s) + 1] = key
        /\ \A i \in 1..Len(s) : n[i] = s[i]
    BY <1>5, <1>6, AppendFacts
  <2> HIDE DEF n
  <2>4. ASSUME NEW i \in 1..Len(n), NEW j \in 1..Len(u) PROVE n[i] # u[j]
    <3>1. i \in 1..Len(s) \/ i = Len(s) + 1
      BY <2>3
    <3> QED BY <1>9, <1>10, <2>3, <3>1
  <2> QED BY <2>2, <2>4
<1> HIDE DEF n
<1>12. /\ rest \in Frame(World) /\ rest.at = "ask" /\ rest.op = f.op /\ rest.src = f.src
       /\ rest.got = s /\ rest.todo = u
       /\ rest.walk = f.walk /\ rest.cause = f.cause /\ rest.method = f.method /\ rest.calls = f.calls
  <2>1. rest = [f EXCEPT !.todo = u, !.at = "ask"]
    BY DEF u, t
  <2>2. rest \in Frame(World)
    BY <1>3, <1>6, <2>1, FrameAsks DEF K
  <2>5. rest.at = "ask" /\ rest.todo = u
    BY <1>3, <2>1 DEF Frame
  <2>3. rest.op = f.op /\ rest.src = f.src /\ rest.got = f.got /\ rest.walk = f.walk
    BY <1>3, <2>1 DEF Frame
  <2>4. rest.cause = f.cause /\ rest.method = f.method /\ rest.calls = f.calls
    BY <1>3, <2>1 DEF Frame
  <2> QED BY <1>3, <2>2, <2>3, <2>4, <2>5 DEF s
<1> HIDE DEF rest
<1>13. /\ grown = [rest EXCEPT !.got = n]
       /\ grown \in Frame(World) /\ grown.at = "ask" /\ grown.op = f.op /\ grown.src = f.src
       /\ grown.got = n /\ grown.todo = u
       /\ grown.walk = f.walk /\ grown.cause = f.cause /\ grown.method = f.method /\ grown.calls = f.calls
  BY <1>11, <1>12 DEF Frame, n, s, K
<1> HIDE DEF grown
<1>14. f.op \notin {"forOf", "pattern", "forEach", "computed"} /\ f.src = Own /\ Own.kind # "walk"
  BY <1>3 DEF SetMethods, Own
<1>15. CASE Become(rest)
  <2>1. FrameOK(rest)
    BY <1>3, <1>12, <1>14 DEF FrameOK
  <2>2. GotOK(rest)
    BY <1>7, <1>9, <1>10, <1>12 DEF GotOK
  <2>3. Fine(rest, World, iters')
    BY <1>12, <1>14, <2>1, <2>2 DEF Fine
  <2> QED BY <1>1, <1>15, <2>3, BecomeOK DEF Kept
<1>16. CASE Become(grown)
  <2>1. FrameOK(grown)
    BY <1>3, <1>13, <1>14 DEF FrameOK
  <2>2. GotOK(grown)
    BY <1>9, <1>11, <1>13 DEF GotOK
  <2>3. Fine(grown, World, iters')
    BY <1>13, <1>14, <2>1, <2>2 DEF Fine
  <2> QED BY <1>1, <1>16, <2>3, BecomeOK DEF Kept
<1>17. CASE Abandon(rest, "stopped")
  <2>1. rest.src # Script /\ rest.calls = 0 /\ rest.method = "none"
    BY <1>3, <1>12 DEF Own, Script
  <2> QED BY <1>1, <1>12, <1>17, <2>1, AbandonOK
<1> QED BY <1>4, <1>15, <1>16, <1>17

\* The consumers that ask walk nothing of the script's.
LEMMA AskerFacts ==
    ASSUME StackOK, Running, Top.at \in {"ask", "has"}
    PROVE  /\ Top \in Frame(World) /\ Top.src = Own /\ Top.src # Script
           /\ Top.calls = 0 /\ Top.method = "none"
<1>1. Fine(Top, World, iters) /\ Top \in Frame(World)
  BY TopFine
<1>2. Top.src = Own /\ Top.calls = 0 /\ Top.method = "none"
  BY <1>1 DEF Fine, FrameOK
<1> QED BY <1>1, <1>2 DEF Own, Script

LEMMA AskOK ==
    ASSUME IterationAssumption, IInv, Ask
    PROVE  IInv'
<1>1. Running /\ Top.at = "ask" /\ Unchanged
  BY DEF Ask
<1>2. Lasting /\ (Kept => IInv') /\ StackOK
  BY <1>1, UnchangedOK DEF IInv
<1>3. Top \in Frame(World) /\ Top.src = Own /\ Top.src # Script /\ Top.calls = 0 /\ Top.method = "none"
  BY <1>1, <1>2, AskerFacts
<1>4. CASE Top.todo = <<>>
  <2>1. Abandon(Top, "exhausted")
    BY <1>4 DEF Ask
  <2>2. Kept
    BY <1>1, <1>2, <1>3, <2>1, AbandonOK
  <2> QED BY <1>2, <2>2
<1>5. CASE Top.todo # <<>> /\ Top.other = SetLike
  <2> DEFINE f == Top
             g == [f EXCEPT !.at = "has"]
  <2>1. Become(g)
    BY <1>5 DEF Ask
  <2>2. Fine(f, World, iters) /\ f.at = "ask" /\ iters' = iters
    BY <1>1, <1>2, TopFine DEF Unchanged
  <2> HIDE DEF f
  <2>3. /\ g \in Frame(World) /\ g.at = "has" /\ g.op = f.op /\ g.src = f.src
        /\ g.got = f.got /\ g.walk = f.walk /\ g.todo = f.todo
        /\ g.cause = f.cause /\ g.method = f.method /\ g.calls = f.calls
    BY <2>2, AtsHave DEF Fine, Frame
  <2> HIDE DEF g
  <2>4. FrameOK(g) /\ g.op # "computed"
    <3>1. g.todo # <<>>
      BY <1>5, <2>3 DEF f
    <3> QED BY <2>2, <2>3, <3>1 DEF Fine, FrameOK
  <2>5. GotOK(g)
    BY <2>2, <2>3 DEF Fine, GotOK
  <2>6. Fine(g, World, iters')
    BY <2>2, <2>3, <2>4, <2>5 DEF Fine
  <2>7. Kept
    BY <1>1, <1>2, <2>1, <2>6, BecomeOK DEF Kept
  <2> QED BY <1>2, <2>7
<1>6. CASE Top.todo # <<>> /\ Top.other # SetLike
  <2>1. Asked(Top, Has(slots[Top.other], Head(Top.todo)))
    BY <1>6 DEF Ask
  <2>2. Has(slots[Top.other], Head(Top.todo)) \in BOOLEAN
    BY DEF Has
  <2>3. Kept
    BY <1>1, <1>6, <2>1, <2>2, AskedOK
  <2> QED BY <1>2, <2>3
<1> QED BY <1>4, <1>5, <1>6

LEMMA HasAnswersOK ==
    ASSUME IterationAssumption, IInv, HasAnswers
    PROVE  IInv'
<1>1. Running /\ Top.at = "has" /\ Unchanged
  BY DEF HasAnswers
<1>2. Lasting /\ (Kept => IInv') /\ StackOK
  BY <1>1, UnchangedOK DEF IInv
<1>3. Top \in Frame(World) /\ Top.src = Own /\ Top.src # Script /\ Top.calls = 0 /\ Top.method = "none"
  BY <1>1, <1>2, AskerFacts
<1>4. CASE Abandon(Top, "bodyThrew")
  <2>1. Kept
    BY <1>1, <1>2, <1>3, <1>4, AbandonOK
  <2> QED BY <1>2, <2>1
<1>5. CASE \E found \in BOOLEAN : Asked(Top, found)
  <2>1. Top.todo # <<>>
    <3>1. Fine(Top, World, iters)
      BY <1>1, <1>2, TopFine
    <3> QED BY <1>1, <3>1 DEF Fine, FrameOK
  <2>2. Kept
    BY <1>1, <1>5, <2>1, AskedOK
  <2> QED BY <1>2, <2>2
<1> QED BY <1>4, <1>5 DEF HasAnswers
-----------------------------------------------------------------------------
(* The script comes back, and closing.                                      *)

LEMMA BodyFacts ==
    ASSUME StackOK, Running, Lasting, Top.at = "body"
    PROVE  /\ Top \in Frame(World) /\ Top.calls = 0 /\ Top.method = "none"
           /\ Fine(Top, World, iters)
           /\ Top.op # "computed" => Mid(Top, World, iters')
           /\ Top.src # Script \/ Top.op \in {"forOf", "pattern", "groupBy"} \cup Constructors
<1>1. Fine(Top, World, iters) /\ Top \in Frame(World)
  BY TopFine
<1>2. Top.op # "computed" => Mid(Top, World, iters')
  BY TopMid
<1>3. Top.calls = 0 /\ Top.method = "none"
  BY <1>1 DEF Fine, FrameOK
<1>4. \/ Top.op \in {"forOf", "pattern", "groupBy"} \cup Constructors
      \/ Top.src = Own
  BY <1>1 DEF Fine, FrameOK
<1>5. Own # Script
  BY DEF Own, Script
<1> QED BY <1>1, <1>2, <1>3, <1>4, <1>5

LEMMA NextElementOK ==
    ASSUME StackOK, Running, Lasting, NEW f, Mid(f, World, iters'), f.op = "pattern", NextElement(f)
    PROVE  Kept
<1> DEFINE g == [f EXCEPT !.left = f.left - 1]
<1>1. f \in Frame(World) /\ f.left \in 0..2 /\ f.calls = 0 /\ f.method = "none"
  BY DEF Mid, Frame
<1>2. CASE f.left > 1
  <2>1. Again(g)
    BY <1>2 DEF NextElement
  <2>2. f.left - 1 \in 0..2
    BY <1>1, <1>2
  <2>3. /\ g \in Frame(World) /\ g.op = f.op /\ g.src = f.src /\ g.walk = f.walk
        /\ g.got = f.got /\ g.cause = f.cause /\ g.method = f.method /\ g.calls = f.calls
    BY <1>1, <2>2 DEF Frame
  <2> HIDE DEF g
  <2>4. Mid(g, World, iters')
    BY <2>3 DEF Mid
  <2> QED BY <2>1, <2>4, AgainOK
<1>3. CASE ~(f.left > 1) /\ f.more
  <2>1. Closing(f, "stopped")
    BY <1>3 DEF NextElement
  <2> QED BY <2>1, ClosingOK
<1>4. CASE ~(f.left > 1) /\ ~f.more
  <2>1. Abandon(f, "exhausted")
    BY <1>4 DEF NextElement
  <2> QED BY <1>1, <2>1, AbandonOK
<1> QED BY <1>2, <1>3, <1>4

LEMMA BodyReturnsOK ==
    ASSUME IterationAssumption, IInv, BodyReturns
    PROVE  IInv'
<1>1. Running /\ Top.at = "body" /\ setup' = setup /\ iters' = iters
  BY DEF BodyReturns
<1>2. Lasting /\ ItersOK' /\ StackOK /\ setup \in DOMAIN Setup
  BY <1>1, SameLasts DEF IInv
<1>3. /\ Top \in Frame(World) /\ Top.calls = 0 /\ Top.method = "none"
      /\ Fine(Top, World, iters) /\ (Top.op # "computed" => Mid(Top, World, iters'))
  BY <1>1, <1>2, BodyFacts
<1>4. CASE Top.op = "computed"
  <2>1. PICK v \in World.values : slots' = [slots EXCEPT ![Top.c] = MapSet(@, Top.key, v)]
    BY <1>4 DEF BodyReturns
  <2>2. Len(slots'[Top.c]) <= MaxSlots /\ Abandon(Top, "exhausted")
    BY <1>4 DEF BodyReturns
  <2>3. Kept
    BY <1>1, <1>2, <1>3, <2>2, AbandonOK
  <2>4. slots \in [Colls -> Coll(World)] /\ Top.c \in Colls /\ Top.key \in World.keys \cup {Zero}
    BY <1>3, <1>4 DEF IInv, SlotsOK, Fine, Colls, StoredKeys
  <2> DEFINE c == Top.c
             key == Top.key
             t == MapSet(slots[c], key, v)
  <2>5. slots' = [slots EXCEPT ![c] = t] /\ Len(slots'[c]) <= MaxSlots
    BY <2>1, <2>2
  <2>6. c \in Colls /\ key \in World.keys \cup {Zero}
    BY <2>4
  <2> HIDE DEF c, key
  <2>7. slots[c] \in Seq(Slot(World)) /\ UniqueKeys(slots[c])
    BY <2>4, <2>6 DEF Coll
  <2>8. t \in Seq(Slot(World)) /\ UniqueKeys(t)
    BY <1>2, <2>6, <2>7, MapSetFacts DEF World
  <2> HIDE DEF t
  <2>9. slots'[c] = t
    BY <2>4, <2>5, <2>6
  <2>10. t \in Coll(World)
    BY <2>5, <2>8, <2>9 DEF Coll
  <2>11. slots' \in [Colls -> Coll(World)]
    BY <2>4, <2>5, <2>6, <2>10
  <2>12. SlotsOK'
    BY <1>1, <2>11 DEF SlotsOK, Colls, World
  <2> QED BY <1>1, <1>2, <2>3, <2>12 DEF IInv, Kept
<1>5. CASE Top.op # "computed"
  <2>1. slots' = slots /\ IF Top.op = "pattern" THEN NextElement(Top) ELSE Again(Top)
    BY <1>5 DEF BodyReturns
  <2>2. SlotsOK'
    BY <1>1, <2>1, SameSlots DEF IInv
  <2>3. Kept
    <3>1. CASE Top.op = "pattern"
      BY <1>1, <1>2, <1>3, <1>5, <2>1, <3>1, NextElementOK
    <3>2. CASE Top.op # "pattern"
      BY <1>1, <1>2, <1>3, <1>5, <2>1, <3>2, AgainOK
    <3> QED BY <3>1, <3>2
  <2> QED BY <1>1, <1>2, <2>2, <2>3 DEF IInv, Kept
<1> QED BY <1>4, <1>5

LEMMA BodyEndsOK ==
    ASSUME IterationAssumption, IInv, BodyThrows \/ BodyBreaks \/ BodyLeaves
    PROVE  IInv'
<1>1. Running /\ Top.at = "body" /\ Unchanged
  BY DEF BodyThrows, BodyBreaks, BodyLeaves
<1>2. Lasting /\ (Kept => IInv') /\ StackOK
  BY <1>1, UnchangedOK DEF IInv
<1>3. /\ Top \in Frame(World) /\ Top.calls = 0 /\ Top.method = "none"
      /\ Top.op # "computed" => Mid(Top, World, iters')
      /\ Top.src # Script \/ Top.op \in {"forOf", "pattern", "groupBy"} \cup Constructors
  BY <1>1, <1>2, BodyFacts
<1>4. CASE BodyThrows /\ Top.op \in Constructors
  <2>1. Closing(Top, "bodyThrew") /\ Top.op # "computed"
    BY <1>4 DEF BodyThrows, Constructors
  <2>2. Kept
    BY <1>1, <1>2, <1>3, <1>4, <2>1, ClosingOK
  <2> QED BY <1>2, <2>2
<1>5. CASE BodyThrows /\ Top.op \notin Constructors
  <2>1. Abandon(Top, "bodyThrew")
    BY <1>5 DEF BodyThrows
  <2>2. Kept
    BY <1>1, <1>2, <1>3, <1>5, <2>1, AbandonOK
  <2> QED BY <1>2, <2>2
<1>6. CASE BodyBreaks
  <2>1. Closing(Top, "stopped") /\ Top.op # "computed"
    BY <1>6 DEF BodyBreaks
  <2>2. Kept
    BY <1>1, <1>2, <1>3, <2>1, ClosingOK
  <2> QED BY <1>2, <2>2
<1>7. CASE BodyLeaves
  <2>1. Abandon(Top, "left") /\ Top.op = "forOf"
    BY <1>7 DEF BodyLeaves
  <2>2. Kept
    BY <1>1, <1>2, <1>3, <2>1, AbandonOK
  <2> QED BY <1>2, <2>2
<1> QED BY <1>4, <1>5, <1>6, <1>7

\* A closed consumer of the script's iterator: `return` was looked for, and
\* called if it could be; what it answered is no error unless that is lost.
AsOwedFields(f) ==
    /\ f.cause \in {"stopped", "bodyThrew", "nextThrew", "exhausted"}
    /\ f.cause \in {"bodyThrew", "nextThrew"} => f.op \in Constructors
    /\ f.cause = "exhausted" => f.op = "forOf"
    /\ f.method \in {"absent", "getterThrows", "callable"}
    /\ f.calls = IF f.method = "callable" THEN 1 ELSE 0
    /\ f.answer \in {"none", "object"} \/ f.cause \in {"bodyThrew", "nextThrew"}

\* How it finishes.
LEMMA FinishOK ==
    ASSUME StackOK, Running, Lasting, NEW f, Finish(f),
           f.src # Script \/ AsOwedFields(f)
    PROVE  Kept
<1> DEFINE how == CASE f.cause \in {"nextThrew", "bodyThrew", "left"} -> f.cause
                    [] f.cause = "stopped" /\ f.op \in Predicates -> "false"
                    [] f.cause = "exhausted" /\ f.op \in Predicates -> "true"
                    [] OTHER -> "normal"
<1>1. End(f, how)
  BY DEF Finish
<1>2. f.src = Script => AsOwedFields(f)
  OBVIOUS
<1>3. AsOwedFields(f) =>
         \/ f.cause \in {"nextThrew", "bodyThrew"} /\ how = f.cause
         \/ f.cause \in {"stopped", "exhausted"} /\ how \in {"true", "false", "normal"}
  BY DEF AsOwedFields
<1> HIDE DEF how
<1>4. AsOwed(f, how)
  BY <1>2, <1>3 DEF AsOwed, AsOwedFields, Owed, Outcome, Differs
<1> QED BY <1>1, <1>4, EndOK DEF Kept

LEMMA CloseOK ==
    ASSUME IterationAssumption, IInv, Close
    PROVE  IInv'
<1> DEFINE f == Top
           g == [f EXCEPT !.method = "uncallable"]
           h == [f EXCEPT !.method = "callable", !.calls = f.calls + 1, !.at = "return"]
<1>1. Running /\ f.at = "close" /\ Unchanged
  BY DEF Close
<1>2. Lasting /\ (Kept => IInv') /\ StackOK
  BY <1>1, UnchangedOK DEF IInv
<1>3. Fine(f, World, iters) /\ f \in Frame(World) /\ iters' = iters
  BY <1>1, <1>2, TopFine DEF Unchanged
<1>4. \/ f.src # Script /\ Finish(f)
      \/ \E m \in {"absent", "getterThrows"} : f.src = Script /\ Finish([f EXCEPT !.method = m])
      \/ f.src = Script /\ End(g, "typeError")
      \/ f.src = Script /\ Become(h)
  BY DEF Close
<1> HIDE DEF f
<1>5. /\ f.calls = 0 /\ f.method = "none" /\ f.cause # "none" /\ f.answer = "none"
      /\ f.cause \in {"stopped", "bodyThrew", "nextThrew", "exhausted"}
      /\ f.cause \in {"bodyThrew", "nextThrew"} => f.op \in Constructors
      /\ f.cause = "exhausted" => f.op = "forOf"
      /\ f.op \notin {"forEach", "computed"} \/ f.src # Script
      /\ IsInjective(f.got) /\ (f.walk # Nobody => f.src = Own)
  <2>1. f.answer = "none" /\ f.cause \in {"none", "stopped", "bodyThrew", "nextThrew", "exhausted"}
    BY <1>3 DEF Frame
  <2>2. FrameOK(f) /\ IsInjective(f.got)
    BY <1>3 DEF Fine, GotOK
  <2> QED BY <1>1, <2>1, <2>2 DEF FrameOK, Own, Script
<1>6. CASE f.src # Script /\ Finish(f)
  BY <1>1, <1>2, <1>6, FinishOK
<1>7. ASSUME NEW m \in {"absent", "getterThrows"}, f.src = Script, Finish([f EXCEPT !.method = m])
      PROVE  Kept
  <2> DEFINE e == [f EXCEPT !.method = m]
  <2>1. /\ e.op = f.op /\ e.src = f.src /\ e.cause = f.cause /\ e.method = m
        /\ e.calls = f.calls /\ e.answer = f.answer
    BY <1>3 DEF Frame
  <2>2. Finish(e)
    BY <1>7
  <2> HIDE DEF e
  <2>3. AsOwedFields(e)
    BY <1>5, <2>1 DEF AsOwedFields
  <2> QED BY <1>1, <1>2, <2>2, <2>3, FinishOK
<1>8. CASE f.src = Script /\ End(g, "typeError")
  <2>1. /\ g.op = f.op /\ g.src = f.src /\ g.cause = f.cause /\ g.method = "uncallable"
        /\ g.calls = f.calls /\ g.answer = f.answer
    BY <1>3 DEF Frame
  <2> HIDE DEF g
  <2>2. AsOwed(g, "typeError")
    BY <1>5, <2>1 DEF AsOwed, Owed, Outcome, Differs
  <2> QED BY <1>1, <1>2, <1>8, <2>2, EndOK DEF Kept
<1>9. CASE f.src = Script /\ Become(h)
  <2>1. /\ h \in Frame(World) /\ h.at = "return" /\ h.op = f.op /\ h.src = f.src
        /\ h.cause = f.cause /\ h.method = "callable" /\ h.calls = 1 /\ h.got = f.got
        /\ h.walk = f.walk
    <3> DEFINE h1 == [f EXCEPT !.method = "callable"]
               h2 == [h1 EXCEPT !.calls = 1]
    <3>1. h1 \in Frame(World)
      BY <1>3 DEF Frame
    <3>2. /\ h1.op = f.op /\ h1.src = f.src /\ h1.cause = f.cause /\ h1.method = "callable"
          /\ h1.got = f.got /\ h1.walk = f.walk
      BY <1>3 DEF Frame
    <3>3. h = [h2 EXCEPT !.at = "return"]
      BY <1>5
    <3> HIDE DEF h1, h
    <3>4. /\ h2 \in Frame(World) /\ h2.op = f.op /\ h2.src = f.src /\ h2.cause = f.cause
          /\ h2.method = "callable" /\ h2.got = f.got /\ h2.walk = f.walk /\ h2.calls = 1
      BY <3>1, <3>2 DEF Frame
    <3> HIDE DEF h2
    <3> QED BY <3>3, <3>4 DEF Frame, Ats
  <2> HIDE DEF h
  <2>2. h.op \notin {"forEach", "computed"} /\ h.src # Own /\ h.src.kind # "walk"
    BY <1>5, <1>9, <2>1 DEF Script, Own
  <2>3. FrameOK(h) /\ GotOK(h)
    BY <1>5, <1>9, <2>1, <2>2 DEF FrameOK, GotOK
  <2>4. Fine(h, World, iters')
    BY <2>1, <2>2, <2>3 DEF Fine
  <2> QED BY <1>1, <1>2, <1>9, <2>4, BecomeOK DEF Kept
<1> QED BY <1>2, <1>4, <1>6, <1>7, <1>8, <1>9

LEMMA ReturnAnswersOK ==
    ASSUME IterationAssumption, IInv, ReturnAnswers
    PROVE  IInv'
<1>1. Running /\ Top.at = "return" /\ Unchanged
  BY DEF ReturnAnswers
<1>2. Lasting /\ (Kept => IInv') /\ StackOK
  BY <1>1, UnchangedOK DEF IInv
<1> DEFINE t == Top
<1>3. Fine(t, World, iters) /\ t \in Frame(World) /\ t.at = "return"
  BY <1>1, <1>2, TopFine
<1>4. PICK a \in {"object", "primitive", "throws"} :
         LET f == [t EXCEPT !.answer = a] IN
         CASE OverAbrupt(f) \/ a = "object" -> Finish(f)
           [] ~OverAbrupt(f) /\ a = "primitive" -> End(f, "typeError")
           [] ~OverAbrupt(f) /\ a = "throws" -> End(f, "returnThrew")
  BY DEF ReturnAnswers
<1> DEFINE f == [t EXCEPT !.answer = a]
<1>5. \/ (OverAbrupt(f) \/ a = "object") /\ Finish(f)
      \/ ~OverAbrupt(f) /\ a = "primitive" /\ End(f, "typeError")
      \/ ~OverAbrupt(f) /\ a = "throws" /\ End(f, "returnThrew")
  BY <1>4
<1> HIDE DEF t
<1>6. /\ f.op = t.op /\ f.src = t.src /\ f.cause = t.cause /\ f.method = t.method
      /\ f.calls = t.calls /\ f.answer = a
  BY <1>3 DEF Frame
<1> HIDE DEF f
<1>7. /\ f.src = Script /\ f.calls = 1 /\ f.method = "callable"
      /\ f.cause \in {"stopped", "bodyThrew", "nextThrew", "exhausted"}
      /\ f.cause \in {"bodyThrew", "nextThrew"} => f.op \in Constructors
      /\ f.cause = "exhausted" => f.op = "forOf"
  <2>1. t.cause \in {"none", "stopped", "bodyThrew", "nextThrew", "exhausted"}
    BY <1>3 DEF Frame
  <2> QED BY <1>3, <1>6, <2>1 DEF Fine, FrameOK
<1>8. CASE (OverAbrupt(f) \/ a = "object") /\ Finish(f)
  <2>1. AsOwedFields(f)
    BY <1>6, <1>7, <1>8 DEF AsOwedFields, OverAbrupt
  <2>2. Kept
    BY <1>1, <1>2, <1>8, <2>1, FinishOK
  <2> QED BY <1>2, <2>2
<1>9. CASE ~OverAbrupt(f) /\ a = "primitive" /\ End(f, "typeError")
  <2>1. AsOwed(f, "typeError")
    BY <1>6, <1>7, <1>9 DEF AsOwed, Owed, Outcome, Differs, OverAbrupt
  <2>2. Kept
    BY <1>1, <1>2, <1>9, <2>1, EndOK DEF Kept
  <2> QED BY <1>2, <2>2
<1>10. CASE ~OverAbrupt(f) /\ a = "throws" /\ End(f, "returnThrew")
  <2>1. AsOwed(f, "returnThrew")
    BY <1>6, <1>7, <1>10 DEF AsOwed, Owed, Outcome, Differs, OverAbrupt
  <2>2. Kept
    BY <1>1, <1>2, <1>10, <2>1, EndOK DEF Kept
  <2> QED BY <1>2, <2>2
<1> QED BY <1>5, <1>8, <1>9, <1>10
-----------------------------------------------------------------------------
(* The theorems.                                                            *)

LEMMA InitOK ==
    ASSUME IterationAssumption, Init
    PROVE  IInv
<1>1. <<>> \in Coll(World)
  BY ClearedFacts DEF Cleared
<1>2. SlotsOK
  BY <1>1 DEF Init, SlotsOK
<1>3. ItersOK
  BY DEF Init, ItersOK
<1>4. StackOK
  BY DEF Init, StackOK
<1> QED BY <1>2, <1>3, <1>4 DEF Init, IInv, ClosedAsOwed

LEMMA StutterOK ==
    ASSUME IInv, UNCHANGED vars
    PROVE  IInv'
<1>1. setup' = setup /\ slots' = slots /\ iters' = iters /\ stack' = stack /\ ended' = ended
  BY DEF vars
<1>2. Lasting /\ ItersOK' /\ SlotsOK' /\ StackOK'
  BY <1>1, SameLasts, SameSlots, StackStays DEF IInv
<1>3. ClosedAsOwed'
  BY <1>1 DEF IInv, ClosedAsOwed
<1> QED BY <1>1, <1>2, <1>3 DEF IInv

LEMMA BeginsOK ==
    ASSUME IterationAssumption, IInv, Begins
    PROVE  IInv'
<1>1. \A op \in {"Map", "Set", "WeakMap", "WeakSet"} : Constructing(op) => IInv'
  BY ConstructingOK DEF Constructors
<1> QED BY <1>1, ForEachOK, GetOrInsertComputedOK, PlainBeginsOK, SetMethodOK
        DEF Begins, ConstructMap, ConstructSet, ConstructWeakMap, ConstructWeakSet

LEMMA StepsOK ==
    ASSUME IterationAssumption, IInv, Steps
    PROVE  IInv'
BY StepOwnOK, StepIteratorOK, StepArrayOK, CallNextOK, NextAnswersOK, OverOK, AskOK, HasAnswersOK,
   BodyReturnsOK, BodyEndsOK, CloseOK, ReturnAnswersOK
   DEF Steps

LEMMA NextOK ==
    ASSUME IterationAssumption, IInv, [Next]_vars
    PROVE  IInv'
<1>1. CASE UNCHANGED vars
  BY <1>1, StutterOK
<1>2. CASE Next
  BY <1>2, InsertOK, EraseOK, ClearAllOK, GetOrInsertOK, MakeWalkOK, StepWalkOK, BeginsOK, StepsOK
     DEF Next
<1> QED BY <1>1, <1>2

LEMMA Invariant == Spec => []IInv
<1>1. Init => IInv
  BY InitOK, IterationAssumption
<1>2. IInv /\ [Next]_vars => IInv'
  BY NextOK, IterationAssumption
<1> QED BY <1>1, <1>2, PTL DEF Spec

LEMMA IInvTypes ==
    ASSUME IterationAssumption, IInv
    PROVE  TypeOK
<1>1. setup \in DOMAIN Setup /\ slots \in [Colls -> Coll(World)]
      /\ iters \in [Iters -> {Nobody} \cup Walkers(World)] /\ StackOK
  BY DEF IInv, SlotsOK, ItersOK
<1>2. ASSUME NEW c \in Colls
      PROVE  /\ \A i \in DOMAIN slots[c] :
                   slots[c][i] = Tombstone
                   \/ /\ slots[c][i].key \in (World.keys \cup {Zero}) \ {NegativeZero}
                      /\ slots[c][i].value \in World.values \cup {NoValue}
             /\ IsInjective(KeysOf(slots[c]))
  <2> DEFINE s == slots[c]
  <2>1. s \in Seq(Slot(World)) /\ UniqueKeys(s)
    BY <1>1 DEF Coll
  <2> HIDE DEF s
  <2>2. IsInjective(KeysOf(s))
    BY <2>1, KeysFacts
  <2>3. ASSUME NEW i \in DOMAIN s
        PROVE  s[i] = Tombstone \/ (/\ s[i].key \in (World.keys \cup {Zero}) \ {NegativeZero}
                                    /\ s[i].value \in World.values \cup {NoValue})
    <3>1. s[i] \in Slot(World)
      BY <2>1
    <3> QED BY <3>1 DEF Slot, StoredKeys
  <2> QED BY <2>2, <2>3 DEF s
<1>3. \A i \in Iters : iters[i] # Nobody => iters[i].of \in Colls /\ iters[i].idx \in 0..MaxSlots
  BY <1>1 DEF Walkers, Colls
<1>4. ASSUME NEW d \in DOMAIN stack
      PROVE  /\ stack[d].at \in {"step", "next", "body", "close", "return", "ask", "has", "over"}
             /\ stack[d].calls \in 0..1
             /\ IsInjective(stack[d].got)
  <2>1. d \in 1..Len(stack)
    BY <1>1 DEF StackOK
  <2>2. Fine(stack[d], World, iters)
    BY <1>1, <2>1 DEF StackOK
  <2> QED BY <2>2 DEF Fine, Frame, Ats, GotOK
<1> QED BY <1>2, <1>3, <1>4 DEF TypeOK

\* Collections hold each key at most once and never -0, whatever callbacks,
\* bodies and other walks change between two steps of a walk; no set method
\* collects a key twice (the map and set methods and native_next of vm/mod.rs).
THEOREM CollectionsStayOrdered == Spec => []TypeOK
<1>1. IInv => TypeOK
  BY IInvTypes, IterationAssumption
<1> QED BY <1>1, Invariant, PTL

\* Who stops early closes the script's iterator, once, and reports the
\* exception that matters; who ran it to its end or was failed by it leaves it
\* alone: for all consumers, nested to any depth (the close paths of
\* vm/mod.rs and of the loops the compiler emits), but for the listed
\* differences.
THEOREM ConsumersCloseAsOwed == Spec => []ClosedAsOwed
<1>1. IInv => ClosedAsOwed
  BY DEF IInv
<1> QED BY <1>1, Invariant, PTL
-----------------------------------------------------------------------------
(* The refinement of ordered collections.  What a step does to the walks    *)
(* under way, whoever holds them.                                           *)

WalkAt(id) ==
    IF id[1] = "iterator" THEN iters[id[2]]
    ELSE IF id[2] \in DOMAIN stack THEN stack[id[2]].walk ELSE Nobody

AllHeld == \A j \in WalkIds : WalkAt(j)' = WalkAt(j)
Replaced(id, w) == \A j \in WalkIds : WalkAt(j)' = IF j = id THEN w ELSE WalkAt(j)

Same == slots' = slots /\ AllHeld

Opened ==
    /\ slots' = slots
    /\ \E id \in WalkIds, c \in Colls : WalkAt(id) = Nobody /\ Replaced(id, NewWalk(c))

Advanced ==
    /\ slots' = slots
    /\ \E id \in WalkIds :
          /\ WalkAt(id) # Nobody
          /\ Replaced(id, Stepped(slots[WalkAt(id).of], WalkAt(id)))

Released ==
    /\ slots' = slots
    /\ \E id \in WalkIds : WalkAt(id) # Nobody /\ Replaced(id, Nobody)

KeySet ==
    /\ AllHeld
    /\ \E c \in Colls, k \in World.keys \cup {Zero}, v \in World.values \cup {NoValue} :
          slots' = [slots EXCEPT ![c] = MapSet(@, k, v)]

KeyErased ==
    /\ AllHeld
    /\ \E c \in Colls, k \in World.keys : slots' = [slots EXCEPT ![c] = Delete(@, k)]

Emptied ==
    /\ AllHeld
    /\ \E c \in Colls :
          /\ slots' = [slots EXCEPT ![c] = Cleared]
          /\ \A j \in WalkIds :
                LET w == WalkAt(j) IN w # Nobody /\ w.of = c /\ ~w.done => ~(w.idx > 0)

Shapes == Same \/ Opened \/ Advanced \/ Released \/ KeySet \/ KeyErased \/ Emptied

\* Nothing is hidden from WalkIds.
Deep == Len(stack) <= World.depth

LEMMA IdFacts ==
    ASSUME NEW id \in WalkIds
    PROVE  \/ \E i \in Iters : id = <<"iterator", i>> /\ WalkAt(id) = iters[i] /\ WalkAt(id)' = iters'[i]
           \/ \E d \in 1..World.depth :
                 /\ id = <<"frame", d>>
                 /\ WalkAt(id) = IF d \in DOMAIN stack THEN stack[d].walk ELSE Nobody
                 /\ WalkAt(id)' = IF d \in DOMAIN stack' THEN stack'[d].walk ELSE Nobody
BY DEF WalkIds, WalkAt

\* The consumer on top is another, or gone, or there is a new one.
LEMMA TopReplaced ==
    ASSUME StackOK, Running, iters' = iters, NEW g, g \in Frame(World), Become(g)
    PROVE  Replaced(<<"frame", Len(stack)>>, g.walk) /\ Len(stack') = Len(stack)
<1>1. stack \in Seq(Frame(World)) /\ stack # <<>>
  BY DEF StackOK, Running
<1>2. /\ Len(stack) \in Nat \ {0} /\ Front(stack) \in Seq(Frame(World))
      /\ Len(Front(stack)) = Len(stack) - 1
      /\ \A i \in 1..(Len(stack) - 1) : Front(stack)[i] = stack[i]
  BY <1>1, PopFacts
<1>3. stack' = Append(Front(stack), g)
  BY DEF Become
<1>4. /\ stack' \in Seq(Frame(World)) /\ Len(stack') = Len(stack)
      /\ stack'[Len(stack)] = g /\ \A i \in 1..(Len(stack) - 1) : stack'[i] = stack[i]
  BY <1>2, <1>3, AppendFacts
<1>5. DOMAIN stack = 1..Len(stack) /\ DOMAIN stack' = 1..Len(stack)
  BY <1>1, <1>4
<1>6. ASSUME NEW id \in WalkIds
      PROVE  WalkAt(id)' = IF id = <<"frame", Len(stack)>> THEN g.walk ELSE WalkAt(id)
  <2>1. CASE \E i \in Iters : id = <<"iterator", i>> /\ WalkAt(id) = iters[i] /\ WalkAt(id)' = iters'[i]
    BY <2>1
  <2>2. ASSUME NEW d \in 1..World.depth, id = <<"frame", d>>,
               WalkAt(id) = IF d \in DOMAIN stack THEN stack[d].walk ELSE Nobody,
               WalkAt(id)' = IF d \in DOMAIN stack' THEN stack'[d].walk ELSE Nobody
        PROVE  WalkAt(id)' = IF id = <<"frame", Len(stack)>> THEN g.walk ELSE WalkAt(id)
    <3>1. id = <<"frame", Len(stack)>> <=> d = Len(stack)
      BY <2>2
    <3>2. d = Len(stack) => d \in DOMAIN stack' /\ stack'[d] = g
      BY <1>2, <1>4, <1>5
    <3>3. d # Len(stack) /\ d \in DOMAIN stack => d \in 1..(Len(stack) - 1)
      BY <1>2, <1>5
    <3> QED BY <1>4, <1>5, <2>2, <3>1, <3>2, <3>3
  <2> QED BY <2>1, <2>2, IdFacts
<1> QED BY <1>4, <1>6 DEF Replaced

LEMMA TopGone ==
    ASSUME StackOK, Running, iters' = iters, stack' = Front(stack)
    PROVE  Replaced(<<"frame", Len(stack)>>, Nobody) /\ Len(stack') = Len(stack) - 1
<1>1. stack \in Seq(Frame(World)) /\ stack # <<>>
  BY DEF StackOK, Running
<1>2. /\ Len(stack) \in Nat \ {0} /\ stack' \in Seq(Frame(World))
      /\ Len(stack') = Len(stack) - 1
      /\ \A i \in 1..(Len(stack) - 1) : stack'[i] = stack[i]
  BY <1>1, PopFacts
<1>3. DOMAIN stack = 1..Len(stack) /\ DOMAIN stack' = 1..(Len(stack) - 1)
  BY <1>1, <1>2
<1>4. ASSUME NEW id \in WalkIds
      PROVE  WalkAt(id)' = IF id = <<"frame", Len(stack)>> THEN Nobody ELSE WalkAt(id)
  <2>1. CASE \E i \in Iters : id = <<"iterator", i>> /\ WalkAt(id) = iters[i] /\ WalkAt(id)' = iters'[i]
    BY <2>1
  <2>2. ASSUME NEW d \in 1..World.depth, id = <<"frame", d>>,
               WalkAt(id) = IF d \in DOMAIN stack THEN stack[d].walk ELSE Nobody,
               WalkAt(id)' = IF d \in DOMAIN stack' THEN stack'[d].walk ELSE Nobody
        PROVE  WalkAt(id)' = IF id = <<"frame", Len(stack)>> THEN Nobody ELSE WalkAt(id)
    <3>1. id = <<"frame", Len(stack)>> <=> d = Len(stack)
      BY <2>2
    <3>2. d = Len(stack) => d \notin DOMAIN stack'
      BY <1>2, <1>3
    <3>3. d # Len(stack) => (d \in DOMAIN stack <=> d \in DOMAIN stack')
      BY <1>2, <1>3
    <3> QED BY <1>2, <1>3, <2>2, <3>1, <3>2, <3>3
  <2> QED BY <2>1, <2>2, IdFacts
<1> QED BY <1>2, <1>4 DEF Replaced

LEMMA TopNew ==
    ASSUME StackOK, iters' = iters, NEW g, g \in Frame(World), Begin(g), World.depth \in Nat
    PROVE  /\ <<"frame", Len(stack) + 1>> \in WalkIds /\ WalkAt(<<"frame", Len(stack) + 1>>) = Nobody
           /\ Replaced(<<"frame", Len(stack) + 1>>, g.walk) /\ Len(stack') <= World.depth
<1>1. stack \in Seq(Frame(World)) /\ stack' = Append(stack, g) /\ Len(stack) < World.depth
  BY DEF StackOK, Begin
<1>2. /\ stack' \in Seq(Frame(World)) /\ Len(stack') = Len(stack) + 1 /\ Len(stack) \in Nat
      /\ stack'[Len(stack) + 1] = g /\ \A i \in 1..Len(stack) : stack'[i] = stack[i]
  BY <1>1, AppendFacts
<1>3. DOMAIN stack = 1..Len(stack) /\ DOMAIN stack' = 1..(Len(stack) + 1)
  BY <1>1, <1>2
<1>4. Len(stack) + 1 \in 1..World.depth
  BY <1>1, <1>2
<1>5. <<"frame", Len(stack) + 1>> \in WalkIds
  BY <1>4 DEF WalkIds
<1>6. WalkAt(<<"frame", Len(stack) + 1>>) = Nobody
  BY <1>2, <1>3 DEF WalkAt
<1>7. ASSUME NEW id \in WalkIds
      PROVE  WalkAt(id)' = IF id = <<"frame", Len(stack) + 1>> THEN g.walk ELSE WalkAt(id)
  <2>1. CASE \E i \in Iters : id = <<"iterator", i>> /\ WalkAt(id) = iters[i] /\ WalkAt(id)' = iters'[i]
    BY <2>1
  <2>2. ASSUME NEW d \in 1..World.depth, id = <<"frame", d>>,
               WalkAt(id) = IF d \in DOMAIN stack THEN stack[d].walk ELSE Nobody,
               WalkAt(id)' = IF d \in DOMAIN stack' THEN stack'[d].walk ELSE Nobody
        PROVE  WalkAt(id)' = IF id = <<"frame", Len(stack) + 1>> THEN g.walk ELSE WalkAt(id)
    <3>1. id = <<"frame", Len(stack) + 1>> <=> d = Len(stack) + 1
      BY <2>2
    <3>2. d = Len(stack) + 1 => d \in DOMAIN stack' /\ stack'[d] = g
      BY <1>2, <1>3
    <3>3. d # Len(stack) + 1 => (d \in DOMAIN stack' <=> d \in DOMAIN stack)
      BY <1>2, <1>3
    <3> QED BY <1>2, <1>3, <2>2, <3>1, <3>2, <3>3
  <2> QED BY <2>1, <2>2, IdFacts
<1> QED BY <1>1, <1>2, <1>4, <1>5, <1>6, <1>7 DEF Replaced

LEMMA IteratorReplaced ==
    ASSUME StackOK, ItersOK, NEW i \in Iters, NEW w, iters' = [iters EXCEPT ![i] = w], stack' = stack
    PROVE  /\ <<"iterator", i>> \in WalkIds /\ WalkAt(<<"iterator", i>>) = iters[i]
           /\ Replaced(<<"iterator", i>>, w)
<1>1. <<"iterator", i>> \in WalkIds /\ WalkAt(<<"iterator", i>>) = iters[i]
  BY DEF WalkIds, WalkAt
<1>2. \A j \in Iters : iters'[j] = IF j = i THEN w ELSE iters[j]
  BY DEF ItersOK
<1>3. ASSUME NEW id \in WalkIds
      PROVE  WalkAt(id)' = IF id = <<"iterator", i>> THEN w ELSE WalkAt(id)
  <2>1. ASSUME NEW j \in Iters, id = <<"iterator", j>>, WalkAt(id) = iters[j], WalkAt(id)' = iters'[j]
        PROVE  WalkAt(id)' = IF id = <<"iterator", i>> THEN w ELSE WalkAt(id)
    BY <1>2, <2>1
  <2>2. ASSUME NEW d \in 1..World.depth, id = <<"frame", d>>, WalkAt(id)' = WalkAt(id)
        PROVE  WalkAt(id)' = IF id = <<"iterator", i>> THEN w ELSE WalkAt(id)
    BY <2>2
  <2> QED BY <2>1, <2>2, IdFacts
<1> QED BY <1>1, <1>3 DEF Replaced
-----------------------------------------------------------------------------
(* What becomes of the consumer on top: it keeps its walk, or it is gone.   *)

Stays(f) == \E g \in Frame(World) : Become(g) /\ g.walk = f.walk
Goes == stack' = Front(stack)

LEMMA AgainStays ==
    ASSUME NEW f \in Frame(World), Again(f)
    PROVE  Stays(f)
<1> DEFINE g == [f EXCEPT !.at = "step"]
<1>1. g \in Frame(World) /\ g.walk = f.walk
  BY AtsHave DEF Frame
<1>2. Become(g)
  BY DEF Again
<1> QED BY <1>1, <1>2 DEF Stays

LEMMA BodyStays ==
    ASSUME NEW f \in Frame(World), Become([f EXCEPT !.at = "body"])
    PROVE  Stays(f)
<1> DEFINE g == [f EXCEPT !.at = "body"]
<1>1. g \in Frame(World) /\ g.walk = f.walk
  BY AtsHave DEF Frame
<1> QED BY <1>1 DEF Stays

LEMMA ClosingStays ==
    ASSUME NEW f \in Frame(World),
           NEW cause \in {"stopped", "bodyThrew", "nextThrew", "exhausted"}, Closing(f, cause)
    PROVE  Stays(f)
<1> DEFINE g == [f EXCEPT !.at = "close", !.cause = cause]
<1>1. g \in Frame(World) /\ g.walk = f.walk
  BY AtsHave DEF Frame
<1>2. Become(g)
  BY DEF Closing
<1> QED BY <1>1, <1>2 DEF Stays

LEMMA EndGoes == ASSUME NEW f, NEW completion, End(f, completion) PROVE Goes
BY DEF End, Goes

LEMMA FinishGoes == ASSUME NEW f, Finish(f) PROVE Goes
BY EndGoes DEF Finish

LEMMA AbandonGoes == ASSUME NEW f, NEW cause, Abandon(f, cause) PROVE Goes
BY FinishGoes DEF Abandon

LEMMA ExhaustedMoves ==
    ASSUME NEW f \in Frame(World), f.op \in {"forOf", "pattern"} => f.src # Own, Exhausted(f)
    PROVE  Stays(f) \/ (f.src # Own /\ Goes)
<1>1. CASE f.op = "forOf"
  <2>1. Closing(f, "exhausted")
    BY <1>1 DEF Exhausted
  <2> QED BY <2>1, ClosingStays
<1>2. CASE f.op = "pattern"
  <2> DEFINE h == [f EXCEPT !.more = FALSE]
  <2>1. Become([f EXCEPT !.more = FALSE, !.at = "body"])
    BY <1>2 DEF Exhausted
  <2>2. [f EXCEPT !.more = FALSE, !.at = "body"] = [h EXCEPT !.at = "body"]
    OBVIOUS
  <2>3. h \in Frame(World) /\ h.walk = f.walk
    BY DEF Frame
  <2> HIDE DEF h
  <2>4. Stays(h)
    BY <2>1, <2>2, <2>3, BodyStays
  <2> QED BY <2>3, <2>4 DEF Stays
<1>3. CASE f.op \notin {"forOf", "pattern"} /\ f.src = Own
  <2> DEFINE g == [f EXCEPT !.at = "over"]
  <2>1. Become(g)
    BY <1>3 DEF Exhausted
  <2>2. g \in Frame(World) /\ g.walk = f.walk
    BY AtsHave DEF Frame
  <2> QED BY <2>1, <2>2 DEF Stays
<1>4. CASE f.op \notin {"forOf", "pattern"} /\ f.src # Own
  <2>1. Abandon(f, "exhausted")
    BY <1>4 DEF Exhausted
  <2> QED BY <1>4, <2>1, AbandonGoes
<1> QED BY <1>1, <1>2, <1>3, <1>4

LEMMA TakeStays ==
    ASSUME IterationAssumption, setup \in DOMAIN Setup, NEW f \in Frame(World), f.op # "computed",
           IsInjective(f.got), NEW key \in World.keys \cup {Zero}, Take(f, key)
    PROVE  Stays(f)
<1>0. f.op \in Ops
  BY DEF Frame
<1>1. CASE f.op \in {"forOf", "pattern", "groupBy", "forEach"}
  <2>1. Become([f EXCEPT !.at = "body"])
    BY <1>1 DEF Take, SetMethods, Predicates, Constructors
  <2> QED BY <2>1, BodyStays
<1>2. CASE f.op = "spread"
  <2>1. Again(f)
    BY <1>2 DEF Take, SetMethods, Predicates, Constructors
  <2> QED BY <2>1, AgainStays
<1>3. CASE f.op \in Constructors
  <2>1. TakeItem(f)
    BY <1>3 DEF Take, SetMethods, Predicates, Constructors
  <2>2. CASE Become([f EXCEPT !.at = "body"])
    BY <2>2, BodyStays
  <2>3. CASE Again(f)
    BY <2>3, AgainStays
  <2>4. CASE Closing(f, "bodyThrew")
    BY <2>4, ClosingStays
  <2> QED BY <2>1, <2>2, <2>3, <2>4 DEF TakeItem
<1>4. CASE f.op \in SetMethods \ Predicates
  <2> DEFINE h == [f EXCEPT !.got = Collected(f, key)]
  <2>1. Again(h)
    BY <1>4 DEF Take, SetMethods, Predicates, Constructors
  <2>2. Collected(f, key) \in Seq(StoredKeys(World))
    <3>1. f.got \in Seq(StoredKeys(Setup[setup])) /\ IsInjective(f.got)
      BY DEF Frame, World
    <3> QED BY <1>4, <3>1, CollectedOK DEF World
  <2>3. h \in Frame(World) /\ h.walk = f.walk
    BY <2>2 DEF Frame
  <2> HIDE DEF h
  <2>4. Stays(h)
    BY <2>1, <2>3, AgainStays
  <2> QED BY <2>3, <2>4 DEF Stays
<1>5. CASE f.op \in Predicates
  <2>1. Closing(f, "stopped") \/ Again(f)
    BY <1>5 DEF Take, SetMethods, Predicates, Constructors
  <2> QED BY <2>1, AgainStays, ClosingStays
<1> QED BY <1>0, <1>1, <1>2, <1>3, <1>4, <1>5 DEF Ops

LEMMA FailedMoves ==
    ASSUME NEW f \in Frame(World), Failed(f)
    PROVE  Stays(f) \/ Goes
BY ClosingStays, AbandonGoes DEF Failed

LEMMA ReceivedMoves ==
    ASSUME IterationAssumption, setup \in DOMAIN Setup, NEW f, Mid(f, World, iters'),
           NEW a \in {Done, Threw} \cup World.keys, Received(f, a)
    PROVE  Stays(f) \/ Goes
<1>0. /\ f \in Frame(World) /\ f.op # "computed" /\ IsInjective(f.got)
      /\ f.op \in {"forOf", "pattern"} => f.src # Own
  BY DEF Mid
<1>1. CASE a = Done
  <2>1. Exhausted(f)
    BY <1>1 DEF Received, Done, Threw
  <2> QED BY <1>0, <2>1, ExhaustedMoves
<1>2. CASE a = Threw
  <2>1. Failed(f)
    BY <1>2 DEF Received, Done, Threw
  <2> QED BY <1>0, <2>1, FailedMoves
<1>3. CASE a \notin {Done, Threw}
  <2>1. Take(f, a) /\ a \in World.keys \cup {Zero}
    BY <1>3 DEF Received
  <2> QED BY <1>0, <2>1, TakeStays
<1> QED BY <1>1, <1>2, <1>3

LEMMA StepLiveMoves ==
    ASSUME IterationAssumption, IInv, NEW walk \in Walkers(World), NEW f, Mid(f, World, iters'),
           StepLive(walk, f)
    PROVE  Stays(f) \/ (f.src # Own /\ Goes)
<1> DEFINE at == StepAt(slots[walk.of], walk)
           key == slots[walk.of][at].key
<1>0. /\ f \in Frame(World) /\ f.op # "computed" /\ IsInjective(f.got) /\ setup \in DOMAIN Setup
      /\ f.op \in {"forOf", "pattern"} => f.src # Own
  BY DEF Mid, IInv
<1>1. at # NotFound => key \in StoredKeys(World)
  BY StepWalker
<1>2. IF at = NotFound THEN Exhausted(f) ELSE Take(f, key)
  BY DEF StepLive
<1> HIDE DEF at, key
<1>3. CASE Exhausted(f)
  BY <1>0, <1>3, ExhaustedMoves
<1>4. CASE at # NotFound /\ Take(f, key)
  <2>1. key \in World.keys \cup {Zero}
    BY <1>1, <1>4 DEF StoredKeys
  <2> QED BY <1>0, <1>4, <2>1, TakeStays
<1> QED BY <1>2, <1>3, <1>4

LEMMA AskedMoves ==
    ASSUME NEW f \in Frame(World), f.todo # <<>>, NEW found \in BOOLEAN, Asked(f, found)
    PROVE  Stays(f) \/ Goes
<1> DEFINE key == Head(f.todo)
           rest == [f EXCEPT !.todo = Tail(f.todo), !.at = "ask"]
           grown == [rest EXCEPT !.got = Append(f.got, key)]
<1>1. Become(rest) \/ Become(grown) \/ Abandon(rest, "stopped")
  <2>1. rest.got = f.got
    BY DEF Frame
  <2> QED BY <2>1 DEF Asked
<1>2. f.todo \in Seq(StoredKeys(World)) /\ f.got \in Seq(StoredKeys(World))
  BY DEF Frame
<1>3. /\ Tail(f.todo) \in Seq(StoredKeys(World)) /\ key \in StoredKeys(World)
  BY <1>2, TailFacts
<1>4. Append(f.got, key) \in Seq(StoredKeys(World))
  BY <1>2, <1>3, AppendFacts
<1> HIDE DEF key
<1>5. rest \in Frame(World) /\ rest.walk = f.walk
  BY <1>3, AtsHave DEF Frame
<1> HIDE DEF rest
<1>6. grown \in Frame(World) /\ grown.walk = f.walk
  BY <1>4, <1>5 DEF Frame
<1> HIDE DEF grown
<1> QED BY <1>1, <1>5, <1>6, AbandonGoes DEF Stays

LEMMA NextElementMoves ==
    ASSUME NEW f \in Frame(World), NextElement(f)
    PROVE  Stays(f) \/ Goes
<1> DEFINE g == [f EXCEPT !.left = f.left - 1]
<1>1. f.left \in 0..2
  BY DEF Frame
<1>2. CASE f.left > 1
  <2>1. Again(g)
    BY <1>2 DEF NextElement
  <2>2. f.left - 1 \in 0..2
    BY <1>1, <1>2
  <2>3. g \in Frame(World) /\ g.walk = f.walk
    BY <2>2 DEF Frame
  <2> HIDE DEF g
  <2>4. Stays(g)
    BY <2>1, <2>3, AgainStays
  <2> QED BY <2>3, <2>4 DEF Stays
<1>3. CASE ~(f.left > 1)
  <2>1. Closing(f, "stopped") \/ Abandon(f, "exhausted")
    BY <1>3 DEF NextElement
  <2> QED BY <2>1, ClosingStays, AbandonGoes
<1> QED BY <1>2, <1>3

\* Then nothing, or one walk less, is under way.
LEMMA MovesShape ==
    ASSUME IterationAssumption, IInv, Deep, Running, setup' = setup, iters' = iters, slots' = slots,
           Stays(Top) \/ Goes
    PROVE  (Same \/ Released) /\ Deep'
<1>0. StackOK /\ World' = World /\ World.depth \in Nat
  BY DEF IInv, World, IterationAssumption
<1>1. stack \in Seq(Frame(World)) /\ stack # <<>> /\ Len(stack) \in Nat \ {0}
  BY <1>0, TopFine DEF StackOK, Running
<1>2. DOMAIN stack = 1..Len(stack) /\ Top = stack[Len(stack)]
  BY <1>1 DEF Top, Last
<1> DEFINE id == <<"frame", Len(stack)>>
<1>3. WalkAt(id) = Top.walk
  BY <1>1, <1>2 DEF WalkAt
<1>4. id \in WalkIds \/ ~(Len(stack) \in 1..World.depth)
  BY DEF WalkIds
<1>5. CASE Stays(Top)
  <2>1. PICK g \in Frame(World) : Become(g) /\ g.walk = Top.walk
    BY <1>5 DEF Stays
  <2>2. Replaced(id, Top.walk) /\ Len(stack') = Len(stack)
    BY <1>0, <2>1, TopReplaced
  <2>3. AllHeld
    BY <1>3, <2>2 DEF AllHeld, Replaced
  <2> QED BY <1>0, <2>2, <2>3 DEF Same, Deep
<1>6. CASE Goes
  <2>1. Replaced(id, Nobody) /\ Len(stack') = Len(stack) - 1
    BY <1>0, <1>6, TopGone DEF Goes
  <2>2. Deep'
    BY <1>0, <1>1, <2>1 DEF Deep
  <2>3. CASE id \in WalkIds /\ Top.walk # Nobody
    BY <1>3, <2>1, <2>2, <2>3 DEF Released
  <2>4. CASE Top.walk = Nobody \/ id \notin WalkIds
    <3>1. AllHeld
      BY <1>3, <2>1, <2>4 DEF AllHeld, Replaced
    <3> QED BY <2>2, <3>1 DEF Same
  <2> QED BY <2>2, <2>3, <2>4
<1> QED BY <1>5, <1>6
-----------------------------------------------------------------------------
(* Every step has one of the shapes.                                        *)

NeverClearsUnderWalk == \A w \in DOMAIN Setup : "clearUnderWalk" \notin Setup[w].uses

LEMMA HeldStill ==
    ASSUME iters' = iters, stack' = stack
    PROVE  AllHeld
<1>1. ASSUME NEW id \in WalkIds PROVE WalkAt(id)' = WalkAt(id)
  BY IdFacts
<1> QED BY <1>1 DEF AllHeld

LEMMA QuietDeep ==
    ASSUME setup' = setup, stack' = stack, Deep
    PROVE  Deep'
BY DEF Deep, World

LEMMA InsertShape ==
    ASSUME IInv, Insert
    PROVE  Shapes
<1>1. setup' = setup /\ iters' = iters /\ stack' = stack
  BY DEF Insert, Quietly
<1>2. PICK c \in Colls, k \in World.keys, v \in World.values :
         slots' = [slots EXCEPT ![c] = IF c \in Maps THEN MapSet(@, k, v) ELSE SetAdd(@, k)]
  BY DEF Insert
<1>3. AllHeld
  BY <1>1, HeldStill
<1>4. slots \in [Colls -> Coll(World)]
  BY DEF IInv, SlotsOK
<1>5. CASE c \in Maps
  BY <1>2, <1>3, <1>5 DEF KeySet, Shapes
<1>6. CASE c \notin Maps /\ Has(slots[c], k)
  <2>1. slots' = [slots EXCEPT ![c] = slots[c]]
    BY <1>2, <1>6 DEF SetAdd
  <2>2. slots' = slots
    BY <1>4, <2>1
  <2> QED BY <1>3, <2>2 DEF Same, Shapes
<1>7. CASE c \notin Maps /\ ~Has(slots[c], k)
  <2>1. SetAdd(slots[c], k) = MapSet(slots[c], k, NoValue)
    BY <1>7 DEF SetAdd, MapSet
  <2>2. slots' = [slots EXCEPT ![c] = MapSet(slots[c], k, NoValue)]
    BY <1>2, <1>7, <2>1
  <2>3. k \in World.keys \cup {Zero} /\ NoValue \in World.values \cup {NoValue}
    OBVIOUS
  <2> QED BY <1>3, <2>2, <2>3 DEF KeySet, Shapes
<1> QED BY <1>5, <1>6, <1>7

LEMMA EraseShape ==
    ASSUME IInv, Erase
    PROVE  Shapes
<1>1. AllHeld
  BY HeldStill DEF Erase, Quietly
<1> QED BY <1>1 DEF Erase, KeyErased, Shapes

LEMMA ClearShape ==
    ASSUME NeverClearsUnderWalk, IInv, ClearAll
    PROVE  Shapes
<1>1. AllHeld
  BY HeldStill DEF ClearAll, Quietly
<1>2. PICK c \in Colls : ~UnderWay(c) /\ slots' = [slots EXCEPT ![c] = Cleared]
  BY DEF ClearAll, NeverClearsUnderWalk, IInv, World
<1>3. ASSUME NEW j \in WalkIds, WalkAt(j) # Nobody, WalkAt(j).of = c, ~WalkAt(j).done
      PROVE  ~(WalkAt(j).idx > 0)
  <2>1. ASSUME NEW i \in Iters, WalkAt(j) = iters[i] PROVE ~(WalkAt(j).idx > 0)
    BY <1>2, <1>3, <2>1 DEF UnderWay
  <2>2. ASSUME NEW d \in 1..World.depth,
               WalkAt(j) = IF d \in DOMAIN stack THEN stack[d].walk ELSE Nobody
        PROVE  ~(WalkAt(j).idx > 0)
    BY <1>2, <1>3, <2>2 DEF UnderWay
  <2> QED BY <2>1, <2>2, IdFacts
<1>4. Emptied
  BY <1>1, <1>2, <1>3 DEF Emptied
<1> QED BY <1>4 DEF Shapes

LEMMA GetOrInsertShape ==
    ASSUME IInv, GetOrInsert
    PROVE  Shapes
<1>1. AllHeld
  BY HeldStill DEF GetOrInsert, Quietly
<1>2. PICK c \in Maps, k \in World.keys, v \in World.values :
         slots' = [slots EXCEPT ![c] = MapSet(@, k, v)]
  BY DEF GetOrInsert
<1>3. c \in Colls
  BY DEF Maps
<1> QED BY <1>1, <1>2, <1>3 DEF KeySet, Shapes

LEMMA MakeWalkShape ==
    ASSUME IInv, MakeWalk
    PROVE  Shapes
<1>1. PICK i \in Iters, c \in Colls : iters[i] = Nobody /\ iters' = [iters EXCEPT ![i] = NewWalk(c)]
  BY DEF MakeWalk
<1>2. slots' = slots /\ stack' = stack /\ StackOK /\ ItersOK
  BY DEF MakeWalk, IInv
<1>3. /\ <<"iterator", i>> \in WalkIds /\ WalkAt(<<"iterator", i>>) = iters[i]
      /\ Replaced(<<"iterator", i>>, NewWalk(c))
  BY <1>1, <1>2, IteratorReplaced
<1>4. Opened
  BY <1>1, <1>2, <1>3 DEF Opened
<1> QED BY <1>4 DEF Shapes

LEMMA StepWalkShape ==
    ASSUME IInv, StepWalk
    PROVE  Shapes
<1>1. PICK i \in Iters : /\ iters[i] # Nobody
                         /\ iters' = [iters EXCEPT ![i] = Stepped(slots[iters[i].of], iters[i])]
  BY DEF StepWalk
<1>2. slots' = slots /\ stack' = stack /\ StackOK /\ ItersOK
  BY DEF StepWalk, IInv
<1>3. /\ <<"iterator", i>> \in WalkIds /\ WalkAt(<<"iterator", i>>) = iters[i]
      /\ Replaced(<<"iterator", i>>, Stepped(slots[iters[i].of], iters[i]))
  BY <1>1, <1>2, IteratorReplaced
<1>4. Advanced
  BY <1>1, <1>2, <1>3 DEF Advanced
<1> QED BY <1>4 DEF Shapes

\* A new consumer opens a walk, or has none.
LEMMA BegunShape ==
    ASSUME IterationAssumption, IInv, Unchanged, NEW g \in Frame(World), Begin(g),
           NEW c, g.walk = Nobody \/ (g.walk = NewWalk(c) /\ c \in Colls)
    PROVE  Shapes /\ Deep'
<1>0. StackOK /\ setup' = setup /\ slots' = slots /\ iters' = iters /\ World' = World
  BY DEF IInv, Unchanged, World
<1>1. World.depth \in Nat
  BY DEF IInv, World, IterationAssumption
<1> DEFINE id == <<"frame", Len(stack) + 1>>
<1>2. id \in WalkIds /\ WalkAt(id) = Nobody /\ Replaced(id, g.walk) /\ Len(stack') <= World.depth
  BY <1>0, <1>1, TopNew
<1> HIDE DEF id
<1>3. Deep'
  BY <1>0, <1>2 DEF Deep
<1>4. CASE g.walk = Nobody
  <2>1. AllHeld
    BY <1>2, <1>4 DEF AllHeld, Replaced
  <2> QED BY <1>0, <1>3, <2>1 DEF Same, Shapes
<1>5. CASE g.walk = NewWalk(c) /\ c \in Colls
  <2>1. Opened
    BY <1>0, <1>2, <1>5 DEF Opened
  <2> QED BY <1>3, <2>1 DEF Shapes
<1> QED BY <1>4, <1>5

LEMMA PlainShape ==
    ASSUME IterationAssumption, IInv,
           \/ ForOf \/ ArrayPattern \/ Spread \/ GroupBy
           \/ \E op \in Constructors : Constructing(op)
    PROVE  Shapes /\ Deep'
<1>1. ASSUME NEW op \in {"forOf", "pattern", "spread", "groupBy"} \cup Constructors,
             NEW src \in Sources, NEW n \in 0..2, NEW key \in {Nobody, "builtin", "patched"}
      PROVE  /\ Plain(Consumer(op, src), op, src)
             /\ Plain([Consumer(op, src) EXCEPT !.left = n], op, src)
             /\ Plain([Consumer(op, src) EXCEPT !.key = key], op, src)
             /\ Refused([Consumer(op, src) EXCEPT !.at = "close", !.cause = "bodyThrew"], op, src)
  BY PlainFacts
<1>2. CASE ForOf \/ ArrayPattern \/ Spread \/ GroupBy
  <2>1. PICK op \in {"forOf", "pattern", "spread", "groupBy"}, src \in Sources, n \in 1..2 :
           Begin(Consumer(op, src)) \/ Begin([Consumer(op, src) EXCEPT !.left = n])
    <3>1. 1 \in 1..2
      OBVIOUS
    <3>2. CASE ForOf
      BY <3>1, <3>2 DEF ForOf
    <3>3. CASE ArrayPattern
      BY <3>3 DEF ArrayPattern
    <3>4. CASE Spread
      BY <3>1, <3>4 DEF Spread
    <3>5. CASE GroupBy
      BY <3>1, <3>5 DEF GroupBy
    <3> QED BY <1>2, <3>2, <3>3, <3>4, <3>5
  <2>2. Unchanged
    BY <1>2 DEF ForOf, ArrayPattern, Spread, GroupBy
  <2>3. Plain(Consumer(op, src), op, src) /\ Plain([Consumer(op, src) EXCEPT !.left = n], op, src)
    <3>1. n \in 0..2 /\ Nobody \in {Nobody, "builtin", "patched"}
      OBVIOUS
    <3> QED BY <1>1, <3>1
  <2>4. CASE Begin(Consumer(op, src))
    BY <2>2, <2>3, <2>4, BegunShape DEF Plain
  <2>5. CASE Begin([Consumer(op, src) EXCEPT !.left = n])
    BY <2>2, <2>3, <2>5, BegunShape DEF Plain
  <2> QED BY <2>1, <2>4, <2>5
<1>3. CASE \E op \in Constructors : Constructing(op)
  <2>1. PICK op \in Constructors : Constructing(op)
    BY <1>3
  <2>2. PICK src \in Sources, adder \in {"builtin", "patched", "fails"} :
           Begin(IF adder = "fails"
                 THEN [Consumer(op, src) EXCEPT !.at = "close", !.cause = "bodyThrew"]
                 ELSE [Consumer(op, src) EXCEPT !.key = adder])
    BY <2>1 DEF Constructing
  <2>3. Unchanged
    BY <2>1 DEF Constructing
  <2>4. CASE adder = "fails"
    <3> DEFINE h == [Consumer(op, src) EXCEPT !.at = "close", !.cause = "bodyThrew"]
    <3>1. 0 \in 0..2 /\ Nobody \in {Nobody, "builtin", "patched"}
      OBVIOUS
    <3>2. Begin(h) /\ Refused(h, op, src)
      BY <1>1, <2>2, <2>4, <3>1
    <3> HIDE DEF h
    <3> QED BY <2>3, <3>2, BegunShape DEF Refused
  <2>5. CASE adder # "fails"
    <3> DEFINE h == [Consumer(op, src) EXCEPT !.key = adder]
    <3>1. 0 \in 0..2 /\ adder \in {Nobody, "builtin", "patched"}
      BY <2>5
    <3>2. Begin(h) /\ Plain(h, op, src)
      BY <1>1, <2>2, <2>5, <3>1
    <3> HIDE DEF h
    <3> QED BY <2>3, <3>2, BegunShape DEF Plain
  <2> QED BY <2>4, <2>5
<1> QED BY <1>2, <1>3

LEMMA OwnShape ==
    ASSUME IterationAssumption, IInv, ForEach \/ GetOrInsertComputed
    PROVE  Shapes /\ Deep'
<1>0. Own \in Srcs(World) /\ "forEach" \in Ops /\ "computed" \in Ops
  BY DEF Srcs, Ops
<1>1. CASE ForEach
  <2>1. PICK c \in Colls : Begin([Consumer("forEach", Own) EXCEPT !.walk = NewWalk(c), !.c = c])
    BY <1>1 DEF ForEach
  <2> DEFINE f == Consumer("forEach", Own)
             g == [f EXCEPT !.walk = NewWalk(c), !.c = c]
  <2>2. f \in Frame(World)
    BY <1>0, ConsumerFacts
  <2>3. NewWalk(c) \in Walkers(World)
    BY WalkersFacts DEF IInv
  <2>4. Begin(g) /\ Unchanged
    BY <1>1, <2>1 DEF ForEach
  <2> HIDE DEF f
  <2>5. g \in Frame(World) /\ g.walk = NewWalk(c)
    BY <2>2, <2>3 DEF Frame, Colls
  <2> HIDE DEF g
  <2> QED BY <2>4, <2>5, BegunShape
<1>2. CASE GetOrInsertComputed
  <2>1. PICK c \in Maps, k \in World.keys :
           Begin([Consumer("computed", Own) EXCEPT !.c = c, !.key = MapKey(k), !.at = "body"])
    BY <1>2 DEF GetOrInsertComputed
  <2> DEFINE f == Consumer("computed", Own)
             g == [f EXCEPT !.c = c, !.key = MapKey(k), !.at = "body"]
  <2>2. f \in Frame(World) /\ f.walk = Nobody
    BY <1>0, ConsumerFacts
  <2>3. MapKey(k) \in StoredKeys(World) /\ c \in DOMAIN World.kind
    BY StoredKey DEF Maps, Colls
  <2>4. Begin(g) /\ Unchanged
    BY <1>2, <2>1 DEF GetOrInsertComputed
  <2> HIDE DEF f
  <2>5. g \in Frame(World) /\ g.walk = Nobody
    BY <2>2, <2>3, AtsHave DEF Frame
  <2> HIDE DEF g
  <2> QED BY <2>4, <2>5, BegunShape
<1> QED BY <1>1, <1>2
LEMMA SetMethodShape ==
    ASSUME IterationAssumption, IInv, SetMethod
    PROVE  Shapes /\ Deep'
<1>1. PICK g \in Frame(World) : MethodFrame(g)
  BY MethodBegins
<1>2. CASE g.walk = Nobody
  BY <1>1, <1>2, BegunShape DEF MethodFrame
<1>3. CASE g.walk # Nobody
  <2>1. PICK c \in Colls : g.walk = NewWalk(c)
    BY <1>1, <1>3 DEF MethodFrame
  <2> QED BY <1>1, <2>1, BegunShape DEF MethodFrame
<1> QED BY <1>2, <1>3

LEMMA BeginsShape ==
    ASSUME IterationAssumption, IInv, Begins
    PROVE  Shapes /\ Deep'
<1>1. Constructing("Map") \/ Constructing("Set") \/ Constructing("WeakMap") \/ Constructing("WeakSet")
      => \E op \in Constructors : Constructing(op)
  BY DEF Constructors
<1> QED BY <1>1, PlainShape, OwnShape, SetMethodShape
        DEF Begins, ConstructMap, ConstructSet, ConstructWeakMap, ConstructWeakSet

\* A walk of its own: the consumer stays, with the walk a step further.
LEMMA StepOwnShape ==
    ASSUME IterationAssumption, IInv, Deep, StepOwn
    PROVE  Shapes /\ Deep'
<1>1. /\ Running /\ Top.at = "step" /\ Top.src = Own /\ Unchanged
      /\ StepLive(Top.walk, [Top EXCEPT !.walk = Stepped(slots[Top.walk.of], Top.walk)])
  BY DEF StepOwn
<1>2. Lasting /\ StackOK /\ iters' = iters /\ slots' = slots /\ World' = World
  BY <1>1, UnchangedOK DEF IInv, Unchanged, World
<1>3. Fine(Top, World, iters) /\ Len(stack) \in Nat \ {0}
  BY <1>1, <1>2, TopFine
<1>4. Top.op # "computed"
  BY <1>1, <1>3 DEF Fine, FrameOK
<1>5. Mid(Top, World, iters')
  BY <1>1, <1>2, <1>4, TopMid
<1>6. Top = stack[Len(stack)] /\ DOMAIN stack = 1..Len(stack)
  BY <1>2 DEF Top, Last, StackOK
<1> DEFINE f == Top
           walk == f.walk
           next == Stepped(slots[walk.of], walk)
           g == [f EXCEPT !.walk = next]
           id == <<"frame", Len(stack)>>
<1>7. walk \in Walkers(World) /\ walk # Nobody
  BY <1>1, <1>5 DEF Mid, Frame
<1>8. next \in Walkers(World) /\ next # Nobody
  BY <1>7, StepWalker, WalkersFacts DEF IInv
<1>9. id \in WalkIds /\ WalkAt(id) = walk
  <2>1. Len(stack) \in 1..World.depth /\ Len(stack) \in DOMAIN stack
    BY <1>3, <1>6 DEF Deep, IterationAssumption, IInv, World
  <2> QED BY <1>6, <2>1 DEF WalkIds, WalkAt
<1>10. StepLive(walk, g) /\ Mid(f, World, iters') /\ f.src = Own
  BY <1>1, <1>5
<1> HIDE DEF f, id
<1>11. Advanced \/ ~Replaced(id, next)
  BY <1>2, <1>7, <1>9 DEF Advanced
<1> HIDE DEF walk, next
<1>12. /\ g \in Frame(World) /\ g.op = f.op /\ g.src = f.src /\ g.walk = next
       /\ g.got = f.got /\ g.cause = f.cause /\ g.method = f.method /\ g.calls = f.calls
  BY <1>8, <1>10 DEF Mid, Frame
<1> HIDE DEF g
<1>13. Mid(g, World, iters')
  BY <1>8, <1>10, <1>12 DEF Mid
<1>14. Stays(g)
  BY <1>7, <1>10, <1>12, <1>13, StepLiveMoves
<1>15. PICK h \in Frame(World) : Become(h) /\ h.walk = next
  BY <1>12, <1>14 DEF Stays
<1>16. Replaced(id, next) /\ Len(stack') = Len(stack)
  BY <1>1, <1>2, <1>15, TopReplaced DEF id
<1> QED BY <1>2, <1>11, <1>16 DEF Shapes, Deep

\* A walk of an iterator: the consumer has none of its own.
LEMMA StepIteratorShape ==
    ASSUME IterationAssumption, IInv, Deep, StepIterator
    PROVE  Shapes /\ Deep'
<1>1. /\ Running /\ Top.at = "step" /\ Top.src.kind = "walk"
      /\ StepLive(iters[Top.src.i], Top)
      /\ iters' = [iters EXCEPT ![Top.src.i] = Stepped(slots[iters[Top.src.i].of], iters[Top.src.i])]
      /\ setup' = setup /\ slots' = slots
  BY DEF StepIterator
<1>2. StackOK /\ setup \in DOMAIN Setup /\ ItersOK /\ World' = World
  BY <1>1 DEF IInv, World
<1>3. Fine(Top, World, iters) /\ Top.src \in Srcs(World) /\ Top \in Frame(World)
      /\ Len(stack) \in Nat \ {0}
  BY <1>1, <1>2, TopFine DEF Frame
<1>4. PICK i \in Iters : Top.src = Walk(i)
  BY <1>1, <1>3 DEF Srcs, Script, Array, Own, Iters
<1>5. Top.src.i = i /\ Top.src # Own
  BY <1>4 DEF Walk, Own
<1>6. iters[i] \in Walkers(World) /\ iters[i] # Nobody
  BY <1>1, <1>2, <1>3, <1>5 DEF Fine, ItersOK
<1> DEFINE next == Stepped(slots[iters[i].of], iters[i])
<1>7. next \in Walkers(World)
  BY <1>6, StepWalker
<1>8. Lasting /\ iters' = [iters EXCEPT ![i] = next]
  BY <1>1, <1>5, <1>7, WalkReplaced
<1>9. Top.op # "computed" /\ Top.walk = Nobody
  BY <1>1, <1>3, <1>5 DEF Fine, FrameOK
<1>10. Mid(Top, World, iters')
  BY <1>1, <1>2, <1>8, <1>9, TopMid
<1>11. Stays(Top) \/ Goes
  BY <1>1, <1>5, <1>6, <1>10, StepLiveMoves
<1> DEFINE id == <<"iterator", i>>
<1>12. id \in WalkIds /\ WalkAt(id) = iters[i]
  BY DEF WalkIds, WalkAt
<1>13. /\ Len(stack') = Len(stack) \/ Len(stack') = Len(stack) - 1
       /\ \A d \in DOMAIN stack \cup DOMAIN stack' :
             (IF d \in DOMAIN stack' THEN stack'[d].walk ELSE Nobody)
             = (IF d \in DOMAIN stack THEN stack[d].walk ELSE Nobody)
  <2>1. stack \in Seq(Frame(World)) /\ stack # <<>> /\ Top = stack[Len(stack)]
    BY <1>1, <1>2 DEF StackOK, Running, Top, Last
  <2>2. /\ Front(stack) \in Seq(Frame(World)) /\ Len(Front(stack)) = Len(stack) - 1
        /\ \A j \in 1..(Len(stack) - 1) : Front(stack)[j] = stack[j]
    BY <2>1, PopFacts
  <2>3. DOMAIN stack = 1..Len(stack)
    BY <2>1
  <2>4. CASE Goes
    <3>1. Len(stack') = Len(stack) - 1 /\ DOMAIN stack' = 1..(Len(stack) - 1)
          /\ \A j \in 1..(Len(stack) - 1) : stack'[j] = stack[j]
      BY <2>2, <2>4 DEF Goes
    <3> QED BY <1>3, <1>9, <2>1, <2>3, <3>1
  <2>5. CASE Stays(Top)
    <3>1. PICK h \in Frame(World) : Become(h) /\ h.walk = Top.walk
      BY <2>5 DEF Stays
    <3>2. stack' = Append(Front(stack), h)
      BY <3>1 DEF Become
    <3>3. /\ stack' \in Seq(Frame(World)) /\ Len(stack') = Len(stack)
          /\ stack'[Len(stack)] = h /\ \A j \in 1..(Len(stack) - 1) : stack'[j] = stack[j]
      BY <1>3, <2>2, <3>2, AppendFacts
    <3>4. DOMAIN stack' = 1..Len(stack)
      BY <3>3
    <3>5. ASSUME NEW d \in 1..Len(stack) PROVE stack'[d].walk = stack[d].walk
      <4>1. d \in 1..(Len(stack) - 1) \/ d = Len(stack)
        BY <1>3
      <4> QED BY <2>1, <3>1, <3>3, <4>1
    <3> QED BY <2>3, <3>3, <3>4, <3>5
  <2> QED BY <1>11, <2>4, <2>5
<1>14. Replaced(id, next)
  <2>1. \A j \in Iters : iters'[j] = IF j = i THEN next ELSE iters[j]
    BY <1>2, <1>8 DEF ItersOK
  <2> HIDE DEF next
  <2>2. ASSUME NEW j \in WalkIds PROVE WalkAt(j)' = IF j = id THEN next ELSE WalkAt(j)
    <3>1. ASSUME NEW k \in Iters, j = <<"iterator", k>>, WalkAt(j) = iters[k], WalkAt(j)' = iters'[k]
          PROVE  WalkAt(j)' = IF j = id THEN next ELSE WalkAt(j)
      BY <2>1, <3>1
    <3>2. ASSUME NEW d \in 1..World.depth, j = <<"frame", d>>,
                 WalkAt(j) = IF d \in DOMAIN stack THEN stack[d].walk ELSE Nobody,
                 WalkAt(j)' = IF d \in DOMAIN stack' THEN stack'[d].walk ELSE Nobody
          PROVE  WalkAt(j)' = IF j = id THEN next ELSE WalkAt(j)
      <4>1. j # id
        BY <3>2
      <4>2. WalkAt(j)' = WalkAt(j)
        BY <1>13, <3>2
      <4> QED BY <4>1, <4>2
    <3> QED BY <3>1, <3>2, IdFacts
  <2> QED BY <2>2 DEF Replaced
<1>15. Advanced
  BY <1>1, <1>6, <1>12, <1>14 DEF Advanced
<1>16. Deep'
  <2>1. World.depth \in Nat /\ Len(stack) <= World.depth /\ Len(stack) \in Nat
    BY <1>2, <1>3 DEF Deep, IterationAssumption, World
  <2>2. CASE Len(stack') = Len(stack)
    BY <1>2, <2>1, <2>2 DEF Deep
  <2>3. CASE Len(stack') = Len(stack) - 1
    <3>1. Len(stack) - 1 <= World.depth
      BY <2>1
    <3> QED BY <1>2, <2>3, <3>1 DEF Deep
  <2> QED BY <1>13, <2>2, <2>3
<1> QED BY <1>15, <1>16 DEF Shapes
\* The answers of an iterator without a walk.
LEMMA AnswersShape ==
    ASSUME IterationAssumption, IInv, Deep, StepArray \/ NextAnswers
    PROVE  Shapes /\ Deep'
<1>1. Running /\ Top.at \in {"step", "next"} /\ Unchanged /\ (Top.at = "step" => Top.src = Array)
  BY DEF StepArray, NextAnswers
<1>2. PICK a \in {Done, Threw} \cup World.keys : Received(Top, a)
  BY DEF StepArray, NextAnswers
<1>3. Lasting /\ StackOK /\ setup \in DOMAIN Setup
  BY <1>1, UnchangedOK DEF IInv
<1>4. Fine(Top, World, iters)
  BY <1>1, <1>3, TopFine
<1>5. Top.op # "computed" /\ (Top.at = "next" => Top.src # Own)
  BY <1>1, <1>4 DEF Fine, FrameOK
<1>6. Mid(Top, World, iters')
  BY <1>1, <1>3, <1>5, TopMid
<1>7. Stays(Top) \/ Goes
  BY <1>2, <1>3, <1>6, ReceivedMoves
<1> QED BY <1>1, <1>7, MovesShape DEF Unchanged, Shapes

LEMMA CallNextShape ==
    ASSUME IterationAssumption, IInv, Deep, CallNext
    PROVE  Shapes /\ Deep'
<1> DEFINE f == Top
           g == [f EXCEPT !.at = "next"]
<1>1. Running /\ Unchanged /\ Become(g)
  BY DEF CallNext
<1>2. f \in Frame(World)
  BY <1>1, TopFine DEF IInv
<1> HIDE DEF f
<1>3. g \in Frame(World) /\ g.walk = f.walk
  BY <1>2, AtsHave DEF Frame
<1>4. Stays(f)
  BY <1>1, <1>3 DEF Stays
<1> QED BY <1>1, <1>4, MovesShape DEF f, Unchanged, Shapes

LEMMA OverShape ==
    ASSUME IterationAssumption, IInv, Deep, Over
    PROVE  Shapes /\ Deep'
<1>1. Running /\ Unchanged /\ Abandon(Top, "exhausted")
  BY DEF Over
<1>2. Goes
  BY <1>1, AbandonGoes
<1> QED BY <1>1, <1>2, MovesShape DEF Unchanged, Shapes

LEMMA AskShape ==
    ASSUME IterationAssumption, IInv, Deep, Ask \/ HasAnswers
    PROVE  Shapes /\ Deep'
<1>1. Running /\ Top.at \in {"ask", "has"} /\ Unchanged
  BY DEF Ask, HasAnswers
<1>2. Fine(Top, World, iters) /\ Top \in Frame(World)
  BY <1>1, TopFine DEF IInv
<1>3. \/ \E cause : Abandon(Top, cause)
      \/ Become([Top EXCEPT !.at = "has"])
      \/ Top.todo # <<>> /\ \E found \in BOOLEAN : Asked(Top, found)
  <2>1. CASE Ask /\ Top.todo = <<>>
    BY <2>1 DEF Ask
  <2>2. CASE Ask /\ Top.todo # <<>> /\ Top.other = SetLike
    BY <2>2 DEF Ask
  <2>3. CASE Ask /\ Top.todo # <<>> /\ Top.other # SetLike
    <3>1. Asked(Top, Has(slots[Top.other], Head(Top.todo)))
      BY <2>3 DEF Ask
    <3>2. Has(slots[Top.other], Head(Top.todo)) \in BOOLEAN
      BY DEF Has
    <3> QED BY <2>3, <3>1, <3>2
  <2>4. CASE HasAnswers
    <3>1. Top.todo # <<>>
      BY <1>2, <2>4 DEF Fine, FrameOK, HasAnswers
    <3> QED BY <2>4, <3>1 DEF HasAnswers
  <2> QED BY <2>1, <2>2, <2>3, <2>4
<1>4. CASE \E cause : Abandon(Top, cause)
  <2>1. Goes
    BY <1>4, AbandonGoes
  <2> QED BY <1>1, <2>1, MovesShape DEF Unchanged, Shapes
<1>5. CASE Become([Top EXCEPT !.at = "has"])
  <2> DEFINE f == Top
             g == [f EXCEPT !.at = "has"]
  <2>1. f \in Frame(World)
    BY <1>2
  <2>2. Become(g)
    BY <1>5
  <2> HIDE DEF f
  <2>3. g \in Frame(World) /\ g.walk = f.walk
    BY <2>1, AtsHave DEF Frame
  <2>4. Stays(f)
    BY <2>2, <2>3 DEF Stays
  <2> QED BY <1>1, <2>4, MovesShape DEF f, Unchanged, Shapes
<1>6. CASE Top.todo # <<>> /\ \E found \in BOOLEAN : Asked(Top, found)
  <2>1. Stays(Top) \/ Goes
    BY <1>2, <1>6, AskedMoves
  <2> QED BY <1>1, <2>1, MovesShape DEF Unchanged, Shapes
<1> QED BY <1>3, <1>4, <1>5, <1>6

\* The callback of getOrInsertComputed has no walk to lose.
LEMMA BodyReturnsShape ==
    ASSUME IterationAssumption, IInv, Deep, BodyReturns
    PROVE  Shapes /\ Deep'
<1>1. Running /\ Top.at = "body" /\ setup' = setup /\ iters' = iters /\ StackOK
  BY DEF BodyReturns, IInv
<1>2. Fine(Top, World, iters) /\ Top \in Frame(World) /\ Len(stack) \in Nat \ {0}
  BY <1>1, TopFine
<1>3. CASE Top.op = "computed"
  <2>1. PICK v \in World.values : slots' = [slots EXCEPT ![Top.c] = MapSet(@, Top.key, v)]
    BY <1>3 DEF BodyReturns
  <2>2. stack' = Front(stack)
    BY <1>3, AbandonGoes DEF BodyReturns, Goes
  <2>3. Replaced(<<"frame", Len(stack)>>, Nobody) /\ Len(stack') = Len(stack) - 1
    BY <1>1, <2>2, TopGone
  <2>4. Top.walk = Nobody /\ Top.c \in Colls /\ Top.key \in World.keys \cup {Zero}
    BY <1>2, <1>3 DEF Fine, FrameOK, Colls, StoredKeys
  <2>5. WalkAt(<<"frame", Len(stack)>>) = Nobody
    <3>1. Top = stack[Len(stack)] /\ DOMAIN stack = 1..Len(stack)
      BY <1>1 DEF Top, Last, StackOK
    <3> QED BY <2>4, <3>1 DEF WalkAt
  <2>6. AllHeld
    BY <2>3, <2>5 DEF Replaced, AllHeld
  <2>7. KeySet
    BY <2>1, <2>4, <2>6 DEF KeySet
  <2>8. Deep'
    <3>1. World' = World /\ World.depth \in Nat
      BY <1>1 DEF World, IInv, IterationAssumption
    <3>2. Len(stack) - 1 <= World.depth
      BY <1>2, <3>1 DEF Deep
    <3> QED BY <2>3, <3>1, <3>2 DEF Deep
  <2> QED BY <2>7, <2>8 DEF Shapes
<1>4. CASE Top.op # "computed"
  <2>1. slots' = slots /\ IF Top.op = "pattern" THEN NextElement(Top) ELSE Again(Top)
    BY <1>4 DEF BodyReturns
  <2>2. Stays(Top) \/ Goes
    BY <1>2, <2>1, NextElementMoves, AgainStays
  <2> QED BY <1>1, <2>1, <2>2, MovesShape DEF Shapes
<1> QED BY <1>3, <1>4

LEMMA BodyEndsShape ==
    ASSUME IterationAssumption, IInv, Deep, BodyThrows \/ BodyBreaks \/ BodyLeaves
    PROVE  Shapes /\ Deep'
<1>1. Running /\ Unchanged
  BY DEF BodyThrows, BodyBreaks, BodyLeaves
<1>2. Top \in Frame(World)
  BY <1>1, TopFine DEF IInv
<1>3. \/ Closing(Top, "bodyThrew") \/ Closing(Top, "stopped")
      \/ Abandon(Top, "bodyThrew") \/ Abandon(Top, "left")
  BY DEF BodyThrows, BodyBreaks, BodyLeaves
<1>4. Stays(Top) \/ Goes
  BY <1>2, <1>3, ClosingStays, AbandonGoes
<1> QED BY <1>1, <1>4, MovesShape DEF Unchanged, Shapes

LEMMA CloseShape ==
    ASSUME IterationAssumption, IInv, Deep, Close \/ ReturnAnswers
    PROVE  Shapes /\ Deep'
<1>1. Running /\ Unchanged
  BY DEF Close, ReturnAnswers
<1>2. Fine(Top, World, iters) /\ Top \in Frame(World)
  BY <1>1, TopFine DEF IInv
<1>3. \/ \E f : Finish(f) \/ \E completion : End(f, completion)
      \/ /\ Top.at = "close"
         /\ Become([Top EXCEPT !.method = "callable", !.calls = @ + 1, !.at = "return"])
  <2>1. CASE Close
    BY <2>1 DEF Close
  <2>2. CASE ReturnAnswers
    <3>1. PICK a \in {"object", "primitive", "throws"} :
             LET f == [Top EXCEPT !.answer = a] IN
             CASE OverAbrupt(f) \/ a = "object" -> Finish(f)
               [] ~OverAbrupt(f) /\ a = "primitive" -> End(f, "typeError")
               [] ~OverAbrupt(f) /\ a = "throws" -> End(f, "returnThrew")
      BY <2>2 DEF ReturnAnswers
    <3> DEFINE f == [Top EXCEPT !.answer = a]
    <3> HIDE DEF f
    <3>2. Finish(f) \/ End(f, "typeError") \/ End(f, "returnThrew")
      BY <3>1 DEF f
    <3> QED BY <3>2
  <2> QED BY <2>1, <2>2
<1>4. CASE \E f : Finish(f) \/ \E completion : End(f, completion)
  <2>1. Goes
    BY <1>4, FinishGoes, EndGoes
  <2> QED BY <1>1, <2>1, MovesShape DEF Unchanged, Shapes
<1>5. CASE Top.at = "close" /\ Become([Top EXCEPT !.method = "callable", !.calls = @ + 1, !.at = "return"])
  <2>1. Top.calls = 0
    BY <1>2, <1>5 DEF Fine, FrameOK
  <2> DEFINE f == Top
             g == [f EXCEPT !.method = "callable", !.calls = f.calls + 1, !.at = "return"]
  <2>2. f \in Frame(World) /\ f.calls = 0 /\ f.calls + 1 \in 0..1
    BY <1>2, <2>1
  <2>3. Become(g)
    BY <1>5
  <2> HIDE DEF f
  <2>4. g \in Frame(World) /\ g.walk = f.walk
    <3> DEFINE n == f.calls + 1
               h1 == [f EXCEPT !.method = "callable"]
               h2 == [h1 EXCEPT !.calls = n]
    <3>1. n \in 0..1
      BY <2>2
    <3>2. g = [h2 EXCEPT !.at = "return"]
      BY <2>2
    <3> HIDE DEF n, g
    <3>3. h1 \in Frame(World) /\ h1.walk = f.walk
      BY <2>2 DEF Frame
    <3> HIDE DEF h1
    <3>4. h2 \in Frame(World) /\ h2.walk = f.walk
      BY <3>1, <3>3 DEF Frame
    <3> HIDE DEF h2
    <3> QED BY <3>2, <3>4 DEF Frame, Ats
  <2>5. Stays(f)
    BY <2>3, <2>4 DEF Stays
  <2> QED BY <1>1, <2>5, MovesShape DEF f, Unchanged, Shapes
<1> QED BY <1>3, <1>4, <1>5

LEMMA NextShape ==
    ASSUME IterationAssumption, NeverClearsUnderWalk, IInv, Deep, Next
    PROVE  Shapes /\ Deep' /\ setup' = setup
<1>1. CASE Insert \/ Erase \/ ClearAll \/ GetOrInsert \/ MakeWalk \/ StepWalk
  <2>1. Shapes
    BY <1>1, InsertShape, EraseShape, ClearShape, GetOrInsertShape, MakeWalkShape, StepWalkShape
  <2>2. setup' = setup /\ stack' = stack
    BY <1>1 DEF Insert, Erase, ClearAll, GetOrInsert, Quietly, MakeWalk, StepWalk
  <2> QED BY <2>1, <2>2, QuietDeep
<1>2. CASE Begins
  <2>1. setup' = setup
    <3>1. \A op : Constructing(op) => setup' = setup
      BY DEF Constructing, Unchanged
    <3>2. ForEach \/ GetOrInsertComputed => setup' = setup
      <4>1. ForEach => Unchanged
        BY Zenon DEF ForEach
      <4>2. GetOrInsertComputed => Unchanged
        BY Zenon DEF GetOrInsertComputed
      <4> QED BY <4>1, <4>2 DEF Unchanged
    <3>3. ForOf \/ ArrayPattern \/ Spread \/ GroupBy => setup' = setup
      BY DEF ForOf, ArrayPattern, Spread, GroupBy, Unchanged
    <3>4. SetMethod => setup' = setup
      BY MethodBegins DEF MethodFrame, Unchanged
    <3> QED BY <1>2, <3>1, <3>2, <3>3, <3>4
            DEF Begins, ConstructMap, ConstructSet, ConstructWeakMap, ConstructWeakSet
  <2> QED BY <1>2, <2>1, BeginsShape
<1>3. CASE Steps
  <2>1. setup' = setup
    BY <1>3 DEF Steps, StepOwn, StepIterator, StepArray, CallNext, NextAnswers, Over, Ask, HasAnswers,
           BodyReturns, BodyThrows, BodyBreaks, BodyLeaves, Close, ReturnAnswers, Unchanged
  <2> QED BY <1>3, <2>1, StepOwnShape, StepIteratorShape, AnswersShape, CallNextShape, OverShape,
           AskShape, BodyReturnsShape, BodyEndsShape, CloseShape DEF Steps
<1> QED BY <1>1, <1>2, <1>3 DEF Next
-----------------------------------------------------------------------------
(* What lies ahead of a place of a collection.  Place 0 is its start.       *)

Suffix(s, idx) == SubSeq(s, idx + 1, Len(s))
Onward(s, idx) == Live(Suffix(s, idx))

LEMMA SuffixFacts ==
    ASSUME NEW S, NEW s \in Seq(S), NEW idx \in 0..Len(s)
    PROVE  /\ Suffix(s, idx) \in Seq(S) /\ Len(Suffix(s, idx)) = Len(s) - idx
           /\ Len(s) \in Nat /\ idx \in Nat
           /\ \A i \in 1..(Len(s) - idx) : Suffix(s, idx)[i] = s[idx + i]
<1>0. Len(s) \in Nat /\ idx \in Nat /\ \A i \in 1..Len(s) : s[i] \in S
  OBVIOUS
<1> DEFINE b == SubSeq(s, idx + 1, Len(s))
<1>1. /\ b \in Seq(S)
      /\ Len(b) = IF idx + 1 <= Len(s) THEN Len(s) - (idx + 1) + 1 ELSE 0
      /\ \A i \in 1..(Len(s) - (idx + 1) + 1) : b[i] = s[idx + 1 + i - 1]
  <2>1. idx + 1 \in Int /\ Len(s) \in Int /\ \A i \in (idx + 1)..Len(s) : s[i] \in S
    BY <1>0
  <2> QED BY <2>1, SubSeqProperties
<1> HIDE DEF b
<1>2. Len(b) = Len(s) - idx
  BY <1>0, <1>1
<1>3. ASSUME NEW i \in 1..(Len(s) - idx) PROVE b[i] = s[idx + i]
  BY <1>0, <1>1
<1> QED BY <1>0, <1>1, <1>2, <1>3 DEF b, Suffix

LEMMA OnwardStart ==
    ASSUME NEW S, NEW s \in Seq(S)
    PROVE  Suffix(s, 0) = s /\ Onward(s, 0) = Live(s)
<1>1. 0 \in 0..Len(s) /\ Len(s) - 0 = Len(s) /\ \A i \in 1..Len(s) : 0 + i = i
  OBVIOUS
<1>2. /\ Suffix(s, 0) \in Seq(S) /\ Len(Suffix(s, 0)) = Len(s)
      /\ \A i \in 1..Len(s) : Suffix(s, 0)[i] = s[0 + i]
  BY <1>1, SuffixFacts
<1>3. Suffix(s, 0) = s
  BY <1>1, <1>2, SeqEqual
<1> QED BY <1>3 DEF Onward

LEMMA OnwardAppend ==
    ASSUME NEW S, NEW s \in Seq(S), NEW idx \in 0..Len(s), NEW e \in S, IsLive(e)
    PROVE  Onward(Append(s, e), idx) = Append(Onward(s, idx), e)
<1> DEFINE r == Suffix(s, idx)
           t == Append(s, e)
           u == Suffix(t, idx)
           v == Append(r, e)
<1>1. /\ r \in Seq(S) /\ Len(r) = Len(s) - idx /\ Len(s) \in Nat /\ idx \in Nat
      /\ \A i \in 1..(Len(s) - idx) : r[i] = s[idx + i]
  BY SuffixFacts
<1>2. t \in Seq(S) /\ Len(t) = Len(s) + 1 /\ t[Len(s) + 1] = e /\ \A i \in 1..Len(s) : t[i] = s[i]
  BY AppendFacts
<1> HIDE DEF t, r
<1>3. idx \in 0..Len(t)
  BY <1>1, <1>2
<1>4. /\ u \in Seq(S) /\ Len(u) = Len(t) - idx
      /\ \A i \in 1..(Len(t) - idx) : u[i] = t[idx + i]
  BY <1>2, <1>3, SuffixFacts
<1>5. v \in Seq(S) /\ Len(v) = Len(r) + 1 /\ v[Len(r) + 1] = e /\ \A i \in 1..Len(r) : v[i] = r[i]
  BY <1>1, AppendFacts
<1> HIDE DEF u, v
<1>6. ASSUME NEW i \in 1..Len(v) PROVE u[i] = v[i]
  <2>1. CASE i \in 1..Len(r)
    <3>1. idx + i \in 1..Len(s) /\ i \in 1..(Len(s) - idx) /\ i \in 1..(Len(t) - idx)
      BY <1>1, <1>2, <2>1
    <3> QED BY <1>1, <1>2, <1>4, <1>5, <2>1, <3>1
  <2>2. CASE i = Len(r) + 1
    <3>1. idx + i = Len(s) + 1 /\ i \in 1..(Len(t) - idx)
      BY <1>1, <1>2, <2>2
    <3> QED BY <1>2, <1>4, <1>5, <2>2, <3>1
  <2> QED BY <1>1, <1>5, <2>1, <2>2
<1>7. Len(u) = Len(v)
  BY <1>1, <1>2, <1>4, <1>5
<1>8. u = v
  BY <1>4, <1>5, <1>6, <1>7, SeqEqual
<1>9. Live(v) = Append(Live(r), e)
  BY <1>1, LiveAppend DEF v
<1> QED BY <1>8, <1>9 DEF Onward, u, t, r

LEMMA SuffixUnique ==
    ASSUME NEW S, NEW s \in Seq(S), UniqueKeys(s), NEW idx \in 0..Len(s)
    PROVE  /\ UniqueKeys(Suffix(s, idx))
           /\ \A p \in 1..idx : IsLive(s[p]) =>
                 \A i \in 1..Len(Onward(s, idx)) : Onward(s, idx)[i].key # s[p].key
<1> DEFINE r == Suffix(s, idx)
<1>1. /\ r \in Seq(S) /\ Len(r) = Len(s) - idx /\ Len(s) \in Nat /\ idx \in Nat
      /\ \A i \in 1..(Len(s) - idx) : r[i] = s[idx + i]
  BY SuffixFacts
<1> HIDE DEF r
<1>2. UniqueKeys(r)
  <2> SUFFICES ASSUME NEW i \in 1..Len(r), NEW j \in 1..Len(r), IsLive(r[i]), IsLive(r[j]),
                      r[i].key = r[j].key
               PROVE  i = j
    BY DEF UniqueKeys
  <2> DEFINE m == idx + i
             n == idx + j
  <2>1. m \in 1..Len(s) /\ n \in 1..Len(s) /\ r[i] = s[m] /\ r[j] = s[n]
    BY <1>1
  <2>2. m = n
    <3> HIDE DEF m, n
    <3> QED BY <2>1 DEF UniqueKeys
  <2> QED BY <1>1, <2>2
<1>3. ASSUME NEW p \in 1..idx, IsLive(s[p]), NEW i \in 1..Len(Live(r)), Live(r)[i].key = s[p].key
      PROVE  FALSE
  <2> DEFINE e == Live(r)[i]
  <2>1. IsLive(e) /\ \E j \in 1..Len(r) : r[j] = e
    <3>1. \E j \in 1..Len(Live(r)) : Live(r)[j] = e
      BY <1>3
    <3> HIDE DEF e
    <3>2. r \in Seq(S)
      BY <1>1
    <3>3. (\E j \in 1..Len(Live(r)) : Live(r)[j] = e) <=> IsLive(e) /\ \E j \in 1..Len(r) : r[j] = e
      BY <3>2, LiveElements
    <3> QED BY <3>1, <3>3
  <2>2. e.key = s[p].key
    BY <1>3
  <2> HIDE DEF e
  <2>3. PICK j \in 1..Len(r) : r[j] = e
    BY <2>1
  <2> DEFINE m == idx + j
  <2>4. m \in 1..Len(s) /\ s[m] = e /\ p \in 1..Len(s) /\ p # m
    BY <1>1, <2>3
  <2> HIDE DEF m
  <2> QED BY <1>3, <2>1, <2>2, <2>4 DEF UniqueKeys
<1> QED BY <1>2, <1>3 DEF Onward, r

LEMMA SuffixSwap ==
    ASSUME NEW S, NEW s \in Seq(S), UniqueKeys(s), NEW t, NEW y, IsLive(y), NEW x \in S,
           Swaps(s, t, y, x), NEW idx \in 0..Len(s)
    PROVE  \/ Swaps(Suffix(s, idx), Suffix(t, idx), y, x)
           \/ /\ Suffix(t, idx) = Suffix(s, idx)
              /\ \A i \in 1..Len(Onward(s, idx)) : Onward(s, idx)[i].key # y.key
<1>0. PICK p \in 1..Len(s) : s[p] = y /\ t = [s EXCEPT ![p] = x]
  BY DEF Swaps
<1> DEFINE r == Suffix(s, idx)
           u == Suffix(t, idx)
<1>1. /\ r \in Seq(S) /\ Len(r) = Len(s) - idx /\ Len(s) \in Nat /\ idx \in Nat
      /\ \A i \in 1..(Len(s) - idx) : r[i] = s[idx + i]
  BY SuffixFacts
<1>2. t \in Seq(S) /\ Len(t) = Len(s) /\ \A i \in 1..Len(s) : t[i] = IF i = p THEN x ELSE s[i]
  BY <1>0, ExceptSeq
<1> HIDE DEF r
<1>3. idx \in 0..Len(t)
  BY <1>2
<1>4. /\ u \in Seq(S) /\ Len(u) = Len(s) - idx
      /\ \A i \in 1..(Len(s) - idx) : u[i] = t[idx + i]
  BY <1>2, <1>3, SuffixFacts
<1> HIDE DEF u
<1>5. CASE p <= idx
  <2>1. ASSUME NEW i \in 1..Len(r) PROVE u[i] = r[i]
    <3>1. i \in 1..(Len(s) - idx) /\ idx + i \in 1..Len(s) /\ idx + i # p
      BY <1>1, <1>5
    <3> QED BY <1>1, <1>2, <1>4, <3>1
  <2>2. u = r
    BY <1>1, <1>4, <2>1, SeqEqual
  <2>3. p \in 1..idx
    BY <1>1, <1>5
  <2>4. \A i \in 1..Len(Onward(s, idx)) : Onward(s, idx)[i].key # y.key
    BY <1>0, <2>3, SuffixUnique
  <2> QED BY <2>2, <2>4 DEF u, r
<1>6. CASE p > idx
  <2> DEFINE q == p - idx
             v == [r EXCEPT ![q] = x]
  <2>1. q \in 1..Len(r) /\ idx + q = p /\ q \in 1..(Len(s) - idx)
    BY <1>1, <1>6
  <2> HIDE DEF q
  <2>2. v \in Seq(S) /\ Len(v) = Len(r) /\ \A i \in 1..Len(r) : v[i] = IF i = q THEN x ELSE r[i]
    BY <1>1, <2>1, ExceptSeq
  <2>3. ASSUME NEW i \in 1..Len(r) PROVE u[i] = v[i]
    <3>1. i \in 1..(Len(s) - idx) /\ idx + i \in 1..Len(s) /\ (idx + i = p <=> i = q)
      BY <1>1, <2>1
    <3> QED BY <1>1, <1>2, <1>4, <2>2, <3>1
  <2> HIDE DEF v
  <2>4. u = v
    BY <1>1, <1>4, <2>2, <2>3, SeqEqual
  <2>5. r[q] = y
    BY <1>0, <1>1, <2>1
  <2>6. u = [r EXCEPT ![q] = x]
    BY <2>4 DEF v
  <2>7. Swaps(r, u, y, x)
    BY <2>1, <2>5, <2>6 DEF Swaps
  <2> QED BY <2>7 DEF u, r
<1> QED BY <1>1, <1>5, <1>6

\* Where nothing is live, nothing lies ahead.
LEMMA LiveNothing ==
    ASSUME NEW S, NEW s \in Seq(S), \A i \in 1..Len(s) : ~IsLive(s[i])
    PROVE  Live(s) = <<>>
<1>1. Live(s) \in Seq(S)
  BY LiveSeq
<1>2. ASSUME Live(s) # <<>> PROVE FALSE
  <2> DEFINE e == Live(s)[1]
  <2>1. 1 \in 1..Len(Live(s))
    BY <1>1, <1>2, EmptySeq
  <2>2. IsLive(e) /\ \E i \in 1..Len(s) : s[i] = e
    BY <2>1, LiveElements
  <2> HIDE DEF e
  <2> QED BY <2>2
<1> QED BY <1>2

\* The step of a walk: the first of what lies ahead is what it visits.
LEMMA OnwardStep ==
    ASSUME NEW S, NEW s \in Seq(S), NEW idx \in 0..Len(s), NEW at \in (idx + 1)..Len(s),
           IsLive(s[at]), \A i \in (idx + 1)..(at - 1) : ~IsLive(s[i])
    PROVE  Onward(s, idx) # <<>> /\ Onward(s, at) = Tail(Onward(s, idx))
<1> DEFINE r == Suffix(s, idx)
           u == Suffix(s, at)
           q == at - idx
           x == s[at]
<1>1. /\ r \in Seq(S) /\ Len(r) = Len(s) - idx /\ Len(s) \in Nat /\ idx \in Nat
      /\ \A i \in 1..(Len(s) - idx) : r[i] = s[idx + i]
  BY SuffixFacts
<1>2. at \in 0..Len(s) /\ at \in Nat /\ at \in 1..Len(s) /\ idx < at
  BY <1>1
<1>3. u \in Seq(S) /\ Len(u) = Len(s) - at /\ \A i \in 1..(Len(s) - at) : u[i] = s[at + i]
  BY <1>2, SuffixFacts
<1>4. q \in 1..Len(r) /\ idx + q = at /\ q \in 1..(Len(s) - idx) /\ q \in Nat
  BY <1>1, <1>2
<1>5. r[q] = x /\ x \in S
  BY <1>1, <1>2, <1>4
<1> HIDE DEF r, u, q, x
<1>6. PICK a \in Seq(S), b \in Seq(S) : IsAround(r, q, a, b)
  BY <1>1, <1>4, AroundExists
<1>7. Live(r) = (Live(a) \o OneLive(x)) \o Live(b)
  <2>1. Splits(r, a, x, b)
    BY <1>4, <1>5, <1>6 DEF Splits
  <2> QED BY <1>1, <1>5, <2>1, LiveSplit
<1>8. Live(a) = <<>>
  <2>1. ASSUME NEW i \in 1..Len(a) PROVE ~IsLive(a[i])
    <3>1. i \in 1..(q - 1) /\ a[i] = r[i] /\ i \in 1..(Len(s) - idx)
      BY <1>1, <1>4, <1>6 DEF IsAround
    <3>2. idx + i \in (idx + 1)..(at - 1)
      BY <1>1, <1>4, <3>1
    <3>3. a[i] = s[idx + i]
      BY <1>1, <3>1
    <3> QED BY <3>2, <3>3
  <2> QED BY <2>1, LiveNothing
<1>9. OneLive(x) = <<x>>
  BY DEF OneLive, x
<1>10. u = b
  <2>1. Len(b) = Len(r) - q /\ \A i \in 1..(Len(r) - q) : b[i] = r[q + i]
    BY <1>6 DEF IsAround
  <2>2. Len(u) = Len(b)
    <3>1. Len(u) = Len(s) - (idx + q) /\ Len(b) = (Len(s) - idx) - q
      BY <1>1, <1>3, <1>4, <2>1
    <3> QED BY <1>1, <1>4, <3>1
  <2>3. ASSUME NEW i \in 1..Len(u) PROVE u[i] = b[i]
    <3>1. i \in 1..(Len(s) - at) /\ i \in 1..(Len(r) - q) /\ q + i \in 1..(Len(s) - idx)
          /\ idx + (q + i) = at + i
      BY <1>1, <1>2, <1>3, <1>4
    <3>2. u[i] = s[at + i]
      BY <1>3, <3>1
    <3>3. b[i] = r[q + i]
      BY <2>1, <3>1
    <3>4. r[q + i] = s[idx + (q + i)]
      BY <1>1, <3>1
    <3> QED BY <3>1, <3>2, <3>3, <3>4
  <2> QED BY <1>3, <1>6, <2>2, <2>3, SeqEqual
<1>11. Live(b) \in Seq(S) /\ <<x>> \in Seq(S)
  BY <1>5, <1>6, LiveSeq
<1>12. Live(r) = <<x>> \o Live(b)
  BY <1>7, <1>8, <1>9, <1>11, ConcatEmptySeq
<1> DEFINE l == <<x>> \o Live(b)
<1>13. /\ l \in Seq(S) /\ Len(l) = 1 + Len(Live(b)) /\ Len(Live(b)) \in Nat
       /\ \A i \in 1..Len(Live(b)) : l[1 + i] = Live(b)[i]
  BY <1>11, JoinFacts
<1>14. l # <<>>
  BY <1>13, EmptySeq
<1> HIDE DEF l
<1>15. /\ Tail(l) \in Seq(S) /\ Len(Tail(l)) = Len(l) - 1
       /\ \A i \in 1..(Len(l) - 1) : Tail(l)[i] = l[i + 1]
  BY <1>13, <1>14, TailFacts
<1>16. Tail(l) = Live(b)
  <2>1. Len(Tail(l)) = Len(Live(b))
    BY <1>13, <1>15
  <2>2. ASSUME NEW i \in 1..Len(Live(b)) PROVE Tail(l)[i] = Live(b)[i]
    <3>1. i \in 1..(Len(l) - 1) /\ i + 1 = 1 + i
      BY <1>13
    <3> QED BY <1>13, <1>15, <3>1
  <2> QED BY <1>11, <1>15, <2>1, <2>2, SeqEqual
<1> QED BY <1>10, <1>12, <1>14, <1>16 DEF Onward, l, r, u
\* Parts put together split again.
LEMMA JoinSplits ==
    ASSUME NEW S, NEW a \in Seq(S), NEW e \in S, NEW b \in Seq(S), NEW s, s = (a \o <<e>>) \o b
    PROVE  s \in Seq(S) /\ Splits(s, a, e, b)
<1> DEFINE m == a \o <<e>>
<1>1. <<e>> \in Seq(S) /\ Len(<<e>>) = 1 /\ <<e>>[1] = e
  OBVIOUS
<1>2. /\ m \in Seq(S) /\ Len(m) = Len(a) + 1 /\ Len(a) \in Nat
      /\ \A i \in 1..Len(a) : m[i] = a[i]
      /\ m[Len(a) + 1] = e
  <2>1. /\ m \in Seq(S) /\ Len(m) = Len(a) + Len(<<e>>) /\ Len(a) \in Nat
        /\ \A i \in 1..Len(a) : m[i] = a[i]
        /\ \A i \in 1..Len(<<e>>) : m[Len(a) + i] = <<e>>[i]
    BY <1>1, JoinFacts
  <2> HIDE DEF m
  <2>2. 1 \in 1..Len(<<e>>)
    BY <1>1
  <2> QED BY <1>1, <2>1, <2>2
<1> HIDE DEF m
<1>3. /\ s \in Seq(S) /\ Len(s) = Len(m) + Len(b) /\ Len(b) \in Nat
      /\ \A i \in 1..Len(m) : s[i] = m[i]
      /\ \A i \in 1..Len(b) : s[Len(m) + i] = b[i]
  <2>1. s = m \o b
    BY DEF m
  <2>2. /\ m \o b \in Seq(S) /\ Len(m \o b) = Len(m) + Len(b) /\ Len(b) \in Nat
        /\ \A i \in 1..Len(m) : (m \o b)[i] = m[i]
        /\ \A i \in 1..Len(b) : (m \o b)[Len(m) + i] = b[i]
    <3>1. m \in Seq(S)
      BY <1>2
    <3> QED BY <3>1, JoinFacts
  <2> QED BY <2>1, <2>2
<1> DEFINE p == Len(a) + 1
<1>4. p \in 1..Len(s) /\ p - 1 = Len(a) /\ Len(s) - p = Len(b) /\ p = Len(m)
  BY <1>2, <1>3
<1>5. s[p] = e
  <2>1. p \in 1..Len(m)
    BY <1>2
  <2> QED BY <1>2, <1>3, <2>1
<1>6. ASSUME NEW i \in 1..Len(a) PROVE a[i] = s[i]
  <2>1. i \in 1..Len(m)
    BY <1>2
  <2> QED BY <1>2, <1>3, <2>1
<1>7. ASSUME NEW i \in 1..Len(b) PROVE b[i] = s[p + i]
  BY <1>3, <1>4
<1> HIDE DEF p
<1>8. IsAround(s, p, a, b)
  BY <1>4, <1>6, <1>7 DEF IsAround
<1> QED BY <1>3, <1>4, <1>5, <1>8 DEF Splits

Placed(s, a, e, b, p) ==
    /\ p = Len(a) + 1 /\ Len(s) = Len(a) + 1 + Len(b) /\ s[p] = e
    /\ Len(a) \in Nat /\ Len(b) \in Nat
    /\ \A i \in 1..Len(a) : s[i] = a[i]
    /\ \A i \in 1..Len(b) : s[p + i] = b[i]

LEMMA SplitFacts ==
    ASSUME NEW S, NEW s \in Seq(S), NEW a \in Seq(S), NEW e, NEW b \in Seq(S), Splits(s, a, e, b)
    PROVE  \E p \in 1..Len(s) : Placed(s, a, e, b, p)
<1>1. PICK p \in 1..Len(s) : IsAround(s, p, a, b) /\ s[p] = e
  BY DEF Splits
<1>2. /\ Len(s) \in Nat /\ p \in Nat /\ Len(a) = p - 1 /\ Len(b) = Len(s) - p
      /\ \A i \in 1..(p - 1) : a[i] = s[i]
      /\ \A i \in 1..(Len(s) - p) : b[i] = s[p + i]
  BY <1>1 DEF IsAround
<1>3. p = Len(a) + 1 /\ Len(s) = Len(a) + 1 + Len(b) /\ Len(a) \in Nat /\ Len(b) \in Nat
  BY <1>2
<1>4. (\A i \in 1..Len(a) : s[i] = a[i]) /\ (\A i \in 1..Len(b) : s[p + i] = b[i])
  BY <1>2
<1> QED BY <1>1, <1>3, <1>4 DEF Placed

\* The entry of a key changes in its place, or goes.
LEMMA InPlaceSplit ==
    ASSUME NEW S, NEW s \in Seq(S), Distinct(s), NEW a \in Seq(S), NEW b \in Seq(S), NEW y, NEW x,
           NEW t \in Seq(S), Splits(s, a, y, b), Splits(t, a, x, b), x.key = y.key
    PROVE  Ordered!InPlace(s, x) = t
<1>0. (\E p \in 1..Len(s) : Placed(s, a, y, b, p)) /\ (\E q \in 1..Len(t) : Placed(t, a, x, b, q))
  BY SplitFacts
<1>1. PICK p \in 1..Len(s) :
              /\ p = Len(a) + 1 /\ Len(s) = Len(a) + 1 + Len(b) /\ s[p] = y
              /\ Len(a) \in Nat /\ Len(b) \in Nat
              /\ \A i \in 1..Len(a) : s[i] = a[i]
              /\ \A i \in 1..Len(b) : s[p + i] = b[i]
  BY <1>0 DEF Placed
<1>2. PICK q \in 1..Len(t) :
              /\ q = Len(a) + 1 /\ Len(t) = Len(a) + 1 + Len(b) /\ t[q] = x
              /\ \A i \in 1..Len(a) : t[i] = a[i]
              /\ \A i \in 1..Len(b) : t[q + i] = b[i]
  BY <1>0 DEF Placed
<1>3. q = p /\ Len(t) = Len(s)
  BY <1>1, <1>2
<1>4. ASSUME NEW i \in 1..Len(s)
      PROVE  t[i] = IF s[i].key = x.key THEN x ELSE s[i]
  <2>1. CASE i = p
    BY <1>1, <1>2, <1>3, <2>1
  <2>2. CASE i # p
    <3>1. s[i].key # x.key
      BY <1>1, <2>2 DEF Distinct
    <3>2. t[i] = s[i]
      <4>1. CASE i \in 1..Len(a)
        BY <1>1, <1>2, <4>1
      <4>2. CASE i \notin 1..Len(a)
        <5> DEFINE j == i - p
        <5>1. j \in 1..Len(b) /\ p + j = i
          BY <1>1, <2>2, <4>2
        <5> HIDE DEF j
        <5>2. t[p + j] = b[j] /\ s[p + j] = b[j]
          BY <1>1, <1>2, <1>3, <5>1
        <5> QED BY <5>1, <5>2
      <4> QED BY <4>1, <4>2
    <3> QED BY <3>1, <3>2
  <2> QED BY <2>1, <2>2
<1>5. t = [i \in 1..Len(s) |-> IF s[i].key = x.key THEN x ELSE s[i]]
  BY <1>3, <1>4
<1> QED BY <1>5 DEF Ordered!InPlace

LEMMA InPlaceSame ==
    ASSUME NEW S, NEW s \in Seq(S), NEW x, \A i \in 1..Len(s) : s[i].key # x.key
    PROVE  Ordered!InPlace(s, x) = s
<1>1. s = [i \in 1..Len(s) |-> IF s[i].key = x.key THEN x ELSE s[i]]
  OBVIOUS
<1> QED BY <1>1 DEF Ordered!InPlace

LEMMA WithoutSplit ==
    ASSUME NEW S, NEW s \in Seq(S), Distinct(s), NEW a \in Seq(S), NEW b \in Seq(S), NEW y,
           Splits(s, a, y, b)
    PROVE  Ordered!Without(s, y.key) = a \o b
<1>1. PICK p \in 1..Len(s) : IsAround(s, p, a, b) /\ s[p] = y
  BY DEF Splits
<1> DEFINE k == y.key
           I == {i \in 1..Len(s) : s[i].key = k}
<1>2. I = {p}
  BY <1>1 DEF Distinct
<1>3. Ordered!SelectInSeq(s, LAMBDA e : e.key = k) = p
  <2>1. {p} \in SUBSET Nat /\ {p} # {}
    OBVIOUS
  <2>2. Min({p}) = p
    BY <2>1, MinFacts
  <2> QED BY <1>2, <2>2 DEF Ordered!SelectInSeq, Min, Ordered!Min
<1>4. Ordered!Without(s, k) = Ordered!RemoveAt(s, p)
  <2>1. \E i \in 1..Len(s) : s[i].key = k
    BY <1>1
  <2> QED BY <1>3, <2>1 DEF Ordered!Without, Ordered!RemoveFirstMatch
<1>5. Ordered!RemoveAt(s, p) = RemoveAt(s, p)
  BY DEF Ordered!RemoveAt, RemoveAt
<1>6. PICK c \in Seq(S), d \in Seq(S) : IsAround(s, p, c, d) /\ RemoveAt(s, p) = c \o d
  BY RemoveAtFacts
<1>7. c = a /\ d = b
  <2>1. Len(c) = Len(a) /\ Len(d) = Len(b) /\ Len(a) = p - 1 /\ Len(b) = Len(s) - p
        /\ (\A i \in 1..(p - 1) : c[i] = a[i]) /\ (\A i \in 1..(Len(s) - p) : d[i] = b[i])
    BY <1>1, <1>6 DEF IsAround
  <2>2. c = a
    BY <2>1, SeqEqual
  <2>3. d = b
    BY <2>1, SeqEqual
  <2> QED BY <2>2, <2>3
<1> QED BY <1>4, <1>5, <1>6, <1>7

LEMMA WithoutSame ==
    ASSUME NEW S, NEW s \in Seq(S), NEW key, \A i \in 1..Len(s) : s[i].key # key
    PROVE  Ordered!Without(s, key) = s
BY DEF Ordered!Without, Ordered!RemoveFirstMatch
\* What replacing a live slot does to the live slots.
LEMMA LiveInPlace ==
    ASSUME NEW S, NEW s \in Seq(S), UniqueKeys(s), NEW t, NEW y, IsLive(y), NEW x \in S, IsLive(x),
           Swaps(s, t, y, x), x.key = y.key
    PROVE  Live(t) = Ordered!InPlace(Live(s), x)
<1>1. t \in Seq(S) /\ y \in S
  BY SwapSplits
<1>2. PICK a \in Seq(S), b \in Seq(S) : Splits(s, a, y, b) /\ Splits(t, a, x, b)
  BY SwapSplits
<1>3. /\ Live(s) = (Live(a) \o OneLive(y)) \o Live(b)
      /\ Live(t) = (Live(a) \o OneLive(x)) \o Live(b)
  <2>1. Live(s) = (Live(a) \o OneLive(y)) \o Live(b)
    BY <1>1, <1>2, LiveSplit
  <2>2. Live(t) = (Live(a) \o OneLive(x)) \o Live(b)
    BY <1>1, <1>2, LiveSplit
  <2> QED BY <2>1, <2>2
<1>4. Live(a) \in Seq(S) /\ Live(b) \in Seq(S) /\ Distinct(Live(s))
  BY LiveSeq, LiveUnique
<1>5. OneLive(y) = <<y>> /\ OneLive(x) = <<x>>
  BY DEF OneLive
<1>6. Live(s) \in Seq(S) /\ Splits(Live(s), Live(a), y, Live(b))
  BY <1>1, <1>3, <1>4, <1>5, JoinSplits
<1>7. Live(t) \in Seq(S) /\ Splits(Live(t), Live(a), x, Live(b))
  BY <1>3, <1>4, <1>5, JoinSplits
<1> QED BY <1>4, <1>6, <1>7, InPlaceSplit

LEMMA LiveWithout ==
    ASSUME NEW S, NEW s \in Seq(S), UniqueKeys(s), NEW t, NEW y, IsLive(y), NEW x \in S, ~IsLive(x),
           Swaps(s, t, y, x)
    PROVE  Live(t) = Ordered!Without(Live(s), y.key)
<1>1. t \in Seq(S) /\ y \in S
  BY SwapSplits
<1>2. PICK a \in Seq(S), b \in Seq(S) : Splits(s, a, y, b) /\ Splits(t, a, x, b)
  BY SwapSplits
<1>3. /\ Live(s) = (Live(a) \o OneLive(y)) \o Live(b)
      /\ Live(t) = (Live(a) \o OneLive(x)) \o Live(b)
  <2>1. Live(s) = (Live(a) \o OneLive(y)) \o Live(b)
    BY <1>1, <1>2, LiveSplit
  <2>2. Live(t) = (Live(a) \o OneLive(x)) \o Live(b)
    BY <1>1, <1>2, LiveSplit
  <2> QED BY <2>1, <2>2
<1>4. Live(a) \in Seq(S) /\ Live(b) \in Seq(S) /\ Distinct(Live(s))
  BY LiveSeq, LiveUnique
<1>5. OneLive(y) = <<y>> /\ OneLive(x) = <<>>
  BY DEF OneLive
<1>6. Live(s) \in Seq(S) /\ Splits(Live(s), Live(a), y, Live(b))
  BY <1>1, <1>3, <1>4, <1>5, JoinSplits
<1>7. Live(t) = Live(a) \o Live(b)
  BY <1>3, <1>4, <1>5, ConcatEmptySeq
<1> QED BY <1>4, <1>6, <1>7, WithoutSplit

\* And to what lies ahead of a place.
LEMMA OnwardInPlace ==
    ASSUME NEW S, NEW s \in Seq(S), UniqueKeys(s), NEW t, NEW y, IsLive(y), NEW x \in S, IsLive(x),
           Swaps(s, t, y, x), x.key = y.key, NEW idx \in 0..Len(s)
    PROVE  Onward(t, idx) = Ordered!InPlace(Onward(s, idx), x)
<1>1. Suffix(s, idx) \in Seq(S) /\ UniqueKeys(Suffix(s, idx))
  BY SuffixFacts, SuffixUnique
<1>2. CASE Swaps(Suffix(s, idx), Suffix(t, idx), y, x)
  BY <1>1, <1>2, LiveInPlace DEF Onward
<1>3. CASE /\ Suffix(t, idx) = Suffix(s, idx)
           /\ \A i \in 1..Len(Onward(s, idx)) : Onward(s, idx)[i].key # y.key
  <2>1. Onward(s, idx) \in Seq(S) /\ Onward(t, idx) = Onward(s, idx)
    BY <1>1, <1>3, LiveSeq DEF Onward
  <2>2. Ordered!InPlace(Onward(s, idx), x) = Onward(s, idx)
    BY <1>3, <2>1, InPlaceSame
  <2> QED BY <2>1, <2>2
<1> QED BY <1>2, <1>3, SuffixSwap

LEMMA OnwardWithout ==
    ASSUME NEW S, NEW s \in Seq(S), UniqueKeys(s), NEW t, NEW y, IsLive(y), NEW x \in S, ~IsLive(x),
           Swaps(s, t, y, x), NEW idx \in 0..Len(s)
    PROVE  Onward(t, idx) = Ordered!Without(Onward(s, idx), y.key)
<1>1. Suffix(s, idx) \in Seq(S) /\ UniqueKeys(Suffix(s, idx))
  BY SuffixFacts, SuffixUnique
<1>2. CASE Swaps(Suffix(s, idx), Suffix(t, idx), y, x)
  BY <1>1, <1>2, LiveWithout DEF Onward
<1>3. CASE /\ Suffix(t, idx) = Suffix(s, idx)
           /\ \A i \in 1..Len(Onward(s, idx)) : Onward(s, idx)[i].key # y.key
  <2>1. Onward(s, idx) \in Seq(S) /\ Onward(t, idx) = Onward(s, idx)
    BY <1>1, <1>3, LiveSeq DEF Onward
  <2>2. Ordered!Without(Onward(s, idx), y.key) = Onward(s, idx)
    BY <1>3, <2>1, WithoutSame
  <2> QED BY <2>1, <2>2
<1> QED BY <1>2, <1>3, SuffixSwap

LEMMA HasKeyFacts ==
    ASSUME NEW S, NEW s \in Seq(S), NEW key
    PROVE  Ordered!HasKey(Live(s), MapKey(key)) <=> Has(s, key)
<1>1. ASSUME Has(s, key) PROVE Ordered!HasKey(Live(s), MapKey(key))
  <2> DEFINE e == s[IndexOf(s, key)]
  <2>1. IndexOf(s, key) \in 1..Len(s) /\ IsLive(e) /\ e.key = MapKey(key)
    BY <1>1, IndexFacts
  <2>2. \E i \in 1..Len(s) : s[i] = e
    BY <2>1
  <2> HIDE DEF e
  <2>3. PICK i \in 1..Len(Live(s)) : Live(s)[i] = e
    BY <2>1, <2>2, LiveElements
  <2> QED BY <2>1, <2>3 DEF Ordered!HasKey
<1>2. ASSUME Ordered!HasKey(Live(s), MapKey(key)) PROVE Has(s, key)
  <2>1. PICK i \in 1..Len(Live(s)) : Live(s)[i].key = MapKey(key)
    BY <1>2 DEF Ordered!HasKey
  <2> DEFINE e == Live(s)[i]
  <2>2. \E j \in 1..Len(Live(s)) : Live(s)[j] = e
    OBVIOUS
  <2>3. e.key = MapKey(key)
    BY <2>1
  <2> HIDE DEF e
  <2>4. IsLive(e) /\ \E j \in 1..Len(s) : s[j] = e
    BY <2>2, LiveElements
  <2> QED BY <2>3, <2>4, IndexFacts
<1> QED BY <1>1, <1>2

\* What setting and deleting a key do, seen from any place.
PutAhead(s, t, key, x) ==
    /\ \A idx \in 0..Len(s) :
          Onward(t, idx) = IF Has(s, key) THEN Ordered!InPlace(Onward(s, idx), x)
                                          ELSE Append(Onward(s, idx), x)
    /\ \E i \in 1..Len(Live(t)) : Live(t)[i] = x

LEMMA OnwardMapSet ==
    ASSUME IterationAssumption, NEW c \in DOMAIN Setup, NEW s \in Seq(Slot(Setup[c])),
           UniqueKeys(s), NEW key \in Setup[c].keys \cup {Zero},
           NEW value \in Setup[c].values \cup {NoValue}, NEW t, t = MapSet(s, key, value),
           NEW x, x = Entry(MapKey(key), value)
    PROVE  PutAhead(s, t, key, x)
<1> DEFINE S == Slot(Setup[c])
           p == IndexOf(s, key)
           y == s[p]
<1>1. x \in S /\ IsLive(x) /\ x.key = MapKey(key)
  BY StoredKey, EntryFacts
<1> HIDE DEF S
<1>2. s \in Seq(S)
  BY DEF S
<1>3. CASE Has(s, key)
  <2>1. p \in 1..Len(s) /\ IsLive(y) /\ y.key = MapKey(key)
    BY <1>2, <1>3, IndexFacts
  <2>2. t = [s EXCEPT ![p] = x]
    BY <1>3 DEF MapSet
  <2>3. \E i \in 1..Len(t) : t[i] = x
    BY <1>1, <1>2, <2>1, <2>2, ExceptSeq
  <2>4. Swaps(s, t, y, x)
    BY <2>1, <2>2 DEF Swaps
  <2> HIDE DEF p, y
  <2>5. t \in Seq(S)
    BY <1>1, <1>2, <2>4, SwapSplits
  <2>6. \E i \in 1..Len(Live(t)) : Live(t)[i] = x
    BY <1>1, <2>3, <2>5, LiveElements
  <2>7. ASSUME NEW idx \in 0..Len(s) PROVE Onward(t, idx) = Ordered!InPlace(Onward(s, idx), x)
    BY <1>1, <1>2, <2>1, <2>4, OnwardInPlace
  <2> QED BY <1>3, <2>6, <2>7 DEF PutAhead
<1>4. CASE ~Has(s, key)
  <2>1. t = Append(s, x)
    BY <1>4 DEF MapSet
  <2>2. ASSUME NEW idx \in 0..Len(s) PROVE Onward(t, idx) = Append(Onward(s, idx), x)
    BY <1>1, <1>2, <2>1, OnwardAppend
  <2>3. t \in Seq(S) /\ Len(t) = Len(s) + 1 /\ t[Len(s) + 1] = x /\ Len(s) \in Nat
    BY <1>1, <1>2, <2>1, AppendFacts
  <2>4. Len(s) + 1 \in 1..Len(t)
    BY <2>3
  <2>5. \E i \in 1..Len(t) : t[i] = x
    BY <2>3, <2>4
  <2>6. \E i \in 1..Len(Live(t)) : Live(t)[i] = x
    BY <1>1, <2>3, <2>5, LiveElements
  <2> QED BY <1>4, <2>2, <2>6 DEF PutAhead
<1> QED BY <1>3, <1>4

LEMMA OnwardDelete ==
    ASSUME NEW w, NEW s \in Coll(w), NEW key, Has(s, key), NEW t, t = Delete(s, key), NEW idx \in 0..Len(s)
    PROVE  Onward(t, idx) = Ordered!Without(Onward(s, idx), MapKey(key))
<1> DEFINE S == Slot(w)
           p == IndexOf(s, key)
           y == s[p]
           x == Tombstone
<1>1. s \in Seq(S) /\ UniqueKeys(s) /\ x \in S /\ ~IsLive(x)
  BY DEF Coll, Slot, IsLive
<1> HIDE DEF S, x
<1>2. p \in 1..Len(s) /\ IsLive(y) /\ y.key = MapKey(key)
  BY <1>1, IndexFacts
<1>3. t = [s EXCEPT ![p] = x]
  BY DEF Delete, x
<1>4. Swaps(s, t, y, x)
  BY <1>2, <1>3 DEF Swaps
<1> HIDE DEF p, y
<1>5. Onward(t, idx) = Ordered!Without(Onward(s, idx), y.key)
  BY <1>1, <1>2, <1>4, OnwardWithout
<1> QED BY <1>2, <1>5
-----------------------------------------------------------------------------
(* The walks as ordered collections see them.                               *)

Seen(all, w) ==
    [of |-> w.of, over |-> w.done, ahead |-> IF w.done THEN <<>> ELSE Onward(all[w.of], w.idx)]

\* No walk that may still step is beyond its collection.  Clearing a collection
\* under a walk would make it so, and a walk would then miss what is put next.
Inside ==
    \A id \in WalkIds :
       LET w == WalkAt(id) IN w # Nobody /\ ~w.done => w.idx <= Len(slots[w.of])

RInv == IInv /\ Deep /\ Inside

LEMMA WalkSeen ==
    ASSUME NEW id
    PROVE  /\ WalkOf(id) = IF WalkAt(id) = Nobody THEN Nobody ELSE Seen(slots, WalkAt(id))
           /\ WalkOf(id)' = IF WalkAt(id)' = Nobody THEN Nobody ELSE Seen(slots', WalkAt(id)')
BY DEF WalkOf, WalkAt, AheadOf, Seen, Onward, Suffix

LEMMA WalkTypes ==
    ASSUME IterationAssumption, IInv, NEW id \in WalkIds, WalkAt(id) # Nobody
    PROVE  WalkAt(id) \in Walkers(World) /\ WalkAt(id).of \in Colls
<1>1. ItersOK /\ StackOK
  BY DEF IInv
<1>2. ASSUME NEW i \in Iters, WalkAt(id) = iters[i]
      PROVE  WalkAt(id) \in Walkers(World)
  BY <1>1, <1>2 DEF ItersOK
<1>3. ASSUME NEW d \in 1..World.depth,
             WalkAt(id) = IF d \in DOMAIN stack THEN stack[d].walk ELSE Nobody
      PROVE  WalkAt(id) \in Walkers(World)
  <2>1. d \in DOMAIN stack /\ WalkAt(id) = stack[d].walk
    BY <1>3
  <2>2. stack[d] \in Frame(World)
    BY <1>1, <2>1 DEF StackOK
  <2> QED BY <2>1, <2>2 DEF Frame
<1>4. WalkAt(id) \in Walkers(World)
  BY <1>2, <1>3, IdFacts
<1> QED BY <1>4 DEF Walkers, Colls

SeenOK(all, w, world) ==
    /\ Seen(all, w) # Nobody /\ Seen(all, w).of = w.of /\ Seen(all, w).over = w.done
    /\ Seen(all, w).ahead = IF w.done THEN <<>> ELSE Onward(all[w.of], w.idx)
    /\ Seen(all, w).ahead \in Seq(Slot(world))
    /\ ~w.done => w.idx \in 0..Len(all[w.of])

LEMMA SeenFacts ==
    ASSUME IterationAssumption, NEW c \in DOMAIN Setup, NEW w \in Walkers(Setup[c]),
           NEW all \in [DOMAIN Setup[c].kind -> Coll(Setup[c])],
           ~w.done => w.idx <= Len(all[w.of])
    PROVE  SeenOK(all, w, Setup[c])
<1> DEFINE s == all[w.of]
           S == Slot(Setup[c])
           E == [key : Setup[c].keys \cup {Zero}, value : Setup[c].values \cup {NoValue}]
           ahead == IF w.done THEN <<>> ELSE Onward(s, w.idx)
<1>1. /\ w.of \in DOMAIN Setup[c].kind /\ w.idx \in Nat /\ w.done \in BOOLEAN
      /\ s \in Seq(S) /\ Len(s) \in Nat
  BY DEF Walkers, Coll
<1>2. ~w.done => w.idx \in 0..Len(s)
  BY <1>1
<1>3. ahead \in Seq(S) /\ \A i \in 1..Len(ahead) : IsLive(ahead[i])
  <2>1. CASE w.done
    BY <2>1
  <2>2. CASE ~w.done
    <3> HIDE DEF s, S
    <3> DEFINE r == Suffix(s, w.idx)
    <3>1. r \in Seq(S)
      BY <1>1, <1>2, <2>2, SuffixFacts
    <3>2. ahead = Live(r)
      BY <2>2 DEF Onward
    <3> HIDE DEF r, ahead
    <3>3. Live(r) \in Seq(S)
      BY <3>1, LiveSeq
    <3>4. ASSUME NEW i \in 1..Len(Live(r)) PROVE IsLive(Live(r)[i])
      <4> DEFINE e == Live(r)[i]
      <4>1. \E j \in 1..Len(Live(r)) : Live(r)[j] = e
        OBVIOUS
      <4> HIDE DEF e
      <4>2. IsLive(e)
        BY <3>1, <4>1, LiveElements
      <4> QED BY <4>2 DEF e
    <3> QED BY <3>2, <3>3, <3>4
  <2> QED BY <2>1, <2>2
<1>4. ahead \in Seq(E)
  <2> HIDE DEF ahead
  <2>1. \A i \in 1..Len(ahead) : ahead[i] \in E
    BY <1>3 DEF IsLive, Slot, StoredKeys
  <2> HIDE DEF E
  <2> QED BY <1>3, <2>1
<1>5. Seen(all, w) = [of |-> w.of, over |-> w.done, ahead |-> ahead]
  BY DEF Seen
<1>6. Nobody \notin [of : DOMAIN Setup[c].kind, over : BOOLEAN, ahead : Seq(E)]
  BY DEF IterationAssumption
<1> HIDE DEF ahead, E, S, s
<1>7. [of |-> w.of, over |-> w.done, ahead |-> ahead]
        \in [of : DOMAIN Setup[c].kind, over : BOOLEAN, ahead : Seq(E)]
  BY <1>1, <1>4
<1>8. Seen(all, w) # Nobody
  BY <1>5, <1>6, <1>7
<1>9. Seen(all, w).of = w.of /\ Seen(all, w).over = w.done /\ Seen(all, w).ahead = ahead
  BY <1>5
<1> QED BY <1>2, <1>3, <1>8, <1>9 DEF ahead, S, s, SeenOK

\* A walk and what is seen of it, before and after a step of the world.
LEMMA WalkFacts ==
    ASSUME IterationAssumption, RInv, NEW id \in WalkIds, WalkAt(id) # Nobody, NEW w, w = WalkAt(id)
    PROVE  /\ w \in Walkers(World) /\ w.of \in Colls
           /\ slots[w.of] \in Coll(World) /\ slots[w.of] \in Seq(Slot(World)) /\ UniqueKeys(slots[w.of])
           /\ WalkOf(id) = Seen(slots, w) /\ WalkOf(id) # Nobody
           /\ WalkOf(id).of = w.of /\ WalkOf(id).over = w.done
           /\ WalkOf(id).ahead = IF w.done THEN <<>> ELSE Onward(slots[w.of], w.idx)
           /\ WalkOf(id).ahead \in Seq(Slot(World))
           /\ ~w.done => w.idx \in 0..Len(slots[w.of])
<1>1. w \in Walkers(World) /\ w.of \in Colls
  BY WalkTypes DEF RInv
<1>2. setup \in DOMAIN Setup /\ slots \in [DOMAIN World.kind -> Coll(World)]
  BY DEF RInv, IInv, SlotsOK, Colls
<1>3. ~w.done => w.idx <= Len(slots[w.of])
  BY DEF RInv, Inside
<1>4. WalkOf(id) = Seen(slots, w)
  BY WalkSeen
<1>5. slots[w.of] \in Coll(World) /\ slots[w.of] \in Seq(Slot(World)) /\ UniqueKeys(slots[w.of])
  BY <1>1, <1>2 DEF Colls, Coll
<1>6. SeenOK(slots, w, World)
  BY <1>1, <1>2, <1>3, SeenFacts DEF World
<1> QED BY <1>1, <1>4, <1>5, <1>6 DEF SeenOK
\* No step takes a walk out of its collection.
LEMMA InsideKept ==
    ASSUME IterationAssumption, RInv, setup' = setup, Shapes
    PROVE  Inside'
<1>0. /\ WalkIds' = WalkIds /\ Colls' = Colls /\ World' = World /\ setup \in DOMAIN Setup
      /\ slots \in [Colls -> Coll(World)] /\ IInv
  BY DEF WalkIds, Iters, Colls, World, RInv, IInv, SlotsOK
<1>1. SUFFICES ASSUME NEW id \in WalkIds, NEW v, v = WalkAt(id)', v # Nobody, ~v.done
               PROVE  v.idx <= Len(slots'[v.of])
  BY <1>0 DEF Inside
\* A walk that is as it was, in a collection that did not get shorter.
<1>2. ASSUME v = WalkAt(id), Len(slots'[v.of]) \in Nat, Len(slots[v.of]) <= Len(slots'[v.of])
      PROVE  v.idx <= Len(slots'[v.of])
  <2>1. v.idx \in 0..Len(slots[v.of]) /\ slots[v.of] \in Seq(Slot(World))
    BY <1>1, <1>2, WalkFacts
  <2> QED BY <1>2, <2>1
<1>3. ASSUME v = WalkAt(id), slots'[v.of] = slots[v.of]
      PROVE  v.idx <= Len(slots'[v.of])
  <2>1. slots[v.of] \in Seq(Slot(World))
    BY <1>1, <1>3, WalkFacts
  <2>2. Len(slots[v.of]) \in Nat
    BY <2>1
  <2> QED BY <1>2, <1>3, <2>2
<1>4. CASE Same
  BY <1>1, <1>3, <1>4 DEF Same, AllHeld
<1>5. CASE Opened
  <2>1. PICK x \in WalkIds, c \in Colls : WalkAt(x) = Nobody /\ Replaced(x, NewWalk(c))
    BY <1>5 DEF Opened
  <2>2. CASE id = x
    <3>1. v.idx = 0 /\ v.of = c
      BY <1>1, <2>1, <2>2 DEF Replaced, NewWalk
    <3>2. Len(slots[c]) \in Nat
      BY <1>0 DEF Coll
    <3> QED BY <1>5, <3>1, <3>2 DEF Opened
  <2>3. CASE id # x
    BY <1>1, <1>3, <1>5, <2>1, <2>3 DEF Replaced, Opened
  <2> QED BY <2>2, <2>3
<1>6. CASE Advanced
  <2>1. PICK x \in WalkIds : WalkAt(x) # Nobody /\ Replaced(x, Stepped(slots[WalkAt(x).of], WalkAt(x)))
    BY <1>6 DEF Advanced
  <2>2. CASE id = x
    <3> DEFINE w == WalkAt(x)
               s == slots[w.of]
    <3>1. v = Stepped(s, w)
      BY <1>1, <2>1, <2>2 DEF Replaced
    <3>2. w \in Walkers(World) /\ s \in Coll(World)
      BY <1>0, <2>1, WalkTypes
    <3>3. s = slots[w.of] /\ slots' = slots
      BY <1>6 DEF Advanced
    <3> HIDE DEF w, s
    <3>4. StepAt(s, w) = NotFound \/ StepAt(s, w) \in (w.idx + 1)..Len(s)
      BY <1>0, <3>2, StepFacts DEF World
    <3>5. StepAt(s, w) # NotFound /\ v = [w EXCEPT !.idx = StepAt(s, w)]
      <4>1. StepAt(s, w) = NotFound => v.done
        BY <3>1, <3>2 DEF Stepped, Walkers
      <4> QED BY <1>1, <3>1, <4>1 DEF Stepped
    <3>6. v.idx = StepAt(s, w) /\ v.of = w.of
      BY <3>2, <3>5 DEF Walkers
    <3> QED BY <3>3, <3>4, <3>5, <3>6
  <2>3. CASE id # x
    BY <1>1, <1>3, <1>6, <2>1, <2>3 DEF Replaced, Advanced
  <2> QED BY <2>2, <2>3
<1>7. CASE Released
  <2>1. v = WalkAt(id)
    BY <1>1, <1>7 DEF Released, Replaced
  <2> QED BY <1>3, <1>7, <2>1 DEF Released
<1>8. CASE KeySet
  <2>1. v = WalkAt(id)
    BY <1>1, <1>8 DEF KeySet, AllHeld
  <2>2. PICK c \in Colls, k \in World.keys \cup {Zero}, x \in World.values \cup {NoValue} :
           slots' = [slots EXCEPT ![c] = MapSet(@, k, x)]
    BY <1>8 DEF KeySet
  <2>3. v.of \in Colls /\ slots[v.of] \in Seq(Slot(World))
    BY <1>1, <2>1, WalkFacts
  <2>4. CASE v.of = c
    <3> DEFINE s == slots[c]
               t == MapSet(s, k, x)
    <3>1. s \in Seq(Slot(World)) /\ UniqueKeys(s) /\ Len(s) \in Nat
      BY <1>0 DEF Coll
    <3>2. slots'[v.of] = t /\ slots[v.of] = s
      BY <1>0, <2>2, <2>4
    <3> HIDE DEF s
    <3>3. Len(t) = IF Has(s, k) THEN Len(s) ELSE Len(s) + 1
      BY <1>0, <3>1, MapSetFacts DEF World
    <3> HIDE DEF t
    <3>4. Len(t) \in Nat /\ Len(s) <= Len(t)
      BY <3>1, <3>3
    <3> QED BY <1>2, <2>1, <3>2, <3>4
  <2>5. CASE v.of # c
    BY <1>0, <1>3, <2>1, <2>2, <2>3, <2>5
  <2> QED BY <2>4, <2>5
<1>9. CASE KeyErased
  <2>1. v = WalkAt(id)
    BY <1>1, <1>9 DEF KeyErased, AllHeld
  <2>2. PICK c \in Colls, k \in World.keys : slots' = [slots EXCEPT ![c] = Delete(@, k)]
    BY <1>9 DEF KeyErased
  <2>3. v.of \in Colls /\ slots[v.of] \in Seq(Slot(World))
    BY <1>1, <2>1, WalkFacts
  <2>4. CASE v.of = c
    <3>1. slots'[v.of] = Delete(slots[c], k) /\ slots[v.of] = slots[c]
      BY <1>0, <2>2, <2>4
    <3>2. Len(Delete(slots[c], k)) = Len(slots[c]) /\ Len(slots[c]) \in Nat
      BY <1>0, <2>3, <3>1, DeleteFacts
    <3> QED BY <1>2, <2>1, <3>1, <3>2
  <2>5. CASE v.of # c
    BY <1>0, <1>3, <2>1, <2>2, <2>3, <2>5
  <2> QED BY <2>4, <2>5
<1>10. CASE Emptied
  <2>1. v = WalkAt(id)
    BY <1>1, <1>10 DEF Emptied, AllHeld
  <2>2. PICK c \in Colls : /\ slots' = [slots EXCEPT ![c] = Cleared]
                           /\ v.of = c => ~(v.idx > 0)
    BY <1>1, <1>10, <2>1 DEF Emptied
  <2>3. v.of \in Colls /\ v \in Walkers(World)
    BY <1>1, <2>1, WalkFacts
  <2>4. CASE v.of = c
    <3>1. slots'[v.of] = <<>>
      BY <1>0, <2>2, <2>4 DEF Cleared
    <3>2. v.idx \in Nat
      BY <2>3 DEF Walkers
    <3>3. v.idx = 0 /\ Len(<<>>) = 0
      BY <2>2, <2>4, <3>2
    <3> QED BY <3>1, <3>3
  <2>5. CASE v.of # c
    BY <1>0, <1>3, <2>1, <2>2, <2>3, <2>5
  <2> QED BY <2>4, <2>5
<1> QED BY <1>4, <1>5, <1>6, <1>7, <1>8, <1>9, <1>10 DEF Shapes
-----------------------------------------------------------------------------
(* What each shape is among ordered collections.                            *)

Order == [c \in Colls |-> Live(slots[c])]
Walks == [id \in WalkIds |-> WalkOf(id)]

\* Collection c and what lies ahead of its walks, changed by g.
ChangedBy(c, g) ==
    /\ Order' = [Order EXCEPT ![c] = g[Order[c]]]
    /\ Walks' = [id \in DOMAIN Walks |->
                    IF Walks[id] # Nobody /\ Walks[id].of = c /\ ~Walks[id].over
                    THEN [Walks[id] EXCEPT !.ahead = g[@]] ELSE Walks[id]]

LEMMA WorldStays ==
    ASSUME setup' = setup
    PROVE  /\ Colls' = Colls /\ WalkIds' = WalkIds /\ World' = World
           /\ DOMAIN Order = Colls /\ DOMAIN Walks = WalkIds
           /\ Order' = [c \in Colls |-> Live(slots'[c])]
           /\ Walks' = [id \in WalkIds |-> WalkOf(id)']
BY DEF Colls, WalkIds, Iters, World, Order, Walks

LEMMA SameOrdered ==
    ASSUME setup' = setup, Same
    PROVE  Order' = Order /\ Walks' = Walks
<1>1. Order' = Order
  BY WorldStays DEF Same, Order
<1>2. ASSUME NEW id \in WalkIds PROVE WalkOf(id)' = WalkOf(id)
  BY WalkSeen DEF Same, AllHeld
<1>3. Walks' = Walks
  BY <1>2, WorldStays DEF Walks
<1> QED BY <1>1, <1>3

\* One walk is another.
LEMMA ReplacedOrdered ==
    ASSUME setup' = setup, slots' = slots, NEW x \in WalkIds, NEW v, Replaced(x, v)
    PROVE  /\ Order' = Order
           /\ Walks' = [Walks EXCEPT ![x] = IF v = Nobody THEN Nobody ELSE Seen(slots, v)]
<1>1. Order' = Order
  BY WorldStays DEF Order
<1> DEFINE y == IF v = Nobody THEN Nobody ELSE Seen(slots, v)
<1>2. ASSUME NEW id \in WalkIds PROVE WalkOf(id)' = IF id = x THEN y ELSE WalkOf(id)
  <2>1. WalkAt(id)' = IF id = x THEN v ELSE WalkAt(id)
    BY DEF Replaced
  <2> QED BY <2>1, WalkSeen
<1> HIDE DEF y
<1>3. Walks' = [Walks EXCEPT ![x] = y]
  BY <1>2, WorldStays DEF Walks
<1> QED BY <1>1, <1>3 DEF y

LEMMA OpenedOrdered ==
    ASSUME IterationAssumption, RInv, setup' = setup, Opened
    PROVE  Ordered!Next
<1>1. PICK id \in WalkIds, c \in Colls : WalkAt(id) = Nobody /\ Replaced(id, NewWalk(c))
  BY DEF Opened
<1>2. NewWalk(c) # Nobody
  <2>1. setup \in DOMAIN Setup
    BY DEF RInv, IInv
  <2>2. Nobody \notin [of : Colls, idx : Nat, done : BOOLEAN]
    BY <2>1 DEF IterationAssumption, Colls, World
  <2>3. NewWalk(c) \in [of : Colls, idx : Nat, done : BOOLEAN]
    BY DEF NewWalk
  <2> QED BY <2>2, <2>3
<1>3. Order[c] = Live(slots[c]) /\ Onward(slots[c], 0) = Live(slots[c])
  <2>1. slots[c] \in Seq(Slot(World))
    BY DEF RInv, IInv, SlotsOK, Coll
  <2> QED BY <2>1, OnwardStart DEF Order
<1>4. Seen(slots, NewWalk(c)) = [of |-> c, ahead |-> Order[c], over |-> FALSE]
  BY <1>3 DEF Seen, NewWalk
<1>5. /\ Order' = Order
      /\ Walks' = [Walks EXCEPT ![id] = [of |-> c, ahead |-> Order[c], over |-> FALSE]]
  BY <1>1, <1>2, <1>4, ReplacedOrdered DEF Opened
<1>6. Walks[id] = Nobody /\ id \in DOMAIN Walks /\ c \in DOMAIN Order
  BY <1>1, WalkSeen DEF Walks, Order
<1>7. Ordered!Open(id, c)
  BY <1>5, <1>6 DEF Ordered!Open, Order, Walks
<1> QED BY <1>6, <1>7 DEF Ordered!Next, Order, Walks

LEMMA ReleasedOrdered ==
    ASSUME IterationAssumption, RInv, setup' = setup, Released
    PROVE  Ordered!Next
<1>1. PICK id \in WalkIds : WalkAt(id) # Nobody /\ Replaced(id, Nobody)
  BY DEF Released
<1>2. Order' = Order /\ Walks' = [Walks EXCEPT ![id] = Nobody]
  BY <1>1, ReplacedOrdered DEF Released
<1>3. Walks[id] # Nobody /\ id \in DOMAIN Walks
  <2>1. WalkOf(id) # Nobody
    BY <1>1, WalkFacts
  <2> QED BY <2>1 DEF Walks
<1>4. Ordered!Release(id)
  BY <1>2, <1>3 DEF Ordered!Release, Order, Walks
<1> QED BY <1>3, <1>4 DEF Ordered!Next, Order, Walks

\* The record a walk is seen as.
Told(o, d, l) == [of |-> o, over |-> d, ahead |-> l]
OverAs(r, b) == [r EXCEPT !.over = b]
AheadAs(r, l) == [r EXCEPT !.ahead = l]

LEMMA ToldFacts ==
    ASSUME NEW o, NEW d, NEW l
    PROVE  /\ Told(o, d, l).of = o /\ Told(o, d, l).over = d /\ Told(o, d, l).ahead = l
           /\ \A y : AheadAs(Told(o, d, l), y) = Told(o, d, y)
           /\ \A b : OverAs(Told(o, d, l), b) = Told(o, b, l)
<1>1. Told(o, d, l).of = o /\ Told(o, d, l).over = d /\ Told(o, d, l).ahead = l
  BY DEF Told
<1>2. ASSUME NEW y PROVE AheadAs(Told(o, d, l), y) = Told(o, d, y)
  BY DEF Told, AheadAs
<1>3. ASSUME NEW b PROVE OverAs(Told(o, d, l), b) = Told(o, b, l)
  BY DEF Told, OverAs
<1> QED BY <1>1, <1>2, <1>3

LEMMA OnwardNothing ==
    ASSUME NEW S, NEW s \in Seq(S), NEW idx \in 0..Len(s), \A i \in (idx + 1)..Len(s) : ~IsLive(s[i])
    PROVE  Onward(s, idx) = <<>>
<1>1. /\ Suffix(s, idx) \in Seq(S) /\ Len(Suffix(s, idx)) = Len(s) - idx
      /\ \A i \in 1..(Len(s) - idx) : Suffix(s, idx)[i] = s[idx + i]
      /\ Len(s) \in Nat /\ idx \in Nat
  BY SuffixFacts
<1>2. ASSUME NEW i \in 1..Len(Suffix(s, idx)) PROVE ~IsLive(Suffix(s, idx)[i])
  <2>1. PICK j : j = idx + i
    OBVIOUS
  <2>2. j \in (idx + 1)..Len(s) /\ Suffix(s, idx)[i] = s[j]
    BY <1>1, <2>1
  <2> QED BY <2>2
<1> QED BY <1>1, <1>2, LiveNothing DEF Onward

LEMMA AdvancedOrdered ==
    ASSUME IterationAssumption, RInv, setup' = setup, Advanced
    PROVE  Ordered!Next
<1>1. PICK id \in WalkIds :
         WalkAt(id) # Nobody /\ Replaced(id, Stepped(slots[WalkAt(id).of], WalkAt(id)))
  BY DEF Advanced
<1>2. PICK w : w = WalkAt(id)
  OBVIOUS
<1>3. PICK s : s = slots[w.of]
  OBVIOUS
<1> DEFINE v == Stepped(s, w)
           at == StepAt(s, w)
<1>6. /\ w \in Walkers(World) /\ s \in Coll(World) /\ s \in Seq(Slot(World))
      /\ WalkOf(id) = Seen(slots, w) /\ WalkOf(id) # Nobody
      /\ WalkOf(id).over = w.done
      /\ WalkOf(id).ahead = IF w.done THEN <<>> ELSE Onward(s, w.idx)
      /\ ~w.done => w.idx \in 0..Len(s)
  BY <1>1, <1>2, <1>3, WalkFacts
<1>7. setup \in DOMAIN Setup
  BY DEF RInv, IInv
<1>8. /\ at = NotFound \/ (at \in (w.idx + 1)..Len(s) /\ IsLive(s[at]))
      /\ at = NotFound /\ ~w.done => \A i \in (w.idx + 1)..Len(s) : ~IsLive(s[i])
      /\ at # NotFound => ~w.done /\ \A i \in (w.idx + 1)..(at - 1) : ~IsLive(s[i])
      /\ v \in Walkers(World)
  <2>1. setup \in DOMAIN Setup /\ World = Setup[setup]
    BY <1>7 DEF World
  <2>2. w \in Walkers(Setup[setup]) /\ s \in Coll(Setup[setup])
    BY <1>6, <2>1
  <2>3. \/ StepAt(s, w) = NotFound
        \/ StepAt(s, w) \in (w.idx + 1)..Len(s) /\ IsLive(s[StepAt(s, w)])
    BY <2>1, <2>2, StepFacts
  <2>4. StepAt(s, w) = NotFound /\ ~w.done => \A i \in (w.idx + 1)..Len(s) : ~IsLive(s[i])
    BY <2>1, <2>2, StepFacts
  <2>5. StepAt(s, w) # NotFound =>
           ~w.done /\ \A i \in (w.idx + 1)..(StepAt(s, w) - 1) : ~IsLive(s[i])
    BY <2>1, <2>2, StepFacts
  <2>6. Stepped(s, w) \in Walkers(Setup[setup])
    BY <2>1, <2>2, StepFacts
  <2>7. v \in Walkers(World)
    BY <2>1, <2>6
  <2> HIDE DEF v
  <2>8. at = NotFound \/ (at \in (w.idx + 1)..Len(s) /\ IsLive(s[at]))
    BY <2>3
  <2>9. at # NotFound => ~w.done /\ \A i \in (w.idx + 1)..(at - 1) : ~IsLive(s[i])
    BY <2>5
  <2>10. at = NotFound /\ ~w.done => \A i \in (w.idx + 1)..Len(s) : ~IsLive(s[i])
    BY <2>4
  <2> HIDE DEF at
  <2> QED BY <2>7, <2>8, <2>9, <2>10
<1>9. v # Nobody
  <2>1. Nobody \notin [of : Colls, idx : Nat, done : BOOLEAN]
    BY <1>7 DEF IterationAssumption, Colls, World
  <2>2. v \in [of : Colls, idx : Nat, done : BOOLEAN]
    BY <1>8 DEF Walkers, Colls
  <2> QED BY <2>1, <2>2
<1>10. Order' = Order /\ Walks' = [Walks EXCEPT ![id] = Seen(slots, v)]
  <2>1. Replaced(id, v)
    BY <1>1, <1>2, <1>3
  <2> HIDE DEF v
  <2> QED BY <1>9, <2>1, ReplacedOrdered DEF Advanced
<1>11. Walks[id] = Seen(slots, w) /\ Walks[id] # Nobody /\ id \in DOMAIN Walks
  BY <1>6 DEF Walks
<1>12. CASE at = NotFound
  <2>1. WalkOf(id).ahead = <<>>
    <3>1. CASE ~w.done
      <4>1. w.idx \in 0..Len(s) /\ \A i \in (w.idx + 1)..Len(s) : ~IsLive(s[i])
        BY <1>6, <1>8, <1>12, <3>1
      <4>2. Onward(s, w.idx) = <<>>
        BY <1>6, <4>1, OnwardNothing
      <4> QED BY <1>6, <3>1, <4>2
    <3> QED BY <1>6, <3>1
  <2>2. v = [w EXCEPT !.done = TRUE]
    BY <1>12 DEF Stepped
  <2> HIDE DEF v, at
  <2>3. v.of = w.of /\ v.done
    BY <1>6, <2>2 DEF Walkers
  <2>4. Seen(slots, v) = Told(w.of, v.done, <<>>)
    BY <2>3 DEF Seen, Told
  <2>5. Walks[id].ahead = <<>>
    BY <1>6, <1>11, <2>1
  <2>6. [Walks[id] EXCEPT !.over = TRUE] = Told(w.of, v.done, <<>>)
    <3>1. PICK l : Walks[id] = Told(w.of, w.done, l)
      BY <1>11 DEF Seen, Told
    <3>2. l = <<>>
      BY <2>5, <3>1, ToldFacts
    <3>3. OverAs(Walks[id], v.done) = Told(w.of, v.done, <<>>)
      BY <3>1, <3>2, ToldFacts
    <3>4. v.done = TRUE
      BY <1>8, <2>3 DEF Walkers
    <3>5. [Walks[id] EXCEPT !.over = TRUE] = OverAs(Walks[id], v.done)
      BY <3>4 DEF OverAs
    <3> QED BY <3>3, <3>5
  <2>7. Ordered!Finish(id)
    BY <1>10, <1>11, <2>4, <2>5, <2>6 DEF Ordered!Finish, Order, Walks
  <2> QED BY <1>11, <2>7 DEF Ordered!Next, Order, Walks
<1>13. CASE at # NotFound
  <2>1. ~w.done /\ at \in (w.idx + 1)..Len(s) /\ w.idx \in 0..Len(s)
    BY <1>6, <1>8, <1>13
  <2>2. Onward(s, w.idx) # <<>> /\ Onward(s, at) = Tail(Onward(s, w.idx))
    BY <1>6, <1>8, <1>13, <2>1, OnwardStep
  <2>3. v = [w EXCEPT !.idx = at]
    BY <1>13 DEF Stepped
  <2> HIDE DEF v, at
  <2>4. v.of = w.of /\ v.done = w.done /\ v.idx = at
    BY <1>6, <2>1, <2>3 DEF Walkers
  <2>5. Seen(slots, v) = Told(w.of, w.done, Tail(Onward(s, w.idx)))
    BY <1>3, <2>1, <2>2, <2>4 DEF Seen, Told
  <2>6. Walks[id] = Told(w.of, w.done, Onward(s, w.idx))
    BY <1>3, <1>11, <2>1 DEF Seen, Told
  <2>7. /\ ~Walks[id].over /\ Walks[id].ahead # <<>>
        /\ [Walks[id] EXCEPT !.ahead = Tail(@)] = Told(w.of, w.done, Tail(Onward(s, w.idx)))
    <3>1. PICK l : l = Onward(s, w.idx)
      OBVIOUS
    <3>2. Told(w.of, w.done, l).over = w.done /\ Told(w.of, w.done, l).ahead = l
      BY ToldFacts
    <3>3. AheadAs(Told(w.of, w.done, l), Tail(l)) = Told(w.of, w.done, Tail(l))
      BY ToldFacts
    <3>4. ~Walks[id].over /\ Walks[id].ahead = l
      BY <2>1, <2>6, <3>1, <3>2
    <3>5. [Walks[id] EXCEPT !.ahead = Tail(@)] = AheadAs(Walks[id], Tail(l))
      BY <3>4 DEF AheadAs
    <3> QED BY <2>2, <2>6, <3>1, <3>3, <3>4, <3>5
  <2>8. Ordered!Visit(id)
    BY <1>10, <1>11, <2>5, <2>7 DEF Ordered!Visit, Order, Walks
  <2> QED BY <1>11, <2>8 DEF Ordered!Next, Order, Walks
<1> QED BY <1>12, <1>13
\* t is g of the collection, and so is what lies ahead of its walks.
Follows(c, t, g) ==
    /\ Live(t) = g[Live(slots[c])]
    /\ \A id \in WalkIds :
          WalkAt(id) # Nobody /\ WalkAt(id).of = c /\ ~WalkAt(id).done
             => Onward(t, WalkAt(id).idx) = g[Onward(slots[c], WalkAt(id).idx)]

LEMMA ChangedOrdered ==
    ASSUME IterationAssumption, RInv, setup' = setup, AllHeld, NEW c \in Colls, NEW t,
           slots' = [slots EXCEPT ![c] = t], NEW g, Follows(c, t, g)
    PROVE  ChangedBy(c, g)
<1>0. DOMAIN slots = Colls
  BY DEF RInv, IInv, SlotsOK
<1>1. Order' = [Order EXCEPT ![c] = g[Order[c]]]
  <2>1. ASSUME NEW d \in Colls
        PROVE  Live(slots'[d]) = IF d = c THEN g[Live(slots[c])] ELSE Live(slots[d])
    BY <1>0 DEF Follows
  <2>2. Order[c] = Live(slots[c])
    BY DEF Order
  <2> QED BY <2>1, <2>2, WorldStays DEF Order
<1>2. ASSUME NEW id \in WalkIds
      PROVE  WalkOf(id)' = IF WalkOf(id) # Nobody /\ WalkOf(id).of = c /\ ~WalkOf(id).over
                           THEN [WalkOf(id) EXCEPT !.ahead = g[@]] ELSE WalkOf(id)
  <2>1. WalkAt(id)' = WalkAt(id)
    BY DEF AllHeld
  <2>2. CASE WalkAt(id) = Nobody
    BY <2>1, <2>2, WalkSeen
  <2>3. CASE WalkAt(id) # Nobody
    <3>1. PICK w : w = WalkAt(id)
      OBVIOUS
    <3>2. /\ w.of \in Colls /\ WalkOf(id) = Seen(slots, w) /\ WalkOf(id) # Nobody
          /\ WalkOf(id).of = w.of /\ WalkOf(id).over = w.done
      BY <2>3, <3>1, WalkFacts
    <3>3. WalkOf(id)' = Seen(slots', w)
      BY <2>1, <2>3, <3>1, WalkSeen
    <3>4. CASE w.of # c \/ w.done
      <4>1. Seen(slots', w) = Seen(slots, w)
        BY <1>0, <3>2, <3>4 DEF Seen
      <4> QED BY <3>2, <3>3, <3>4, <4>1
    <3>5. CASE w.of = c /\ ~w.done
      <4>1. PICK l : l = Onward(slots[c], w.idx)
        OBVIOUS
      <4>2. Seen(slots, w) = Told(w.of, w.done, l)
        BY <3>5, <4>1 DEF Seen, Told
      <4>3. Onward(t, w.idx) = g[l] /\ slots'[w.of] = t
        BY <1>0, <2>3, <3>1, <3>2, <3>5, <4>1 DEF Follows
      <4>4. Seen(slots', w) = Told(w.of, w.done, g[l])
        BY <3>5, <4>3 DEF Seen, Told
      <4>5. AheadAs(WalkOf(id), g[l]) = Told(w.of, w.done, g[l]) /\ WalkOf(id).ahead = l
        BY <3>2, <4>2, ToldFacts
      <4>6. [WalkOf(id) EXCEPT !.ahead = g[@]] = AheadAs(WalkOf(id), g[l])
        BY <4>5 DEF AheadAs
      <4> QED BY <3>2, <3>3, <3>5, <4>4, <4>5, <4>6
    <3> QED BY <3>4, <3>5
  <2> QED BY <2>2, <2>3
<1>3. Walks' = [id \in DOMAIN Walks |->
                   IF Walks[id] # Nobody /\ Walks[id].of = c /\ ~Walks[id].over
                   THEN [Walks[id] EXCEPT !.ahead = g[@]] ELSE Walks[id]]
  BY <1>2, WorldStays DEF Walks
<1> QED BY <1>1, <1>3 DEF ChangedBy

\* ChangedBy, for each g there is.
LEMMA PutBy ==
    ASSUME NEW c, NEW S, Order[c] \in Seq(S), NEW e, NEW g,
           \A id \in DOMAIN Walks : Walks[id] # Nobody => Walks[id].ahead \in Seq(S),
           g = [l \in Seq(S) |-> IF Ordered!HasKey(Order[c], e.key)
                                 THEN Ordered!InPlace(l, e) ELSE Append(l, e)],
           ChangedBy(c, g)
    PROVE  Ordered!Put(c, e)
<1>1. CASE Ordered!HasKey(Order[c], e.key)
  <2>1. Order' = [Order EXCEPT ![c] = Ordered!InPlace(Order[c], e)]
    BY <1>1 DEF ChangedBy
  <2>2. ASSUME NEW id \in DOMAIN Walks, Walks[id] # Nobody
        PROVE  [Walks[id] EXCEPT !.ahead = g[@]] = [Walks[id] EXCEPT !.ahead = Ordered!InPlace(@, e)]
    BY <1>1, <2>2
  <2>3. Walks' = [id \in DOMAIN Walks |->
                     IF Walks[id] # Nobody /\ Walks[id].of = c /\ ~Walks[id].over
                     THEN [Walks[id] EXCEPT !.ahead = Ordered!InPlace(@, e)] ELSE Walks[id]]
    BY <2>2 DEF ChangedBy
  <2> QED BY <1>1, <2>1, <2>3 DEF Ordered!Put, Ordered!Change, Ordered!Ahead, Order, Walks
<1>2. CASE ~Ordered!HasKey(Order[c], e.key)
  <2>1. Order' = [Order EXCEPT ![c] = Append(Order[c], e)]
    BY <1>2 DEF ChangedBy
  <2>2. ASSUME NEW id \in DOMAIN Walks, Walks[id] # Nobody
        PROVE  [Walks[id] EXCEPT !.ahead = g[@]] = [Walks[id] EXCEPT !.ahead = Append(@, e)]
    BY <1>2, <2>2
  <2>3. Walks' = [id \in DOMAIN Walks |->
                     IF Walks[id] # Nobody /\ Walks[id].of = c /\ ~Walks[id].over
                     THEN [Walks[id] EXCEPT !.ahead = Append(@, e)] ELSE Walks[id]]
    BY <2>2 DEF ChangedBy
  <2> QED BY <1>2, <2>1, <2>3 DEF Ordered!Put, Ordered!Change, Ordered!Ahead, Order, Walks
<1> QED BY <1>1, <1>2

LEMMA WithdrawBy ==
    ASSUME NEW c, NEW S, Order[c] \in Seq(S), NEW key, NEW g,
           \A id \in DOMAIN Walks : Walks[id] # Nobody => Walks[id].ahead \in Seq(S),
           g = [l \in Seq(S) |-> Ordered!Without(l, key)], ChangedBy(c, g)
    PROVE  Ordered!Withdraw(c, key)
<1>1. Order' = [Order EXCEPT ![c] = Ordered!Without(Order[c], key)]
  BY DEF ChangedBy
<1>2. ASSUME NEW id \in DOMAIN Walks, Walks[id] # Nobody
      PROVE  [Walks[id] EXCEPT !.ahead = g[@]] = [Walks[id] EXCEPT !.ahead = Ordered!Without(@, key)]
  BY <1>2
<1>3. Walks' = [id \in DOMAIN Walks |->
                   IF Walks[id] # Nobody /\ Walks[id].of = c /\ ~Walks[id].over
                   THEN [Walks[id] EXCEPT !.ahead = Ordered!Without(@, key)] ELSE Walks[id]]
  BY <1>2 DEF ChangedBy
<1> QED BY <1>1, <1>3 DEF Ordered!Withdraw, Ordered!Change, Ordered!Ahead, Order, Walks

LEMMA EmptyBy ==
    ASSUME NEW c, NEW S, Order[c] \in Seq(S), NEW g,
           \A id \in DOMAIN Walks : Walks[id] # Nobody => Walks[id].ahead \in Seq(S),
           g = [l \in Seq(S) |-> <<>>], ChangedBy(c, g)
    PROVE  Ordered!Empty(c)
<1>1. Order' = [Order EXCEPT ![c] = <<>>]
  BY DEF ChangedBy
<1>2. ASSUME NEW id \in DOMAIN Walks, Walks[id] # Nobody
      PROVE  [Walks[id] EXCEPT !.ahead = g[@]] = [Walks[id] EXCEPT !.ahead = <<>>]
  BY <1>2
<1>3. Walks' = [id \in DOMAIN Walks |->
                   IF Walks[id] # Nobody /\ Walks[id].of = c /\ ~Walks[id].over
                   THEN [Walks[id] EXCEPT !.ahead = <<>>] ELSE Walks[id]]
  BY <1>2 DEF ChangedBy
<1> QED BY <1>1, <1>3 DEF Ordered!Empty, Ordered!Change, Ordered!Ahead, Order, Walks

\* What is in a collection and ahead of the walks.
LEMMA OrderTypes ==
    ASSUME IterationAssumption, RInv, NEW c \in Colls
    PROVE  /\ slots[c] \in Coll(World) /\ slots[c] \in Seq(Slot(World)) /\ UniqueKeys(slots[c])
           /\ Order[c] = Live(slots[c]) /\ Order[c] \in Seq(Slot(World))
           /\ \A id \in DOMAIN Walks : Walks[id] # Nobody => Walks[id].ahead \in Seq(Slot(World))
           /\ \A id \in WalkIds :
                 WalkAt(id) # Nobody /\ WalkAt(id).of = c /\ ~WalkAt(id).done
                    => /\ WalkAt(id).idx \in 0..Len(slots[c])
                       /\ Onward(slots[c], WalkAt(id).idx) \in Seq(Slot(World))
<1>1. slots[c] \in Coll(World) /\ slots[c] \in Seq(Slot(World)) /\ UniqueKeys(slots[c])
  BY DEF RInv, IInv, SlotsOK, Coll
<1>2. Order[c] = Live(slots[c]) /\ Order[c] \in Seq(Slot(World))
  BY <1>1, LiveSeq DEF Order
<1>3. ASSUME NEW id \in WalkIds, Walks[id] # Nobody PROVE Walks[id].ahead \in Seq(Slot(World))
  <2>1. WalkOf(id) # Nobody /\ Walks[id] = WalkOf(id)
    BY <1>3 DEF Walks
  <2>2. WalkAt(id) # Nobody
    BY <2>1, WalkSeen
  <2> QED BY <2>1, <2>2, WalkFacts
<1>4. ASSUME NEW id \in WalkIds, WalkAt(id) # Nobody, WalkAt(id).of = c, ~WalkAt(id).done
      PROVE  /\ WalkAt(id).idx \in 0..Len(slots[c])
             /\ Onward(slots[c], WalkAt(id).idx) \in Seq(Slot(World))
  <2>1. PICK w : w = WalkAt(id)
    OBVIOUS
  <2>2. /\ WalkOf(id).ahead = IF w.done THEN <<>> ELSE Onward(slots[w.of], w.idx)
        /\ WalkOf(id).ahead \in Seq(Slot(World))
        /\ ~w.done => w.idx \in 0..Len(slots[w.of])
    BY <1>4, <2>1, WalkFacts
  <2> QED BY <1>4, <2>1, <2>2
<1>5. DOMAIN Walks = WalkIds
  BY DEF Walks
<1> QED BY <1>1, <1>2, <1>3, <1>4, <1>5
LEMMA KeySetOrdered ==
    ASSUME IterationAssumption, RInv, setup' = setup, KeySet
    PROVE  Ordered!Next
<1>1. PICK c \in Colls, k \in World.keys \cup {Zero}, v \in World.values \cup {NoValue} :
         slots' = [slots EXCEPT ![c] = MapSet(@, k, v)]
  BY DEF KeySet
<1>2. PICK s : s = slots[c]
  OBVIOUS
<1>3. PICK t : t = MapSet(s, k, v)
  OBVIOUS
<1>4. PICK x : x = Entry(MapKey(k), v)
  OBVIOUS
<1>5. setup \in DOMAIN Setup /\ World = Setup[setup]
  BY DEF RInv, IInv, World
<1>6. /\ s \in Seq(Slot(World)) /\ UniqueKeys(s) /\ Order[c] = Live(s)
      /\ Order[c] \in Seq(Slot(World))
      /\ \A id \in DOMAIN Walks : Walks[id] # Nobody => Walks[id].ahead \in Seq(Slot(World))
      /\ \A id \in WalkIds :
            WalkAt(id) # Nobody /\ WalkAt(id).of = c /\ ~WalkAt(id).done
               => /\ WalkAt(id).idx \in 0..Len(s)
                  /\ Onward(s, WalkAt(id).idx) \in Seq(Slot(World))
  BY <1>2, OrderTypes
<1>7. PutAhead(s, t, k, x)
  <2>1. /\ s \in Seq(Slot(Setup[setup])) /\ k \in Setup[setup].keys \cup {Zero}
        /\ v \in Setup[setup].values \cup {NoValue}
    BY <1>5, <1>6
  <2> QED BY <1>3, <1>4, <1>5, <1>6, <2>1, OnwardMapSet
<1>8. \E i \in 1..Len(Live(t)) : Live(t)[i] = x
  BY <1>7 DEF PutAhead
<1>9. Ordered!HasKey(Order[c], x.key) <=> Has(s, k)
  <2>1. x.key = MapKey(k)
    BY <1>4 DEF Entry
  <2> QED BY <1>6, <2>1, HasKeyFacts
<1> DEFINE g == [l \in Seq(Slot(World)) |-> IF Ordered!HasKey(Order[c], x.key)
                                            THEN Ordered!InPlace(l, x) ELSE Append(l, x)]
<1>10. ASSUME NEW idx \in 0..Len(s), Onward(s, idx) \in Seq(Slot(World))
       PROVE  Onward(t, idx) = g[Onward(s, idx)]
  BY <1>7, <1>9, <1>10 DEF PutAhead
<1>11. Live(t) = g[Live(s)]
  <2>1. 0 \in 0..Len(s) /\ Onward(s, 0) = Live(s) /\ Onward(s, 0) \in Seq(Slot(World))
    BY <1>6, OnwardStart
  <2>2. t \in Seq(Slot(World))
    <3>1. x \in Slot(World)
      BY <1>4, <1>5, StoredKey, EntryFacts
    <3>2. s \in Seq(Slot(World)) /\ (Has(s, k) => IndexOf(s, k) \in 1..Len(s))
      BY <1>6, IndexFacts
    <3> QED BY <1>3, <1>4, <3>1, <3>2 DEF MapSet
  <2>3. Onward(t, 0) = Live(t)
    BY <2>2, OnwardStart
  <2> QED BY <1>10, <2>1, <2>3
<1> HIDE DEF g
<1>12. ASSUME NEW id \in WalkIds, WalkAt(id) # Nobody, WalkAt(id).of = c, ~WalkAt(id).done
       PROVE  Onward(t, WalkAt(id).idx) = g[Onward(s, WalkAt(id).idx)]
  <2>1. /\ WalkAt(id).idx \in 0..Len(s)
        /\ Onward(s, WalkAt(id).idx) \in Seq(Slot(World))
    BY <1>6, <1>12
  <2> QED BY <1>10, <2>1
<1>13. ChangedBy(c, g)
  <2>1. slots' = [slots EXCEPT ![c] = t]
    BY <1>1, <1>2, <1>3
  <2>2. AllHeld
    BY DEF KeySet
  <2>3. Follows(c, t, g)
    BY <1>2, <1>11, <1>12 DEF Follows
  <2> QED BY <2>1, <2>2, <2>3, ChangedOrdered
<1>14. Ordered!Put(c, x)
  BY <1>6, <1>13, PutBy DEF g
<1>15. Order'[c] = Live(t) /\ c \in DOMAIN Order
  <2>1. slots'[c] = t
    BY <1>1, <1>2, <1>3 DEF RInv, IInv, SlotsOK
  <2> QED BY <2>1, WorldStays DEF Order
<1>16. PICK i \in 1..Len(Order'[c]) : Order'[c][i] = x
  BY <1>8, <1>15
<1>17. Ordered!Put(c, Order'[c][i])
  BY <1>14, <1>16
<1> QED BY <1>15, <1>16, <1>17 DEF Ordered!Next, Order, Walks

LEMMA KeyErasedOrdered ==
    ASSUME IterationAssumption, RInv, setup' = setup, KeyErased
    PROVE  Ordered!Next \/ (Order' = Order /\ Walks' = Walks)
<1>1. PICK c \in Colls, k \in World.keys : slots' = [slots EXCEPT ![c] = Delete(@, k)]
  BY DEF KeyErased
<1>2. PICK s : s = slots[c]
  OBVIOUS
<1>3. PICK t : t = Delete(s, k)
  OBVIOUS
<1>4. /\ s \in Coll(World) /\ s \in Seq(Slot(World)) /\ UniqueKeys(s) /\ Order[c] = Live(s)
      /\ Order[c] \in Seq(Slot(World))
      /\ \A id \in DOMAIN Walks : Walks[id] # Nobody => Walks[id].ahead \in Seq(Slot(World))
      /\ \A id \in WalkIds :
            WalkAt(id) # Nobody /\ WalkAt(id).of = c /\ ~WalkAt(id).done
               => /\ WalkAt(id).idx \in 0..Len(s)
                  /\ Onward(s, WalkAt(id).idx) \in Seq(Slot(World))
  BY <1>2, OrderTypes
<1>5. CASE ~Has(s, k)
  <2>1. slots' = slots
    <3>1. DOMAIN slots = Colls /\ slots = [d \in Colls |-> slots[d]]
      BY DEF RInv, IInv, SlotsOK
    <3> QED BY <1>1, <1>2, <1>5, <3>1 DEF Delete
  <2> QED BY <2>1, SameOrdered DEF KeyErased, Same
<1>6. CASE Has(s, k)
  <2> DEFINE g == [l \in Seq(Slot(World)) |-> Ordered!Without(l, MapKey(k))]
  <2>1. ASSUME NEW idx \in 0..Len(s), Onward(s, idx) \in Seq(Slot(World))
        PROVE  Onward(t, idx) = g[Onward(s, idx)]
    <3>1. Onward(t, idx) = Ordered!Without(Onward(s, idx), MapKey(k))
      BY <1>3, <1>4, <1>6, OnwardDelete
    <3> QED BY <2>1, <3>1
  <2>2. Live(t) = g[Live(s)]
    <3>1. 0 \in 0..Len(s) /\ Onward(s, 0) = Live(s) /\ Onward(s, 0) \in Seq(Slot(World))
      BY <1>4, OnwardStart
    <3>2. t \in Seq(Slot(World))
      BY <1>3, <1>4, <1>6, IndexFacts DEF Delete, Slot
    <3>3. Onward(t, 0) = Live(t)
      BY <3>2, OnwardStart
    <3> QED BY <2>1, <3>1, <3>3
  <2> HIDE DEF g
  <2>3. ASSUME NEW id \in WalkIds, WalkAt(id) # Nobody, WalkAt(id).of = c, ~WalkAt(id).done
        PROVE  Onward(t, WalkAt(id).idx) = g[Onward(s, WalkAt(id).idx)]
    <3>1. /\ WalkAt(id).idx \in 0..Len(s)
          /\ Onward(s, WalkAt(id).idx) \in Seq(Slot(World))
      BY <1>4, <2>3
    <3> QED BY <2>1, <3>1
  <2>4. ChangedBy(c, g)
    <3>1. slots' = [slots EXCEPT ![c] = t]
      BY <1>1, <1>2, <1>3
    <3>2. AllHeld
      BY DEF KeyErased
    <3>3. Follows(c, t, g)
      BY <1>2, <2>2, <2>3 DEF Follows
    <3> QED BY <3>1, <3>2, <3>3, ChangedOrdered
  <2>5. Ordered!Withdraw(c, MapKey(k))
    BY <1>4, <2>4, WithdrawBy DEF g
  <2>6. PICK i \in 1..Len(Order[c]) : Order[c][i].key = MapKey(k)
    BY <1>4, <1>6, HasKeyFacts DEF Ordered!HasKey
  <2>7. Ordered!Withdraw(c, Order[c][i].key) /\ c \in DOMAIN Order
    BY <2>5, <2>6 DEF Order
  <2> QED BY <2>6, <2>7 DEF Ordered!Next, Order, Walks
<1> QED BY <1>5, <1>6

\* Walks of the cleared collection are at its start, or over.
LEMMA EmptiedOrdered ==
    ASSUME IterationAssumption, RInv, setup' = setup, Emptied
    PROVE  Ordered!Next
<1>1. PICK c \in Colls :
         /\ slots' = [slots EXCEPT ![c] = Cleared]
         /\ \A j \in WalkIds :
               WalkAt(j) # Nobody /\ WalkAt(j).of = c /\ ~WalkAt(j).done => ~(WalkAt(j).idx > 0)
  BY DEF Emptied
<1>2. /\ Order[c] = Live(slots[c]) /\ Order[c] \in Seq(Slot(World))
      /\ \A id \in DOMAIN Walks : Walks[id] # Nobody => Walks[id].ahead \in Seq(Slot(World))
      /\ \A id \in WalkIds :
            WalkAt(id) # Nobody /\ WalkAt(id).of = c /\ ~WalkAt(id).done
               => /\ WalkAt(id).idx \in 0..Len(slots[c])
                  /\ Onward(slots[c], WalkAt(id).idx) \in Seq(Slot(World))
  BY OrderTypes
<1> DEFINE g == [l \in Seq(Slot(World)) |-> <<>>]
<1>3. Onward(<<>>, 0) = <<>> /\ Live(<<>>) = <<>>
  BY LiveEmpty, EmptySeq, OnwardStart
<1>4. Live(<<>>) = g[Live(slots[c])]
  BY <1>2, <1>3
<1>5. ASSUME NEW id \in WalkIds, WalkAt(id) # Nobody, WalkAt(id).of = c, ~WalkAt(id).done
      PROVE  Onward(<<>>, WalkAt(id).idx) = g[Onward(slots[c], WalkAt(id).idx)]
  <2>1. /\ WalkAt(id).idx \in 0..Len(slots[c])
        /\ Onward(slots[c], WalkAt(id).idx) \in Seq(Slot(World))
    BY <1>2, <1>5
  <2>2. WalkAt(id).idx = 0
    BY <1>1, <1>5, <2>1
  <2> QED BY <1>3, <2>1, <2>2
<1> HIDE DEF g
<1>6. ChangedBy(c, g)
  <2>1. slots' = [slots EXCEPT ![c] = <<>>] /\ AllHeld
    BY <1>1 DEF Cleared, Emptied
  <2>2. Follows(c, <<>>, g)
    BY <1>4, <1>5 DEF Follows
  <2> QED BY <2>1, <2>2, ChangedOrdered
<1>7. Ordered!Empty(c)
  BY <1>2, <1>6, EmptyBy DEF g
<1>8. c \in DOMAIN Order
  BY DEF Order
<1> QED BY <1>7, <1>8 DEF Ordered!Next, Order, Walks

LEMMA ShapesOrdered ==
    ASSUME IterationAssumption, RInv, setup' = setup, Shapes
    PROVE  [Ordered!Next]_<<Order, Walks>>
BY SameOrdered, OpenedOrdered, AdvancedOrdered, ReleasedOrdered, KeySetOrdered, KeyErasedOrdered,
   EmptiedOrdered DEF Shapes

LEMMA OrderedInit ==
    ASSUME IterationAssumption, Init
    PROVE  RInv /\ Ordered!Init
<1>1. IInv
  BY InitOK
<1>2. setup \in DOMAIN Setup /\ World.depth \in Nat
  BY DEF Init, IterationAssumption, World
<1>3. Deep
  BY <1>2, EmptySeq DEF Init, Deep
<1>4. \A id \in WalkIds : WalkAt(id) = Nobody
  BY IdFacts DEF Init
<1>5. Inside
  BY <1>4 DEF Inside
<1>6. \A c \in Colls : Live(slots[c]) = <<>>
  BY LiveEmpty DEF Init
<1>7. \A id \in WalkIds : WalkOf(id) = Nobody
  BY <1>4, WalkSeen
<1>8. Ordered!Init
  BY <1>6, <1>7 DEF Ordered!Init
<1> QED BY <1>1, <1>3, <1>5, <1>8 DEF RInv

LEMMA OrderedStep ==
    ASSUME IterationAssumption, NeverClearsUnderWalk, RInv, [Next]_vars
    PROVE  RInv' /\ [Ordered!Next]_<<Order, Walks>>
<1>1. CASE Next
  <2>1. Shapes /\ Deep' /\ setup' = setup /\ IInv'
    BY <1>1, NextShape, NextOK DEF RInv
  <2>2. Inside'
    BY <2>1, InsideKept
  <2> QED BY <2>1, <2>2, ShapesOrdered DEF RInv
<1>2. CASE UNCHANGED vars
  <2>1. setup' = setup /\ Same
    BY <1>2, HeldStill DEF vars, Same
  <2>2. Deep' /\ IInv'
    BY <1>2, NextOK DEF vars, Deep, RInv, World
  <2>3. Inside'
    BY <2>1, InsideKept DEF Shapes
  <2> QED BY <2>1, <2>2, <2>3, ShapesOrdered DEF RInv, Shapes
<1> QED BY <1>1, <1>2

\* In a world where nothing clears a collection under a walk, Map and Set are
\* ordered collections whatever callbacks, bodies and other walks do between
\* two steps of a walk: every walk visits what was there and what is put while
\* it goes on, once and in order, skips what is deleted before it gets there,
\* and stays over once it is over (MapObject and SetObject of vm/object.rs,
\* native_next of vm/mod.rs, forEach).
THEOREM CollectionsImplementOrdered ==
    ASSUME NeverClearsUnderWalk
    PROVE  Spec => ImplementsOrdered
<1>1. Init => RInv /\ Ordered!Init
  BY OrderedInit, IterationAssumption
<1>2. RInv /\ [Next]_vars => RInv' /\ [Ordered!Next]_<<Order, Walks>>
  BY OrderedStep, IterationAssumption
<1>3. [Ordered!Next]_<<Order, Walks>> => [Ordered!Next]_(Ordered!vars)
  BY DEF Ordered!vars, Order, Walks
<1> QED BY <1>1, <1>2, <1>3, PTL DEF Spec, ImplementsOrdered, Ordered!Spec
=============================================================================
