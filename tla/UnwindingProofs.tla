-------------------------- MODULE UnwindingProofs ---------------------------
(***************************************************************************)
(* Machine-checked proofs about Unwinding, for functions of any number of  *)
(* regions, any depth of calls and any values.                             *)
(***************************************************************************)
EXTENDS Unwinding, StackLemmas

-----------------------------------------------------------------------------
(* How regions nest.                                                       *)

\* What every function's regions have in common.
LEMMA ProgramFacts ==
    ASSUME NEW p \in Programs
    PROVE  /\ p \in [Region -> Statement]
           /\ \A r \in Region : /\ p[r].up \in 0..NumRegions /\ p[r].up < r
                                /\ p[r].part \in Parts
                                /\ p[r].catch \in BOOLEAN /\ p[r].finally \in BOOLEAN
                                /\ p[r].up = 0 => p[r].part = "try"
<1>1. p \in [Region -> Statement]
  BY DEF Programs
<1>2. ASSUME NEW r \in Region, p[r] = NoStatement
      PROVE  p[r].up = 0 /\ p[r].up < r /\ p[r].part = "try"
  BY <1>2, RegionAssumption DEF NoStatement, Region
<1>3. ASSUME NEW r \in Region, p[r] # NoStatement
      PROVE  p[r].up < r /\ (p[r].up = 0 => p[r].part = "try")
  BY <1>3 DEF Programs, Present
<1>4. \A r \in Region : p[r] \in Statement
  BY <1>1
<1>5. \A r \in Region : /\ p[r].up \in 0..NumRegions /\ p[r].part \in Parts
                        /\ p[r].catch \in BOOLEAN /\ p[r].finally \in BOOLEAN
  BY <1>4 DEF Statement
<1> QED BY <1>1, <1>2, <1>3, <1>5

\* Path is defined for every region, by the recursion its definition states.
LEMMA PathUnfolds ==
    ASSUME NEW p \in Programs
    PROVE  /\ Path(p, 0) = <<>>
           /\ \A r \in Region : Path(p, r) = Append(Path(p, p[r].up), r)
<1> DEFINE Step(g, i) == IF i = 0 THEN <<>> ELSE Append(g[p[i].up], i)
           Good(n) == \E g : g = [i \in 0..n |-> Step(g, i)]
           Bad == {n \in 0..NumRegions : ~Good(n)}
<1>1. Bad = {}
  <2> SUFFICES ASSUME Bad # {} PROVE FALSE
    OBVIOUS
  <2>1. PICK m \in Bad : \A k \in Bad : m <= k
    <3>1. Bad \in SUBSET Nat
      BY RegionAssumption
    <3> HIDE DEF Bad
    <3> QED BY <3>1, LeastElement
  <2>2. m \in 0..NumRegions /\ ~Good(m) /\ NumRegions \in Nat
    BY RegionAssumption
  <2>3. CASE m = 0
    <3> DEFINE g == [i \in 0..m |-> <<>>]
    <3>1. \A i \in 0..m : i = 0
      BY <2>3
    <3>2. g = [i \in 0..m |-> Step(g, i)]
      BY <3>1
    <3>3. Good(m)
      <4> HIDE DEF g
      <4> QED BY <3>2
    <3> HIDE DEF Good, Bad
    <3> QED BY <2>2, <3>3
  <2>4. CASE m # 0
    <3>1. m - 1 \in 0..NumRegions /\ m - 1 \notin Bad
      <4>1. m - 1 \in 0..NumRegions /\ ~(m <= m - 1)
        BY <2>2, <2>4
      <4> HIDE DEF Bad
      <4> QED BY <2>1, <4>1
    <3>2. PICK g : g = [i \in 0..(m - 1) |-> Step(g, i)]
      BY <3>1
    <3> DEFINE h == [i \in 0..m |-> IF i = m THEN Step(g, m) ELSE g[i]]
    <3>3. ASSUME NEW i \in 0..m PROVE h[i] = Step(h, i)
      <4>1. CASE i = 0
        <5>1. 0 \in 0..(m - 1) /\ m - 1 \in Nat
          BY <2>2, <2>4
        <5>2. g[0] = Step(g, 0)
          <6> HIDE DEF Step
          <6> QED BY <3>2, <5>1
        <5>3. g[0] = <<>>
          BY <5>2
        <5> QED BY <2>4, <4>1, <5>3
      <4>2. CASE i # 0
        <5>1. i \in Region
          BY <2>2, <4>2 DEF Region
        <5>2. p[i].up \in 0..NumRegions /\ p[i].up < i
          BY <5>1, ProgramFacts
        <5>3. p[i].up \in 0..(m - 1)
          BY <2>2, <5>2
        <5>4. h[p[i].up] = g[p[i].up]
          BY <2>2, <5>3
        <5>5. CASE i = m
          BY <4>2, <5>4, <5>5
        <5>6. CASE i # m
          <6>1. i \in 0..(m - 1)
            BY <2>2, <5>6
          <6>2. h[i] = g[i] /\ g[i] = Step(g, i)
            BY <3>2, <5>6, <6>1
          <6> QED BY <4>2, <5>4, <6>2
        <5> QED BY <5>5, <5>6
      <4> QED BY <4>1, <4>2
    <3>4. h = [i \in 0..m |-> Step(h, i)]
      BY <3>3
    <3>5. Good(m)
      <4> HIDE DEF h
      <4> QED BY <3>4
    <3> QED BY <2>2, <3>5
  <2> QED BY <2>3, <2>4
<1>2. Good(NumRegions)
  <2>1. NumRegions \in 0..NumRegions
    BY RegionAssumption
  <2> HIDE DEF Good
  <2> QED BY <1>1, <2>1
<1> DEFINE path == CHOOSE g : g = [i \in 0..NumRegions |-> Step(g, i)]
<1>3. path = [i \in 0..NumRegions |-> Step(path, i)]
  BY <1>2
<1>4. \A r : Path(p, r) = path[r]
  BY DEF Path
<1> HIDE DEF path
<1>5. path[0] = <<>>
  BY <1>3, RegionAssumption
<1>6. \A r \in Region : path[r] = Append(path[p[r].up], r)
  <2> TAKE r \in Region
  <2>1. r \in 0..NumRegions /\ r # 0
    BY RegionAssumption DEF Region
  <2>2. path[r] = Step(path, r)
    BY <1>3, <2>1
  <2> QED BY <2>1, <2>2
<1> QED BY <1>4, <1>5, <1>6

\* The regions around region r: they end in r, those before it are the path of
\* the region r is in, and every one of them begins a path of its own.
PathProperties(p, r) ==
    /\ Path(p, r) \in Seq(Region)
    /\ Len(Path(p, r)) \in Nat
    /\ r = 0 => Len(Path(p, r)) = 0
    /\ r # 0 => /\ Len(Path(p, r)) = Len(Path(p, p[r].up)) + 1
                /\ Path(p, r)[Len(Path(p, r))] = r
                /\ \A i \in 1..Len(Path(p, p[r].up)) :
                      Path(p, r)[i] = Path(p, p[r].up)[i]
    /\ \A i \in 1..Len(Path(p, r)) :
          /\ Len(Path(p, Path(p, r)[i])) = i
          /\ \A j \in 1..i : Path(p, Path(p, r)[i])[j] = Path(p, r)[j]
          /\ p[Path(p, r)[i]].up = IF i = 1 THEN 0 ELSE Path(p, r)[i - 1]

LEMMA PathFacts ==
    ASSUME NEW p \in Programs, NEW r \in 0..NumRegions
    PROVE  PathProperties(p, r)
<1> DEFINE Bad == {n \in 0..NumRegions : ~PathProperties(p, n)}
<1> SUFFICES Bad = {}
  OBVIOUS
<1> SUFFICES ASSUME Bad # {} PROVE FALSE
  OBVIOUS
<1>1. PICK m \in Bad : \A k \in Bad : m <= k
  <2>1. Bad \in SUBSET Nat
    BY RegionAssumption
  <2> HIDE DEF Bad
  <2> QED BY <2>1, LeastElement
<1>2. m \in 0..NumRegions /\ ~PathProperties(p, m) /\ NumRegions \in Nat
  BY RegionAssumption
<1>3. CASE m = 0
  <2>1. Path(p, 0) = <<>>
    BY PathUnfolds
  <2>2. /\ Path(p, 0) \in Seq(Region) /\ Len(Path(p, 0)) = 0
        /\ \A i \in 1..Len(Path(p, 0)) : FALSE
    <3>1. <<>> \in Seq(Region) /\ Len(<<>>) = 0
      OBVIOUS
    <3>2. \A i \in 1..0 : FALSE
      OBVIOUS
    <3> QED BY <2>1, <3>1, <3>2, Zenon
  <2>3. PathProperties(p, 0)
    BY <2>2 DEF PathProperties
  <2> QED BY <1>2, <1>3, <2>3
<1>4. CASE m # 0
  <2> DEFINE u == p[m].up
             P == Path(p, m)
             Q == Path(p, u)
  <2>1. m \in Region
    BY <1>2, <1>4 DEF Region
  <2>2. u \in 0..NumRegions /\ u < m /\ P = Append(Q, m)
    BY <2>1, ProgramFacts, PathUnfolds
  <2>3. PathProperties(p, u)
    BY <1>1, <1>2, <2>2
  <2>4. Q \in Seq(Region) /\ Len(Q) \in Nat /\ (u = 0 => Len(Q) = 0)
        /\ (u # 0 => Len(Q) # 0 /\ Q[Len(Q)] = u)
    <3>1. u # 0 => u \in Region
      BY <2>2 DEF Region
    <3>2. u # 0 => p[u].up \in 0..NumRegions /\ p[u].up < u
      BY <3>1, ProgramFacts
    <3>3. u # 0 => Len(Path(p, p[u].up)) \in Nat
      <4>1. u # 0 => PathProperties(p, p[u].up)
        BY <1>1, <1>2, <2>2, <3>2
      <4> QED BY <4>1 DEF PathProperties
    <3> HIDE DEF u
    <3> QED BY <2>3, <3>3 DEF PathProperties
  <2> HIDE DEF P, Q, u
  <2>5. /\ P \in Seq(Region) /\ Len(P) = Len(Q) + 1
        /\ \A i \in 1..Len(Q) : P[i] = Q[i]
        /\ P[Len(P)] = m
    BY <2>1, <2>2, <2>4, AppendProperties
  <2>6. ASSUME NEW i \in 1..Len(P)
        PROVE  /\ Len(Path(p, P[i])) = i
               /\ \A j \in 1..i : Path(p, P[i])[j] = P[j]
               /\ p[P[i]].up = IF i = 1 THEN 0 ELSE P[i - 1]
    <3>1. CASE i = Len(P)
      <4>1. P[i] = m /\ Path(p, P[i]) = P
        BY <2>5, <3>1 DEF P
      <4>2. p[P[i]].up = u
        BY <4>1 DEF u
      <4>3. CASE u = 0
        BY <2>4, <2>5, <3>1, <4>1, <4>2, <4>3
      <4>4. CASE u # 0
        <5>1. i - 1 = Len(Q) /\ i # 1 /\ P[i - 1] = u
          BY <2>4, <2>5, <3>1, <4>4
        <5> QED BY <3>1, <4>1, <4>2, <5>1
      <4> QED BY <4>3, <4>4
    <3>2. CASE i # Len(P)
      <4>1. i \in 1..Len(Q) /\ P[i] = Q[i]
        BY <2>4, <2>5, <3>2
      <4>2. /\ Len(Path(p, Q[i])) = i
            /\ \A j \in 1..i : Path(p, Q[i])[j] = Q[j]
            /\ p[Q[i]].up = IF i = 1 THEN 0 ELSE Q[i - 1]
        BY <2>3, <4>1 DEF PathProperties, Q
      <4>3. \A j \in 1..i : j \in 1..Len(Q) /\ P[j] = Q[j]
        BY <2>4, <2>5, <4>1
      <4>4. i # 1 => i - 1 \in 1..i
        OBVIOUS
      <4> QED BY <4>1, <4>2, <4>3, <4>4
    <3> QED BY <3>1, <3>2
  <2>7. PathProperties(p, m)
    BY <1>4, <2>4, <2>5, <2>6 DEF PathProperties, P, Q, u
  <2> QED BY <1>2, <2>7
<1> QED BY <1>3, <1>4

-----------------------------------------------------------------------------
(* Where the pc lands: the frames above frame f are gone, and of the        *)
(* regions frame f was in the k outermost are left.                         *)

\* What the types say of a frame and of the regions it is in.
LEMMA FrameFacts ==
    ASSUME TypeOK, NEW f \in 1..Depth
    PROVE  /\ Depth \in Nat /\ frames[f] \in Frame
           /\ Low(f) \in Nat
           /\ frames[f].at \in Place /\ frames[f].at[1] \in 0..NumRegions
           /\ frames[f].at[2] \in Parts
           /\ frames[f] = [seh_depth |-> Low(f), at |-> frames[f].at]
           /\ PathOf(f) \in Seq(Region) /\ Len(PathOf(f)) \in Nat
           /\ PathProperties(prog, frames[f].at[1])
<1>1. frames[f] \in Frame /\ Depth \in Nat
  BY DEF TypeOK, Depth
<1>2. /\ Low(f) \in Nat /\ frames[f].at \in Place
      /\ frames[f] = [seh_depth |-> Low(f), at |-> frames[f].at]
  BY <1>1 DEF Frame, Low
<1>3. frames[f].at[1] \in 0..NumRegions /\ frames[f].at[2] \in Parts
  BY <1>2 DEF Place
<1>4. PathProperties(prog, frames[f].at[1])
  BY <1>3, PathFacts DEF TypeOK
<1> QED BY <1>1, <1>2, <1>3, <1>4 DEF PathProperties, PathOf

\* The regions around a place in the k-th region of a frame, or outside all.
LEMMA OuterPath ==
    ASSUME TypeOK, NEW f \in 1..Depth, NEW k \in 0..Len(PathOf(f)),
           NEW place \in Place,
           k = 0 => place = Outside,
           k > 0 => place[1] = PathOf(f)[k]
    PROVE  /\ Path(prog, place[1]) \in Seq(Region)
           /\ Len(Path(prog, place[1])) = k
           /\ \A i \in 1..k : Path(prog, place[1])[i] = PathOf(f)[i]
<1>1. k \in Nat
  OBVIOUS
<1>2. CASE k = 0
  <2>1. place[1] = 0
    BY <1>2 DEF Outside
  <2>2. Path(prog, place[1]) = <<>>
    BY <2>1, PathUnfolds DEF TypeOK
  <2> QED BY <1>2, <2>2
<1>3. CASE k # 0
  <2>1. k \in 1..Len(PathOf(f)) /\ place[1] = PathOf(f)[k]
    BY <1>1, <1>3
  <2>2. PathProperties(prog, frames[f].at[1])
    BY FrameFacts
  <2>3. /\ Len(Path(prog, PathOf(f)[k])) = k
        /\ \A j \in 1..k : Path(prog, PathOf(f)[k])[j] = PathOf(f)[j]
    BY <2>1, <2>2 DEF PathProperties, PathOf
  <2>4. Path(prog, place[1]) \in Seq(Region)
    <3>1. place[1] \in 0..NumRegions
      BY DEF Place
    <3> QED BY <3>1, PathFacts DEF TypeOK, PathProperties
  <2> QED BY <2>1, <2>3, <2>4
<1> QED BY <1>2, <1>3

\* The place and the records of a frame say the same thing, whichever of its
\* frames and regions the machine falls back to.
LEMMA Landing ==
    ASSUME TypeOK, FramesInv, RecordsInv,
           NEW f \in 1..Depth, NEW k \in 0..Len(PathOf(f)), NEW place \in Place,
           k = 0 => place = Outside,
           k > 0 => place[1] = PathOf(f)[k],
           prog' = prog,
           frames' \in Seq(Frame), Len(frames') = f,
           \A g \in 1..(f - 1) : frames'[g] = frames[g],
           frames'[f].seh_depth = Low(f), frames'[f].at = place,
           seh_stack' \in Seq(SehRecord), Len(seh_stack') = Low(f) + k,
           \A i \in 1..Low(f) : seh_stack'[i] = seh_stack[i],
           \A i \in 1..(k - 1) : seh_stack'[Low(f) + i] = seh_stack[Low(f) + i],
           k > 0 => /\ seh_stack'[Low(f) + k].saved_frame_depth = f
                    /\ Fits(seh_stack'[Low(f) + k], PathOf(f)[k], place[2])
                    /\ Deferred(seh_stack'[Low(f) + k])
    PROVE  FramesInv' /\ RecordsInv'
<1>1. /\ Depth' = f /\ Depth \in Nat /\ f \in 1..f /\ k \in Nat
      /\ \A g \in 1..f : g \in 1..Depth
      /\ \A g \in 1..Depth : Low(g) \in Nat /\ PathOf(g) \in Seq(Region)
                             /\ Len(PathOf(g)) \in Nat
  <2>1. Depth' = f
    BY DEF Depth
  <2>2. Depth \in Nat /\ Len(PathOf(f)) \in Nat
    BY FrameFacts
  <2>3. \A g \in 1..Depth : Low(g) \in Nat /\ PathOf(g) \in Seq(Region)
                             /\ Len(PathOf(g)) \in Nat
    BY FrameFacts
  <2> QED BY <2>1, <2>2, <2>3
<1>2. \A g \in 1..f : Low(g)' = Low(g)
  BY DEF Low
<1>3. \A g \in 1..(f - 1) : PathOf(g)' = PathOf(g) /\ High(g)' = High(g)
  <2> TAKE g \in 1..(f - 1)
  <2>1. PathOf(g)' = PathOf(g)
    BY DEF PathOf
  <2>2. g + 1 \in 1..f /\ g # f /\ g # Depth
    BY <1>1
  <2>3. High(g) = Low(g + 1) /\ High(g)' = Low(g + 1)'
    BY <1>1, <2>2 DEF High, Low
  <2> QED BY <1>2, <2>1, <2>2, <2>3
<1>4. /\ PathOf(f)' \in Seq(Region) /\ Len(PathOf(f)') = k
      /\ \A i \in 1..k : PathOf(f)'[i] = PathOf(f)[i]
  <2>1. PathOf(f)' = Path(prog, place[1])
    BY DEF PathOf
  <2> QED BY <2>1, OuterPath
<1>5. High(f)' = Low(f) + k
  BY <1>1 DEF High
<1>6. FramesInv'
  <2>1. f = 1 => k = 0
    <3>1. SUFFICES ASSUME f = 1 PROVE k = 0
      OBVIOUS
    <3>2. frames # <<>>
      BY <1>1, <3>1 DEF Depth
    <3>3. frames[1].at[1] = 0
      BY <3>2 DEF FramesInv, Outside
    <3>4. PathOf(1) = <<>>
      BY <3>3, PathUnfolds DEF PathOf, TypeOK
    <3> QED BY <3>1, <3>4
  <2>2. frames' # <<>>
    BY <1>1
  <2>3. frames # <<>>
    BY <1>1 DEF Depth
  <2>4. frames'[1] = [seh_depth |-> 0, at |-> Outside]
    <3>1. frames[1] = [seh_depth |-> 0, at |-> Outside]
      BY <2>3 DEF FramesInv
    <3>2. CASE f = 1
      <4>1. frames'[1] \in Frame
        <5>1. 1 \in 1..Len(frames')
          BY <3>2
        <5> QED BY <5>1
      <4>2. Low(f) = 0 /\ place = Outside
        BY <2>1, <3>1, <3>2 DEF Low
      <4> QED BY <3>2, <4>1, <4>2 DEF Frame
    <3>3. CASE f # 1
      BY <1>1, <3>1, <3>3
    <3> QED BY <3>2, <3>3
  <2>5. ASSUME NEW g \in 1..f
        PROVE  /\ frames'[g].at[1] = 0 => frames'[g].at = Outside
               /\ High(g)' = Low(g)' + Len(PathOf(g)')
    <3>1. CASE g = f
      <4>1. place[1] = 0 => k = 0
        <5>1. k > 0 => PathOf(f)[k] \in Region
          BY <1>1
        <5> QED BY <1>1, <5>1 DEF Region
      <4> QED BY <1>2, <1>4, <1>5, <3>1, <4>1
    <3>2. CASE g # f
      <4>1. g \in 1..(f - 1) /\ g \in 1..Depth
        BY <1>1, <3>2
      <4>2. /\ frames[g].at[1] = 0 => frames[g].at = Outside
            /\ High(g) = Low(g) + Len(PathOf(g))
        BY <4>1 DEF FramesInv
      <4> QED BY <1>2, <1>3, <4>1, <4>2
    <3> QED BY <3>1, <3>2
  <2>6. \A g, h \in 1..f : g <= h => Low(g)' <= Low(h)'
    BY <1>1, <1>2 DEF FramesInv
  <2> QED BY <1>1, <2>2, <2>4, <2>5, <2>6 DEF FramesInv
<1>7. ASSUME NEW i \in 1..Len(seh_stack'), NEW g,
             g = seh_stack'[i].saved_frame_depth
      PROVE  g \in 1..f /\ Low(g)' < i /\ i <= High(g)'
  <2>1. CASE i <= Low(f)
    <3>1. i \in 1..Len(seh_stack) /\ seh_stack'[i] = seh_stack[i]
      <4>1. Low(f) <= Len(seh_stack)
        <5>1. Depth \in 1..Depth /\ f <= Depth
          BY <1>1
        <5>2. Low(f) <= Low(Depth) /\ High(Depth) = Low(Depth) + Len(PathOf(Depth))
          BY <5>1 DEF FramesInv
        <5>3. High(Depth) = Len(seh_stack)
          BY DEF High
        <5> QED BY <1>1, <5>1, <5>2, <5>3
      <4>2. Len(seh_stack) \in Nat /\ i \in 1..Low(f)
        BY <1>1, <2>1 DEF TypeOK
      <4> QED BY <1>1, <4>1, <4>2
    <3>2. g \in 1..Depth /\ Low(g) < i /\ i <= High(g)
      BY <1>7, <3>1 DEF RecordsInv
    <3>3. g \in 1..(f - 1)
      <4>1. g < f
        <5>1. f <= g => Low(f) <= Low(g)
          BY <3>2 DEF FramesInv
        <5> QED BY <1>1, <2>1, <3>2, <5>1
      <4> QED BY <1>1, <3>2, <4>1
    <3>4. g \in 1..f
      BY <1>1, <3>3
    <3>5. Low(g)' = Low(g) /\ High(g)' = High(g)
      BY <1>2, <1>3, <3>3, <3>4
    <3> QED BY <3>1, <3>2, <3>4, <3>5
  <2>2. CASE ~ (i <= Low(f))
    <3>1. /\ k > 0 /\ i - Low(f) \in 1..k /\ i = Low(f) + (i - Low(f))
          /\ k \in 1..Len(PathOf(f)) /\ f \in 1..Depth
      BY <1>1, <2>2
    <3>2. seh_stack'[i].saved_frame_depth = f
      <4>1. CASE i = Low(f) + k
        BY <3>1, <4>1
      <4>2. CASE i # Low(f) + k
        <5>1. i - Low(f) \in 1..(k - 1) /\ i - Low(f) \in 1..Len(PathOf(f))
          BY <1>1, <3>1, <4>2
        <5>2. seh_stack'[i] = seh_stack[i]
          BY <3>1, <5>1
        <5>3. seh_stack[Low(f) + (i - Low(f))].saved_frame_depth = f
          BY <3>1, <5>1 DEF RecordsInv
        <5> QED BY <3>1, <5>2, <5>3
      <4> QED BY <4>1, <4>2
    <3>3. g = f
      BY <1>7, <3>2
    <3>4. Low(f)' = Low(f) /\ High(f)' = Low(f) + k
      BY <1>1, <1>2, <1>5
    <3> QED BY <1>1, <2>2, <3>3, <3>4
  <2> QED BY <2>1, <2>2
<1>8. ASSUME NEW g \in 1..f, NEW i \in 1..Len(PathOf(g)')
      PROVE  LET rec == seh_stack'[Low(g)' + i] IN
             /\ rec.saved_frame_depth = g
             /\ Fits(rec, PathOf(g)[i], PartOf(prog, frames[g].at, i)')
             /\ PathOf(g)'[i] = PathOf(g)[i]
             /\ Deferred(rec)
  <2>1. g \in 1..Depth /\ Low(g)' = Low(g)
    BY <1>1, <1>2
  <2>2. CASE g # f
    <3>1. g \in 1..(f - 1) /\ PathOf(g)' = PathOf(g) /\ i \in 1..Len(PathOf(g))
      BY <1>1, <1>3, <2>2
    <3>2. Low(g) + i \in 1..Low(f)
      <4>1. High(g) = Low(g) + Len(PathOf(g))
        BY <2>1 DEF FramesInv
      <4>2. g + 1 \in 1..Depth /\ g + 1 <= f /\ g # Depth
        BY <1>1, <3>1
      <4>3. High(g) = Low(g + 1) /\ Low(g + 1) <= Low(f)
        BY <4>2 DEF High, Low, FramesInv
      <4>4. /\ Low(g) \in Nat /\ Low(f) \in Nat /\ Len(PathOf(g)) \in Nat
            /\ i \in 1..Len(PathOf(g))
        BY <2>1, <3>1, FrameFacts
      <4>5. Low(g) + Len(PathOf(g)) <= Low(f)
        BY <4>1, <4>3
      <4> QED BY <4>4, <4>5
    <3>3. seh_stack'[Low(g) + i] = seh_stack[Low(g) + i]
      BY <3>2
    <3>4. PartOf(prog, frames[g].at, i)' = PartOf(prog, frames[g].at, i)
      BY <3>1
    <3>5. LET rec == seh_stack[Low(g) + i] IN
          /\ rec.saved_frame_depth = g
          /\ Fits(rec, PathOf(g)[i], PartOf(prog, frames[g].at, i))
          /\ Deferred(rec)
      BY <2>1, <3>1 DEF RecordsInv
    <3> QED BY <2>1, <3>1, <3>3, <3>4, <3>5
  <2>3. CASE g = f
    <3>1. /\ i \in 1..k /\ k > 0 /\ i \in 1..Len(PathOf(f))
          /\ PathOf(f)'[i] = PathOf(f)[i]
      BY <1>1, <1>4, <2>3
    <3>2. /\ i = k => PartOf(prog, frames[f].at, i)' = place[2]
          /\ i # k => PartOf(prog, frames[f].at, i)'
                         = PartOf(prog, frames[f].at, i)
      <4>1. PartOf(prog, frames[f].at, i)'
              = IF i = k THEN place[2] ELSE prog[PathOf(f)'[i + 1]].part
        BY <1>4 DEF PartOf, PathOf
      <4>2. PartOf(prog, frames[f].at, i)
              = IF i = Len(PathOf(f)) THEN frames[f].at[2]
                ELSE prog[PathOf(f)[i + 1]].part
        BY DEF PartOf, PathOf
      <4>3. i # k => i + 1 \in 1..k /\ i # Len(PathOf(f))
        BY <1>1, <3>1
      <4> QED BY <1>4, <4>1, <4>2, <4>3
    <3>3. CASE i = k
      BY <2>1, <2>3, <3>1, <3>2, <3>3
    <3>4. CASE i # k
      <4>1. i \in 1..(k - 1)
        BY <1>1, <3>1, <3>4
      <4>2. seh_stack'[Low(f) + i] = seh_stack[Low(f) + i]
        BY <4>1
      <4>3. LET rec == seh_stack[Low(f) + i] IN
            /\ rec.saved_frame_depth = f
            /\ Fits(rec, PathOf(f)[i], PartOf(prog, frames[f].at, i))
            /\ Deferred(rec)
        BY <3>1 DEF RecordsInv
      <4> QED BY <2>1, <2>3, <3>1, <3>2, <3>4, <4>2, <4>3
    <3> QED BY <3>3, <3>4
  <2> QED BY <2>2, <2>3
<1>9. RecordsInv'
  <2>1. \A rec : (Deferred(rec) <=> Deferred(rec)')
    BY DEF Deferred, CleanAround
  <2>2. \A rec, r, part : (Fits(rec, r, part) <=> Fits(rec, r, part)')
    BY DEF Fits
  <2>3. (\A i \in 1..Len(seh_stack) :
            LET g == seh_stack[i].saved_frame_depth IN
            g \in 1..Depth /\ Low(g) < i /\ i <= High(g))'
    BY <1>1, <1>7 DEF Low, High
  <2>4. (\A g \in 1..Depth : \A i \in 1..Len(PathOf(g)) :
            LET rec == seh_stack[Low(g) + i] IN
            /\ rec.saved_frame_depth = g
            /\ Fits(rec, PathOf(g)[i], PartOf(prog, frames[g].at, i))
            /\ Deferred(rec))'
    BY <1>1, <1>8, <2>1, <2>2
  <2> QED BY <2>3, <2>4 DEF RecordsInv
<1> QED BY <1>6, <1>9
\* Between the watermarks.
LEMMA WatermarkFacts ==
    ASSUME TypeOK, FramesInv, NEW f \in 1..Depth
    PROVE  /\ Low(f) \in Nat /\ High(f) \in Nat
           /\ High(f) = Low(f) + Len(PathOf(f))
           /\ High(f) <= Len(seh_stack) /\ Low(f) <= Low(Depth)
           /\ f = Depth => High(f) = Len(seh_stack)
           /\ f < Depth => High(f) = Low(f + 1) /\ f + 1 \in 1..Depth
           /\ \A g \in 1..Depth : f < g => High(f) <= Low(g)
           /\ Len(seh_stack) \in Nat
<1>1. Low(f) \in Nat /\ Len(PathOf(f)) \in Nat /\ Depth \in Nat
  BY FrameFacts
<1>2. High(f) = Low(f) + Len(PathOf(f))
  BY DEF FramesInv
<1>3. Depth \in 1..Depth
  BY <1>1
<1>4. Low(Depth) \in Nat /\ Len(PathOf(Depth)) \in Nat
  BY <1>3, FrameFacts
<1>5. High(Depth) = Low(Depth) + Len(PathOf(Depth)) /\ High(Depth) = Len(seh_stack)
  BY <1>3 DEF FramesInv, High
<1>6. \A g \in 1..Depth : f < g => High(f) <= Low(g)
  <2> TAKE g \in 1..Depth
  <2> HAVE f < g
  <2>1. f + 1 \in 1..Depth /\ f + 1 <= g /\ f # Depth
    BY <1>1
  <2>2. High(f) = Low(f + 1)
    BY <2>1 DEF High, Low
  <2>3. Low(f + 1) <= Low(g)
    BY <2>1 DEF FramesInv
  <2> QED BY <2>2, <2>3
<1>7. f < Depth => High(f) = Low(f + 1) /\ f + 1 \in 1..Depth
  BY <1>1 DEF High, Low
<1>8. Low(f) <= Low(Depth)
  BY <1>1, <1>3 DEF FramesInv
<1>9. High(f) <= Len(seh_stack)
  <2>1. f = Depth \/ f < Depth
    BY <1>1
  <2> QED BY <1>1, <1>2, <1>3, <1>4, <1>5, <1>6, <2>1
<1>10. Len(seh_stack) \in Nat
  BY DEF TypeOK
<1> QED BY <1>1, <1>2, <1>5, <1>6, <1>7, <1>8, <1>9, <1>10

\* Frames above f go and the pc of frame f moves.
Moved(f, place) == [SubSeq(frames, 1, f) EXCEPT ![f].at = place]

LEMMA MoveFacts ==
    ASSUME TypeOK, NEW f \in 1..Depth, NEW place \in Place, NEW fs,
           fs = Moved(f, place)
    PROVE  /\ fs \in Seq(Frame) /\ Len(fs) = f
           /\ \A g \in 1..(f - 1) : fs[g] = frames[g]
           /\ fs[f].seh_depth = Low(f) /\ fs[f].at = place
           /\ f = Depth => fs = Goto(place)
<1>1. f \in 0..Len(frames) /\ frames \in Seq(Frame) /\ f \in 1..f
  BY DEF TypeOK, Depth
<1>2. /\ SubSeq(frames, 1, f) \in Seq(Frame) /\ Len(SubSeq(frames, 1, f)) = f
      /\ \A g \in 1..f : SubSeq(frames, 1, f)[g] = frames[g]
  BY <1>1, CutFacts
<1>3. frames[f] \in Frame
  BY FrameFacts
<1>4. [frames[f] EXCEPT !.at = place] \in Frame
  BY <1>3 DEF Frame
<1>5. f = Depth => SubSeq(frames, 1, f) = frames
  BY <1>1, SubSeqFull DEF Depth
<1> DEFINE cut == SubSeq(frames, 1, f)
<1> HIDE DEF cut
<1>6. /\ cut \in Seq(Frame) /\ Len(cut) = f /\ f \in 1..Len(cut)
      /\ \A g \in 1..f : cut[g] = frames[g]
      /\ fs = [cut EXCEPT ![f].at = place]
  BY <1>1, <1>2 DEF cut, Moved
<1> DEFINE top == [frames[f] EXCEPT !.at = place]
<1>7. fs = [cut EXCEPT ![f] = top]
  BY <1>1, <1>6
<1>8. /\ fs \in Seq(Frame) /\ Len(fs) = f
      /\ \A g \in 1..f : fs[g] = IF g = f THEN top ELSE frames[g]
  <2>1. top \in Frame
    BY <1>4
  <2> HIDE DEF top
  <2>2. /\ [cut EXCEPT ![f] = top] \in Seq(Frame)
        /\ Len([cut EXCEPT ![f] = top]) = Len(cut)
        /\ \A g \in 1..Len(cut) :
              [cut EXCEPT ![f] = top][g] = IF g = f THEN top ELSE cut[g]
    BY <1>6, <2>1, ExceptSeq
  <2> QED BY <1>6, <1>7, <2>2
<1>9. fs[f].seh_depth = Low(f) /\ fs[f].at = place
  <2>1. fs[f] = top
    BY <1>1, <1>8
  <2> QED BY <1>3, <2>1 DEF Frame, Low
<1>10. \A g \in 1..(f - 1) : g \in 1..f /\ g # f
  BY <1>1
<1>11. f = Depth => fs = Goto(place)
  BY <1>5 DEF Goto, Moved
<1> QED BY <1>8, <1>9, <1>10, <1>11
LEMMA AroundFacts ==
    ASSUME NEW p \in Programs, NEW r \in Region
    PROVE  /\ Around(p, r) \in Place /\ Around(p, r)[1] = p[r].up
           /\ Around(p, r)[2] = p[r].part
           /\ p[r].up = 0 => Around(p, r) = Outside
           /\ Around(p, r) # <<>>
  BY ProgramFacts DEF Around, Place, Outside

\* What a record says of the frame it belongs to.
LEMMA RecordFacts ==
    ASSUME TypeOK, FramesInv, RecordsInv,
           NEW f \in 1..Depth, NEW k \in 1..Len(PathOf(f))
    PROVE  /\ Low(f) + k \in 1..Len(seh_stack)
           /\ seh_stack[Low(f) + k] \in SehRecord
           /\ seh_stack[Low(f) + k].saved_frame_depth = f
           /\ seh_stack[Low(f) + k].region = PathOf(f)[k]
           /\ PathOf(f)[k] \in Region
           /\ Fits(seh_stack[Low(f) + k], PathOf(f)[k],
                   PartOf(prog, frames[f].at, k))
           /\ Deferred(seh_stack[Low(f) + k])
<1>1. /\ Low(f) \in Nat /\ High(f) = Low(f) + Len(PathOf(f))
      /\ High(f) <= Len(seh_stack) /\ Len(PathOf(f)) \in Nat
      /\ PathOf(f) \in Seq(Region) /\ Len(seh_stack) \in Nat
  BY WatermarkFacts, FrameFacts
<1>2. Low(f) + k \in 1..Len(seh_stack)
  BY <1>1
<1>3. seh_stack[Low(f) + k] \in SehRecord
  BY <1>2 DEF TypeOK
<1>4. /\ seh_stack[Low(f) + k].saved_frame_depth = f
      /\ Fits(seh_stack[Low(f) + k], PathOf(f)[k],
              PartOf(prog, frames[f].at, k))
      /\ Deferred(seh_stack[Low(f) + k])
  BY DEF RecordsInv
<1> QED BY <1>1, <1>2, <1>3, <1>4 DEF Fits

LEMMA OwnerFacts ==
    ASSUME TypeOK, FramesInv, RecordsInv, NEW i \in 1..Len(seh_stack),
           NEW f, f = seh_stack[i].saved_frame_depth
    PROVE  f \in 1..Depth /\ i - Low(f) \in 1..Len(PathOf(f))
           /\ i = Low(f) + (i - Low(f))
<1>1. f \in 1..Depth /\ Low(f) < i /\ i <= High(f)
  BY DEF RecordsInv
<1> QED BY <1>1, WatermarkFacts, FrameFacts

\* The innermost region the pc is in has its record on top of the stack.
LEMMA TopFacts ==
    ASSUME TypeOK, FramesInv, RecordsInv, Depth > 0, Here # Outside
    PROVE  /\ Depth \in 1..Depth /\ Here[1] \in Region
           /\ Len(PathOf(Depth)) \in Nat \ {0}
           /\ PathOf(Depth)[Len(PathOf(Depth))] = Here[1]
           /\ Len(seh_stack) = Low(Depth) + Len(PathOf(Depth))
           /\ seh_stack # <<>>
           /\ seh_stack[Len(seh_stack)] \in SehRecord
           /\ seh_stack[Len(seh_stack)].region = Here[1]
           /\ seh_stack[Len(seh_stack)].saved_frame_depth = Depth
           /\ Fits(seh_stack[Len(seh_stack)], Here[1], Here[2])
           /\ Deferred(seh_stack[Len(seh_stack)])
           /\ Max(Positions(Here[1])) = Len(seh_stack)
<1> DEFINE n == Len(PathOf(Depth))
<1>1. Depth \in 1..Depth
  BY DEF TypeOK, Depth
<1>2. /\ n \in Nat /\ Here[1] \in 0..NumRegions
      /\ PathProperties(prog, Here[1]) /\ PathOf(Depth) = Path(prog, Here[1])
      /\ Low(Depth) \in Nat /\ Len(seh_stack) = Low(Depth) + n
  <2>1. Here[1] \in 0..NumRegions /\ PathProperties(prog, Here[1]) /\ n \in Nat
    BY <1>1, FrameFacts DEF Here
  <2>2. Low(Depth) \in Nat /\ Len(seh_stack) = Low(Depth) + n
    BY <1>1, WatermarkFacts
  <2> QED BY <2>1, <2>2 DEF PathOf, Here
<1>3. Here[1] # 0
  BY <1>1 DEF FramesInv, Here
<1>4. Here[1] \in Region /\ n # 0 /\ PathOf(Depth)[n] = Here[1]
  <2>1. Here[1] \in Region
    BY <1>2, <1>3 DEF Region
  <2>2. prog[Here[1]].up \in 0..NumRegions
    BY <2>1, ProgramFacts DEF TypeOK
  <2>3. Len(Path(prog, prog[Here[1]].up)) \in Nat
    BY <2>2, PathFacts DEF PathProperties, TypeOK
  <2> QED BY <1>2, <1>3, <2>1, <2>3 DEF PathProperties
<1>5. n \in 1..n /\ PartOf(prog, frames[Depth].at, n) = Here[2]
  BY <1>2, <1>4 DEF PartOf, Here
<1>6. LET rec == seh_stack[Len(seh_stack)] IN
      /\ rec \in SehRecord /\ rec.region = Here[1]
      /\ rec.saved_frame_depth = Depth
      /\ Fits(rec, Here[1], Here[2]) /\ Deferred(rec)
  BY <1>1, <1>2, <1>4, <1>5, RecordFacts
<1>7. seh_stack # <<>> /\ Len(seh_stack) \in 1..Len(seh_stack)
  BY <1>2, <1>4
<1>8. Max(Positions(Here[1])) = Len(seh_stack)
  <2>1. Len(seh_stack) \in Positions(Here[1])
    BY <1>6, <1>7 DEF Positions, TypeOK
  <2>2. Positions(Here[1]) \in SUBSET (1..Len(seh_stack)) /\ Len(seh_stack) \in Nat
    BY DEF Positions, TypeOK
  <2>3. /\ Max(Positions(Here[1])) \in 1..Len(seh_stack)
        /\ \A y \in Positions(Here[1]) : y <= Max(Positions(Here[1]))
    BY <2>1, <2>2, MaxFacts
  <2> QED BY <2>1, <2>2, <2>3
<1> QED BY <1>1, <1>2, <1>4, <1>6, <1>7, <1>8

\* Frame f is as it was, those above it are gone.
LEMMA LandingBack ==
    ASSUME TypeOK, FramesInv, RecordsInv, NEW f \in 1..Depth,
           prog' = prog, frames' = SubSeq(frames, 1, f),
           seh_stack' = SubSeq(seh_stack, 1, High(f))
    PROVE  /\ FramesInv' /\ RecordsInv'
           /\ frames' \in Seq(Frame) /\ Len(frames') = f
           /\ seh_stack' \in Seq(SehRecord)
<1> DEFINE k == Len(PathOf(f))
           place == frames[f].at
<1>1. /\ f \in 0..Len(frames) /\ frames \in Seq(Frame) /\ f \in 1..f
      /\ \A g \in 1..(f - 1) : g \in 1..f
  BY DEF TypeOK, Depth
<1>2. /\ frames' \in Seq(Frame) /\ Len(frames') = f
      /\ \A g \in 1..f : frames'[g] = frames[g]
  BY <1>1, CutFacts
<1>3. /\ Low(f) \in Nat /\ k \in Nat /\ High(f) = Low(f) + k
      /\ High(f) \in 0..Len(seh_stack)
      /\ place \in Place /\ place[1] \in 0..NumRegions
      /\ PathProperties(prog, place[1])
  <2>1. /\ Low(f) \in Nat /\ High(f) = Low(f) + k
        /\ High(f) <= Len(seh_stack) /\ Len(seh_stack) \in Nat
    BY WatermarkFacts
  <2>2. /\ k \in Nat /\ place \in Place /\ place[1] \in 0..NumRegions
        /\ PathProperties(prog, place[1])
    BY FrameFacts
  <2> HIDE DEF k, place
  <2> QED BY <2>1, <2>2
<1>4. /\ seh_stack' \in Seq(SehRecord) /\ Len(seh_stack') = Low(f) + k
      /\ \A i \in 1..(Low(f) + k) : seh_stack'[i] = seh_stack[i]
  BY <1>3, CutFacts DEF TypeOK
<1>5. /\ k = 0 => place = Outside
      /\ k > 0 => place[1] = PathOf(f)[k]
  <2>1. place[1] = 0 => k = 0 /\ place = Outside
    BY <1>3 DEF PathProperties, PathOf, FramesInv
  <2>2. place[1] # 0 => k > 0 /\ PathOf(f)[k] = place[1]
    <3>1. SUFFICES ASSUME place[1] # 0 PROVE k > 0 /\ PathOf(f)[k] = place[1]
      OBVIOUS
    <3>2. place[1] \in Region
      BY <1>3, <3>1 DEF Region
    <3>3. prog[place[1]].up \in 0..NumRegions
      BY <3>2, ProgramFacts DEF TypeOK
    <3>4. Len(Path(prog, prog[place[1]].up)) \in Nat
      BY <3>3, PathFacts DEF PathProperties, TypeOK
    <3>5. PICK r : r = place[1]
      OBVIOUS
    <3>6. PathOf(f) = Path(prog, r) /\ k = Len(Path(prog, r))
      BY <3>5 DEF PathOf
    <3>7. PathProperties(prog, r) /\ r # 0 /\ Len(Path(prog, prog[r].up)) \in Nat
      BY <1>3, <3>1, <3>4, <3>5
    <3> HIDE DEF place, k
    <3>8. k = Len(Path(prog, prog[r].up)) + 1 /\ Path(prog, r)[k] = r
      BY <3>6, <3>7 DEF PathProperties
    <3> QED BY <3>5, <3>6, <3>7, <3>8
  <2> QED BY <1>3, <2>1, <2>2
<1>6. k > 0 => LET rec == seh_stack[Low(f) + k] IN
               /\ rec.saved_frame_depth = f
               /\ Fits(rec, PathOf(f)[k], place[2])
               /\ Deferred(rec)
  <2>1. k > 0 => k \in 1..k
    BY <1>3
  <2>2. PartOf(prog, frames[f].at, k) = place[2]
    BY DEF PartOf, PathOf
  <2> QED BY <2>1, <2>2, RecordFacts
<1>7. /\ \A i \in 1..Low(f) : seh_stack'[i] = seh_stack[i]
      /\ \A i \in 1..(k - 1) : seh_stack'[Low(f) + i] = seh_stack[Low(f) + i]
      /\ k > 0 => seh_stack'[Low(f) + k] = seh_stack[Low(f) + k]
  <2>1. /\ \A i \in 1..Low(f) : i \in 1..(Low(f) + k)
        /\ \A i \in 1..(k - 1) : Low(f) + i \in 1..(Low(f) + k)
        /\ k > 0 => Low(f) + k \in 1..(Low(f) + k)
    <3> HIDE DEF k
    <3> QED BY <1>3
  <2> HIDE DEF k
  <2> QED BY <1>4, <2>1
<1>8. /\ frames'[f].seh_depth = Low(f) /\ frames'[f].at = place
      /\ \A g \in 1..(f - 1) : frames'[g] = frames[g]
  BY <1>1, <1>2 DEF Low
<1>9. k \in 0..Len(PathOf(f))
  BY <1>3
<1> HIDE DEF k, place
<1>10. FramesInv' /\ RecordsInv'
  BY <1>2, <1>3, <1>4, <1>5, <1>6, <1>7, <1>8, <1>9, Landing
<1> QED BY <1>2, <1>4, <1>10
\* The frame that runs leaves all but its k outermost regions, for the place
\* around the next one.
LEMMA LandingAround ==
    ASSUME TypeOK, FramesInv, RecordsInv, Depth \in 1..Depth,
           NEW k \in 0..(Len(PathOf(Depth)) - 1),
           prog' = prog, frames' = Goto(Around(prog, PathOf(Depth)[k + 1])),
           seh_stack' = SubSeq(seh_stack, 1, Low(Depth) + k)
    PROVE  /\ FramesInv' /\ RecordsInv'
           /\ frames' \in Seq(Frame) /\ Len(frames') = Depth
           /\ frames'[Depth].seh_depth = Low(Depth)
           /\ \A g \in 1..(Depth - 1) : frames'[g] = frames[g]
           /\ frames'[Depth].at \in Place
           /\ k = 0 => frames'[Depth].at = Outside
           /\ k > 0 => /\ frames'[Depth].at[1] = PathOf(Depth)[k]
                       /\ frames'[Depth].at[2] = PartOf(prog, frames[Depth].at, k)
           /\ \A i \in 1..Low(Depth) : seh_stack'[i] = seh_stack[i]
           /\ seh_stack' \in Seq(SehRecord)
<1> DEFINE path == PathOf(Depth)
           place == Around(prog, path[k + 1])
<1>1. /\ Len(path) \in Nat /\ path \in Seq(Region) /\ path[k + 1] \in Region
      /\ k + 1 \in 1..Len(path) /\ k # Len(path) /\ k \in 0..Len(path)
      /\ PathProperties(prog, frames[Depth].at[1])
  <2>1. Len(path) \in Nat /\ path \in Seq(Region)
        /\ PathProperties(prog, frames[Depth].at[1])
    BY FrameFacts
  <2> QED BY <2>1
<1>2. prog[path[k + 1]].up = IF k + 1 = 1 THEN 0 ELSE path[k + 1 - 1]
  <2>1. PICK i : i = k + 1
    OBVIOUS
  <2>2. path = Path(prog, frames[Depth].at[1])
    BY DEF PathOf
  <2>3. i \in 1..Len(path)
    BY <1>1, <2>1
  <2> HIDE DEF path
  <2>4. prog[path[i]].up = IF i = 1 THEN 0 ELSE path[i - 1]
    BY <1>1, <2>2, <2>3 DEF PathProperties
  <2> QED BY <2>1, <2>4
<1>3. k + 1 - 1 = k /\ (k + 1 = 1 <=> k = 0)
  OBVIOUS
<1>4. /\ place \in Place
      /\ k = 0 => place = Outside
      /\ k > 0 => place[1] = path[k] /\ place[2] = prog[path[k + 1]].part
  BY <1>1, <1>2, <1>3, AroundFacts DEF TypeOK
<1> HIDE DEF place
<1>5. Goto(place) = Moved(Depth, place)
  BY <1>4, MoveFacts
<1>6. frames' = Moved(Depth, place)
  BY <1>5 DEF place
<1>7. /\ frames' \in Seq(Frame) /\ Len(frames') = Depth
      /\ \A g \in 1..(Depth - 1) : frames'[g] = frames[g]
      /\ frames'[Depth].seh_depth = Low(Depth) /\ frames'[Depth].at = place
  BY <1>4, <1>6, MoveFacts
<1>8. Low(Depth) \in Nat /\ Low(Depth) + k \in 0..Len(seh_stack)
  <2>1. /\ Low(Depth) \in Nat /\ Len(seh_stack) \in Nat
        /\ Len(seh_stack) = Low(Depth) + Len(path)
    BY WatermarkFacts
  <2> QED BY <1>1, <2>1
<1>9. /\ seh_stack' \in Seq(SehRecord) /\ Len(seh_stack') = Low(Depth) + k
      /\ \A i \in 1..(Low(Depth) + k) : seh_stack'[i] = seh_stack[i]
  BY <1>8, CutFacts DEF TypeOK
<1>10. /\ \A i \in 1..Low(Depth) : seh_stack'[i] = seh_stack[i]
       /\ \A i \in 1..(k - 1) :
             seh_stack'[Low(Depth) + i] = seh_stack[Low(Depth) + i]
       /\ k > 0 => seh_stack'[Low(Depth) + k] = seh_stack[Low(Depth) + k]
  <2>1. /\ \A i \in 1..Low(Depth) : i \in 1..(Low(Depth) + k)
        /\ \A i \in 1..(k - 1) : Low(Depth) + i \in 1..(Low(Depth) + k)
        /\ k > 0 => Low(Depth) + k \in 1..(Low(Depth) + k)
    BY <1>8
  <2> QED BY <1>9, <2>1
<1>14. k > 0 => PartOf(prog, frames[Depth].at, k) = place[2]
  BY <1>1, <1>4 DEF PartOf, PathOf
<1>11. k > 0 => LET rec == seh_stack'[Low(Depth) + k] IN
                /\ rec.saved_frame_depth = Depth
                /\ Fits(rec, path[k], place[2])
                /\ Deferred(rec)
  <2>1. SUFFICES ASSUME k > 0
                 PROVE  LET rec == seh_stack[Low(Depth) + k] IN
                        /\ rec.saved_frame_depth = Depth
                        /\ Fits(rec, path[k], place[2])
                        /\ Deferred(rec)
    BY <1>10
  <2>2. k \in 1..Len(path)
    BY <1>1, <2>1
  <2>3. PartOf(prog, frames[Depth].at, k) = place[2]
    BY <1>14, <2>1
  <2> QED BY <2>2, <2>3, RecordFacts
<1> HIDE DEF path
<1>12. FramesInv' /\ RecordsInv'
  BY <1>1, <1>4, <1>7, <1>8, <1>9, <1>10, <1>11, Landing DEF path
<1> QED BY <1>4, <1>7, <1>9, <1>10, <1>12, <1>14 DEF path

\* The calls of builtins that are not over know where their frames begin.
LEMMA BoundariesKept ==
    ASSUME TypeOK, FramesInv, BoundariesInv,
           NEW f \in 1..Depth, NEW m \in 0..Len(boundaries),
           Len(frames') = f, \A g \in 1..f : frames'[g].seh_depth = Low(g),
           boundaries' = SubSeq(boundaries, 1, m),
           m > 0 => \/ boundaries[m].frames < f
                    \/ boundaries[m].frames = f /\ Len(seh_stack') = High(f),
           error' # NoValue => f > InvokeBoundary'
    PROVE  BoundariesInv' /\ boundaries' \in Seq(Boundary)
<1>1. /\ boundaries' \in Seq(Boundary) /\ Len(boundaries') = m
      /\ \A i \in 1..m : boundaries'[i] = boundaries[i] /\ i \in 1..Len(boundaries)
  BY CutFacts DEF TypeOK
<1>2. Depth' = f /\ Depth \in Nat /\ m \in Nat /\ Len(boundaries) \in Nat
  BY DEF Depth, TypeOK
<1>3. ASSUME NEW i \in 1..m
      PROVE  LET b == boundaries[i].frames IN
             /\ b \in 1..f
             /\ b <= f
             /\ b = f => Len(seh_stack') = High(f)
  <2>1. boundaries[i].frames \in 1..Depth /\ boundaries[m].frames \in 1..Depth
    BY <1>1, <1>2 DEF BoundariesInv
  <2>2. i = m \/ boundaries[i].frames < boundaries[m].frames
    <3>1. i = m \/ i < m
      BY <1>2
    <3>2. i \in 1..Len(boundaries) /\ m \in 1..Len(boundaries)
      BY <1>1, <1>2
    <3> QED BY <3>1, <3>2 DEF BoundariesInv
  <2>3. m > 0
    BY <1>2
  <2>4. boundaries[m].frames <= f /\ (boundaries[m].frames = f => Len(seh_stack') = High(f))
    BY <1>2, <2>1, <2>3
  <2>5. CASE i = m
    BY <1>2, <2>1, <2>4, <2>5
  <2>6. CASE boundaries[i].frames < boundaries[m].frames
    BY <1>2, <2>1, <2>4, <2>6
  <2> QED BY <2>2, <2>5, <2>6
<1>4. ASSUME NEW i \in 1..m, NEW b, b = boundaries[i].frames
      PROVE  boundaries'[i].saved_seh = High(b)'
  <2>1. boundaries'[i].saved_seh = High(b)
    BY <1>1, <1>4 DEF BoundariesInv
  <2>2. b \in 1..f
    BY <1>3, <1>4
  <2>3. CASE b < f
    <3>1. b + 1 \in 1..f /\ b # f /\ b # Depth
      BY <1>2, <2>2, <2>3
    <3> QED BY <1>2, <2>1, <3>1 DEF High, Low
  <2>4. CASE ~ (b < f)
    <3>1. b = f /\ Len(seh_stack') = High(f)
      BY <1>3, <1>4, <2>4
    <3> QED BY <1>2, <2>1, <3>1 DEF High
  <2> QED BY <2>3, <2>4
<1>5. (\A i \in 1..Len(boundaries) :
          /\ boundaries[i].frames \in 1..Depth
          /\ boundaries[i].saved_seh = High(boundaries[i].frames))'
  BY <1>1, <1>2, <1>3, <1>4 DEF High
<1>6. (\A i, j \in 1..Len(boundaries) :
          i < j => boundaries[i].frames < boundaries[j].frames)'
  BY <1>1 DEF BoundariesInv
<1>7. (error # NoValue => Depth > InvokeBoundary)'
  BY <1>2
<1>8. BoundariesInv'
  BY <1>5, <1>6, <1>7 DEF BoundariesInv
<1> QED BY <1>1, <1>8
-----------------------------------------------------------------------------
(* Exceptions.                                                             *)

\* The bound on the depth of calls admits the script's frame.
LEMMA FrameLimitPositive ==
    ASSUME prog \in Programs
    PROVE  FrameLimit \in Nat \ {0}
<1>1. Present(prog) \subseteq 1..NumRegions
  BY DEF Present, Region
<1>2. IsFiniteSet(1..NumRegions) /\ Cardinality(1..NumRegions) = NumRegions
  BY RegionAssumption, FS_Interval
<1>3. /\ Cardinality(Present(prog)) \in Nat
      /\ Cardinality(Present(prog)) <= NumRegions
  BY <1>1, <1>2, FS_Subset, FS_CardinalityType
<1>4. Cardinality(Present(prog)) \in 0..NumRegions
  BY <1>3, RegionAssumption
<1> QED BY <1>4, UnwindingAssumption DEF FrameLimit

LEMMA TypeKept ==
    ASSUME TypeOK, prog' = prog,
           frames' \in Seq(Frame), Len(frames') <= FrameLimit,
           seh_stack' \in Seq(SehRecord), boundaries' \in Seq(Boundary),
           rv' \in Value \cup {NoValue}, error' \in Value \cup {NoValue}
    PROVE  TypeOK'
<1>1. FrameLimit' = FrameLimit
  BY DEF FrameLimit
<1> QED BY <1>1 DEF TypeOK

\* The call a builtin made last.
LEMMA BoundaryFacts ==
    ASSUME TypeOK, BoundariesInv, boundaries # <<>>
    PROVE  /\ Len(boundaries) \in Nat \ {0}
           /\ Last(boundaries) = boundaries[Len(boundaries)]
           /\ Last(boundaries) \in Boundary
           /\ InvokeBoundary = Last(boundaries).frames
           /\ InvokeBoundary \in 1..Depth
           /\ Last(boundaries).saved_seh = High(InvokeBoundary)
           /\ Front(boundaries) = SubSeq(boundaries, 1, Len(boundaries) - 1)
           /\ Len(boundaries) - 1 \in 0..Len(boundaries)
           /\ Len(boundaries) - 1 > 0 =>
                 boundaries[Len(boundaries) - 1].frames < InvokeBoundary
<1>1. /\ boundaries \in Seq(Boundary) /\ Len(boundaries) \in Nat \ {0}
      /\ Last(boundaries) = boundaries[Len(boundaries)]
      /\ Last(boundaries) \in Boundary
      /\ Front(boundaries) = SubSeq(boundaries, 1, Len(boundaries) - 1)
  BY PopFacts DEF TypeOK
<1>2. InvokeBoundary = boundaries[Len(boundaries)].frames
  BY <1>1 DEF InvokeBoundary
<1>3. Len(boundaries) \in 1..Len(boundaries)
  BY <1>1
<1>4. /\ InvokeBoundary \in 1..Depth
      /\ Last(boundaries).saved_seh = High(InvokeBoundary)
  BY <1>1, <1>2, <1>3 DEF BoundariesInv
<1>5. Len(boundaries) - 1 > 0 =>
         boundaries[Len(boundaries) - 1].frames < InvokeBoundary
  <2>1. Len(boundaries) - 1 > 0 =>
           /\ Len(boundaries) - 1 \in 1..Len(boundaries)
           /\ Len(boundaries) - 1 < Len(boundaries)
    BY <1>1
  <2> QED BY <1>2, <1>3, <2>1 DEF BoundariesInv
<1> QED BY <1>1, <1>2, <1>4, <1>5

LEMMA FrontBoundary ==
    ASSUME TypeOK, BoundariesInv, boundaries # <<>>,
           boundaries' = Front(boundaries)
    PROVE  InvokeBoundary' < InvokeBoundary /\ boundaries' \in Seq(Boundary)
<1>1. /\ Len(boundaries) \in Nat \ {0} /\ InvokeBoundary \in 1..Depth
      /\ Len(boundaries) - 1 > 0 =>
            boundaries[Len(boundaries) - 1].frames < InvokeBoundary
  BY BoundaryFacts
<1>2. /\ boundaries' \in Seq(Boundary) /\ Len(boundaries') = Len(boundaries) - 1
      /\ \A i \in 1..(Len(boundaries) - 1) : boundaries'[i] = boundaries[i]
  BY PopFacts DEF TypeOK
<1>3. CASE boundaries' = <<>>
  BY <1>1, <1>2, <1>3 DEF InvokeBoundary
<1>4. CASE boundaries' # <<>>
  <2>1. Len(boundaries) - 1 > 0
    BY <1>1, <1>2, <1>4
  <2>2. Last(boundaries)' = boundaries[Len(boundaries) - 1]
    <3>1. Len(boundaries) - 1 \in 1..(Len(boundaries) - 1)
      BY <1>1, <2>1
    <3>2. Last(boundaries)' = boundaries'[Len(boundaries')]
      BY <1>2, <1>4, PopFacts
    <3> QED BY <1>2, <3>1, <3>2
  <2>3. InvokeBoundary' = Last(boundaries)'.frames
    BY <1>4 DEF InvokeBoundary
  <2> QED BY <1>1, <1>2, <2>1, <2>2, <2>3
<1> QED BY <1>3, <1>4

-----------------------------------------------------------------------------
(* What a step may do with the regions it leaves.                          *)

Disciplined == KeepsFinally /\ EntersOwnCatch /\ KeepsCallers

\* No record above the m-th has a finally to run.
NothingDue(m) == \A i \in (m + 1)..Len(seh_stack) : ~FinallyDue(seh_stack[i])

\* Which records have a finally to run.
LEMMA DueFacts ==
    ASSUME UnwindInv, NEW f \in 1..Depth, NEW i \in 1..Len(PathOf(f))
    PROVE  FinallyDue(seh_stack[Low(f) + i])
              <=> /\ prog[PathOf(f)[i]].finally
                  /\ PartOf(prog, frames[f].at, i) # "finally"
<1>1. /\ seh_stack[Low(f) + i].region = PathOf(f)[i]
      /\ Fits(seh_stack[Low(f) + i], PathOf(f)[i], PartOf(prog, frames[f].at, i))
  BY RecordFacts DEF UnwindInv
<1> QED BY <1>1 DEF FinallyDue, Fits

\* The frames above f go, and of the regions of f at most those inside its k
\* outermost.
LEMMA DisciplineFacts ==
    ASSUME UnwindInv, NEW f \in 1..Depth, NEW k \in 0..Len(PathOf(f)),
           NothingDue(Low(f) + k),
           frames' \in Seq(Frame), f <= Len(frames'),
           f < Len(frames') => f = Depth,
           \A g \in 1..(f - 1) : frames'[g] = frames[g], prog' = prog,
           PathOf(f)' \in Seq(Region), k <= Len(PathOf(f)'),
           \A i \in 1..k : PathOf(f)'[i] = PathOf(f)[i],
           frames'[f].at # frames[f].at /\ frames'[f].at[2] = "catch" =>
              \E i \in 1..Len(PathOf(f)) :
                 /\ PathOf(f)[i] = frames'[f].at[1]
                 /\ PartOf(prog, frames[f].at, i) # "finally",
           InvokeBoundary <= f,
           \A i \in 1..Low(f) : seh_stack'[i] = seh_stack[i],
           InvokeBoundary = f =>
              /\ frames'[f] = frames[f]
              /\ \A i \in 1..High(f) : seh_stack'[i] = seh_stack[i]
    PROVE  Disciplined
<1> USE DEF UnwindInv
<1>1. \A g \in 1..Depth : /\ PathOf(g) \in Seq(Region) /\ Low(g) \in Nat
                          /\ Len(PathOf(g)) \in Nat /\ Depth \in Nat
  BY FrameFacts
<1>2. /\ Depth \in Nat /\ f \in Nat /\ k \in Nat /\ Len(frames') \in Nat
      /\ Low(f) \in Nat /\ Len(PathOf(f)) \in Nat
  BY <1>1
<1>3. DOMAIN frames = 1..Depth /\ DOMAIN frames' = 1..Len(frames')
  BY DEF TypeOK, Depth
<1>4. \A g \in 1..Depth : DOMAIN PathOf(g) = 1..Len(PathOf(g))
  BY <1>1
<1>5. \A g \in 1..(f - 1) : PathOf(g)' = PathOf(g)
  BY DEF PathOf
<1>6. ASSUME NEW g \in 1..Depth, NEW i \in 1..Len(PathOf(g)),
             prog[PathOf(g)[i]].finally,
             PartOf(prog, frames[g].at, i) # "finally"
      PROVE  /\ g \in 1..Len(frames')
             /\ \E j \in DOMAIN PathOf(g)' : PathOf(g)'[j] = PathOf(g)[i]
  <2>1. FinallyDue(seh_stack[Low(g) + i])
    BY <1>6, DueFacts
  <2>2. /\ Low(g) + i \in Nat /\ Low(g) + i <= Low(f) + k
        /\ Low(g) \in Nat /\ Low(g) + i >= Low(g) + 1
    <3>1. Low(g) + i \in 1..Len(seh_stack) /\ Low(g) \in Nat
      BY <1>1, RecordFacts
    <3>2. Low(g) + i \notin (Low(f) + k + 1)..Len(seh_stack)
      BY <2>1 DEF NothingDue
    <3>3. Len(seh_stack) \in Nat /\ Len(PathOf(g)) \in Nat /\ i \in Nat /\ i >= 1
      BY <1>1 DEF TypeOK
    <3>4. PICK j : j = Low(g) + i
      OBVIOUS
    <3>5. j \in Nat /\ j >= Low(g) + 1
      BY <3>1, <3>3, <3>4
    <3>6. j <= Low(f) + k
      <4>1. j \in 1..Len(seh_stack) /\ j \notin (Low(f) + k + 1)..Len(seh_stack)
        BY <3>1, <3>2, <3>4
      <4> QED BY <1>2, <3>3, <4>1
    <3> QED BY <3>1, <3>4, <3>5, <3>6
  <2>3. g <= f
    <3>1. f < g => High(f) <= Low(g) /\ High(f) = Low(f) + Len(PathOf(f))
      BY WatermarkFacts
    <3>2. f < g => Low(f) + Len(PathOf(f)) <= Low(g)
      BY <3>1
    <3> QED BY <1>2, <2>2, <3>2
  <2>4. CASE g = f
    <3>1. i \in 1..k
      BY <1>2, <2>2, <2>4
    <3>2. i \in DOMAIN PathOf(f)' /\ PathOf(f)'[i] = PathOf(f)[i]
      BY <3>1
    <3>3. g \in 1..Len(frames')
      BY <1>2, <2>4
    <3> QED BY <2>4, <3>2, <3>3 DEF PathOf
  <2>5. CASE g # f
    <3>1. g \in 1..(f - 1) /\ g \in 1..Len(frames')
      BY <1>2, <2>3, <2>5
    <3>2. PathOf(g)' = PathOf(g) /\ i \in DOMAIN PathOf(g)
      BY <1>5, <1>4, <3>1
    <3>3. i \in DOMAIN PathOf(g)' /\ PathOf(g)'[i] = PathOf(g)[i]
      BY <3>2
    <3> QED BY <3>1, <3>3
  <2> QED BY <2>4, <2>5
<1>7. KeepsFinally
  <2> SUFFICES ASSUME NEW g \in DOMAIN frames, NEW i \in DOMAIN PathOf(g),
                      prog[PathOf(g)[i]].finally,
                      PartOf(prog, frames[g].at, i) # "finally"
               PROVE  /\ g \in DOMAIN frames'
                      /\ \E j \in DOMAIN PathOf(g)' : PathOf(g)'[j] = PathOf(g)[i]
    BY DEF KeepsFinally
  <2>1. g \in 1..Depth /\ i \in 1..Len(PathOf(g))
    BY <1>3, <1>4
  <2> QED BY <1>3, <1>6, <2>1
<1>8. EntersOwnCatch
  <2> SUFFICES ASSUME NEW g \in 1..Depth, g \in 1..Len(frames'),
                      frames'[g].at # frames[g].at, frames'[g].at[2] = "catch"
               PROVE  \E i \in 1..Len(PathOf(g)) :
                         /\ PathOf(g)[i] = frames'[g].at[1]
                         /\ PartOf(prog, frames[g].at, i) # "finally"
    <3>1. /\ \A g \in DOMAIN frames \cap DOMAIN frames' :
                 g \in 1..Depth /\ g \in 1..Len(frames')
          /\ \A g \in 1..Depth : \A i \in 1..Len(PathOf(g)) : i \in DOMAIN PathOf(g)
      BY <1>3, <1>4
    <3> QED BY <3>1, Zenon DEF EntersOwnCatch
  <2>1. g = f
    <3>1. g < f => g \in 1..(f - 1)
      BY <1>2
    <3>2. g > f => f < Len(frames') /\ f < Depth
      BY <1>2
    <3> QED BY <1>2, <3>1, <3>2
  <2> QED BY <2>1
<1>9. KeepsCallers
  <2> SUFFICES ASSUME boundaries # <<>>
               PROVE  /\ SubSeq(frames', 1, InvokeBoundary)
                            = SubSeq(frames, 1, InvokeBoundary)
                      /\ SubSeq(seh_stack', 1, High(InvokeBoundary))
                            = SubSeq(seh_stack, 1, High(InvokeBoundary))
    BY BoundaryFacts DEF KeepsCallers
  <2> DEFINE b == InvokeBoundary
  <2>1. b \in 1..Depth /\ b \in Nat /\ High(b) \in Nat
    BY BoundaryFacts, WatermarkFacts
  <2>2. \A g \in 1..b : frames'[g] = frames[g]
    <3>1. \A g \in 1..b : g \in 1..(f - 1) \/ (g = f /\ b = f)
      <4>1. b <= f
        OBVIOUS
      <4> HIDE DEF b
      <4> QED BY <1>2, <2>1, <4>1
    <3> QED BY <3>1
  <2>3. \A i \in 1..High(b) : seh_stack'[i] = seh_stack[i]
    <3>1. CASE b = f
      BY <3>1
    <3>2. CASE b # f
      <4>1. High(b) <= Low(f)
        BY <1>2, <2>1, <3>2, WatermarkFacts
      <4>2. \A i \in 1..High(b) : i \in 1..Low(f)
        BY <1>2, <2>1, <4>1
      <4> QED BY <4>2
    <3> QED BY <3>1, <3>2
  <2> HIDE DEF b
  <2>4. ASSUME NEW s, NEW t, NEW n \in Nat, \A i \in 1..n : s[i] = t[i]
        PROVE  SubSeq(s, 1, n) = SubSeq(t, 1, n)
    BY <2>4
  <2>5. SubSeq(frames', 1, b) = SubSeq(frames, 1, b)
    BY <2>1, <2>2, <2>4
  <2>6. SubSeq(seh_stack', 1, High(b)) = SubSeq(seh_stack, 1, High(b))
    BY <2>1, <2>3, <2>4
  <2> QED BY <2>5, <2>6 DEF b
<1> QED BY <1>7, <1>8, <1>9 DEF Disciplined

\* Frame f is as it was, those above it are gone.
LEMMA DisciplineBack ==
    ASSUME UnwindInv, NEW f \in 1..Depth, InvokeBoundary <= f, prog' = prog,
           frames' = SubSeq(frames, 1, f),
           seh_stack' = SubSeq(seh_stack, 1, High(f)), NothingDue(High(f))
    PROVE  Disciplined
<1> USE DEF UnwindInv
<1> DEFINE k == Len(PathOf(f))
<1>1. /\ High(f) = Low(f) + k /\ Low(f) \in Nat /\ k \in Nat /\ k \in 0..k
      /\ High(f) \in 0..Len(seh_stack) /\ f \in 0..Len(frames)
      /\ f \in Nat /\ PathOf(f) \in Seq(Region)
  <2>1. /\ High(f) = Low(f) + k /\ Low(f) \in Nat /\ k \in Nat
        /\ Depth \in Nat /\ PathOf(f) \in Seq(Region)
    BY FrameFacts, WatermarkFacts
  <2>2. High(f) <= Len(seh_stack) /\ Len(seh_stack) \in Nat
    BY WatermarkFacts
  <2> HIDE DEF k
  <2> QED BY <2>1, <2>2 DEF Depth
<1>2. /\ frames' \in Seq(Frame) /\ Len(frames') = f
      /\ \A g \in 1..f : frames'[g] = frames[g]
  BY <1>1, CutFacts DEF TypeOK
<1>3. \A i \in 1..High(f) : seh_stack'[i] = seh_stack[i]
  BY <1>1, CutFacts DEF TypeOK
<1>4. /\ \A g \in 1..(f - 1) : g \in 1..f
      /\ \A i \in 1..Low(f) : i \in 1..High(f)
      /\ f \in 1..f
  BY <1>1
<1>5. PathOf(f)' = PathOf(f)
  BY <1>2, <1>4 DEF PathOf
<1>6. /\ frames'[f] = frames[f] /\ ~(f < Len(frames')) /\ f <= Len(frames')
      /\ \A g \in 1..(f - 1) : frames'[g] = frames[g]
      /\ \A i \in 1..Low(f) : seh_stack'[i] = seh_stack[i]
  BY <1>1, <1>2, <1>3, <1>4
<1>7. /\ PathOf(f)' \in Seq(Region) /\ k <= Len(PathOf(f)')
      /\ \A i \in 1..k : PathOf(f)'[i] = PathOf(f)[i]
      /\ NothingDue(Low(f) + k)
  BY <1>1, <1>5
<1> HIDE DEF k
<1> QED BY <1>1, <1>2, <1>3, <1>6, <1>7, DisciplineFacts DEF k

\* Frame f moves to a place in its k-th region, or outside all its regions.
LEMMA DisciplineMove ==
    ASSUME UnwindInv, NEW f \in 1..Depth, InvokeBoundary < f, prog' = prog,
           NEW k \in 0..Len(PathOf(f)), NEW place \in Place,
           k = 0 => place = Outside,
           k > 0 => place[1] = PathOf(f)[k],
           place[2] = "catch" => PartOf(prog, frames[f].at, k) # "finally",
           frames' \in Seq(Frame), Len(frames') = f,
           \A g \in 1..(f - 1) : frames'[g] = frames[g],
           frames'[f].at = place,
           \A i \in 1..Low(f) : seh_stack'[i] = seh_stack[i],
           NothingDue(Low(f) + k)
    PROVE  Disciplined
<1> USE DEF UnwindInv
<1>1. f \in Nat /\ InvokeBoundary \in Nat /\ k \in Nat
  BY BoundaryFacts, FrameFacts DEF InvokeBoundary
<1>2. /\ PathOf(f)' \in Seq(Region) /\ Len(PathOf(f)') = k
      /\ \A i \in 1..k : PathOf(f)'[i] = PathOf(f)[i]
  <2>1. PathOf(f)' = Path(prog, place[1])
    BY DEF PathOf
  <2> QED BY <2>1, OuterPath
<1>3. ASSUME place[2] = "catch"
      PROVE  \E i \in 1..Len(PathOf(f)) :
                /\ PathOf(f)[i] = place[1]
                /\ PartOf(prog, frames[f].at, i) # "finally"
  <2>1. k # 0
    BY <1>3 DEF Outside
  <2>2. k \in 1..Len(PathOf(f))
    BY <1>1, <2>1
  <2> QED BY <1>1, <1>3, <2>1, <2>2
<1>4. /\ ~(f < Len(frames')) /\ f <= Len(frames') /\ k <= Len(PathOf(f)')
      /\ InvokeBoundary <= f /\ InvokeBoundary # f
  BY <1>1, <1>2
<1> QED BY <1>2, <1>3, <1>4, DisciplineFacts

\* The script is over.
LEMMA DisciplineAtEnd ==
    ASSUME UnwindInv, frames' = <<>>, boundaries = <<>>, NothingDue(0)
    PROVE  Disciplined
<1> USE DEF UnwindInv
<1>1. KeepsFinally
  <2> SUFFICES ASSUME NEW f \in 1..Depth, NEW i \in 1..Len(PathOf(f)),
                      prog[PathOf(f)[i]].finally,
                      PartOf(prog, frames[f].at, i) # "finally"
               PROVE  FALSE
    <3>1. \A f \in 1..Depth : DOMAIN PathOf(f) = 1..Len(PathOf(f))
      <4>1. \A f \in 1..Depth : PathOf(f) \in Seq(Region)
        BY FrameFacts
      <4> QED BY <4>1
    <3>2. DOMAIN frames = 1..Depth
      BY DEF TypeOK, Depth
    <3> QED BY <3>1, <3>2 DEF KeepsFinally
  <2>1. FinallyDue(seh_stack[Low(f) + i])
    BY DueFacts
  <2>2. Low(f) + i \in 1..Len(seh_stack)
    BY RecordFacts
  <2> QED BY <2>1, <2>2 DEF NothingDue
<1>2. EntersOwnCatch
  BY DEF EntersOwnCatch
<1> QED BY <1>1, <1>2 DEF Disciplined, KeepsCallers

\* An exception nobody takes reaches the builtin, or ends the run.
LEMMA EscapeKeeps ==
    ASSUME UnwindInv, prog' = prog, NEW v \in Value, Escape(v),
           NothingDue(IF boundaries = <<>> THEN 0 ELSE High(InvokeBoundary))
    PROVE  UnwindInv' /\ Disciplined
<1> USE DEF UnwindInv
<1>1. CASE boundaries = <<>>
  <2>1. /\ frames' = <<>> /\ seh_stack' = <<>> /\ boundaries' = <<>>
        /\ error' = NoValue /\ rv' = rv
    BY <1>1 DEF Escape
  <2>2. <<>> \in Seq(Frame) /\ <<>> \in Seq(SehRecord) /\ <<>> \in Seq(Boundary)
        /\ Len(<<>>) = 0
    OBVIOUS
  <2>3. TypeOK'
    <3>1. Len(frames') <= FrameLimit
      <4>1. Len(frames) \in Nat /\ Len(frames) <= FrameLimit
        BY DEF TypeOK
      <4>2. FrameLimit \in Nat
        BY UnwindingAssumption, FrameLimitPositive DEF TypeOK
      <4> QED BY <2>1, <2>2, <4>2
    <3>2. rv' \in Value \cup {NoValue}
      BY <2>1 DEF TypeOK
    <3> QED BY <2>1, <2>2, <3>1, <3>2, TypeKept
  <2>4. Depth' = 0 /\ \A i \in 1..0 : FALSE
    BY <2>1, <2>2 DEF Depth
  <2>5. FramesInv'
    BY <2>1, <2>4 DEF FramesInv
  <2>6. RecordsInv'
    BY <2>1, <2>2, <2>4 DEF RecordsInv
  <2>7. BoundariesInv'
    BY <2>1, <2>2, <2>4 DEF BoundariesInv
  <2>8. Disciplined
    BY <1>1, <2>1, DisciplineAtEnd
  <2> QED BY <2>3, <2>5, <2>6, <2>7, <2>8
<1>2. CASE boundaries # <<>>
  <2> DEFINE f == InvokeBoundary
             m == Len(boundaries) - 1
  <2>1. /\ frames' = SubSeq(frames, 1, Last(boundaries).frames)
        /\ seh_stack' = SubSeq(seh_stack, 1, Last(boundaries).saved_seh)
        /\ boundaries' = Front(boundaries)
        /\ error' = v /\ rv' = rv
    BY <1>2 DEF Escape
  <2>2. /\ f \in 1..Depth /\ m \in 0..Len(boundaries)
        /\ frames' = SubSeq(frames, 1, f)
        /\ seh_stack' = SubSeq(seh_stack, 1, High(f))
        /\ boundaries' = SubSeq(boundaries, 1, m)
        /\ m > 0 => boundaries[m].frames < f
    BY <1>2, <2>1, BoundaryFacts
  <2>3. InvokeBoundary' < f
    BY <1>2, <2>1, FrontBoundary
  <2> HIDE DEF f, m
  <2>4. /\ FramesInv' /\ RecordsInv'
        /\ frames' \in Seq(Frame) /\ Len(frames') = f
        /\ seh_stack' \in Seq(SehRecord)
    BY <2>2, LandingBack
  <2>5. \A g \in 1..f : frames'[g].seh_depth = Low(g)
    <3>1. f \in 0..Len(frames) /\ frames \in Seq(Frame)
      BY <2>2 DEF TypeOK, Depth
    <3>2. \A g \in 1..f : frames'[g] = frames[g]
      BY <2>2, <3>1, CutFacts
    <3> QED BY <3>2 DEF Low
  <2>6. BoundariesInv' /\ boundaries' \in Seq(Boundary)
    BY <2>2, <2>3, <2>4, <2>5, BoundariesKept
  <2>7. TypeOK'
    <3>1. /\ Len(frames') <= FrameLimit
          /\ rv' \in Value \cup {NoValue} /\ error' \in Value \cup {NoValue}
      <4>1. f <= Len(frames) /\ Len(frames) \in Nat /\ Len(frames) <= FrameLimit
        BY <2>2 DEF TypeOK, Depth
      <4>2. FrameLimit \in Nat
        BY FrameLimitPositive DEF TypeOK
      <4> QED BY <2>1, <2>2, <2>4, <4>1, <4>2 DEF TypeOK
    <3> QED BY <2>4, <2>6, <3>1, TypeKept
  <2>8. Disciplined
    <3>1. NothingDue(High(f)) /\ InvokeBoundary <= f
      BY <1>2, <2>2 DEF f
    <3> QED BY <2>2, <3>1, DisciplineBack
  <2> QED BY <2>4, <2>6, <2>7, <2>8
<1> QED BY <1>1, <1>2
\* The pc of frame f moves within its k-th region, whose record is changed
\* accordingly; what is above either is gone.
LEMMA InsideKeeps ==
    ASSUME UnwindInv, prog' = prog,
           NEW f \in 1..Depth, f > InvokeBoundary,
           NEW k \in 1..Len(PathOf(f)), NEW part \in Parts,
           NEW rec \in SehRecord, rec.saved_frame_depth = f,
           Fits(rec, PathOf(f)[k], part), Deferred(rec),
           frames' = Moved(f, <<PathOf(f)[k], part>>),
           seh_stack' \in Seq(SehRecord), Len(seh_stack') = Low(f) + k,
           seh_stack'[Low(f) + k] = rec,
           \A j \in 1..(Low(f) + k - 1) : seh_stack'[j] = seh_stack[j],
           rv' \in Value \cup {NoValue}, error' = NoValue,
           boundaries' = boundaries, NothingDue(Low(f) + k),
           part = "catch" => PartOf(prog, frames[f].at, k) # "finally"
    PROVE  UnwindInv' /\ Disciplined
<1> USE DEF UnwindInv
<1> DEFINE place == <<PathOf(f)[k], part>>
<1>2. /\ Low(f) \in Nat /\ k \in 0..Len(PathOf(f)) /\ k > 0 /\ Depth \in Nat
      /\ Len(PathOf(f)) \in Nat /\ PathOf(f)[k] \in Region
  <2>1. /\ Low(f) \in Nat /\ Len(PathOf(f)) \in Nat /\ Depth \in Nat
        /\ PathOf(f) \in Seq(Region)
    BY FrameFacts
  <2> QED BY <2>1
<1>4. place \in Place /\ place[1] = PathOf(f)[k] /\ place[2] = part
  BY <1>2 DEF Place, Region
<1>6. /\ frames' \in Seq(Frame) /\ Len(frames') = f
      /\ \A g \in 1..(f - 1) : frames'[g] = frames[g]
      /\ frames'[f].seh_depth = Low(f) /\ frames'[f].at = place
  <2>1. frames' = Moved(f, place) /\ TypeOK
    OBVIOUS
  <2> HIDE DEF place
  <2>2. f \in 1..Depth /\ place \in Place
    BY <1>2, <1>4
  <2>3. \A fs : fs = Moved(f, place) =>
           /\ fs \in Seq(Frame) /\ Len(fs) = f
           /\ \A g \in 1..(f - 1) : fs[g] = frames[g]
           /\ fs[f].seh_depth = Low(f) /\ fs[f].at = place
    BY <2>1, <2>2, MoveFacts
  <2> QED BY <2>1, <2>3
<1> HIDE DEF place
<1>8. /\ \A j \in 1..Low(f) : seh_stack'[j] = seh_stack[j]
      /\ \A j \in 1..(k - 1) : seh_stack'[Low(f) + j] = seh_stack[Low(f) + j]
      /\ seh_stack'[Low(f) + k] = rec
  <2>1. /\ \A j \in 1..Low(f) : j \in 1..(Low(f) + k - 1)
        /\ \A j \in 1..(k - 1) : Low(f) + j \in 1..(Low(f) + k - 1)
    BY <1>2
  <2> QED BY <2>1
<1>9. FramesInv' /\ RecordsInv'
  <2>1. /\ k = 0 => place = Outside
        /\ k > 0 => place[1] = PathOf(f)[k]
        /\ k > 0 => /\ seh_stack'[Low(f) + k].saved_frame_depth = f
                    /\ Fits(seh_stack'[Low(f) + k], PathOf(f)[k], place[2])
                    /\ Deferred(seh_stack'[Low(f) + k])
    <3>1. k > 0 /\ k # 0
      BY <1>2
    <3> QED BY <1>4, <1>8, <3>1, Zenon
  <2>2. /\ \A j \in 1..Low(f) : seh_stack'[j] = seh_stack[j]
        /\ \A j \in 1..(k - 1) : seh_stack'[Low(f) + j] = seh_stack[Low(f) + j]
        /\ seh_stack' \in Seq(SehRecord) /\ Len(seh_stack') = Low(f) + k
    BY <1>8
  <2>3. TypeOK /\ FramesInv /\ RecordsInv /\ place \in Place
        /\ f \in 1..Depth /\ k \in 0..Len(PathOf(f))
    BY <1>2, <1>4
  <2> QED BY <1>6, <2>1, <2>2, <2>3, Landing
<1>10. BoundariesInv' /\ boundaries' \in Seq(Boundary)
  <2>1. boundaries' = SubSeq(boundaries, 1, Len(boundaries))
        /\ Len(boundaries) \in 0..Len(boundaries)
    BY SubSeqFull DEF TypeOK
  <2>2. Len(boundaries) > 0 => boundaries[Len(boundaries)].frames < f
    <3>1. Len(boundaries) > 0 => /\ boundaries # <<>>
                                 /\ InvokeBoundary = boundaries[Len(boundaries)].frames
                                 /\ InvokeBoundary \in 1..Depth
      BY BoundaryFacts
    <3> QED BY <1>2, <3>1
  <2>3. \A g \in 1..f : frames'[g].seh_depth = Low(g)
    <3>1. \A g \in 1..f : g = f \/ g \in 1..(f - 1)
      BY <1>2
    <3> QED BY <1>6, <3>1 DEF Low
  <2> QED BY <1>2, <1>6, <2>1, <2>2, <2>3, BoundariesKept
<1>11. TypeOK'
  <2>1. Len(frames') <= FrameLimit
    <3>1. f <= Len(frames) /\ Len(frames) \in Nat /\ Len(frames) <= FrameLimit
      BY <1>2 DEF TypeOK, Depth
    <3>2. FrameLimit \in Nat
      BY FrameLimitPositive DEF TypeOK
    <3> QED BY <1>6, <3>1, <3>2
  <2> QED BY <1>6, <1>10, <2>1, TypeKept
<1>12. Disciplined
  <2>1. InvokeBoundary < f /\ k # 0
    BY <1>2
  <2> QED BY <1>2, <1>4, <1>6, <1>8, <2>1, DisciplineMove
<1> QED BY <1>9, <1>10, <1>11, <1>12

\* A stack cut down to its i-th record, which is changed.
Lowest(m) == SubSeq(seh_stack, 1, m)
Capped(recs, i, rec) == [SubSeq(recs, 1, i) EXCEPT ![i] = rec]

LEMMA CappedFacts ==
    ASSUME TypeOK, NEW m \in 0..Len(seh_stack), NEW i \in 1..m,
           NEW rec \in SehRecord
    PROVE  LET new == Capped(Lowest(m), i, rec) IN
           /\ new \in Seq(SehRecord) /\ Len(new) = i
           /\ new[i] = rec
           /\ \A j \in 1..(i - 1) : new[j] = seh_stack[j]
<1> DEFINE recs == Lowest(m)
           new == Capped(recs, i, rec)
           cut == SubSeq(recs, 1, i)
<1>1. seh_stack \in Seq(SehRecord) /\ Len(seh_stack) \in Nat /\ m \in Nat
  BY DEF TypeOK
<1>2. /\ recs \in Seq(SehRecord) /\ Len(recs) = m
      /\ \A j \in 1..m : recs[j] = seh_stack[j]
  BY <1>1, CutFacts DEF Lowest
<1> HIDE DEF recs
<1>3. /\ cut \in Seq(SehRecord) /\ Len(cut) = i
      /\ \A j \in 1..i : cut[j] = recs[j]
  <2>1. i \in 0..Len(recs)
    BY <1>1, <1>2
  <2> QED BY <1>2, <2>1, CutFacts
<1> HIDE DEF cut
<1>4. /\ [cut EXCEPT ![i] = rec] \in Seq(SehRecord)
      /\ Len([cut EXCEPT ![i] = rec]) = Len(cut)
      /\ \A j \in 1..Len(cut) :
            [cut EXCEPT ![i] = rec][j] = IF j = i THEN rec ELSE cut[j]
  <2>1. i \in 1..Len(cut)
    BY <1>1, <1>3
  <2> QED BY <1>3, <2>1, ExceptSeq
<1>5. new = [cut EXCEPT ![i] = rec]
  BY DEF cut, Capped
<1>6. i \in 1..i /\ \A j \in 1..(i - 1) : j \in 1..m /\ j \in 1..i /\ j # i
  BY <1>1
<1> HIDE DEF new
<1>7. /\ new \in Seq(SehRecord) /\ Len(new) = i
      /\ new[i] = rec
      /\ \A j \in 1..(i - 1) : new[j] = seh_stack[j]
  BY <1>2, <1>3, <1>4, <1>5, <1>6
<1> QED BY <1>7 DEF new, recs

\* The clause of record i takes exception v off the stack recs.
Taken(rec, to, v) ==
    IF to = "catch" THEN [rec EXCEPT !.catch_closed = TRUE]
    ELSE [rec EXCEPT !.in_finally = TRUE, !.pending_exception = v]

LEMMA TakenKeeps ==
    ASSUME UnwindInv, prog' = prog, NEW v \in Value,
           NEW m \in 0..Len(seh_stack), NEW recs, recs = Lowest(m),
           NEW i \in 1..m, NEW f, f = seh_stack[i].saved_frame_depth,
           f > InvokeBoundary,
           NEW to, to \in {"catch", "finally"},
           to = "catch" => HandlerOpen(seh_stack[i]),
           to = "finally" =>
              ~HandlerOpen(seh_stack[i]) /\ FinallyDue(seh_stack[i]),
           NEW rec, rec = Taken(seh_stack[i], to, v),
           seh_stack' = Capped(recs, i, rec),
           frames' = Moved(f, <<seh_stack[i].region, to>>),
           rv' \in Value \cup {NoValue}, error' = NoValue,
           boundaries' = boundaries, NothingDue(i)
    PROVE  UnwindInv' /\ Disciplined
<1> USE DEF UnwindInv
<1> DEFINE k == i - Low(f)
           r == seh_stack[i].region
<1>1. /\ i \in 1..Len(seh_stack) /\ i \in 0..Len(recs) /\ i \in 0..Len(seh_stack)
      /\ m \in 0..Len(seh_stack) /\ seh_stack \in Seq(SehRecord)
      /\ recs \in Seq(SehRecord) /\ Len(recs) = m
      /\ \A j \in 1..m : recs[j] = seh_stack[j]
  <2>1. seh_stack \in Seq(SehRecord) /\ Len(seh_stack) \in Nat
    BY DEF TypeOK
  <2>2. /\ recs \in Seq(SehRecord) /\ Len(recs) = m
        /\ \A j \in 1..m : recs[j] = seh_stack[j]
    BY <2>1, CutFacts DEF Lowest
  <2> QED BY <2>1, <2>2
<1>2. /\ f \in 1..Depth /\ k \in 1..Len(PathOf(f)) /\ i = Low(f) + k
      /\ Low(f) \in Nat /\ k \in 0..Len(PathOf(f)) /\ k > 0 /\ Depth \in Nat
      /\ Len(PathOf(f)) \in Nat
  <2>1. f \in 1..Depth /\ k \in 1..Len(PathOf(f)) /\ i = Low(f) + k
    BY <1>1, OwnerFacts
  <2>2. Low(f) \in Nat /\ Len(PathOf(f)) \in Nat /\ Depth \in Nat
    BY <2>1, FrameFacts
  <2> QED BY <2>1, <2>2
<1> HIDE DEF k
<1>3. /\ seh_stack[i] \in SehRecord /\ r = PathOf(f)[k] /\ r \in Region
      /\ Fits(seh_stack[i], r, PartOf(prog, frames[f].at, k))
      /\ Deferred(seh_stack[i])
  <2> HIDE DEF r
  <2>1. /\ seh_stack[i] \in SehRecord /\ seh_stack[i].region = PathOf(f)[k]
        /\ PathOf(f)[k] \in Region
        /\ Fits(seh_stack[i], PathOf(f)[k], PartOf(prog, frames[f].at, k))
        /\ Deferred(seh_stack[i])
    <3>1. /\ seh_stack[Low(f) + k] \in SehRecord
          /\ seh_stack[Low(f) + k].region = PathOf(f)[k]
          /\ PathOf(f)[k] \in Region
          /\ Fits(seh_stack[Low(f) + k], PathOf(f)[k],
                  PartOf(prog, frames[f].at, k))
          /\ Deferred(seh_stack[Low(f) + k])
      <4>1. f \in 1..Depth /\ k \in 1..Len(PathOf(f))
        BY <1>2
      <4>2. TypeOK /\ FramesInv /\ RecordsInv
        OBVIOUS
      <4> QED BY ONLY <4>1, <4>2, RecordFacts
    <3>2. Low(f) + k = i
      BY <1>2
    <3> QED BY <3>1, <3>2
  <2>2. r = PathOf(f)[k]
    BY <2>1 DEF r
  <2> QED BY <2>1, <2>2
<1> DEFINE place == <<r, to>>
<1>4. place \in Place /\ place[1] = PathOf(f)[k] /\ place[2] = to
  BY <1>3 DEF Place, Parts, Region
<1>5. /\ rec \in SehRecord /\ rec.saved_frame_depth = f
      /\ Fits(rec, PathOf(f)[k], place[2])
      /\ Deferred(rec)
  <2>0. /\ prog[r].catch \in BOOLEAN /\ prog[r].finally \in BOOLEAN
        /\ seh_stack[i].in_finally \in BOOLEAN /\ seh_stack[i].catch_closed \in BOOLEAN
        /\ v # NoValue
    BY <1>3, ProgramFacts, UnwindingAssumption DEF TypeOK, SehRecord
  <2>1. CASE to = "catch"
    <3>1. rec = [seh_stack[i] EXCEPT !.catch_closed = TRUE]
      BY <2>1 DEF Taken
    <3>2. prog[r].catch /\ ~seh_stack[i].catch_closed
      BY <2>1 DEF HandlerOpen
    <3>3. PartOf(prog, frames[f].at, k) = "try"
      BY <1>3, <2>0, <3>2 DEF Fits
    <3>4. ~seh_stack[i].in_finally
      BY <1>3, <3>3 DEF Fits
    <3>5. /\ rec \in SehRecord /\ rec.region = r /\ rec.catch_closed = TRUE
          /\ rec.in_finally = seh_stack[i].in_finally
          /\ rec.saved_frame_depth = f
          /\ rec.pending_exception = seh_stack[i].pending_exception
          /\ rec.delayed_jump_target = seh_stack[i].delayed_jump_target
          /\ rec.delayed_return = seh_stack[i].delayed_return
          /\ rec.delayed_return_value = seh_stack[i].delayed_return_value
      BY <1>3, <3>1 DEF SehRecord
    <3>6. Fits(rec, r, "catch")
      BY <2>0, <3>4, <3>5 DEF Fits
    <3>7. Deferred(rec)
      BY <1>3, <3>5 DEF Deferred
    <3> QED BY <1>3, <1>4, <2>1, <3>5, <3>6, <3>7
  <2>2. CASE to = "finally"
    <3>1. rec = [seh_stack[i] EXCEPT !.in_finally = TRUE,
                                     !.pending_exception = v]
      BY <2>2 DEF Taken
    <3>2. ~seh_stack[i].in_finally /\ (prog[r].catch => seh_stack[i].catch_closed)
      BY <2>2 DEF HandlerOpen, FinallyDue
    <3>3. /\ rec \in SehRecord /\ rec.region = r
          /\ rec.catch_closed = seh_stack[i].catch_closed
          /\ rec.in_finally = TRUE
          /\ rec.saved_frame_depth = f
          /\ rec.pending_exception = v
          /\ rec.delayed_jump_target = seh_stack[i].delayed_jump_target
          /\ rec.delayed_return = seh_stack[i].delayed_return
          /\ rec.delayed_return_value = seh_stack[i].delayed_return_value
      BY <1>3, <3>1 DEF SehRecord
    <3>4. Fits(rec, r, "finally")
      BY <2>0, <3>2, <3>3 DEF Fits
    <3>5. Deferred(rec)
      BY <1>3, <2>0, <3>2, <3>3 DEF Deferred
    <3> QED BY <1>3, <1>4, <2>2, <3>3, <3>4, <3>5
  <2> QED BY <2>1, <2>2
<1>6. /\ seh_stack' \in Seq(SehRecord) /\ Len(seh_stack') = i
      /\ seh_stack'[i] = rec
      /\ \A j \in 1..(i - 1) : seh_stack'[j] = seh_stack[j]
  <2>1. TypeOK /\ rec \in SehRecord
    BY <1>5
  <2>2. LET new == Capped(Lowest(m), i, rec) IN
        /\ new \in Seq(SehRecord) /\ Len(new) = i /\ new[i] = rec
        /\ \A j \in 1..(i - 1) : new[j] = seh_stack[j]
    BY <2>1, CappedFacts
  <2> QED BY <2>2
<1>7. frames' = Moved(f, <<PathOf(f)[k], to>>) /\ Fits(rec, PathOf(f)[k], to)
  BY <1>3, <1>4, <1>5
<1>8. to \in Parts
  BY DEF Parts
<1>11. to = "catch" => PartOf(prog, frames[f].at, k) # "finally"
  <2>1. HandlerOpen(seh_stack[i]) =>
           prog[r].catch /\ ~seh_stack[i].catch_closed
    BY DEF HandlerOpen
  <2> QED BY <1>3, <2>1 DEF Fits
<1> HIDE DEF place, r
<1>9. /\ seh_stack' \in Seq(SehRecord) /\ Len(seh_stack') = Low(f) + k
      /\ seh_stack'[Low(f) + k] = rec
      /\ \A j \in 1..(Low(f) + k - 1) : seh_stack'[j] = seh_stack[j]
  <2>1. Low(f) + k = i /\ Low(f) + k - 1 = i - 1
    BY <1>2
  <2> QED BY <1>6, <2>1
<1>10. /\ f \in 1..Depth /\ f > InvokeBoundary /\ k \in 1..Len(PathOf(f))
       /\ rec \in SehRecord /\ rec.saved_frame_depth = f /\ Deferred(rec)
  BY <1>2, <1>5
<1>12. NothingDue(Low(f) + k)
  BY <1>2
<1> QED BY <1>7, <1>8, <1>9, <1>10, <1>11, <1>12, InsideKeeps

\* Where the records that handle_throw may reach begin.
Reserved == IF boundaries = <<>> THEN 0 ELSE High(InvokeBoundary)

LEMMA ReachFacts ==
    ASSUME UnwindInv, NEW i \in 1..Len(seh_stack), Reserved < i
    PROVE  seh_stack[i].saved_frame_depth > InvokeBoundary
<1> USE DEF UnwindInv
<1> DEFINE f == seh_stack[i].saved_frame_depth
<1>1. f \in 1..Depth /\ Low(f) < i /\ i <= High(f)
  BY DEF RecordsInv
<1> HIDE DEF f
<1>2. f \in Nat /\ f > 0 /\ High(f) \in Nat /\ i \in Nat
  BY <1>1, WatermarkFacts
<1>3. CASE boundaries = <<>>
  BY <1>2, <1>3 DEF InvokeBoundary, f
<1>4. CASE boundaries # <<>>
  <2>1. InvokeBoundary \in 1..Depth /\ Reserved = High(InvokeBoundary)
    BY <1>4, BoundaryFacts DEF Reserved
  <2>2. /\ Low(InvokeBoundary) <= High(InvokeBoundary)
        /\ High(InvokeBoundary) \in Nat /\ Low(InvokeBoundary) \in Nat
    <3>1. Len(PathOf(InvokeBoundary)) \in Nat
      BY <2>1, FrameFacts
    <3> QED BY <2>1, <3>1, WatermarkFacts
  <2>3. f < InvokeBoundary => High(f) <= Low(InvokeBoundary)
    BY <1>1, <2>1, WatermarkFacts
  <2>4. f = InvokeBoundary => High(f) = High(InvokeBoundary)
    OBVIOUS
  <2>5. InvokeBoundary \in Nat
    BY <2>1
  <2>6. f > InvokeBoundary
    BY <1>1, <1>2, <2>1, <2>2, <2>3, <2>4, <2>5
  <2> QED BY <2>6 DEF f
<1> QED BY <1>3, <1>4

\* handle_throw, on the whole stack or on what ResumeExc leaves of it.
LEMMA ThrowKeeps ==
    ASSUME UnwindInv, prog' = prog, NEW v \in Value,
           NEW m \in 0..Len(seh_stack), NEW recs, recs = Lowest(m),
           HandleThrow(v, recs), NothingDue(m)
    PROVE  UnwindInv' /\ Disciplined
<1> DEFINE takes(i) == HandlerOpen(recs[i]) \/ FinallyDue(recs[i])
           reach == {i \in DOMAIN recs :
                       \A j \in i..Len(recs) :
                           recs[j].saved_frame_depth > InvokeBoundary}
           able == {i \in reach : takes(i)}
           i == Max(able)
           rec == recs[i]
           to == IF HandlerOpen(rec) THEN "catch" ELSE "finally"
           new == Taken(rec, to, v)
<1>3. /\ seh_stack \in Seq(SehRecord) /\ recs \in Seq(SehRecord) /\ Len(recs) = m
      /\ DOMAIN recs = 1..m /\ m \in Nat
      /\ \A j \in 1..m : recs[j] = seh_stack[j]
  <2>1. seh_stack \in Seq(SehRecord) /\ Len(seh_stack) \in Nat
    BY DEF UnwindInv, TypeOK
  <2>2. recs \in Seq(SehRecord) /\ Len(recs) = m
        /\ \A j \in 1..m : recs[j] = seh_stack[j]
    BY <2>1, CutFacts DEF Lowest
  <2> QED BY <2>1, <2>2
<1>1. CASE able = {}
  <2>1. Escape(v)
    BY <1>1 DEF HandleThrow
  <2>2. NothingDue(Reserved)
    <3> SUFFICES ASSUME NEW j \in (Reserved + 1)..Len(seh_stack),
                        FinallyDue(seh_stack[j])
                 PROVE  FALSE
      BY DEF NothingDue
    <3>1. Len(seh_stack) \in Nat /\ Reserved \in Nat
      <4>1. boundaries # <<>> => InvokeBoundary \in 1..Depth
        BY BoundaryFacts DEF UnwindInv
      <4> QED BY <4>1, WatermarkFacts, <1>3 DEF Reserved, UnwindInv
    <3>2. j \in 1..m
      <4>1. j \notin (m + 1)..Len(seh_stack)
        BY DEF NothingDue
      <4> QED BY <1>3, <3>1, <4>1
    <3>3. \A l \in j..m : recs[l].saved_frame_depth > InvokeBoundary
      <4> TAKE l \in j..m
      <4>1. l \in 1..Len(seh_stack) /\ Reserved < l /\ l \in 1..m
        BY <1>3, <3>1, <3>2
      <4> QED BY <1>3, <4>1, ReachFacts
    <3>4. FinallyDue(recs[j])
      BY <1>3, <3>2
    <3>5. j \in able
      BY <1>3, <3>2, <3>3, <3>4
    <3> QED BY <1>1, <3>5
  <2> QED BY <2>1, <2>2, EscapeKeeps DEF Reserved
<1>2. CASE able # {}
  <2>1. /\ seh_stack' = [SubSeq(recs, 1, i) EXCEPT ![i] =
                     IF to = "catch"
                     THEN [@ EXCEPT !.catch_closed = TRUE]
                     ELSE [@ EXCEPT !.in_finally = TRUE,
                                    !.pending_exception = v]]
        /\ frames' = Moved(rec.saved_frame_depth, <<rec.region, to>>)
        /\ rv' = (IF to = "catch" THEN v ELSE rv)
        /\ error' = NoValue /\ boundaries' = boundaries
    BY <1>2, Zenon DEF HandleThrow, Moved
  <2>2. /\ seh_stack \in Seq(SehRecord) /\ recs \in Seq(SehRecord) /\ Len(recs) = m
        /\ DOMAIN recs = 1..m /\ m \in Nat
        /\ \A j \in 1..m : recs[j] = seh_stack[j]
    BY <1>3
  <2>3. i \in able /\ i \in 1..m
    <3>1. able \in SUBSET (1..m) /\ able # {}
      BY <1>2, <2>2
    <3> HIDE DEF able
    <3> QED BY <2>2, <3>1, MaxFacts
  <2>4. takes(i) /\ recs[i].saved_frame_depth > InvokeBoundary
    <3>1. i \in i..Len(recs) /\ i \in reach /\ takes(i)
      <4> HIDE DEF reach, i, takes
      <4> QED BY <2>2, <2>3
    <3> HIDE DEF i, takes
    <3> QED BY <3>1
  <2>11. NothingDue(i)
    <3> SUFFICES ASSUME NEW j \in (i + 1)..Len(seh_stack),
                        FinallyDue(seh_stack[j])
                 PROVE  FALSE
      <4> HIDE DEF i
      <4> QED BY DEF NothingDue
    <3>1. i \in reach /\ i \in Nat /\ Len(seh_stack) \in Nat
          /\ \A q \in able : q <= i
      <4>1. able \in SUBSET (1..m) /\ able # {}
        BY <1>2, <2>2
      <4>2. i \in able
        BY <2>3
      <4>3. i \in reach
        <5> HIDE DEF reach, i, takes
        <5> QED BY <4>2
      <4> HIDE DEF able, reach
      <4>4. \A q \in able : q <= i
        BY <2>2, <4>1, MaxFacts
      <4> HIDE DEF i
      <4> QED BY <2>2, <2>3, <4>3, <4>4
    <3> HIDE DEF i
    <3>2. j \in 1..m
      <4>1. j \notin (m + 1)..Len(seh_stack)
        BY DEF NothingDue
      <4> QED BY <2>2, <3>1, <4>1
    <3>3. \A l \in j..m : l \in i..Len(recs)
      BY <2>2, <3>1
    <3>4. FinallyDue(recs[j])
      BY <2>2, <3>2
    <3>5. j \in able
      BY <2>2, <3>1, <3>2, <3>3, <3>4
    <3>6. ~(j <= i)
      BY <3>1
    <3> HIDE DEF able, reach
    <3> QED BY <3>1, <3>5, <3>6
  <2>5. rec = seh_stack[i]
    <3> HIDE DEF i
    <3> QED BY <2>2, <2>3
  <2> HIDE DEF i
  <2>6. /\ to = "catch" => HandlerOpen(rec)
        /\ to = "finally" => ~HandlerOpen(rec) /\ FinallyDue(rec)
        /\ to \in {"catch", "finally"}
    BY <2>4
  <2>7. seh_stack' = Capped(recs, i, new)
    <3>1. SubSeq(recs, 1, i)[i] = rec /\ i \in DOMAIN SubSeq(recs, 1, i)
      <4>1. i \in 0..Len(recs) /\ i \in 1..i
        BY <2>2, <2>3
      <4>2. Len(SubSeq(recs, 1, i)) = i /\ SubSeq(recs, 1, i) \in Seq(SehRecord)
            /\ SubSeq(recs, 1, i)[i] = recs[i]
        BY <2>2, <4>1, CutFacts
      <4> QED BY <4>1, <4>2
    <3> HIDE DEF to, rec
    <3> QED BY <2>1, <3>1 DEF Capped, Taken
  <2>8. rv' \in Value \cup {NoValue}
    BY <2>1 DEF UnwindInv, TypeOK
  <2> HIDE DEF to, new, takes, able, reach
  <2>9. new = Taken(seh_stack[i], to, v)
    BY <2>5 DEF new
  <2> DEFINE f == seh_stack[i].saved_frame_depth
  <2>10. /\ i \in 1..m /\ f > InvokeBoundary /\ to \in {"catch", "finally"}
         /\ to = "catch" => HandlerOpen(seh_stack[i])
         /\ to = "finally" =>
               ~HandlerOpen(seh_stack[i]) /\ FinallyDue(seh_stack[i])
         /\ frames' = Moved(f, <<seh_stack[i].region, to>>)
         /\ error' = NoValue /\ boundaries' = boundaries
    BY <2>1, <2>3, <2>4, <2>5, <2>6
  <2> HIDE DEF rec, f
  <2> QED BY <2>7, <2>8, <2>9, <2>10, <2>11, TakenKeeps DEF f
<1> QED BY <1>1, <1>2
-----------------------------------------------------------------------------
(* Returns.                                                                *)

\* A return waits for the finally of a record.
Returning(rec, v) ==
    [rec EXCEPT !.in_finally = TRUE, !.catch_closed = TRUE,
                !.delayed_return = TRUE, !.delayed_return_value = v]

LEMMA ReturningFacts ==
    ASSUME TypeOK, NEW rec \in SehRecord, NEW r \in Region, NEW part \in Parts,
           Fits(rec, r, part), Deferred(rec), FinallyDue(rec), CleanAround(r),
           NEW v \in Value
    PROVE  /\ Returning(rec, v) \in SehRecord
           /\ Returning(rec, v).saved_frame_depth = rec.saved_frame_depth
           /\ Fits(Returning(rec, v), r, "finally")
           /\ Deferred(Returning(rec, v))
<1> DEFINE new == Returning(rec, v)
<1>1. /\ new \in SehRecord /\ new.region = rec.region
      /\ new.saved_frame_depth = rec.saved_frame_depth
      /\ new.in_finally = TRUE /\ new.catch_closed = TRUE
      /\ new.pending_exception = rec.pending_exception
      /\ new.delayed_jump_target = rec.delayed_jump_target
      /\ new.delayed_return = TRUE /\ new.delayed_return_value = v
  BY DEF SehRecord, Returning
<1> HIDE DEF new
<1>2. /\ ~rec.in_finally /\ rec.region = r
      /\ rec.pending_exception = NoValue /\ rec.delayed_jump_target = <<>>
  BY DEF FinallyDue, Deferred, Fits
<1>3. Fits(new, r, "finally")
  BY <1>1, <1>2 DEF Fits
<1>4. Deferred(new)
  BY <1>1, <1>2 DEF Deferred
<1> QED BY <1>1, <1>3, <1>4 DEF new

\* The frame that runs gives way to its caller.
LEMMA PopKeeps ==
    ASSUME UnwindInv, prog' = prog, Depth > InvokeBoundary, Depth > 1,
           frames' = Front(frames),
           seh_stack' = SubSeq(seh_stack, 1, Low(Depth)),
           rv' \in Value \cup {NoValue}, error' = NoValue,
           boundaries' = boundaries, NothingDue(Low(Depth))
    PROVE  UnwindInv' /\ Disciplined
<1> USE DEF UnwindInv
<1> DEFINE f == Depth - 1
<1>1. Depth \in Nat /\ Depth = Len(frames) /\ frames \in Seq(Frame)
  BY DEF TypeOK, Depth
<1>2. f \in 1..Depth /\ f < Depth /\ f + 1 = Depth /\ f \in 0..Len(frames)
  BY <1>1
<1>3. frames' = SubSeq(frames, 1, f)
  BY <1>1 DEF Front
<1>4. High(f) = Low(Depth) /\ Low(Depth) \in Nat /\ Low(Depth) \in 0..Len(seh_stack)
  <2>1. High(f) = Low(Depth) /\ High(f) \in Nat /\ High(f) <= Len(seh_stack)
        /\ Len(seh_stack) \in Nat
    BY <1>2, WatermarkFacts
  <2> QED BY <2>1
<1> HIDE DEF f
<1>5. /\ FramesInv' /\ RecordsInv'
      /\ frames' \in Seq(Frame) /\ Len(frames') = f
      /\ seh_stack' \in Seq(SehRecord)
  BY <1>2, <1>3, <1>4, LandingBack
<1>6. \A g \in 1..f : frames'[g].seh_depth = Low(g)
  BY <1>1, <1>2, <1>3, CutFacts DEF Low
<1>7. Len(seh_stack') = High(f)
  BY <1>4, CutFacts DEF TypeOK
<1>8. BoundariesInv' /\ boundaries' \in Seq(Boundary)
  <2>1. boundaries' = SubSeq(boundaries, 1, Len(boundaries))
        /\ Len(boundaries) \in 0..Len(boundaries)
    BY SubSeqFull DEF TypeOK
  <2>2. Len(boundaries) > 0 => \/ boundaries[Len(boundaries)].frames < f
                               \/ /\ boundaries[Len(boundaries)].frames = f
                                  /\ Len(seh_stack') = High(f)
    <3>1. Len(boundaries) > 0 =>
             /\ boundaries # <<>>
             /\ InvokeBoundary = boundaries[Len(boundaries)].frames
             /\ InvokeBoundary \in 1..Depth
      BY BoundaryFacts
    <3>2. Len(boundaries) > 0 => InvokeBoundary < f \/ InvokeBoundary = f
      BY <1>1, <1>2, <3>1
    <3> QED BY <1>7, <3>1, <3>2
  <2> QED BY <1>2, <1>5, <1>6, <2>1, <2>2, BoundariesKept
<1>9. TypeOK'
  <2>1. Len(frames') <= FrameLimit
    <3>1. f <= Len(frames) /\ Len(frames) \in Nat /\ Len(frames) <= FrameLimit
      BY <1>2 DEF TypeOK, Depth
    <3>2. FrameLimit \in Nat /\ f \in Nat
      BY <1>2, FrameLimitPositive DEF TypeOK
    <3> QED BY <1>5, <3>1, <3>2
  <2> QED BY <1>5, <1>8, <2>1, TypeKept
<1>10. Disciplined
  <2>1. InvokeBoundary \in Nat
    BY BoundaryFacts DEF InvokeBoundary
  <2>2. InvokeBoundary <= f /\ NothingDue(High(f))
    BY <1>1, <1>2, <1>4, <2>1
  <2> QED BY <1>2, <1>3, <1>4, <2>2, DisciplineBack
<1> QED BY <1>5, <1>8, <1>9, <1>10

\* A return from inside the j outermost regions of the frame that runs: when
\* one of them puts it off, the innermost does.
LEMMA RetKeeps ==
    ASSUME UnwindInv, prog' = prog, error = NoValue,
           Depth > InvokeBoundary, Depth > 1, NEW v \in Value,
           NEW j \in 0..Len(PathOf(Depth)),
           \A i \in 1..j : FinallyDue(seh_stack[Low(Depth) + i]) =>
                              /\ FinallyDue(seh_stack[Low(Depth) + j])
                              /\ CleanAround(PathOf(Depth)[j]),
           Ret(v, Lowest(Low(Depth) + j)),
           boundaries' = boundaries, error' = error, NothingDue(Low(Depth) + j)
    PROVE  UnwindInv' /\ Disciplined
<1> USE DEF UnwindInv
<1> DEFINE low == Low(Depth)
           m == low + j
           recs == Lowest(m)
           due == {i \in (low + 1)..Len(recs) : FinallyDue(recs[i])}
<1>1. /\ Depth \in 1..Depth /\ low \in Nat /\ Len(PathOf(Depth)) \in Nat
      /\ m \in 0..Len(seh_stack) /\ m \in Nat
  <2>1. Depth \in 1..Depth
    BY DEF TypeOK, Depth
  <2>2. /\ low \in Nat /\ Len(seh_stack) = low + Len(PathOf(Depth))
        /\ Len(PathOf(Depth)) \in Nat
    BY <2>1, WatermarkFacts, FrameFacts
  <2> QED BY <2>1, <2>2
<1>2. /\ recs \in Seq(SehRecord) /\ Len(recs) = m
      /\ \A i \in 1..m : recs[i] = seh_stack[i]
  BY <1>1, CutFacts DEF TypeOK, Lowest
<1>3. /\ rv' = v
      /\ due # {} =>
            /\ seh_stack' = [recs EXCEPT ![Max(due)].in_finally = TRUE,
                                         ![Max(due)].catch_closed = TRUE,
                                         ![Max(due)].delayed_return = TRUE,
                                         ![Max(due)].delayed_return_value = v]
            /\ frames' = Goto(<<recs[Max(due)].region, "finally">>)
      /\ due = {} => /\ seh_stack' = SubSeq(recs, 1, low)
                     /\ frames' = Front(frames)
  BY DEF Ret, Low
<1> HIDE DEF recs
<1>4. CASE due = {}
  <2>1. seh_stack' = SubSeq(seh_stack, 1, low)
    <3>1. low \in 0..Len(recs) /\ low \in 0..Len(seh_stack)
      BY <1>1, <1>2
    <3>2. /\ SubSeq(recs, 1, low) \in Seq(SehRecord)
          /\ Len(SubSeq(recs, 1, low)) = low
          /\ \A i \in 1..low : SubSeq(recs, 1, low)[i] = recs[i]
      BY <1>2, <3>1, CutFacts
    <3>3. /\ SubSeq(seh_stack, 1, low) \in Seq(SehRecord)
          /\ Len(SubSeq(seh_stack, 1, low)) = low
          /\ \A i \in 1..low : SubSeq(seh_stack, 1, low)[i] = seh_stack[i]
      BY <3>1, CutFacts DEF TypeOK
    <3>4. \A i \in 1..low : i \in 1..m
      BY <1>1
    <3>5. SubSeq(recs, 1, low) = SubSeq(seh_stack, 1, low)
      BY <1>2, <3>2, <3>3, <3>4, SeqEqual
    <3> QED BY <1>3, <1>4, <3>5
  <2>2. frames' = Front(frames) /\ rv' \in Value \cup {NoValue}
    BY <1>3, <1>4
  <2>3. NothingDue(low)
    <3> SUFFICES ASSUME NEW i \in (low + 1)..Len(seh_stack),
                        FinallyDue(seh_stack[i])
                 PROVE  FALSE
      BY DEF NothingDue
    <3>1. CASE i \in (low + 1)..m
      <4>1. i \in 1..m
        BY <1>1, <3>1
      <4> QED BY <1>2, <1>4, <3>1, <4>1
    <3>2. CASE i \in (m + 1)..Len(seh_stack)
      BY <3>2 DEF NothingDue
    <3> QED BY <1>1, <3>1, <3>2
  <2> QED BY <2>1, <2>2, <2>3, PopKeeps
<1>5. CASE due # {}
  <2>1. j > 0 /\ FinallyDue(seh_stack[m]) /\ CleanAround(PathOf(Depth)[j])
    <3>1. PICK i \in due : TRUE
      BY <1>5
    <3>2. i \in (low + 1)..m /\ FinallyDue(recs[i])
      BY <1>2, <3>1
    <3>3. i - low \in 1..j /\ i \in 1..m /\ i = low + (i - low)
      BY <1>1, <3>2
    <3>4. FinallyDue(seh_stack[low + (i - low)])
      BY <1>2, <3>2, <3>3
    <3> QED BY <3>3, <3>4
  <2>2. Max(due) = m
    <3>1. m \in due
      <4>1. m \in (low + 1)..m /\ m \in 1..m
        BY <1>1, <2>1
      <4> QED BY <1>2, <2>1, <4>1
    <3>2. due \in SUBSET (1..m)
      BY <1>1, <1>2
    <3> HIDE DEF due, m
    <3>3. /\ Max(due) \in 1..m /\ \A y \in due : y <= Max(due)
      BY <1>1, <1>5, <3>2, MaxFacts
    <3> QED BY <1>1, <3>1, <3>3
  <2> DEFINE rec == seh_stack[m]
             new == Returning(rec, v)
             r == PathOf(Depth)[j]
  <2>3. /\ j \in 1..Len(PathOf(Depth)) /\ r \in Region
        /\ rec \in SehRecord /\ rec.saved_frame_depth = Depth
        /\ rec.region = r /\ Deferred(rec)
        /\ Fits(rec, r, PartOf(prog, frames[Depth].at, j))
        /\ m \in 1..m
    <3>1. j \in 1..Len(PathOf(Depth)) /\ m \in 1..m
      BY <1>1, <2>1
    <3> QED BY <1>1, <3>1, RecordFacts
  <2>4. PartOf(prog, frames[Depth].at, j) \in Parts
    <3>1. frames[Depth].at[2] \in Parts
      BY <1>1, FrameFacts
    <3>2. j # Len(PathOf(Depth)) => PathOf(Depth)[j + 1] \in Region
      <4>1. PathOf(Depth) \in Seq(Region)
        BY <1>1, FrameFacts
      <4>2. j # Len(PathOf(Depth)) => j + 1 \in 1..Len(PathOf(Depth))
        BY <1>1
      <4> QED BY <4>1, <4>2
    <3> QED BY <3>1, <3>2, ProgramFacts DEF PartOf, PathOf, TypeOK
  <2>5. /\ new \in SehRecord /\ new.saved_frame_depth = Depth
        /\ Fits(new, r, "finally") /\ Deferred(new)
    BY <2>1, <2>3, <2>4, ReturningFacts
  <2>6. /\ seh_stack' = [recs EXCEPT ![m] = new]
        /\ frames' = Goto(<<r, "finally">>)
    BY <1>2, <1>3, <1>5, <2>2, <2>3 DEF Returning
  <2> HIDE DEF new, due
  <2>7. /\ [recs EXCEPT ![m] = new] \in Seq(SehRecord)
        /\ Len([recs EXCEPT ![m] = new]) = m
        /\ \A i \in 1..m : [recs EXCEPT ![m] = new][i]
                              = IF i = m THEN new ELSE recs[i]
    BY <1>2, <2>3, <2>5, ExceptSeq
  <2>8. /\ seh_stack' \in Seq(SehRecord) /\ Len(seh_stack') = m
        /\ seh_stack'[m] = new
        /\ \A i \in 1..(m - 1) : seh_stack'[i] = seh_stack[i]
    <3>1. \A i \in 1..(m - 1) : i \in 1..m /\ i # m
      BY <1>1
    <3> QED BY <1>2, <2>3, <2>6, <2>7, <3>1
  <2>9. frames' = Moved(Depth, <<r, "finally">>)
    <3>1. <<r, "finally">> \in Place
      BY <2>3 DEF Place, Parts, Region
    <3> QED BY <1>1, <2>6, <3>1, MoveFacts
  <2> HIDE DEF r, rec
  <2>10. "finally" \in Parts /\ rv' \in Value \cup {NoValue} /\ error' = NoValue
    BY <1>3 DEF Parts
  <2>11. NothingDue(Low(Depth) + j) /\ "finally" # "catch"
    OBVIOUS
  <2> QED BY <1>1, <2>3, <2>5, <2>8, <2>9, <2>10, <2>11, InsideKeeps DEF r
<1> QED BY <1>4, <1>5
-----------------------------------------------------------------------------
(* The steps.                                                              *)

\* The frame that runs goes on around its (k + 1)-th region.
LEMMA AroundKeeps ==
    ASSUME UnwindInv, prog' = prog, Depth > InvokeBoundary, Depth > 0,
           NEW k \in 0..(Len(PathOf(Depth)) - 1),
           frames' = Goto(Around(prog, PathOf(Depth)[k + 1])),
           seh_stack' = SubSeq(seh_stack, 1, Low(Depth) + k),
           rv' \in Value \cup {NoValue}, error' = NoValue,
           boundaries' = boundaries, NothingDue(Low(Depth) + k)
    PROVE  UnwindInv' /\ Disciplined
<1> USE DEF UnwindInv
<1>1. Depth \in 1..Depth /\ Depth \in Nat
  BY DEF TypeOK, Depth
<1>2. /\ FramesInv' /\ RecordsInv'
      /\ frames' \in Seq(Frame) /\ Len(frames') = Depth
      /\ frames'[Depth].seh_depth = Low(Depth)
      /\ \A g \in 1..(Depth - 1) : frames'[g] = frames[g]
      /\ seh_stack' \in Seq(SehRecord)
      /\ frames'[Depth].at \in Place
      /\ k = 0 => frames'[Depth].at = Outside
      /\ k > 0 => /\ frames'[Depth].at[1] = PathOf(Depth)[k]
                  /\ frames'[Depth].at[2] = PartOf(prog, frames[Depth].at, k)
      /\ \A i \in 1..Low(Depth) : seh_stack'[i] = seh_stack[i]
  BY <1>1, LandingAround
<1>3. \A g \in 1..Depth : frames'[g].seh_depth = Low(g)
  <2>1. \A g \in 1..Depth : g = Depth \/ g \in 1..(Depth - 1)
    BY <1>1
  <2> QED BY <1>2, <2>1 DEF Low
<1>4. BoundariesInv' /\ boundaries' \in Seq(Boundary)
  <2>1. boundaries' = SubSeq(boundaries, 1, Len(boundaries))
        /\ Len(boundaries) \in 0..Len(boundaries)
    BY SubSeqFull DEF TypeOK
  <2>2. Len(boundaries) > 0 => boundaries[Len(boundaries)].frames < Depth
    <3>1. Len(boundaries) > 0 =>
             /\ boundaries # <<>>
             /\ InvokeBoundary = boundaries[Len(boundaries)].frames
             /\ InvokeBoundary \in 1..Depth
      BY BoundaryFacts
    <3> QED BY <1>1, <3>1
  <2> QED BY <1>1, <1>2, <1>3, <2>1, <2>2, BoundariesKept
<1>5. TypeOK'
  <2>1. Len(frames') <= FrameLimit
    BY <1>2 DEF TypeOK, Depth
  <2> QED BY <1>2, <1>4, <2>1, TypeKept
<1>6. Disciplined
  <2> DEFINE place == frames'[Depth].at
  <2>1. k \in Nat /\ k \in 0..Len(PathOf(Depth))
    <3>1. Len(PathOf(Depth)) \in Nat
      BY <1>1, FrameFacts
    <3> QED BY <3>1
  <2>2. place[2] = "catch" => PartOf(prog, frames[Depth].at, k) # "finally"
    BY <1>2, <2>1 DEF Outside
  <2>3. place \in Place /\ place = frames'[Depth].at
    BY <1>2
  <2>4. /\ k = 0 => place = Outside
        /\ k > 0 => place[1] = PathOf(Depth)[k]
    BY <1>2
  <2> HIDE DEF place
  <2> QED BY <1>1, <1>2, <2>1, <2>2, <2>3, <2>4, DisciplineMove
<1> QED BY <1>2, <1>4, <1>5, <1>6

\* A return that is clean inside a region is clean around it.
LEMMA CleanFacts ==
    ASSUME UnwindInv, Depth \in 1..Depth, NEW k \in 1..Len(PathOf(Depth)),
           \A i \in 1..(k - 1) :
              FinallyDue(seh_stack[Low(Depth) + i]) =>
                 \A j \in i..(k - 1) : FinallyDue(seh_stack[Low(Depth) + j])
    PROVE  CleanAround(PathOf(Depth)[k])
<1> DEFINE path == PathOf(Depth)
           r == path[k]
           up == Path(prog, r)
           due == {i \in 1..(Len(up) - 1) :
                      /\ prog[up[i]].finally
                      /\ prog[up[i + 1]].part # "finally"}
<1>1. Len(path) \in Nat /\ PathProperties(prog, frames[Depth].at[1])
  BY FrameFacts DEF UnwindInv
<1>2. Len(up) = k /\ \A j \in 1..k : up[j] = path[j]
  BY <1>1 DEF PathProperties, PathOf
<1>3. \A i \in 1..(k - 1) :
         /\ i \in 1..k /\ i + 1 \in 1..k /\ i \in 1..Len(path) /\ i # Len(path)
         /\ \A j \in i..(k - 1) : j \in 1..(k - 1)
  BY <1>1
<1>4. ASSUME NEW i \in 1..(k - 1)
      PROVE  i \in due <=> FinallyDue(seh_stack[Low(Depth) + i])
  <2>1. PartOf(prog, frames[Depth].at, i) = prog[path[i + 1]].part
    BY <1>3 DEF PartOf, PathOf
  <2>2. up[i] = path[i] /\ up[i + 1] = path[i + 1]
    BY <1>2, <1>3
  <2>3. i \in due <=> /\ prog[path[i]].finally
                      /\ prog[path[i + 1]].part # "finally"
    BY <1>2, <2>2
  <2>4. FinallyDue(seh_stack[Low(Depth) + i])
           <=> /\ prog[path[i]].finally
               /\ PartOf(prog, frames[Depth].at, i) # "finally"
    BY <1>3, DueFacts
  <2> QED BY <2>1, <2>3, <2>4
<1>5. due \subseteq 1..(k - 1)
  BY <1>2
<1> HIDE DEF due, up
<1>6. \A i \in due : i..(k - 1) \subseteq due
  BY <1>3, <1>4, <1>5
<1> QED BY <1>2, <1>6 DEF CleanAround, due, up

\* What a clean exit from the k innermost regions meets.
LEMMA CleanExitFacts ==
    ASSUME UnwindInv, Depth \in 1..Depth, NEW k \in 0..Len(PathOf(Depth)),
           NEW breaks \in BOOLEAN, CleanExit(k, breaks),
           NEW i \in (Len(PathOf(Depth)) + 1 - k)..Len(PathOf(Depth)),
           FinallyDue(seh_stack[Low(Depth) + i])
    PROVE  /\ \A j \in i..Len(PathOf(Depth)) :
                 FinallyDue(seh_stack[Low(Depth) + j])
           /\ breaks => k = 1
<1> DEFINE path == PathOf(Depth)
           n == Len(path)
           due == {j \in (n + 1 - k)..n :
                     prog[path[j]].finally /\ PartOf(prog, Here, j) # "finally"}
<1>1. n \in Nat /\ path = Path(prog, Here[1]) /\ Here = frames[Depth].at
  BY FrameFacts DEF UnwindInv, PathOf, Here
<1>2. \A j \in due : j..n \subseteq due /\ (breaks => k = 1)
  BY <1>1, Zenon DEF CleanExit
<1>3. \A j \in (n + 1 - k)..n : j \in 1..n /\ \A l \in j..n : l \in (n + 1 - k)..n
  BY <1>1
<1>4. ASSUME NEW j \in (n + 1 - k)..n
      PROVE  j \in due <=> FinallyDue(seh_stack[Low(Depth) + j])
  <2>1. j \in 1..Len(PathOf(Depth))
    BY <1>3
  <2>2. FinallyDue(seh_stack[Low(Depth) + j])
           <=> prog[path[j]].finally /\ PartOf(prog, Here, j) # "finally"
    BY <1>1, <2>1, DueFacts
  <2> QED BY <2>2
<1>5. i \in due
  BY <1>4
<1>6. i..n \subseteq due /\ (breaks => k = 1)
  BY <1>2, <1>5
<1> HIDE DEF due
<1> QED BY <1>3, <1>4, <1>6

\* The whole stack, and the stack without its top.
LEMMA LowestFacts ==
    ASSUME TypeOK
    PROVE  /\ Len(seh_stack) \in Nat /\ Len(seh_stack) \in 0..Len(seh_stack)
           /\ Lowest(Len(seh_stack)) = seh_stack
           /\ seh_stack # <<>> =>
                 /\ Len(seh_stack) - 1 \in 0..Len(seh_stack)
                 /\ RemoveAt(seh_stack, Len(seh_stack))
                       = Lowest(Len(seh_stack) - 1)
<1>1. seh_stack \in Seq(SehRecord) /\ Len(seh_stack) \in Nat
  BY DEF TypeOK
<1>2. Lowest(Len(seh_stack)) = seh_stack
  BY <1>1, SubSeqFull DEF Lowest
<1>3. seh_stack # <<>> => RemoveAt(seh_stack, Len(seh_stack))
                             = Lowest(Len(seh_stack) - 1)
  BY <1>1, PopFacts DEF Lowest
<1> QED BY <1>1, <1>2, <1>3

LEMMA StepThrow ==
    ASSUME UnwindInv, (\E v \in Value : Throw(v)) \/ Propagate
    PROVE  UnwindInv' /\ Disciplined
<1> USE DEF UnwindInv
<1>1. PICK v \in Value : HandleThrow(v, seh_stack) /\ prog' = prog
  BY DEF Throw, Propagate, TypeOK
<1>2. /\ Len(seh_stack) \in 0..Len(seh_stack)
      /\ HandleThrow(v, Lowest(Len(seh_stack)))
  BY <1>1, LowestFacts
<1>3. NothingDue(Len(seh_stack))
  BY LowestFacts DEF NothingDue
<1> QED BY <1>1, <1>2, <1>3, ThrowKeeps

LEMMA StepReturn ==
    ASSUME UnwindInv, AnyExit = FALSE, NEW v \in Value, Return(v)
    PROVE  UnwindInv' /\ Disciplined
<1> USE DEF UnwindInv
<1> DEFINE n == Len(PathOf(Depth))
<1>1. /\ error = NoValue /\ Depth > InvokeBoundary /\ Depth > 1
      /\ CleanExit(n, FALSE) /\ Ret(v, seh_stack)
      /\ prog' = prog /\ boundaries' = boundaries /\ error' = error
  BY DEF Return, Stepping, PathOf, Here
<1>2. Depth \in 1..Depth /\ n \in Nat /\ Len(seh_stack) = Low(Depth) + n
  <2>1. Depth \in 1..Depth
    BY <1>1 DEF TypeOK, Depth
  <2> QED BY <2>1, FrameFacts, WatermarkFacts
<1>3. Ret(v, Lowest(Low(Depth) + n))
  BY <1>1, <1>2, LowestFacts
<1>4. ASSUME NEW i \in 1..n, FinallyDue(seh_stack[Low(Depth) + i])
      PROVE  \A j \in i..n : FinallyDue(seh_stack[Low(Depth) + j])
  <2>1. n \in 0..n /\ i \in (n + 1 - n)..n /\ FALSE \in BOOLEAN
    BY <1>2
  <2> QED BY <1>1, <1>2, <1>4, <2>1, CleanExitFacts
<1>5. ASSUME NEW i \in 1..n, FinallyDue(seh_stack[Low(Depth) + i])
      PROVE  /\ FinallyDue(seh_stack[Low(Depth) + n])
             /\ CleanAround(PathOf(Depth)[n])
  <2>1. n \in i..n /\ n \in 1..n
    BY <1>2
  <2>2. \A l \in 1..(n - 1) : l \in 1..n /\ \A j \in l..(n - 1) : j \in l..n
    BY <1>2
  <2>3. \A l \in 1..(n - 1) :
           FinallyDue(seh_stack[Low(Depth) + l]) =>
              \A j \in l..(n - 1) : FinallyDue(seh_stack[Low(Depth) + j])
    BY <1>4, <2>2
  <2>4. CleanAround(PathOf(Depth)[n])
    BY <1>2, <2>1, <2>3, CleanFacts
  <2> QED BY <1>4, <1>5, <2>1, <2>4
<1>6. n \in 0..n /\ NothingDue(Low(Depth) + n)
  <2>1. Len(seh_stack) \in Nat
    BY LowestFacts
  <2> QED BY <1>2, <2>1 DEF NothingDue
<1> QED BY <1>1, <1>3, <1>5, <1>6, RetKeeps
LEMMA StepResumeExc ==
    ASSUME UnwindInv, AnyExit = FALSE, ResumeExc
    PROVE  UnwindInv' /\ Disciplined
<1> USE DEF UnwindInv
<1> DEFINE n == Len(PathOf(Depth))
           N == Len(seh_stack)
           rec == seh_stack[N]
           recs == Lowest(N - 1)
<1>1. /\ error = NoValue /\ Depth > InvokeBoundary /\ Depth > 0
      /\ Here[2] = "finally" /\ prog' = prog
  <2>1. Stepping /\ Here[2] = "finally" /\ prog' = prog
    BY DEF ResumeExc
  <2>2. Depth \in Nat /\ InvokeBoundary \in Nat
    BY BoundaryFacts DEF TypeOK, Depth, InvokeBoundary
  <2> QED BY <2>1, <2>2 DEF Stepping
<1>2. Here # Outside
  BY <1>1 DEF Outside
<1>3. /\ Depth \in 1..Depth /\ n \in Nat \ {0} /\ Here[1] \in Region
      /\ PathOf(Depth)[n] = Here[1] /\ N = Low(Depth) + n
      /\ rec \in SehRecord /\ rec.region = Here[1] /\ Deferred(rec)
      /\ Max(Positions(Here[1])) = N /\ seh_stack # <<>>
      /\ Low(Depth) \in Nat /\ Depth \in Nat
  BY <1>1, <1>2, TopFacts, FrameFacts
<1>4. RemoveAt(seh_stack, N) = recs /\ N - 1 \in 0..N
  BY <1>3, LowestFacts
<1>5. /\ rec.pending_exception # NoValue => HandleThrow(rec.pending_exception, recs)
      /\ rec.pending_exception = NoValue /\ rec.delayed_jump_target # <<>> =>
            /\ seh_stack' = recs /\ frames' = Goto(rec.delayed_jump_target)
            /\ UNCHANGED <<boundaries, rv, error>>
      /\ (/\ rec.pending_exception = NoValue /\ rec.delayed_jump_target = <<>>
          /\ rec.delayed_return) =>
            /\ Ret(rec.delayed_return_value, recs)
            /\ UNCHANGED <<boundaries, error>>
      /\ (/\ rec.pending_exception = NoValue /\ rec.delayed_jump_target = <<>>
          /\ ~rec.delayed_return) =>
            /\ seh_stack' = recs /\ frames' = Goto(Around(prog, Here[1]))
            /\ UNCHANGED <<boundaries, rv, error>>
  <2> HIDE DEF recs, N
  <2>1. rec.delayed_return \in BOOLEAN
    BY <1>3 DEF SehRecord
  <2> QED BY <1>3, <1>4, <2>1 DEF ResumeExc
<1>11. NothingDue(N - 1)
  <2>1. ~FinallyDue(rec)
    <3>1. Fits(rec, Here[1], Here[2])
      BY <1>1, <1>2, TopFacts
    <3> QED BY <1>1, <3>1 DEF Fits, FinallyDue
  <2>2. \A i \in (N - 1 + 1)..N : i = N
    BY <1>3
  <2> QED BY <2>1, <2>2 DEF NothingDue
<1>6. ASSUME seh_stack' = recs, frames' = Goto(Around(prog, Here[1])),
             UNCHANGED <<boundaries, rv, error>>
      PROVE  UnwindInv' /\ Disciplined
  <2>1. n - 1 \in 0..(n - 1) /\ N - 1 = Low(Depth) + (n - 1) /\ n - 1 + 1 = n
    BY <1>3
  <2>2. seh_stack' = SubSeq(seh_stack, 1, Low(Depth) + (n - 1))
    BY <1>6, <2>1 DEF Lowest
  <2>3. frames' = Goto(Around(prog, PathOf(Depth)[n - 1 + 1]))
    BY <1>3, <1>6, <2>1
  <2>4. rv' \in Value \cup {NoValue} /\ error' = NoValue /\ boundaries' = boundaries
    BY <1>1, <1>6 DEF TypeOK
  <2>5. NothingDue(Low(Depth) + (n - 1))
    BY <1>11, <2>1
  <2> QED BY <1>1, <2>1, <2>2, <2>3, <2>4, <2>5, AroundKeeps
<1>7. CASE rec.pending_exception # NoValue
  <2>1. rec.pending_exception \in Value
    BY <1>3, <1>7 DEF SehRecord
  <2> QED BY <1>1, <1>4, <1>5, <1>7, <1>11, <2>1, ThrowKeeps
<1>8. CASE rec.pending_exception = NoValue /\ rec.delayed_jump_target # <<>>
  <2>1. rec.delayed_jump_target = Around(prog, Here[1])
    BY <1>3, <1>8 DEF Deferred
  <2> QED BY <1>5, <1>6, <1>8, <2>1
<1>9. CASE /\ rec.pending_exception = NoValue /\ rec.delayed_jump_target = <<>>
           /\ rec.delayed_return
  <2> DEFINE v == rec.delayed_return_value
             j == n - 1
  <2>1. v \in Value /\ CleanAround(Here[1])
    BY <1>3, <1>9 DEF Deferred
  <2>2. Depth > 1
    <3>1. Depth # 1
      <4>1. Depth = 1 => frames[1].at = Outside
        <5>1. Depth = 1 => frames # <<>>
          BY DEF Depth
        <5> QED BY <5>1 DEF FramesInv
      <4> QED BY <1>2, <4>1 DEF Here
    <3> QED BY <1>1, <1>3, <3>1
  <2>3. recs = Lowest(Low(Depth) + j) /\ j \in 0..n
    BY <1>3
  <2>7. NothingDue(Low(Depth) + j)
    <3>1. Low(Depth) + j = N - 1
      BY <1>3
    <3> QED BY <1>11, <3>1
  <2>4. ASSUME NEW i \in 1..j, FinallyDue(seh_stack[Low(Depth) + i])
        PROVE  \A l \in i..j : FinallyDue(seh_stack[Low(Depth) + l])
    <3> DEFINE path == Path(prog, Here[1])
               due == {l \in 1..(Len(path) - 1) :
                          /\ prog[path[l]].finally
                          /\ prog[path[l + 1]].part # "finally"}
    <3>1. path = PathOf(Depth) /\ Len(path) = n
      BY DEF PathOf, Here
    <3>2. \A l \in due : l..(Len(path) - 1) \subseteq due
      BY <2>1, Zenon DEF CleanAround
    <3>3. \A l \in 1..j : l \in 1..n /\ l # n
      BY <1>3
    <3>4. ASSUME NEW l \in 1..j
          PROVE  l \in due <=> FinallyDue(seh_stack[Low(Depth) + l])
      <4>1. PartOf(prog, frames[Depth].at, l) = prog[path[l + 1]].part
        BY <3>1, <3>3 DEF PartOf, Here
      <4>2. FinallyDue(seh_stack[Low(Depth) + l])
               <=> /\ prog[path[l]].finally
                   /\ PartOf(prog, frames[Depth].at, l) # "finally"
        BY <1>3, <3>1, <3>3, DueFacts
      <4>3. l \in 1..(Len(path) - 1)
        BY <3>1
      <4> QED BY <4>1, <4>2, <4>3
    <3>5. i \in due
      BY <2>4, <3>4
    <3>6. i..j \subseteq due /\ \A l \in i..j : l \in 1..j
      BY <1>3, <3>1, <3>2, <3>5
    <3> HIDE DEF due
    <3> QED BY <3>4, <3>6
  <2>5. ASSUME NEW i \in 1..j, FinallyDue(seh_stack[Low(Depth) + i])
        PROVE  /\ FinallyDue(seh_stack[Low(Depth) + j])
               /\ CleanAround(PathOf(Depth)[j])
    <3>1. j \in i..j /\ j \in 1..n
      BY <1>3
    <3>2. \A l \in 1..(j - 1) : l \in 1..j /\ \A k \in l..(j - 1) : k \in l..j
      BY <1>3
    <3>3. \A l \in 1..(j - 1) :
             FinallyDue(seh_stack[Low(Depth) + l]) =>
                \A k \in l..(j - 1) : FinallyDue(seh_stack[Low(Depth) + k])
      BY <2>4, <3>2
    <3>4. CleanAround(PathOf(Depth)[j])
      BY <1>3, <3>1, <3>3, CleanFacts
    <3> QED BY <2>4, <2>5, <3>1, <3>4
  <2>6. Ret(v, Lowest(Low(Depth) + j)) /\ boundaries' = boundaries /\ error' = error
    BY <1>5, <1>9, <2>3
  <2> HIDE DEF j, v
  <2> QED BY <1>1, <2>1, <2>2, <2>3, <2>5, <2>6, <2>7, RetKeeps
<1>10. CASE /\ rec.pending_exception = NoValue /\ rec.delayed_jump_target = <<>>
            /\ ~rec.delayed_return
  BY <1>5, <1>6, <1>10
<1> QED BY <1>7, <1>8, <1>9, <1>10

\* The pc enters the finally of the innermost region.
LEMMA EnterFinally ==
    ASSUME UnwindInv, prog' = prog, Depth > InvokeBoundary, Depth > 0,
           Here # Outside, NEW rec \in SehRecord,
           rec.saved_frame_depth = Depth, Fits(rec, Here[1], "finally"),
           Deferred(rec),
           frames' = Goto(<<Here[1], "finally">>),
           seh_stack' = [seh_stack EXCEPT ![Len(seh_stack)] = rec],
           rv' \in Value \cup {NoValue}, error' = NoValue,
           boundaries' = boundaries
    PROVE  UnwindInv' /\ Disciplined
<1> USE DEF UnwindInv
<1> DEFINE n == Len(PathOf(Depth))
           N == Len(seh_stack)
<1>1. /\ Depth \in 1..Depth /\ n \in Nat \ {0} /\ Here[1] \in Region
      /\ PathOf(Depth)[n] = Here[1] /\ N = Low(Depth) + n
      /\ seh_stack # <<>> /\ Low(Depth) \in Nat
  BY TopFacts, FrameFacts
<1>2. seh_stack \in Seq(SehRecord) /\ N \in 1..N /\ n \in 1..n
  BY <1>1 DEF TypeOK
<1>3. /\ seh_stack' \in Seq(SehRecord) /\ Len(seh_stack') = N
      /\ seh_stack'[N] = rec
      /\ \A j \in 1..(N - 1) : seh_stack'[j] = seh_stack[j]
  <2>1. /\ [seh_stack EXCEPT ![N] = rec] \in Seq(SehRecord)
        /\ Len([seh_stack EXCEPT ![N] = rec]) = N
        /\ \A j \in 1..N : [seh_stack EXCEPT ![N] = rec][j]
                              = IF j = N THEN rec ELSE seh_stack[j]
    BY <1>2, ExceptSeq
  <2>2. \A j \in 1..(N - 1) : j \in 1..N /\ j # N
    BY <1>1
  <2> QED BY <1>2, <2>1, <2>2
<1>4. frames' = Moved(Depth, <<Here[1], "finally">>)
  <2>1. <<Here[1], "finally">> \in Place
    BY <1>1 DEF Place, Parts, Region
  <2> QED BY <1>1, <2>1, MoveFacts
<1>5. /\ Len(seh_stack') = Low(Depth) + n /\ seh_stack'[Low(Depth) + n] = rec
      /\ \A j \in 1..(Low(Depth) + n - 1) : seh_stack'[j] = seh_stack[j]
      /\ "finally" \in Parts
  BY <1>1, <1>3 DEF Parts
<1>6. NothingDue(Low(Depth) + n) /\ "finally" # "catch"
  BY <1>1 DEF NothingDue
<1> HIDE DEF n, N
<1> QED BY <1>1, <1>2, <1>3, <1>4, <1>5, <1>6, InsideKeeps DEF n

LEMMA StepEndTry ==
    ASSUME UnwindInv, EndTry
    PROVE  UnwindInv' /\ Disciplined
<1> USE DEF UnwindInv
<1> DEFINE n == Len(PathOf(Depth))
           N == Len(seh_stack)
           r == Here[1]
<1>1. /\ error = NoValue /\ Depth > InvokeBoundary /\ Depth > 0
      /\ Here # Outside /\ Here[2] # "finally"
      /\ prog' = prog /\ boundaries' = boundaries /\ error' = NoValue
      /\ rv' \in Value \cup {NoValue}
  <2>1. Stepping /\ Here # Outside /\ Here[2] # "finally"
        /\ prog' = prog /\ boundaries' = boundaries /\ error' = error /\ rv' = rv
    BY DEF EndTry
  <2>2. Depth \in Nat /\ InvokeBoundary \in Nat
    BY BoundaryFacts DEF TypeOK, Depth, InvokeBoundary
  <2> QED BY <2>1, <2>2 DEF Stepping, TypeOK
<1>2. /\ Depth \in 1..Depth /\ n \in Nat \ {0} /\ r \in Region
      /\ PathOf(Depth)[n] = r /\ N = Low(Depth) + n
      /\ seh_stack[N] \in SehRecord /\ seh_stack[N].region = r
      /\ seh_stack[N].saved_frame_depth = Depth
      /\ Fits(seh_stack[N], r, Here[2]) /\ Deferred(seh_stack[N])
      /\ Max(Positions(r)) = N /\ seh_stack # <<>>
      /\ Low(Depth) \in Nat
  BY <1>1, TopFacts, FrameFacts
<1>3. CASE prog[r].finally
  <2> DEFINE rec == [seh_stack[N] EXCEPT !.in_finally = TRUE, !.catch_closed = TRUE]
  <2>1. /\ seh_stack' = [seh_stack EXCEPT ![N].in_finally = TRUE,
                                          ![N].catch_closed = TRUE]
        /\ frames' = Goto(<<r, "finally">>)
    <3> HIDE DEF N
    <3> QED BY <1>2, <1>3 DEF EndTry
  <2>2. seh_stack' = [seh_stack EXCEPT ![N] = rec]
    <3>1. seh_stack \in Seq(SehRecord) /\ N \in 1..N
      BY <1>2 DEF TypeOK
    <3> QED BY <2>1, <3>1
  <2>3. /\ rec \in SehRecord /\ rec.region = r /\ rec.saved_frame_depth = Depth
        /\ rec.in_finally = TRUE /\ rec.catch_closed = TRUE
        /\ rec.pending_exception = seh_stack[N].pending_exception
        /\ rec.delayed_jump_target = seh_stack[N].delayed_jump_target
        /\ rec.delayed_return = seh_stack[N].delayed_return
        /\ rec.delayed_return_value = seh_stack[N].delayed_return_value
    BY <1>2 DEF SehRecord
  <2> HIDE DEF rec
  <2>4. Fits(rec, r, "finally")
    BY <2>3 DEF Fits
  <2>5. Deferred(rec)
    <3>1. rec.region = seh_stack[N].region /\ Deferred(seh_stack[N])
      BY <1>2, <2>3
    <3> QED BY <2>3, <3>1 DEF Deferred
  <2> QED BY <1>1, <2>1, <2>2, <2>3, <2>4, <2>5, EnterFinally
<1>4. CASE ~prog[r].finally
  <2>1. seh_stack' = RemoveAt(seh_stack, N) /\ frames' = Goto(Around(prog, r))
    <3> HIDE DEF N
    <3> QED BY <1>2, <1>4 DEF EndTry
  <2>2. n - 1 \in 0..(n - 1) /\ N - 1 = Low(Depth) + (n - 1) /\ n - 1 + 1 = n
    BY <1>2
  <2>3. seh_stack' = SubSeq(seh_stack, 1, Low(Depth) + (n - 1))
    BY <1>2, <2>1, <2>2, LowestFacts DEF Lowest
  <2>4. frames' = Goto(Around(prog, PathOf(Depth)[n - 1 + 1]))
    BY <1>2, <2>1, <2>2
  <2>5. NothingDue(Low(Depth) + (n - 1))
    <3>1. \A i \in (N - 1 + 1)..N : i = N
      BY <1>2
    <3>2. ~FinallyDue(seh_stack[N])
      BY <1>2, <1>4 DEF FinallyDue
    <3> QED BY <2>2, <3>1, <3>2 DEF NothingDue
  <2> QED BY <1>1, <2>2, <2>3, <2>4, <2>5, AroundKeeps
<1> QED BY <1>3, <1>4
LEMMA MaxOfTwo ==
    ASSUME NEW a \in Nat, NEW b \in Nat, b <= a
    PROVE  Max({a, b}) = a
<1>1. a \in {a, b} /\ \A y \in {a, b} : a >= y
  OBVIOUS
<1>2. \A x \in {a, b} : (\A y \in {a, b} : x >= y) => x = a
  OBVIOUS
<1> QED BY <1>1, <1>2 DEF Max

LEMMA StepDelayedJump ==
    ASSUME UnwindInv, AnyExit = FALSE, NEW k \in Region, DelayedJump(k)
    PROVE  UnwindInv' /\ Disciplined
<1> USE DEF UnwindInv
<1> DEFINE path == PathOf(Depth)
           n == Len(path)
           N == Len(seh_stack)
           r == Here[1]
           due == {i \in (N - k + 1)..N : FinallyDue(seh_stack[i])}
           target == PlaceAfter(prog, Here, k)
<1>1. /\ error = NoValue /\ Depth > InvokeBoundary /\ Depth > 0
      /\ k \in 1..n /\ CleanExit(k, TRUE)
      /\ prog' = prog /\ boundaries' = boundaries /\ error' = NoValue
      /\ rv' \in Value \cup {NoValue}
  <2>1. Stepping /\ k \in 1..n /\ CleanExit(k, TRUE)
        /\ prog' = prog /\ boundaries' = boundaries /\ error' = error /\ rv' = rv
    BY DEF DelayedJump, PathOf, Here
  <2>2. Depth \in Nat /\ InvokeBoundary \in Nat
    BY BoundaryFacts DEF TypeOK, Depth, InvokeBoundary
  <2>3. error = NoValue /\ Depth > InvokeBoundary /\ Depth > 0
    BY <2>1, <2>2 DEF Stepping
  <2> QED BY <2>1, <2>3 DEF TypeOK
<1>2. Depth \in 1..Depth /\ n \in Nat /\ Low(Depth) \in Nat /\ N = Low(Depth) + n
      /\ path = Path(prog, Here[1]) /\ path \in Seq(Region)
  <2>1. Depth \in 1..Depth
    BY <1>1 DEF TypeOK, Depth
  <2> QED BY <2>1, FrameFacts, WatermarkFacts DEF PathOf, Here
<1>3. Here # Outside
  <2>1. Here = Outside => path = <<>>
    BY <1>2, PathUnfolds DEF Outside, TypeOK
  <2> QED BY <1>1, <2>1
<1>4. /\ path[n] = r /\ r \in Region
      /\ seh_stack[N] \in SehRecord /\ seh_stack[N].region = r
      /\ seh_stack[N].saved_frame_depth = Depth
      /\ Fits(seh_stack[N], r, Here[2]) /\ Deferred(seh_stack[N])
      /\ seh_stack # <<>>
  BY <1>1, <1>3, TopFacts
<1>5. target = Around(prog, path[n + 1 - k])
  BY <1>2 DEF PlaceAfter
<1>6. /\ due # {} =>
           /\ seh_stack' = [seh_stack EXCEPT
                  ![Max(due)].in_finally = TRUE, ![Max(due)].catch_closed = TRUE,
                  ![Max(due)].delayed_jump_target = target]
           /\ frames' = Goto(<<seh_stack[Max(due)].region, "finally">>)
      /\ due = {} => /\ seh_stack' = SubSeq(seh_stack, 1, N - k)
                     /\ frames' = Goto(target)
  <2>1. Max({N - k, frames[Depth].seh_depth}) = N - k
    <3>1. N - k \in Nat /\ Low(Depth) <= N - k
      BY <1>1, <1>2
    <3> QED BY <1>2, <3>1, MaxOfTwo DEF Low
  <2> DEFINE start == Max({N - k, frames[Depth].seh_depth})
             late == {i \in (start + 1)..N : FinallyDue(seh_stack[i])}
  <2>2. /\ late # {} =>
             /\ seh_stack' = [seh_stack EXCEPT
                  ![Max(late)].in_finally = TRUE, ![Max(late)].catch_closed = TRUE,
                  ![Max(late)].delayed_jump_target = target]
             /\ frames' = Goto(<<seh_stack[Max(late)].region, "finally">>)
        /\ late = {} => /\ seh_stack' = SubSeq(seh_stack, 1, N - k)
                        /\ frames' = Goto(target)
    BY DEF DelayedJump
  <2>3. late = due
    BY <2>1
  <2> HIDE DEF late, due, target, N
  <2> QED BY <2>2, <2>3
<1>7. ASSUME NEW i \in due PROVE k = 1 /\ i = N
  <2>1. /\ i - Low(Depth) \in (n + 1 - k)..n /\ i = Low(Depth) + (i - Low(Depth))
        /\ k \in 0..n /\ TRUE \in BOOLEAN
    BY <1>1, <1>2
  <2>2. FinallyDue(seh_stack[Low(Depth) + (i - Low(Depth))])
    BY <2>1
  <2>3. k = 1
    BY <1>1, <1>2, <2>1, <2>2, CleanExitFacts
  <2> QED BY <1>2, <2>3
<1>8. CASE due = {}
  <2>1. /\ n - k \in 0..(n - 1) /\ N - k = Low(Depth) + (n - k)
        /\ n - k + 1 = n + 1 - k
    BY <1>1, <1>2
  <2>2. seh_stack' = SubSeq(seh_stack, 1, Low(Depth) + (n - k))
    BY <1>6, <1>8, <2>1
  <2>3. frames' = Goto(Around(prog, PathOf(Depth)[n - k + 1]))
    BY <1>5, <1>6, <1>8, <2>1
  <2>4. NothingDue(Low(Depth) + (n - k))
    BY <1>8, <2>1 DEF NothingDue
  <2> HIDE DEF n, N
  <2> QED BY <1>1, <2>1, <2>2, <2>3, <2>4, AroundKeeps DEF n
<1>9. CASE due # {}
  <2>1. Max(due) = N /\ k = 1 /\ FinallyDue(seh_stack[N])
    <3>1. PICK i \in due : TRUE
      BY <1>9
    <3>2. k = 1 /\ N \in due /\ due = {N}
      BY <1>7, <3>1
    <3>3. due = {N, N} /\ N \in Nat
      BY <1>2, <3>2
    <3>4. Max({N, N}) = N
      BY <3>3, MaxOfTwo
    <3> HIDE DEF N
    <3> QED BY <3>2, <3>3, <3>4
  <2> DEFINE rec == [seh_stack[N] EXCEPT !.in_finally = TRUE, !.catch_closed = TRUE,
                                         !.delayed_jump_target = target]
  <2>2. target = Around(prog, r) /\ target \in Place /\ target # <<>>
    <3>1. n + 1 - k = n
      BY <1>2, <2>1
    <3> QED BY <1>4, <1>5, <3>1, AroundFacts DEF TypeOK
  <2>3. /\ seh_stack' = [seh_stack EXCEPT
                  ![N].in_finally = TRUE, ![N].catch_closed = TRUE,
                  ![N].delayed_jump_target = target]
        /\ frames' = Goto(<<r, "finally">>)
    BY <1>4, <1>6, <1>9, <2>1
  <2>4. seh_stack' = [seh_stack EXCEPT ![N] = rec]
    <3>1. seh_stack \in Seq(SehRecord) /\ N \in 1..N
      BY <1>1, <1>2 DEF TypeOK
    <3> HIDE DEF target
    <3> QED BY <2>3, <3>1
  <2> HIDE DEF target
  <2>5. /\ rec \in SehRecord /\ rec.region = r /\ rec.saved_frame_depth = Depth
        /\ rec.in_finally = TRUE /\ rec.catch_closed = TRUE
        /\ rec.pending_exception = seh_stack[N].pending_exception
        /\ rec.delayed_jump_target = target
        /\ rec.delayed_return = seh_stack[N].delayed_return
        /\ rec.delayed_return_value = seh_stack[N].delayed_return_value
    BY <1>4, <2>2 DEF SehRecord
  <2> HIDE DEF rec
  <2>6. Fits(rec, r, "finally")
    BY <2>5 DEF Fits
  <2>7. Deferred(rec)
    <3>1. ~seh_stack[N].in_finally
      BY <2>1 DEF FinallyDue
    <3>2. seh_stack[N].pending_exception = NoValue /\ ~seh_stack[N].delayed_return
      BY <1>4, <3>1 DEF Deferred
    <3> QED BY <2>2, <2>5, <3>2 DEF Deferred
  <2> HIDE DEF n, N
  <2> QED BY <1>1, <1>3, <2>3, <2>4, <2>5, <2>6, <2>7, EnterFinally DEF N
<1> QED BY <1>8, <1>9
LEMMA StepTry ==
    ASSUME UnwindInv, NEW r \in Region, Try(r)
    PROVE  UnwindInv' /\ Disciplined
<1> USE DEF UnwindInv
<1> DEFINE path == PathOf(Depth)
           n == Len(path)
           N == Len(seh_stack)
           rec == [region |-> r, saved_frame_depth |-> Depth,
                   in_finally |-> FALSE, catch_closed |-> FALSE,
                   pending_exception |-> NoValue, delayed_jump_target |-> <<>>,
                   delayed_return |-> FALSE, delayed_return_value |-> NoValue]
           place == <<r, "try">>
<1>1. /\ error = NoValue /\ Depth > InvokeBoundary /\ Depth > 1
      /\ Here = Around(prog, r) /\ prog' = prog /\ boundaries' = boundaries
      /\ error' = NoValue /\ rv' \in Value \cup {NoValue}
      /\ seh_stack' = Append(seh_stack, rec) /\ frames' = Goto(place)
  BY DEF Try, Stepping, TypeOK
<1>2. /\ Depth \in 1..Depth /\ Depth \in Nat /\ n \in Nat /\ N \in Nat
      /\ Low(Depth) \in Nat /\ N = Low(Depth) + n
      /\ path = Path(prog, Here[1]) /\ path \in Seq(Region)
  <2>1. Depth \in 1..Depth
    BY <1>1 DEF TypeOK, Depth
  <2> QED BY <2>1, FrameFacts, WatermarkFacts DEF PathOf, Here
<1>3. /\ place \in Place /\ place[1] = r /\ place[2] = "try" /\ r # 0
      /\ r \in 0..NumRegions
  BY RegionAssumption DEF Place, Parts, Region
<1>4. Path(prog, r) = Append(path, r) /\ Here[2] = prog[r].part
  <2>1. Here[1] = prog[r].up /\ Here[2] = prog[r].part
    BY <1>1, AroundFacts DEF TypeOK
  <2> QED BY <1>2, <2>1, PathUnfolds DEF TypeOK
<1>5. /\ rec \in SehRecord /\ rec.saved_frame_depth = Depth
      /\ Fits(rec, r, "try") /\ Deferred(rec)
  BY <1>2 DEF SehRecord, Fits, Deferred
<1> HIDE DEF rec, place
<1>6. /\ frames' \in Seq(Frame) /\ Len(frames') = Depth
      /\ \A g \in 1..(Depth - 1) : frames'[g] = frames[g]
      /\ frames'[Depth].seh_depth = Low(Depth) /\ frames'[Depth].at = place
  <2>1. frames' = Moved(Depth, place)
    BY <1>1, <1>2, <1>3, MoveFacts
  <2>2. LET fs == Moved(Depth, place) IN
        /\ fs \in Seq(Frame) /\ Len(fs) = Depth
        /\ \A g \in 1..(Depth - 1) : fs[g] = frames[g]
        /\ fs[Depth].seh_depth = Low(Depth) /\ fs[Depth].at = place
    BY <1>2, <1>3, MoveFacts
  <2> QED BY <2>1, <2>2
<1>7. /\ seh_stack' \in Seq(SehRecord) /\ Len(seh_stack') = N + 1
      /\ \A i \in 1..N : seh_stack'[i] = seh_stack[i]
      /\ seh_stack'[N + 1] = rec
  BY <1>1, <1>5, AppendProperties DEF TypeOK
<1>8. Depth' = Depth /\ \A g \in 1..Depth : g = Depth \/ g \in 1..(Depth - 1)
  BY <1>2, <1>6 DEF Depth
<1>9. \A g \in 1..Depth : Low(g)' = Low(g)
  BY <1>6, <1>8 DEF Low
<1>10. \A g \in 1..(Depth - 1) :
          PathOf(g)' = PathOf(g) /\ High(g)' = High(g) /\ g # Depth /\ g \in 1..Depth
  <2> TAKE g \in 1..(Depth - 1)
  <2>1. PathOf(g)' = PathOf(g)
    BY <1>1, <1>6 DEF PathOf
  <2>2. g + 1 \in 1..Depth /\ g # Depth /\ g \in 1..Depth
    BY <1>2
  <2>3. High(g) = Low(g + 1) /\ High(g)' = Low(g + 1)'
    BY <1>8, <2>2 DEF High, Low
  <2> QED BY <1>9, <2>1, <2>2, <2>3
<1>11. /\ PathOf(Depth)' \in Seq(Region) /\ Len(PathOf(Depth)') = n + 1
       /\ \A i \in 1..n : PathOf(Depth)'[i] = path[i]
       /\ PathOf(Depth)'[n + 1] = r
       /\ High(Depth)' = N + 1
  <2>1. PathOf(Depth)' = Append(path, r)
    BY <1>1, <1>3, <1>4, <1>6, <1>8 DEF PathOf
  <2>2. High(Depth)' = N + 1
    BY <1>7 DEF High
  <2> QED BY <1>2, <2>1, <2>2, AppendProperties
<1>12. FramesInv'
  <2>1. frames # <<>> /\ frames' # <<>>
    BY <1>1, <1>6 DEF Depth
  <2>2. frames'[1] = [seh_depth |-> 0, at |-> Outside]
    <3>1. 1 \in 1..(Depth - 1)
      BY <1>1, <1>2
    <3> QED BY <1>6, <2>1, <3>1 DEF FramesInv
  <2>3. ASSUME NEW g \in 1..Depth
        PROVE  /\ frames'[g].at[1] = 0 => frames'[g].at = Outside
               /\ High(g)' = Low(g)' + Len(PathOf(g)')
    <3>1. CASE g = Depth
      <4>1. High(g)' = High(Depth)' /\ PathOf(g)' = PathOf(Depth)'
        BY <1>8, <3>1 DEF High, PathOf
      <4> QED BY <1>2, <1>3, <1>6, <1>9, <1>11, <3>1, <4>1
    <3>2. CASE g # Depth
      <4>1. g \in 1..(Depth - 1)
        BY <1>8, <3>2
      <4>2. /\ frames[g].at[1] = 0 => frames[g].at = Outside
            /\ High(g) = Low(g) + Len(PathOf(g))
        BY DEF FramesInv
      <4> QED BY <1>6, <1>9, <1>10, <4>1, <4>2
    <3> QED BY <3>1, <3>2
  <2>4. \A g, h \in 1..Depth : g <= h => Low(g)' <= Low(h)'
    BY <1>9 DEF FramesInv
  <2> QED BY <1>8, <2>1, <2>2, <2>3, <2>4 DEF FramesInv
<1>13. ASSUME NEW i \in 1..(N + 1), NEW g, g = seh_stack'[i].saved_frame_depth
       PROVE  g \in 1..Depth /\ Low(g)' < i /\ i <= High(g)'
  <2>1. CASE i = N + 1
    <3>1. g = Depth
      BY <1>5, <1>7, <1>13, <2>1
    <3>2. High(g)' = N + 1
      BY <1>8, <1>11, <3>1 DEF High
    <3> QED BY <1>2, <1>9, <2>1, <3>1, <3>2
  <2>2. CASE i # N + 1
    <3>1. i \in 1..N /\ seh_stack'[i] = seh_stack[i]
      BY <1>2, <1>7, <2>2
    <3>2. g \in 1..Depth /\ Low(g) < i /\ i <= High(g)
      BY <1>13, <3>1 DEF RecordsInv
    <3>3. CASE g = Depth
      <4>1. High(g)' = N + 1
        BY <1>8, <1>11, <3>3 DEF High
      <4> QED BY <1>9, <3>2, <4>1
    <3>4. CASE g # Depth
      <4>1. g \in 1..(Depth - 1)
        BY <1>8, <3>2, <3>4
      <4> QED BY <1>9, <1>10, <3>2, <4>1
    <3> QED BY <3>3, <3>4
  <2> QED BY <2>1, <2>2
<1>14. ASSUME NEW g \in 1..Depth, NEW i \in 1..Len(PathOf(g)')
       PROVE  LET new == seh_stack'[Low(g)' + i] IN
              /\ new.saved_frame_depth = g
              /\ Fits(new, PathOf(g)'[i], PartOf(prog, frames[g].at, i)')
              /\ Deferred(new)
  <2>1. CASE g # Depth
    <3>1. g \in 1..(Depth - 1) /\ PathOf(g)' = PathOf(g)
          /\ i \in 1..Len(PathOf(g)) /\ Low(g)' = Low(g)
      BY <1>8, <1>9, <1>10, <2>1
    <3>2. Low(g) + i \in 1..N
      BY <3>1, RecordFacts
    <3>3. seh_stack'[Low(g) + i] = seh_stack[Low(g) + i]
      BY <1>7, <3>2
    <3>4. PartOf(prog, frames[g].at, i)' = PartOf(prog, frames[g].at, i)
      BY <1>1, <1>6, <3>1
    <3>5. LET old == seh_stack[Low(g) + i] IN
          /\ old.saved_frame_depth = g
          /\ Fits(old, PathOf(g)[i], PartOf(prog, frames[g].at, i))
          /\ Deferred(old)
      BY <3>1 DEF RecordsInv
    <3> QED BY <3>1, <3>3, <3>4, <3>5
  <2>2. CASE g = Depth
    <3>1. PathOf(g)' = PathOf(Depth)' /\ Low(g)' = Low(Depth) /\ i \in 1..(n + 1)
      BY <1>8, <1>9, <1>11, <2>2 DEF PathOf
    <3>2. PartOf(prog, frames[g].at, i)'
             = IF i = n + 1 THEN "try" ELSE prog[PathOf(g)'[i + 1]].part
      BY <1>1, <1>3, <1>6, <1>11, <2>2, <3>1 DEF PartOf, PathOf
    <3>3. CASE i = n + 1
      <4>1. Low(Depth) + i = N + 1
        BY <1>2, <3>3
      <4> QED BY <1>5, <1>7, <1>11, <2>2, <3>1, <3>2, <3>3, <4>1
    <3>4. CASE i # n + 1
      <4>1. i \in 1..n /\ i \in 1..(n + 1) /\ i + 1 \in 1..(n + 1)
        BY <1>2, <3>1, <3>4
      <4>2. Low(Depth) + i \in 1..N
        BY <1>2, <4>1
      <4>3. seh_stack'[Low(Depth) + i] = seh_stack[Low(Depth) + i]
        BY <1>7, <4>2
      <4>4. PartOf(prog, frames[g].at, i)' = PartOf(prog, frames[Depth].at, i)
        <5>1. PartOf(prog, frames[Depth].at, i)
                 = IF i = n THEN Here[2] ELSE prog[path[i + 1]].part
          BY <1>2 DEF PartOf, Here
        <5>2. CASE i = n
          BY <1>4, <1>11, <3>1, <3>2, <3>4, <5>1, <5>2
        <5>3. CASE i # n
          <6>1. i + 1 \in 1..n
            BY <1>2, <4>1, <5>3
          <6> QED BY <1>11, <3>1, <3>2, <3>4, <5>1, <5>3, <6>1
        <5> QED BY <5>2, <5>3
      <4>5. LET old == seh_stack[Low(Depth) + i] IN
            /\ old.saved_frame_depth = Depth
            /\ Fits(old, path[i], PartOf(prog, frames[Depth].at, i))
            /\ Deferred(old)
        BY <1>2, <4>1 DEF RecordsInv
      <4> QED BY <1>11, <2>2, <3>1, <4>1, <4>3, <4>4, <4>5
    <3> QED BY <3>3, <3>4
  <2> QED BY <2>1, <2>2
<1>15. RecordsInv'
  <2>1. \A x : (Deferred(x) <=> Deferred(x)')
    BY <1>1 DEF Deferred, CleanAround
  <2>2. \A x, q, part : (Fits(x, q, part) <=> Fits(x, q, part)')
    BY <1>1 DEF Fits
  <2>3. (\A i \in 1..Len(seh_stack) :
            LET g == seh_stack[i].saved_frame_depth IN
            g \in 1..Depth /\ Low(g) < i /\ i <= High(g))'
    BY <1>7, <1>8, <1>13 DEF Low, High
  <2>4. (\A g \in 1..Depth : \A i \in 1..Len(PathOf(g)) :
            LET x == seh_stack[Low(g) + i] IN
            /\ x.saved_frame_depth = g
            /\ Fits(x, PathOf(g)[i], PartOf(prog, frames[g].at, i))
            /\ Deferred(x))'
    BY <1>8, <1>14, <2>1, <2>2
  <2> QED BY <2>3, <2>4 DEF RecordsInv
<1>16. BoundariesInv' /\ boundaries' \in Seq(Boundary)
  <2>1. boundaries' = SubSeq(boundaries, 1, Len(boundaries))
        /\ Len(boundaries) \in 0..Len(boundaries)
    BY <1>1, SubSeqFull DEF TypeOK
  <2>2. Len(boundaries) > 0 => boundaries[Len(boundaries)].frames < Depth
    <3>1. Len(boundaries) > 0 =>
             /\ boundaries # <<>>
             /\ InvokeBoundary = boundaries[Len(boundaries)].frames
             /\ InvokeBoundary \in 1..Depth
      BY BoundaryFacts
    <3> QED BY <1>1, <3>1
  <2>3. \A g \in 1..Depth : frames'[g].seh_depth = Low(g)
    BY <1>9 DEF Low
  <2> QED BY <1>1, <1>2, <1>6, <2>1, <2>2, <2>3, BoundariesKept
<1>17. TypeOK'
  <2>1. Len(frames') <= FrameLimit
    BY <1>6 DEF TypeOK, Depth
  <2> QED BY <1>1, <1>6, <1>7, <1>16, <2>1, TypeKept
<1>18. Disciplined
  <2>1. PICK d : d = Depth
    OBVIOUS
  <2>2. /\ PathOf(d)' \in Seq(Region) /\ Len(PathOf(d)) <= Len(PathOf(d)')
        /\ \A i \in 1..Len(PathOf(d)) : PathOf(d)'[i] = PathOf(d)[i]
        /\ Len(PathOf(d)) \in 0..Len(PathOf(d))
    BY <1>2, <1>8, <1>11, <2>1 DEF PathOf
  <2>3. NothingDue(Low(d) + Len(PathOf(d)))
    BY <1>2, <2>1 DEF NothingDue
  <2>4. \A i \in 1..Low(d) : seh_stack'[i] = seh_stack[i]
    <3>1. \A i \in 1..Low(Depth) : i \in 1..N
      BY <1>2
    <3> QED BY <1>7, <2>1, <3>1
  <2>5. /\ frames'[d].at[2] # "catch" /\ d <= Len(frames') /\ ~(d < Len(frames'))
        /\ \A g \in 1..(d - 1) : frames'[g] = frames[g]
    BY <1>2, <1>3, <1>6, <2>1
  <2>6. InvokeBoundary <= d /\ InvokeBoundary # d /\ d \in 1..Depth
    <3>1. InvokeBoundary \in Nat
      BY BoundaryFacts DEF InvokeBoundary
    <3> QED BY <1>1, <1>2, <2>1, <3>1
  <2> QED BY <1>1, <1>6, <2>2, <2>3, <2>4, <2>5, <2>6, DisciplineFacts
<1> QED BY <1>12, <1>15, <1>16, <1>17, <1>18
LEMMA StepCall ==
    ASSUME UnwindInv, Call \/ CallFromBuiltin
    PROVE  UnwindInv' /\ Disciplined
<1> USE DEF UnwindInv
<1> DEFINE new == [seh_depth |-> Len(seh_stack), at |-> Outside]
           b == [frames |-> Depth, saved_seh |-> Len(seh_stack)]
<1>1. /\ error = NoValue /\ Depth > InvokeBoundary /\ Depth < FrameLimit
      /\ frames' = Append(frames, new)
      /\ prog' = prog /\ seh_stack' = seh_stack /\ rv' = rv /\ error' = NoValue
      /\ boundaries' = boundaries \/ boundaries' = Append(boundaries, b)
  BY DEF Call, CallFromBuiltin, Stepping, NewFrame
<1>0. PICK d : d = Depth
  OBVIOUS
<1>2. /\ Depth \in 1..Depth /\ Depth \in Nat /\ Len(seh_stack) \in Nat
      /\ frames \in Seq(Frame) /\ Len(frames) = Depth
      /\ InvokeBoundary \in Nat /\ d = Depth
  <2>1. Depth \in Nat /\ InvokeBoundary \in Nat
    BY BoundaryFacts DEF TypeOK, Depth, InvokeBoundary
  <2> QED BY <1>0, <1>1, <2>1 DEF TypeOK, Depth
<1>3. new \in Frame /\ new.seh_depth = Len(seh_stack) /\ new.at = Outside
  BY <1>2, RegionAssumption DEF Frame, Place, Parts, Outside
<1> HIDE DEF new
<1>4. /\ frames' \in Seq(Frame) /\ Len(frames') = Depth + 1
      /\ \A g \in 1..Depth : frames'[g] = frames[g]
      /\ frames'[Depth + 1] = new
  BY <1>1, <1>2, <1>3, AppendProperties
<1>5. /\ Depth' = Depth + 1
      /\ \A g \in 1..(Depth + 1) : g = Depth + 1 \/ g \in 1..Depth
  BY <1>2, <1>4 DEF Depth
<1>6. /\ \A g \in 1..Depth : Low(g)' = Low(g)
      /\ Low(d + 1)' = Len(seh_stack)
  BY <1>2, <1>3, <1>4, <1>5 DEF Low
<1>7. \A g \in 1..Depth : PathOf(g)' = PathOf(g) /\ High(g)' = High(g)
                          /\ g # Depth + 1
  <2> TAKE g \in 1..Depth
  <2>1. PathOf(g)' = PathOf(g) /\ g # Depth + 1
    BY <1>1, <1>2, <1>4 DEF PathOf
  <2>2. High(g)' = Low(g + 1)'
    BY <1>5, <2>1 DEF High, Low
  <2>3. CASE g = Depth
    BY <1>2, <1>6, <2>1, <2>2, <2>3 DEF High, Low
  <2>4. CASE g # Depth
    <3>1. g + 1 \in 1..Depth
      BY <1>2, <2>4
    <3>2. High(g) = Low(g + 1)
      BY <2>4 DEF High, Low
    <3> QED BY <1>6, <2>1, <2>2, <3>1, <3>2
  <2> QED BY <2>3, <2>4
<1>8. PathOf(d + 1)' = <<>> /\ High(d + 1)' = Len(seh_stack)
  <2>1. PathOf(d + 1)' = Path(prog, 0)
    BY <1>1, <1>2, <1>3, <1>4, <1>5 DEF PathOf, Outside
  <2>2. High(d + 1)' = Len(seh_stack)
    BY <1>1, <1>2, <1>5 DEF High
  <2> QED BY <2>1, <2>2, PathUnfolds DEF TypeOK
<1>9. \A g \in 1..Depth : Low(g) \in Nat /\ Low(g) <= Len(seh_stack)
  <2> TAKE g \in 1..Depth
  <2>1. /\ Low(g) \in Nat /\ High(g) = Low(g) + Len(PathOf(g))
        /\ High(g) <= Len(seh_stack) /\ Len(PathOf(g)) \in Nat
    BY WatermarkFacts, FrameFacts
  <2> QED BY <1>2, <2>1
<1>10. FramesInv'
  <2>1. frames # <<>> /\ frames' # <<>>
    BY <1>2, <1>4
  <2>2. frames'[1] = [seh_depth |-> 0, at |-> Outside]
    <3>1. 1 \in 1..Depth
      BY <1>2
    <3> QED BY <1>4, <2>1, <3>1 DEF FramesInv
  <2>3. ASSUME NEW g \in 1..(Depth + 1)
        PROVE  /\ frames'[g].at[1] = 0 => frames'[g].at = Outside
               /\ High(g)' = Low(g)' + Len(PathOf(g)')
    <3>1. CASE g = Depth + 1
      <4>1. High(g)' = Len(seh_stack) /\ Low(g)' = Len(seh_stack)
            /\ PathOf(g)' = <<>>
        BY <1>2, <1>6, <1>8, <3>1 DEF High, Low, PathOf
      <4> QED BY <1>2, <1>3, <1>4, <3>1, <4>1
    <3>2. CASE g # Depth + 1
      <4>1. g \in 1..Depth
        BY <1>5, <3>2
      <4>2. /\ frames[g].at[1] = 0 => frames[g].at = Outside
            /\ High(g) = Low(g) + Len(PathOf(g))
        BY <4>1 DEF FramesInv
      <4> QED BY <1>4, <1>6, <1>7, <4>1, <4>2
    <3> QED BY <3>1, <3>2
  <2>4. ASSUME NEW g \in 1..(Depth + 1), NEW h \in 1..(Depth + 1), g <= h
        PROVE  Low(g)' <= Low(h)'
    <3>1. CASE g = Depth + 1
      <4>1. h = Depth + 1
        BY <1>2, <1>5, <2>4, <3>1
      <4>2. Low(g)' = Len(seh_stack) /\ Low(h)' = Len(seh_stack)
        BY <1>2, <1>6, <3>1, <4>1 DEF Low
      <4> QED BY <1>2, <4>2
    <3>2. CASE g \in 1..Depth /\ h \in 1..Depth
      BY <1>6, <2>4, <3>2 DEF FramesInv
    <3>3. CASE g \in 1..Depth /\ h = Depth + 1
      <4>1. Low(h)' = Len(seh_stack)
        BY <1>2, <1>6, <3>3 DEF Low
      <4> QED BY <1>6, <1>9, <3>3, <4>1
    <3> QED BY <1>5, <3>1, <3>2, <3>3
  <2> QED BY <1>5, <2>1, <2>2, <2>3, <2>4 DEF FramesInv
<1>11. ASSUME NEW i \in 1..Len(seh_stack), NEW g,
              g = seh_stack[i].saved_frame_depth
       PROVE  g \in 1..(Depth + 1) /\ Low(g)' < i /\ i <= High(g)'
  <2>1. g \in 1..Depth /\ Low(g) < i /\ i <= High(g)
    BY <1>11 DEF RecordsInv
  <2> QED BY <1>2, <1>6, <1>7, <2>1
<1>12. ASSUME NEW g \in 1..(Depth + 1), NEW i \in 1..Len(PathOf(g)')
       PROVE  LET x == seh_stack[Low(g)' + i] IN
              /\ x.saved_frame_depth = g
              /\ Fits(x, PathOf(g)'[i], PartOf(prog, frames[g].at, i)')
              /\ Deferred(x)
  <2>1. g \in 1..Depth
    <3>1. CASE g = Depth + 1
      <4>1. PathOf(g)' = <<>>
        BY <1>2, <1>8, <3>1 DEF PathOf
      <4>2. i \in 1..Len(<<>>) /\ Len(<<>>) = 0
        BY <4>1
      <4> QED BY <4>2
    <3> QED BY <1>5, <3>1
  <2>2. PathOf(g)' = PathOf(g) /\ Low(g)' = Low(g) /\ i \in 1..Len(PathOf(g))
    BY <1>6, <1>7, <2>1
  <2>3. PartOf(prog, frames[g].at, i)' = PartOf(prog, frames[g].at, i)
    BY <1>1, <1>4, <2>1
  <2> QED BY <2>1, <2>2, <2>3 DEF RecordsInv
<1>13. RecordsInv'
  <2>1. \A x : (Deferred(x) <=> Deferred(x)')
    BY <1>1 DEF Deferred, CleanAround
  <2>2. \A x, q, part : (Fits(x, q, part) <=> Fits(x, q, part)')
    BY <1>1 DEF Fits
  <2>3. (\A i \in 1..Len(seh_stack) :
            LET g == seh_stack[i].saved_frame_depth IN
            g \in 1..Depth /\ Low(g) < i /\ i <= High(g))'
    BY <1>1, <1>5, <1>11 DEF Low, High
  <2>4. (\A g \in 1..Depth : \A i \in 1..Len(PathOf(g)) :
            LET x == seh_stack[Low(g) + i] IN
            /\ x.saved_frame_depth = g
            /\ Fits(x, PathOf(g)[i], PartOf(prog, frames[g].at, i))
            /\ Deferred(x))'
    BY <1>1, <1>5, <1>12, <2>1, <2>2
  <2> QED BY <2>3, <2>4 DEF RecordsInv
<1>14. /\ boundaries \in Seq(Boundary) /\ Len(boundaries) \in Nat
       /\ \A i \in 1..Len(boundaries) :
             /\ boundaries[i].frames \in 1..Depth
             /\ boundaries[i].saved_seh = High(boundaries[i].frames)
             /\ boundaries[i].frames < Depth
  <2>1. boundaries \in Seq(Boundary) /\ Len(boundaries) \in Nat
    BY DEF TypeOK
  <2>2. ASSUME NEW i \in 1..Len(boundaries)
        PROVE  boundaries[i].frames < Depth
    <3>1. /\ boundaries # <<>> /\ Len(boundaries) \in 1..Len(boundaries)
          /\ i = Len(boundaries) \/ i < Len(boundaries)
      BY <2>1
    <3>2. InvokeBoundary = boundaries[Len(boundaries)].frames
      BY <3>1, BoundaryFacts
    <3>3. boundaries[i].frames \in 1..Depth
      BY DEF BoundariesInv
    <3>4. i = Len(boundaries)
             \/ boundaries[i].frames < boundaries[Len(boundaries)].frames
      BY <3>1 DEF BoundariesInv
    <3> QED BY <1>1, <1>2, <3>2, <3>3, <3>4
  <2> QED BY <2>1, <2>2 DEF BoundariesInv
<1>15. ASSUME NEW i \in 1..Len(boundaries), NEW f, f = boundaries[i].frames
       PROVE  f \in 1..(Depth + 1) /\ High(f)' = boundaries[i].saved_seh
  BY <1>2, <1>7, <1>14, <1>15
<1>16. /\ boundaries' \in Seq(Boundary)
       /\ (\A i \in 1..Len(boundaries) :
              /\ boundaries[i].frames \in 1..Depth
              /\ boundaries[i].saved_seh = High(boundaries[i].frames))'
       /\ (\A i, j \in 1..Len(boundaries) :
              i < j => boundaries[i].frames < boundaries[j].frames)'
  <2>1. CASE boundaries' = boundaries
    BY <1>5, <1>14, <1>15, <2>1 DEF BoundariesInv, High
  <2>2. CASE boundaries' = Append(boundaries, b)
    <3>1. b \in Boundary /\ b.frames = Depth /\ b.saved_seh = Len(seh_stack)
      BY <1>2 DEF Boundary
    <3> HIDE DEF b
    <3>2. /\ boundaries' \in Seq(Boundary)
          /\ Len(boundaries') = Len(boundaries) + 1
          /\ \A i \in 1..Len(boundaries) : boundaries'[i] = boundaries[i]
          /\ boundaries'[Len(boundaries) + 1] = b
      BY <1>14, <2>2, <3>1, AppendProperties
    <3>3. \A i \in 1..(Len(boundaries) + 1) :
             i = Len(boundaries) + 1 \/ i \in 1..Len(boundaries)
      BY <1>14
    <3>4. High(d)' = Len(seh_stack)
      BY <1>2, <1>7 DEF High
    <3>5. ASSUME NEW i \in 1..(Len(boundaries) + 1), NEW f,
                 f = boundaries'[i].frames
          PROVE  f \in 1..(Depth + 1) /\ boundaries'[i].saved_seh = High(f)'
      <4>1. CASE i = Len(boundaries) + 1
        <5>1. f = Depth /\ boundaries'[i].saved_seh = Len(seh_stack)
          BY <3>1, <3>2, <3>5, <4>1
        <5>2. High(f)' = Len(seh_stack)
          BY <1>2, <3>4, <5>1 DEF High
        <5> QED BY <1>2, <5>1, <5>2
      <4>2. CASE i # Len(boundaries) + 1
        <5>1. i \in 1..Len(boundaries) /\ boundaries'[i] = boundaries[i]
          BY <3>2, <3>3, <4>2
        <5> QED BY <1>15, <3>5, <5>1
      <4> QED BY <4>1, <4>2
    <3>6. ASSUME NEW i \in 1..(Len(boundaries) + 1),
                 NEW j \in 1..(Len(boundaries) + 1), i < j
          PROVE  boundaries'[i].frames < boundaries'[j].frames
      <4>1. i \in 1..Len(boundaries)
        BY <1>14, <3>6
      <4>2. CASE j = Len(boundaries) + 1
        BY <1>14, <3>1, <3>2, <4>1, <4>2
      <4>3. CASE j # Len(boundaries) + 1
        <5>1. j \in 1..Len(boundaries)
          BY <3>3, <4>3
        <5> QED BY <3>2, <3>6, <4>1, <5>1 DEF BoundariesInv
      <4> QED BY <4>2, <4>3
    <3>7. (\A i \in 1..Len(boundaries) :
              /\ boundaries[i].frames \in 1..Depth
              /\ boundaries[i].saved_seh = High(boundaries[i].frames))'
      BY <1>5, <3>2, <3>5 DEF High
    <3> QED BY <3>2, <3>6, <3>7
  <2> QED BY <1>1, <2>1, <2>2
<1>17. BoundariesInv'
  BY <1>1, <1>16 DEF BoundariesInv
<1>18. TypeOK'
  <2>1. Len(frames') <= FrameLimit
    <3>1. FrameLimit \in Nat
      BY FrameLimitPositive DEF TypeOK
    <3> QED BY <1>1, <1>2, <1>4, <3>1
  <2>2. rv' \in Value \cup {NoValue} /\ seh_stack' \in Seq(SehRecord)
    BY <1>1 DEF TypeOK
  <2> QED BY <1>1, <1>4, <1>16, <2>1, <2>2, TypeKept
<1>19. Disciplined
  <2>1. /\ d \in 1..Depth /\ PathOf(d)' = PathOf(d) /\ PathOf(d) \in Seq(Region)
        /\ Low(d) \in Nat /\ Len(PathOf(d)) \in Nat
        /\ Len(seh_stack) = Low(d) + Len(PathOf(d))
    BY <1>2, <1>7, FrameFacts, WatermarkFacts
  <2>2. /\ Len(PathOf(d)) \in 0..Len(PathOf(d))
        /\ NothingDue(Low(d) + Len(PathOf(d)))
        /\ Len(PathOf(d)) <= Len(PathOf(d)')
        /\ \A i \in 1..Len(PathOf(d)) : PathOf(d)'[i] = PathOf(d)[i]
    BY <1>2, <2>1 DEF NothingDue
  <2>3. /\ frames'[d] = frames[d] /\ d <= Len(frames') /\ d = Depth
        /\ \A g \in 1..(d - 1) : frames'[g] = frames[g]
    BY <1>2, <1>4
  <2>4. /\ InvokeBoundary <= d /\ InvokeBoundary # d
        /\ \A i \in 1..Low(d) : seh_stack'[i] = seh_stack[i]
    BY <1>1, <1>2
  <2> QED BY <1>1, <1>4, <2>1, <2>2, <2>3, <2>4, DisciplineFacts
<1> QED BY <1>10, <1>13, <1>17, <1>18, <1>19

LEMMA StepCallReturned ==
    ASSUME UnwindInv, CallReturned
    PROVE  UnwindInv' /\ Disciplined
<1> USE DEF UnwindInv
<1> DEFINE f == InvokeBoundary
           m == Len(boundaries) - 1
<1>1. /\ error = NoValue /\ boundaries # <<>> /\ Depth <= f
      /\ frames' = SubSeq(frames, 1, f)
      /\ seh_stack' = SubSeq(seh_stack, 1, Last(boundaries).saved_seh)
      /\ boundaries' = Front(boundaries)
      /\ prog' = prog /\ rv' = rv /\ error' = NoValue
  BY DEF CallReturned
<1>2. /\ f \in 1..Depth /\ m \in 0..Len(boundaries)
      /\ seh_stack' = SubSeq(seh_stack, 1, High(f))
      /\ boundaries' = SubSeq(boundaries, 1, m)
      /\ m > 0 => boundaries[m].frames < f
  BY <1>1, BoundaryFacts
<1> HIDE DEF f, m
<1>3. /\ FramesInv' /\ RecordsInv'
      /\ frames' \in Seq(Frame) /\ Len(frames') = f
      /\ seh_stack' \in Seq(SehRecord)
  BY <1>1, <1>2, LandingBack
<1>4. \A g \in 1..f : frames'[g].seh_depth = Low(g)
  <2>1. f \in 0..Len(frames) /\ frames \in Seq(Frame)
    BY <1>2 DEF TypeOK, Depth
  <2>2. \A g \in 1..f : frames'[g] = frames[g]
    BY <1>1, <2>1, CutFacts
  <2> QED BY <2>2 DEF Low
<1>5. BoundariesInv' /\ boundaries' \in Seq(Boundary)
  BY <1>1, <1>2, <1>3, <1>4, BoundariesKept
<1>6. TypeOK'
  <2>1. Len(frames') <= FrameLimit
    <3>1. f <= Len(frames) /\ Len(frames) \in Nat /\ Len(frames) <= FrameLimit
      BY <1>2 DEF TypeOK, Depth
    <3>2. FrameLimit \in Nat /\ f \in Nat
      BY <1>2, FrameLimitPositive DEF TypeOK
    <3> QED BY <1>3, <3>1, <3>2
  <2>2. rv' \in Value \cup {NoValue}
    BY <1>1 DEF TypeOK
  <2> QED BY <1>1, <1>3, <1>5, <2>1, <2>2, TypeKept
<1>7. Disciplined
  <2>1. f = Depth /\ Depth \in Nat
    BY <1>1, <1>2 DEF TypeOK, Depth
  <2>2. High(f) = Len(seh_stack) /\ Len(seh_stack) \in Nat
    BY <1>2, <2>1, WatermarkFacts
  <2>3. NothingDue(High(f)) /\ InvokeBoundary <= f
    BY <1>2, <2>1, <2>2 DEF NothingDue, f
  <2> QED BY <1>1, <1>2, <2>3, DisciplineBack
<1> QED BY <1>3, <1>5, <1>6, <1>7

\* The script's frame, alone or not at all.
Fresh ==
    /\ prog \in Programs
    /\ \/ frames = <<>>
       \/ frames = <<[seh_depth |-> 0, at |-> Outside]>>
    /\ seh_stack = <<>> /\ boundaries = <<>>
    /\ rv \in Value \cup {NoValue} /\ error = NoValue

LEMMA FreshInv == Fresh => UnwindInv
<1> SUFFICES ASSUME Fresh PROVE UnwindInv
  OBVIOUS
<1> USE DEF Fresh
<1> DEFINE first == [seh_depth |-> 0, at |-> Outside]
<1>1. /\ first \in Frame /\ <<first>> \in Seq(Frame) /\ <<>> \in Seq(Frame)
      /\ <<>> \in Seq(SehRecord) /\ <<>> \in Seq(Boundary)
      /\ Len(<<first>>) = 1 /\ Len(<<>>) = 0 /\ <<first>>[1] = first
      /\ first.seh_depth = 0 /\ first.at = Outside /\ <<first>> # <<>>
  BY RegionAssumption DEF Frame, Place, Parts, Outside
<1>2. FrameLimit \in Nat \ {0}
  <2>1. Present(prog) \subseteq 1..NumRegions
    BY DEF Present, Region
  <2>2. IsFiniteSet(1..NumRegions) /\ Cardinality(1..NumRegions) = NumRegions
    BY RegionAssumption, FS_Interval
  <2>3. /\ Cardinality(Present(prog)) \in Nat
        /\ Cardinality(Present(prog)) <= NumRegions
    BY <2>1, <2>2, FS_Subset, FS_CardinalityType
  <2>4. Cardinality(Present(prog)) \in 0..NumRegions
    BY <2>3, RegionAssumption
  <2> QED BY <2>4, UnwindingAssumption DEF FrameLimit
<1> HIDE DEF first
<1>3. TypeOK
  <2>1. frames \in Seq(Frame) /\ Len(frames) \in 0..1
    <3>1. CASE frames = <<>>
      BY <1>1, <3>1
    <3>2. CASE frames = <<first>>
      BY <1>1, <3>2
    <3> QED BY <3>1, <3>2 DEF first
  <2>2. Len(frames) <= FrameLimit
    <3>1. \A a \in 0..1, b \in Nat \ {0} : a <= b
      OBVIOUS
    <3> QED BY <1>2, <2>1, <3>1, Zenon
  <2>3. rv \in Value \cup {NoValue} /\ error \in Value \cup {NoValue}
    OBVIOUS
  <2> QED BY <1>1, <2>1, <2>2, <2>3 DEF TypeOK
<1>4. CASE frames = <<>>
  <2>1. Depth = 0 /\ \A i \in 1..0 : FALSE
    BY <1>1, <1>4 DEF Depth
  <2>2. FramesInv
    BY <1>4, <2>1 DEF FramesInv
  <2>3. RecordsInv
    BY <1>1, <2>1 DEF RecordsInv
  <2>4. BoundariesInv
    BY <1>1, <2>1 DEF BoundariesInv
  <2> QED BY <1>3, <2>2, <2>3, <2>4 DEF UnwindInv
<1>5. CASE frames = <<first>>
  <2>1. /\ Depth = 1 /\ frames[1] = first /\ \A i \in 1..0 : FALSE
        /\ \A f \in 1..1 : f = 1
    BY <1>1, <1>5 DEF Depth
  <2>2. PathOf(1) = <<>> /\ Low(1) = 0 /\ High(1) = 0
    <3>1. PathOf(1) = Path(prog, 0)
      BY <1>1, <2>1 DEF PathOf, Outside
    <3> QED BY <1>1, <2>1, <3>1, PathUnfolds DEF Low, High
  <2>3. FramesInv
    <3>1. ASSUME NEW f \in 1..1
          PROVE  /\ frames[f].at[1] = 0 => frames[f].at = Outside
                 /\ High(f) = Low(f) + Len(PathOf(f))
                 /\ Low(f) <= Low(f)
      <4>1. f = 1
        BY <2>1
      <4>2. PathOf(f) = <<>> /\ Low(f) = 0 /\ High(f) = 0
        BY <2>1, <2>2, <4>1 DEF PathOf, Low, High
      <4> QED BY <1>1, <2>1, <4>1, <4>2
    <3>2. \A f, g \in 1..1 : f <= g => Low(f) <= Low(g)
      <4> TAKE f, g \in 1..1
      <4>1. f = g
        BY <2>1
      <4> QED BY <3>1, <4>1
    <3>3. frames # <<>>
      BY <1>1, <1>5
    <3> QED BY <2>1, <3>1, <3>2, <3>3 DEF FramesInv, first
  <2>4. RecordsInv
    <3>1. \A f \in 1..1 : Len(PathOf(f)) = 0
      <4> TAKE f \in 1..1
      <4>1. f = 1
        BY <2>1
      <4>2. PathOf(f) = <<>>
        BY <2>2, <4>1 DEF PathOf
      <4> QED BY <1>1, <4>2
    <3> QED BY <1>1, <2>1, <3>1 DEF RecordsInv
  <2>5. BoundariesInv
    BY <1>1, <2>1 DEF BoundariesInv
  <2> QED BY <1>3, <2>3, <2>4, <2>5 DEF UnwindInv
<1> QED BY <1>4, <1>5 DEF first

LEMMA FreshInvNext == Fresh' => UnwindInv'
  BY FreshInv, PTL

\* A step that leaves the frames, the records and the boundaries alone, and
\* hands a builtin no exception it did not have.
LEMMA UntouchedKeeps ==
    ASSUME UnwindInv, frames' = frames, seh_stack' = seh_stack,
           boundaries' = boundaries, prog' = prog, rv' = rv,
           error' \in {error, NoValue}
    PROVE  UnwindInv' /\ Disciplined
<1> USE DEF UnwindInv
<1>1. TypeOK'
  <2>1. FrameLimit' = FrameLimit
    BY DEF FrameLimit
  <2>2. error' \in Value \cup {NoValue}
    BY DEF TypeOK
  <2> QED BY <2>1, <2>2 DEF TypeOK
<1>2. Depth' = Depth /\ \A f : /\ Low(f)' = Low(f) /\ PathOf(f)' = PathOf(f)
                               /\ High(f)' = High(f)
  BY DEF Depth, Low, High, PathOf
<1>3. FramesInv'
  BY <1>2 DEF FramesInv
<1>4. RecordsInv'
  <2>1. \A x : (Deferred(x) <=> Deferred(x)')
    BY DEF Deferred, CleanAround
  <2>2. \A x, q, part : (Fits(x, q, part) <=> Fits(x, q, part)')
    BY DEF Fits
  <2> QED BY <1>2, <2>1, <2>2 DEF RecordsInv, Low, High, Depth, PathOf
<1>5. BoundariesInv'
  <2>1. InvokeBoundary' = InvokeBoundary
    BY DEF InvokeBoundary
  <2> QED BY <1>2, <2>1 DEF BoundariesInv, High, Low
<1>6. Disciplined
  <2>1. KeepsFinally
    <3> SUFFICES ASSUME NEW g \in DOMAIN frames, NEW i \in DOMAIN PathOf(g)
                 PROVE  /\ g \in DOMAIN frames'
                        /\ \E j \in DOMAIN PathOf(g)' : PathOf(g)'[j] = PathOf(g)[i]
      BY DEF KeepsFinally
    <3>1. PathOf(g)' = PathOf(g)
      BY <1>2
    <3>2. i \in DOMAIN PathOf(g)' /\ PathOf(g)'[i] = PathOf(g)[i]
      BY <3>1
    <3> QED BY <3>2
  <2>2. EntersOwnCatch /\ KeepsCallers
    BY DEF EntersOwnCatch, KeepsCallers
  <2> QED BY <2>1, <2>2 DEF Disciplined
<1> QED BY <1>1, <1>3, <1>4, <1>5, <1>6

LEMMA StepSwallow ==
    ASSUME UnwindInv, Swallow
    PROVE  UnwindInv' /\ Disciplined
  BY UntouchedKeeps DEF Swallow

LEMMA StepNothing ==
    ASSUME UnwindInv, UNCHANGED vars
    PROVE  UnwindInv' /\ Disciplined
  BY UntouchedKeeps DEF vars

LEMMA StepHalt ==
    ASSUME UnwindInv, Halt
    PROVE  UnwindInv' /\ Disciplined
<1> USE DEF UnwindInv
<1>1. /\ error = NoValue /\ Depth > InvokeBoundary /\ Depth = 1
      /\ frames' = <<>> /\ seh_stack' = <<>>
      /\ prog' = prog /\ boundaries' = boundaries /\ rv' = rv /\ error' = error
  BY DEF Halt, Stepping
<1>2. boundaries = <<>>
  <2>1. boundaries # <<>> => InvokeBoundary \in 1..Depth
    BY BoundaryFacts
  <2> QED BY <1>1, <2>1
<1>3. /\ prog' \in Programs /\ rv' \in Value \cup {NoValue}
      /\ error' = NoValue /\ boundaries' = <<>>
  BY <1>1, <1>2 DEF TypeOK
<1>4. seh_stack = <<>>
  <2>1. /\ Depth \in 1..Depth /\ frames # <<>> /\ frames[1].at[1] = 0
        /\ frames[1].seh_depth = 0
    BY <1>1 DEF FramesInv, Outside, Depth
  <2>2. PathOf(1) = <<>> /\ Low(1) = 0
    BY <2>1, PathUnfolds DEF PathOf, Low, TypeOK
  <2>3. Len(seh_stack) = Low(1) + Len(PathOf(1))
    BY <1>1, <2>1, WatermarkFacts
  <2> QED BY <2>2, <2>3 DEF TypeOK
<1>5. NothingDue(0)
  BY <1>4 DEF NothingDue
<1> QED BY <1>1, <1>2, <1>3, <1>5, FreshInvNext, DisciplineAtEnd DEF Fresh

LEMMA StepRun ==
    ASSUME UnwindInv, Run
    PROVE  UnwindInv' /\ Disciplined
<1> USE DEF UnwindInv
<1>1. /\ frames = <<>> /\ seh_stack' = <<>> /\ boundaries' = <<>>
      /\ frames' = <<[seh_depth |-> 0, at |-> Outside]>> /\ rv' = NoValue
      /\ prog' = prog /\ error' = error
  BY DEF Run
<1>2. prog' \in Programs /\ error' = NoValue
  BY <1>1 DEF FramesInv, TypeOK
<1>3. Disciplined
  <2>1. DOMAIN frames = {}
    BY <1>1
  <2>2. boundaries = <<>>
    BY <1>1 DEF FramesInv
  <2> QED BY <2>1, <2>2 DEF Disciplined, KeepsFinally, EntersOwnCatch, KeepsCallers
<1> QED BY <1>1, <1>2, <1>3, FreshInvNext DEF Fresh

-----------------------------------------------------------------------------
(* Theorems.                                                               *)

LEMMA InitInv ==
    ASSUME Init
    PROVE  UnwindInv
  BY FreshInv DEF Init, Fresh

LEMMA NextInv ==
    ASSUME UnwindInv, AnyExit = FALSE, [Next]_vars
    PROVE  UnwindInv' /\ Disciplined
<1>1. CASE UNCHANGED vars
  BY <1>1, StepNothing
<1>2. CASE \E r \in Region : Try(r)
  BY <1>2, StepTry
<1>3. CASE \E k \in Region : DelayedJump(k)
  BY <1>3, StepDelayedJump
<1>4. CASE \E v \in Value : Return(v)
  BY <1>4, StepReturn
<1>5. CASE (\E v \in Value : Throw(v)) \/ Propagate
  BY <1>5, StepThrow
<1>6. CASE EndTry
  BY <1>6, StepEndTry
<1>7. CASE ResumeExc
  BY <1>7, StepResumeExc
<1>8. CASE Call \/ CallFromBuiltin
  BY <1>8, StepCall
<1>9. CASE CallReturned
  BY <1>9, StepCallReturned
<1>10. CASE Swallow
  BY <1>10, StepSwallow
<1>11. CASE Halt
  BY <1>11, StepHalt
<1>12. CASE Run
  BY <1>12, StepRun
<1> QED BY <1>1, <1>2, <1>3, <1>4, <1>5, <1>6, <1>7, <1>8, <1>9, <1>10,
           <1>11, <1>12 DEF Next

\* In every state of every execution the frames, the exception stack and the
\* boundaries fit together as UnwindInv says.
THEOREM UnwindInvariance ==
    ASSUME AnyExit = FALSE
    PROVE  Spec => []UnwindInv
<1>1. Init => UnwindInv
  BY InitInv
<1>2. UnwindInv /\ [Next]_vars => UnwindInv'
  BY NextInv
<1> QED BY <1>1, <1>2, PTL DEF Spec

\* Every record belongs to a frame that is there and lies in its part of the
\* stack, a frame has one record at most of a region, and neither a frame's
\* watermark nor a builtin's boundary reaches above what it marks.
StacksFit ==
    /\ \A i \in 1..Len(seh_stack) :
          LET f == seh_stack[i].saved_frame_depth IN
          f \in 1..Depth /\ Low(f) < i /\ i <= High(f)
    /\ \A i, j \in 1..Len(seh_stack) :
          /\ seh_stack[i].saved_frame_depth = seh_stack[j].saved_frame_depth
          /\ seh_stack[i].region = seh_stack[j].region
          => i = j
    /\ \A f \in 1..Depth : Low(f) <= High(f) /\ High(f) <= Len(seh_stack)
    /\ \A i \in 1..Len(boundaries) :
          /\ boundaries[i].frames <= Depth
          /\ boundaries[i].saved_seh <= Len(seh_stack)

LEMMA StacksFitTogether ==
    ASSUME UnwindInv
    PROVE  StacksFit
<1> USE DEF UnwindInv
<1>1. ASSUME NEW i \in 1..Len(seh_stack), NEW j \in 1..Len(seh_stack),
             seh_stack[i].saved_frame_depth = seh_stack[j].saved_frame_depth,
             seh_stack[i].region = seh_stack[j].region
      PROVE  i = j
  <2> DEFINE f == seh_stack[i].saved_frame_depth
             k == i - Low(f)
             l == j - Low(f)
  <2>1. /\ f \in 1..Depth /\ k \in 1..Len(PathOf(f)) /\ i = Low(f) + k
        /\ l \in 1..Len(PathOf(f)) /\ j = Low(f) + l
    BY <1>1, OwnerFacts
  <2> HIDE DEF f, k, l
  <2>2. PathOf(f)[k] = PathOf(f)[l]
    BY <1>1, <2>1, RecordFacts
  <2>3. /\ Len(Path(prog, PathOf(f)[k])) = k
        /\ Len(Path(prog, PathOf(f)[l])) = l
    <3>1. PathProperties(prog, frames[f].at[1])
      BY <2>1, FrameFacts
    <3> QED BY <2>1, <3>1 DEF PathProperties, PathOf
  <2> QED BY <2>1, <2>2, <2>3
<1>2. \A f \in 1..Depth : Low(f) <= High(f) /\ High(f) <= Len(seh_stack)
  <2> TAKE f \in 1..Depth
  <2> QED BY WatermarkFacts, FrameFacts
<1>3. ASSUME NEW i \in 1..Len(boundaries)
      PROVE  /\ boundaries[i].frames <= Depth
             /\ boundaries[i].saved_seh <= Len(seh_stack)
  <2>1. /\ boundaries[i].frames \in 1..Depth
        /\ boundaries[i].saved_seh = High(boundaries[i].frames)
    BY DEF BoundariesInv
  <2> QED BY <1>2, <2>1
<1>4. \A i \in 1..Len(seh_stack) :
         LET f == seh_stack[i].saved_frame_depth IN
         f \in 1..Depth /\ Low(f) < i /\ i <= High(f)
  BY DEF RecordsInv
<1> QED BY <1>1, <1>2, <1>3, <1>4 DEF StacksFit

\* The state is of its types, no depth of calls exceeds the cap of enter_frame,
\* and the three stacks fit together as StacksFit says, whatever is thrown.
THEOREM UnwindTypes ==
    ASSUME AnyExit = FALSE
    PROVE  Spec => [](TypeOK /\ StacksFit)
<1>1. UnwindInv => TypeOK /\ StacksFit
  BY StacksFitTogether DEF UnwindInv
<1> QED BY <1>1, UnwindInvariance, PTL

LEMMA RecordsMatch ==
    ASSUME UnwindInv
    PROVE  RecordsMatchRegions
<1> USE DEF UnwindInv
<1> SUFFICES ASSUME NEW f \in 1..Depth
             PROVE  /\ {i \in 1..Len(seh_stack) :
                          seh_stack[i].saved_frame_depth < f} = 1..Low(f)
                    /\ RecordsAt(f) = (Low(f) + 1)..(Low(f) + Len(PathOf(f)))
                    /\ \A i \in 1..Len(PathOf(f)) :
                          Fits(seh_stack[Low(f) + i], PathOf(f)[i],
                               PartOf(prog, frames[f].at, i))
  <2>1. /\ DOMAIN frames = 1..Depth
        /\ DOMAIN seh_stack = 1..Len(seh_stack)
        /\ \A f \in 1..Depth : DOMAIN PathOf(f) = 1..Len(PathOf(f))
    <3>1. \A f \in 1..Depth : PathOf(f) \in Seq(Region)
      BY FrameFacts
    <3> QED BY <3>1 DEF TypeOK, Depth
  <2> QED BY <2>1 DEF RecordsMatchRegions
<1>1. /\ Low(f) \in Nat /\ High(f) \in Nat /\ Len(PathOf(f)) \in Nat
      /\ High(f) = Low(f) + Len(PathOf(f))
      /\ High(f) <= Len(seh_stack) /\ Len(seh_stack) \in Nat /\ Depth \in Nat
  BY FrameFacts, WatermarkFacts
<1>2. ASSUME NEW i \in 1..Len(seh_stack), NEW g,
             g = seh_stack[i].saved_frame_depth
      PROVE  /\ g < f => i \in 1..Low(f)
             /\ g = f => i \in (Low(f) + 1)..(Low(f) + Len(PathOf(f)))
             /\ i <= Low(f) => g < f
  <2>1. g \in 1..Depth /\ Low(g) < i /\ i <= High(g)
    BY <1>2 DEF RecordsInv
  <2>2. /\ Low(g) \in Nat /\ High(g) \in Nat
        /\ g < f => High(g) <= Low(f)
    BY <2>1, WatermarkFacts
  <2>3. f <= g => Low(f) <= Low(g)
    BY <2>1 DEF FramesInv
  <2>4. g = f => High(g) = High(f) /\ Low(g) = Low(f)
    OBVIOUS
  <2> QED BY <1>1, <2>1, <2>2, <2>3, <2>4
<1>3. \A i \in 1..Low(f) : i \in 1..Len(seh_stack)
  BY <1>1
<1>4. \A i \in 1..Len(PathOf(f)) :
         /\ Low(f) + i \in 1..Len(seh_stack)
         /\ seh_stack[Low(f) + i].saved_frame_depth = f
         /\ Fits(seh_stack[Low(f) + i], PathOf(f)[i],
                 PartOf(prog, frames[f].at, i))
  BY RecordFacts
<1>5. {i \in 1..Len(seh_stack) : seh_stack[i].saved_frame_depth < f} = 1..Low(f)
  BY <1>2, <1>3
<1>6. RecordsAt(f) = (Low(f) + 1)..(Low(f) + Len(PathOf(f)))
  <2>1. DOMAIN seh_stack = 1..Len(seh_stack)
    BY DEF TypeOK
  <2>2. ASSUME NEW j \in (Low(f) + 1)..(Low(f) + Len(PathOf(f)))
        PROVE  j \in 1..Len(seh_stack) /\ seh_stack[j].saved_frame_depth = f
    <3>1. j - Low(f) \in 1..Len(PathOf(f)) /\ j = Low(f) + (j - Low(f))
      BY <1>1
    <3> QED BY <1>4, <3>1
  <2> QED BY <1>2, <2>1, <2>2 DEF RecordsAt
<1> QED BY <1>4, <1>5, <1>6

\* The records of every frame are exactly the regions its pc is in, whichever
\* instructions, exceptions and builtin calls led there.
THEOREM RecordsCorrect ==
    ASSUME AnyExit = FALSE
    PROVE  Spec => []RecordsMatchRegions
<1>1. UnwindInv => RecordsMatchRegions
  BY RecordsMatch
<1> QED BY <1>1, UnwindInvariance, PTL

\* A try or catch part of a region with a finally is left only through that
\* finally, by whatever exception, return, break or end of another finally.
THEOREM FinallyGuaranteed ==
    ASSUME AnyExit = FALSE
    PROVE  Spec => NoFinallySkipped
<1>1. UnwindInv /\ [Next]_vars => [KeepsFinally]_vars
  BY NextInv DEF Disciplined
<1> QED BY <1>1, UnwindInvariance, PTL DEF Spec, NoFinallySkipped

\* A catch clause takes exceptions of the try part it belongs to only, and no
\* step reaches the frames and records below a builtin's call.
THEOREM CaughtInPlace ==
    ASSUME AnyExit = FALSE
    PROVE  Spec => TakenWhereItBelongs
<1>1. UnwindInv /\ [Next]_vars => [EntersOwnCatch /\ KeepsCallers]_vars
  BY NextInv DEF Disciplined
<1> QED BY <1>1, UnwindInvariance, PTL DEF Spec, TakenWhereItBelongs
=============================================================================
