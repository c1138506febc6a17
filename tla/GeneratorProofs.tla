-------------------------- MODULE GeneratorProofs --------------------------
(***************************************************************************)
(* Theorems about Generators: however generators create, resume, delegate  *)
(* to and throw into each other, every frame finds its own on the shared   *)
(* stacks.                                                                 *)
(***************************************************************************)
EXTENDS Generators, StackLemmas

(* The shared stacks, layer by layer: fr, cl and recs are frames, closures *)
(* and seh, or what handle_throw is about to make of them.                 *)

\* Watermarks rise with the frames and stay below the tops.
Watermarks(fr, cl, recs) ==
    /\ \A i, j \in 1..Len(fr) : i <= j =>
          /\ fr[i].closure_depth <= fr[j].closure_depth
          /\ fr[i].seh_depth <= fr[j].seh_depth
    /\ \A i \in 1..Len(fr) : /\ fr[i].closure_depth <= Len(cl)
                             /\ fr[i].seh_depth <= Len(recs)

\* Every cell is of the topmost frame that begins below it.
CellsOwned(fr, cl) ==
    \A k \in 1..Len(cl) : \E f \in 1..Len(fr) :
        /\ fr[f].closure_depth < k /\ cl[k] = fr[f].gen
        /\ \A j \in 1..Len(fr) : j > f => k <= fr[j].closure_depth

\* A record was pushed by the body of the frame it notes and lies between the
\* watermarks of that frame, and so does the depth of the environment it notes.
RecordFits(fr, cl, recs, k) ==
    LET f == recs[k].saved_frame_depth
        c == recs[k].saved_closure_depth
    IN  /\ f \in 1..Len(fr) /\ recs[k].owner = fr[f].gen
        /\ fr[f].at # "prologue"
        /\ recs[k].mode = "returning" => f > 1
        /\ fr[f].seh_depth < k
        /\ fr[f].closure_depth <= c /\ c <= Len(cl)
        /\ \A j \in 1..Len(fr) : j > f => /\ k <= fr[j].seh_depth
                                          /\ c <= fr[j].closure_depth

\* Records nest: a later one was pushed on an environment at least as deep.
Rising(recs) ==
    \A i, j \in 1..Len(recs) : i <= j =>
        recs[i].saved_closure_depth <= recs[j].saved_closure_depth

Layered(fr, cl, recs) ==
    /\ Watermarks(fr, cl, recs)
    /\ CellsOwned(fr, cl)
    /\ \A k \in 1..Len(recs) : RecordFits(fr, cl, recs, k)
    /\ Rising(recs)

(* Resumptions and the frames they run.                                    *)

\* The frame a resumption runs sits where the resumption saved the stacks.
ResumptionFits(fr, dels, r) ==
    /\ r.frame_depth \in 1..(Len(fr) - 1)
    /\ fr[r.frame_depth + 1].gen = r.gen
    /\ fr[r.frame_depth + 1].closure_depth = r.closure
    /\ fr[r.frame_depth + 1].seh_depth = r.seh
    /\ r.closure <= r.closure_depth /\ r.delegate <= Len(dels)
    /\ r.prologue => fr[r.frame_depth + 1].at = "prologue"

\* Resumptions are nested, one per generator, and each frame of a generator
\* has its own.  running_generator_prologue is set inside every prologue.
ResumesInv(fr, dels, rs) ==
    /\ \A i \in 1..Len(rs) : ResumptionFits(fr, dels, rs[i])
    /\ \A i, j \in 1..Len(rs) : i < j =>
          /\ rs[i].frame_depth < rs[j].frame_depth
          /\ rs[i].delegate <= rs[j].delegate
          /\ rs[i].gen # rs[j].gen
          /\ rs[i].prologue => rs[j].flag
    /\ \A f \in 1..Len(fr) : fr[f].gen # 0 \/ fr[f].at # "body" =>
          \E i \in 1..Len(rs) :
              /\ rs[i].frame_depth + 1 = f
              /\ fr[f].at = "prologue" => rs[i].prologue

\* The delegates of a body begin where its resumption saved the stack.
DelegateOwned(dels, rs, k) ==
    \E i \in 1..Len(rs) :
        /\ rs[i].delegate < k /\ dels[k] = rs[i].gen
        /\ \A j \in 1..Len(rs) : j > i => k <= rs[j].delegate

\* Past the cap, a refused resumption leaves its delegates behind, for the
\* end of the resumption around it to clear.
DelegatesInv(dels, rs, err) ==
    \A k \in 1..Len(dels) :
        \/ DelegateOwned(dels, rs, k)
        \/ /\ err /\ "deep" \in Uses
           /\ \A j \in 1..Len(rs) : rs[j].delegate < k

(* Generators and their frames.                                            *)

Active(g, rs) == \E i \in 1..Len(rs) : rs[i].gen = g
Binding(g, rs) == \E i \in 1..Len(rs) : rs[i].gen = g /\ rs[i].prologue
CellsOf(g, cl) == {k \in 1..Len(cl) : cl[k] = g}

\* What a parked frame holds is its own, and its records nest.
ParkedFits(g) ==
    LET s == suspended[g]
    IN  /\ s \in SuspendedFrame /\ s.at = "body"
        /\ \A k \in 1..Len(s.closure_maps) : s.closure_maps[k] = g
        /\ \A k \in 1..Len(s.delegates) : s.delegates[k] = g
        /\ \A k \in 1..Len(s.seh) : s.seh[k].owner = g
        /\ Rising(s.seh)
        /\ state[g] = "SuspendedStart" => s.seh = <<>>
        /\ limits.tries = 0 => s.seh = <<>>
        /\ Len(s.closure_maps) <= cells[g]

\* The state of a generator against where its frame is.
PlaceFits(g) ==
    /\ Parked(g) => /\ state[g] \in {"SuspendedStart", "SuspendedYield"}
                    /\ ~Active(g, resumes)
                    /\ ParkedFits(g)
    /\ state[g] = "SuspendedYield" => Parked(g)
    /\ state[g] = "SuspendedStart" => Parked(g) \/ Binding(g, resumes)
    /\ state[g] = "Executing" =>
          Active(g, resumes) \/ Uses \cap {"deep", "delegate"} # {}
    /\ state[g] = "none" => ~Active(g, resumes)
    /\ Active(g, resumes) => Cardinality(CellsOf(g, closures)) <= cells[g]

GenTypes ==
    /\ state \in [Gen -> States] /\ cells \in [Gen -> Nat]
    /\ suspended \in [Gen -> SuspendedFrame \cup {NoFrame}]
    /\ frames \in Seq(Frame) /\ Len(frames) \in 1..MaxFrames
    /\ closures \in Seq(Owner) /\ delegates \in Seq(Gen)
    /\ seh \in Seq(Record) /\ resumes \in Seq(Resume)
    /\ prologue \in BOOLEAN /\ error \in BOOLEAN /\ limits \in Setups

GenInv ==
    /\ GenTypes
    /\ Layered(frames, closures, seh)
    /\ ResumesInv(frames, delegates, resumes)
    /\ (\E i \in 1..Len(resumes) : resumes[i].prologue) => prologue
    /\ DelegatesInv(delegates, resumes, error)
    /\ limits.tries = 0 => seh = <<>>
    /\ \A g \in Gen : PlaceFits(g)
-----------------------------------------------------------------------------
(* Sequences that agree.                                                   *)

\* t is the first n entries of s; t keeps the first n entries of s.
Cut(t, s, n) == n <= Len(s) /\ Len(t) = n /\ \A i \in 1..n : t[i] = s[i]
Keeps(t, s, n) == n <= Len(s) /\ n <= Len(t) /\ \A i \in 1..n : t[i] = s[i]

\* Frames that differ in where they are, records that differ in their mode.
SameFrames(fr, gr) ==
    /\ Len(gr) = Len(fr)
    /\ \A i \in 1..Len(fr) : /\ gr[i].gen = fr[i].gen
                             /\ gr[i].closure_depth = fr[i].closure_depth
                             /\ gr[i].seh_depth = fr[i].seh_depth
                             /\ gr[i].at = "prologue" <=> fr[i].at = "prologue"
SameRecords(recs, qecs) ==
    /\ Len(qecs) = Len(recs)
    /\ \A k \in 1..Len(recs) :
          /\ qecs[k].owner = recs[k].owner
          /\ qecs[k].saved_frame_depth = recs[k].saved_frame_depth
          /\ qecs[k].saved_closure_depth = recs[k].saved_closure_depth
          /\ qecs[k].mode = "returning" /\ recs[k].mode # "returning"
                => recs[k].saved_frame_depth > 1

\* A height at which the stacks can be cut and stay layered: n frames, c cells
\* and m records.
CutPoint(fr, cl, recs, n, c, m) ==
    /\ n \in 1..Len(fr) /\ c \in 0..Len(cl) /\ m \in 0..Len(recs)
    /\ fr[n].closure_depth <= c /\ fr[n].seh_depth <= m
    /\ \A j \in 1..Len(fr) : j > n => /\ c <= fr[j].closure_depth
                                      /\ m <= fr[j].seh_depth
    /\ \A k \in 1..m : recs[k].saved_closure_depth <= c

\* SubSeq and Truncate cut.
LEMMA CutIsCut ==
    ASSUME NEW S, NEW s \in Seq(S), NEW n \in 0..Len(s)
    PROVE  SubSeq(s, 1, n) \in Seq(S) /\ Cut(SubSeq(s, 1, n), s, n)
BY CutFacts DEF Cut

LEMMA TruncateCuts ==
    ASSUME NEW S, NEW s \in Seq(S), NEW n \in Nat
    PROVE  /\ Truncate(s, n) \in Seq(S)
           /\ n <= Len(s) => Cut(Truncate(s, n), s, n)
           /\ n >= Len(s) => Truncate(s, n) = s
<1>0. Len(s) \in Nat
  OBVIOUS
<1>1. CASE n <= Len(s)
  <2>1. Min({n, Len(s)}) = n
    BY <1>0, <1>1 DEF Min
  <2>2. n \in 0..Len(s)
    BY <1>0, <1>1
  <2>3. Truncate(s, n) = SubSeq(s, 1, n)
    BY <2>1 DEF Truncate
  <2>4. n >= Len(s) => SubSeq(s, 1, n) = s
    <3>1. SUFFICES ASSUME n >= Len(s) PROVE SubSeq(s, 1, n) = s
      OBVIOUS
    <3>2. n = Len(s)
      BY <3>1, <1>1, <1>0
    <3> QED
      BY <3>2
  <2> QED
    BY <2>2, <2>3, <2>4, CutIsCut
<1>2. CASE n > Len(s)
  <2>1. Min({n, Len(s)}) = Len(s)
    BY <1>0, <1>2 DEF Min
  <2>2. Truncate(s, n) = SubSeq(s, 1, Len(s))
    BY <2>1 DEF Truncate
  <2>3. SubSeq(s, 1, Len(s)) = s
    OBVIOUS
  <2> QED
    BY <2>2, <2>3, <1>2, <1>0
<1> QED
  BY <1>0, <1>1, <1>2

\* The fields of what lies on the stacks.
LEMMA StackTypes ==
    ASSUME NEW fr \in Seq(Frame), NEW cl \in Seq(Owner), NEW recs \in Seq(Record)
    PROVE  /\ Len(fr) \in Nat /\ Len(cl) \in Nat /\ Len(recs) \in Nat
           /\ \A i \in 1..Len(fr) : /\ fr[i] \in Frame /\ fr[i].gen \in Owner
                                    /\ fr[i].closure_depth \in Nat
                                    /\ fr[i].seh_depth \in Nat
           /\ \A k \in 1..Len(cl) : cl[k] \in Owner
           /\ \A k \in 1..Len(recs) : /\ recs[k] \in Record
                                      /\ recs[k].owner \in Owner
                                      /\ recs[k].saved_frame_depth \in Nat
                                      /\ recs[k].saved_closure_depth \in Nat
<1>1. Len(fr) \in Nat /\ Len(cl) \in Nat /\ Len(recs) \in Nat
  OBVIOUS
<1>2. \A i \in 1..Len(fr) : fr[i] \in Frame
  OBVIOUS
<1>3. \A i \in 1..Len(recs) : recs[i] \in Record
  OBVIOUS
<1>4. \A k \in 1..Len(cl) : cl[k] \in Owner
  OBVIOUS
<1>5. \A x \in Frame : /\ x.gen \in Owner /\ x.closure_depth \in Nat
                       /\ x.seh_depth \in Nat
  BY DEF Frame
<1>6. \A x \in Record : /\ x.owner \in Owner /\ x.saved_frame_depth \in Nat
                        /\ x.saved_closure_depth \in Nat
  BY DEF Record
<1> QED
  BY <1>1, <1>2, <1>3, <1>4, <1>5, <1>6

\* Layered stacks cut at such a height are layered.
LEMMA LayersCut ==
    ASSUME NEW fr \in Seq(Frame), NEW cl \in Seq(Owner), NEW recs \in Seq(Record),
           NEW fs, NEW cs, NEW rs, NEW n, NEW c, NEW m,
           Layered(fr, cl, recs), CutPoint(fr, cl, recs, n, c, m),
           Cut(fs, fr, n), Cut(cs, cl, c), Cut(rs, recs, m)
    PROVE  Layered(fs, cs, rs)
<1>1. /\ n \in Nat /\ c \in Nat /\ m \in Nat
      /\ 1 <= n /\ n <= Len(fr) /\ c <= Len(cl) /\ m <= Len(recs)
      /\ Len(fr) \in Nat /\ Len(cl) \in Nat /\ Len(recs) \in Nat
  BY StackTypes DEF CutPoint
<1>2. Len(fs) = n /\ Len(cs) = c /\ Len(rs) = m
  BY DEF Cut
<1>3. /\ \A i \in 1..n : fs[i] = fr[i]
      /\ \A i \in 1..c : cs[i] = cl[i]
      /\ \A i \in 1..m : rs[i] = recs[i]
  BY DEF Cut
<1>4. /\ \A i \in 1..Len(fr) : /\ fr[i].closure_depth \in Nat
                               /\ fr[i].seh_depth \in Nat
      /\ \A i \in 1..Len(recs) : /\ recs[i].saved_closure_depth \in Nat
                                 /\ recs[i].saved_frame_depth \in Nat
  BY StackTypes
<1>5. Watermarks(fs, cs, rs)
  <2>1. \A i, j \in 1..Len(fr) : i <= j =>
            /\ fr[i].closure_depth <= fr[j].closure_depth
            /\ fr[i].seh_depth <= fr[j].seh_depth
    BY DEF Layered, Watermarks
  <2>2. fr[n].closure_depth <= c /\ fr[n].seh_depth <= m
    BY DEF CutPoint
  <2>3. \A i \in 1..n : i \in 1..Len(fr) /\ i <= n /\ n \in 1..Len(fr)
    BY <1>1
  <2>4. \A i \in 1..n : fr[i].closure_depth <= c /\ fr[i].seh_depth <= m
    BY <2>1, <2>2, <2>3, <1>1, <1>4
  <2> QED
    BY <2>1, <2>3, <2>4, <1>2, <1>3 DEF Watermarks
<1>6. CellsOwned(fs, cs)
  <2> SUFFICES ASSUME NEW k \in 1..c
               PROVE  \E f \in 1..n :
                        /\ fs[f].closure_depth < k /\ cs[k] = fs[f].gen
                        /\ \A j \in 1..n : j > f => k <= fs[j].closure_depth
    BY <1>2 DEF CellsOwned
  <2>0. k \in 1..Len(cl)
    BY <1>1
  <2>1. PICK f \in 1..Len(fr) :
            /\ fr[f].closure_depth < k /\ cl[k] = fr[f].gen
            /\ \A j \in 1..Len(fr) : j > f => k <= fr[j].closure_depth
    BY <2>0 DEF Layered, CellsOwned
  <2>2. f <= n
    <3>1. SUFFICES ASSUME f > n PROVE FALSE
      BY <1>1
    <3>2. c <= fr[f].closure_depth
      BY <3>1 DEF CutPoint
    <3> QED
      BY <3>2, <2>1, <1>4, <1>1
  <2>3. f \in 1..n /\ \A j \in 1..n : j \in 1..Len(fr)
    BY <2>2, <1>1
  <2> QED
    BY <2>1, <2>3, <1>3
<1>7. ASSUME NEW k \in 1..m PROVE RecordFits(fs, cs, rs, k)
  <2> DEFINE f == recs[k].saved_frame_depth
  <2>0. k \in 1..Len(recs)
    BY <1>1
  <2>1. RecordFits(fr, cl, recs, k)
    BY <2>0 DEF Layered
  <2>2. f \in 1..Len(fr) /\ fr[f].seh_depth < k
    BY <2>1 DEF RecordFits
  <2>3. f <= n
    <3>1. SUFFICES ASSUME f > n PROVE FALSE
      BY <2>2, <1>1
    <3>2. m <= fr[f].seh_depth
      BY <3>1, <2>2 DEF CutPoint
    <3> QED
      BY <3>2, <2>2, <1>4, <1>1
  <2>4. f \in 1..n /\ rs[k] = recs[k] /\ fs[f] = fr[f]
    BY <2>2, <2>3, <1>3, <1>1
  <2>5. recs[k].saved_closure_depth <= c
    BY DEF CutPoint
  <2>6. \A j \in 1..n : j \in 1..Len(fr) /\ fs[j] = fr[j]
    BY <1>1, <1>3
  <2> QED
    BY <2>1, <2>4, <2>5, <2>6, <1>2 DEF RecordFits
<1>8. Rising(rs)
  <2>1. \A i \in 1..m : i \in 1..Len(recs) /\ rs[i] = recs[i]
    BY <1>1, <1>3
  <2>2. Rising(recs)
    BY DEF Layered
  <2> QED
    BY <2>1, <2>2, <1>2 DEF Rising
<1> QED
  BY <1>2, <1>5, <1>6, <1>7, <1>8 DEF Layered

\* What a frame does besides, and how its records go on, does not matter.
LEMMA LayersSame ==
    ASSUME NEW fr, NEW cl, NEW recs, NEW gr, NEW qecs,
           Layered(fr, cl, recs), SameFrames(fr, gr), SameRecords(recs, qecs)
    PROVE  Layered(gr, cl, qecs)
<1>1. Len(gr) = Len(fr) /\ Len(qecs) = Len(recs)
  BY DEF SameFrames, SameRecords
<1>2. \A i \in 1..Len(fr) : /\ gr[i].gen = fr[i].gen
                            /\ gr[i].closure_depth = fr[i].closure_depth
                            /\ gr[i].seh_depth = fr[i].seh_depth
                            /\ gr[i].at = "prologue" <=> fr[i].at = "prologue"
  BY DEF SameFrames
<1>3. \A k \in 1..Len(recs) :
          /\ qecs[k].owner = recs[k].owner
          /\ qecs[k].saved_frame_depth = recs[k].saved_frame_depth
          /\ qecs[k].saved_closure_depth = recs[k].saved_closure_depth
          /\ qecs[k].mode = "returning" /\ recs[k].mode # "returning"
                => recs[k].saved_frame_depth > 1
  BY DEF SameRecords
<1>4. Watermarks(gr, cl, qecs)
  BY <1>1, <1>2 DEF Layered, Watermarks
<1>5. CellsOwned(gr, cl)
  <2>1. SUFFICES ASSUME NEW k \in 1..Len(cl)
                 PROVE  \E f \in 1..Len(gr) :
                           /\ gr[f].closure_depth < k /\ cl[k] = gr[f].gen
                           /\ \A j \in 1..Len(gr) :
                                 j > f => k <= gr[j].closure_depth
    BY DEF CellsOwned
  <2>2. PICK f \in 1..Len(fr) :
          /\ fr[f].closure_depth < k /\ cl[k] = fr[f].gen
          /\ \A j \in 1..Len(fr) : j > f => k <= fr[j].closure_depth
    BY DEF Layered, CellsOwned
  <2>3. \A j \in 1..Len(gr) : j \in 1..Len(fr)
    BY <1>1
  <2>4. f \in 1..Len(gr) /\ gr[f].closure_depth < k /\ cl[k] = gr[f].gen
    BY <1>1, <1>2, <2>2
  <2>5. \A j \in 1..Len(gr) : j > f => k <= gr[j].closure_depth
    BY <1>2, <2>2, <2>3
  <2> QED
    BY <2>4, <2>5
<1>6. ASSUME NEW k \in 1..Len(recs) PROVE RecordFits(gr, cl, qecs, k)
  <2>1. RecordFits(fr, cl, recs, k)
    BY DEF Layered
  <2> QED
    BY <2>1, <1>1, <1>2, <1>3 DEF RecordFits
<1>7. Rising(qecs)
  BY <1>1, <1>3 DEF Layered, Rising
<1> QED
  BY <1>1, <1>4, <1>5, <1>6, <1>7 DEF Layered
\* A frame on top with cells and records of its own.
LEMMA LayersPush ==
    ASSUME NEW fr \in Seq(Frame), NEW cl \in Seq(Owner), NEW recs \in Seq(Record),
           NEW F \in Frame, NEW ms \in Seq(Owner), NEW rs \in Seq(Record),
           Layered(fr, cl, recs),
           F.closure_depth = Len(cl), F.seh_depth = Len(recs),
           \A k \in 1..Len(ms) : ms[k] = F.gen,
           \A k \in 1..Len(rs) :
              /\ rs[k].owner = F.gen /\ rs[k].saved_frame_depth = Len(fr) + 1
              /\ Len(cl) <= rs[k].saved_closure_depth
              /\ rs[k].saved_closure_depth <= Len(cl) + Len(ms),
           Rising(rs), rs # <<>> => F.at # "prologue", Len(fr) >= 1
    PROVE  Layered(Append(fr, F), cl \o ms, recs \o rs)
<1> DEFINE gs == Append(fr, F)
           ds == cl \o ms
           es == recs \o rs
<1>1. /\ gs \in Seq(Frame) /\ Len(gs) = Len(fr) + 1 /\ gs[Len(fr) + 1] = F
      /\ \A i \in 1..Len(fr) : gs[i] = fr[i]
  BY AppendFacts
<1>2. /\ Len(ds) = Len(cl) + Len(ms)
      /\ \A k \in 1..Len(cl) : ds[k] = cl[k]
      /\ \A k \in 1..Len(ms) : ds[Len(cl) + k] = ms[k]
  BY JoinFacts
<1>3. /\ Len(es) = Len(recs) + Len(rs)
      /\ \A k \in 1..Len(recs) : es[k] = recs[k]
      /\ \A k \in 1..Len(rs) : es[Len(recs) + k] = rs[k]
  BY JoinFacts
<1> HIDE DEF gs, ds, es
<1>4. /\ Len(fr) \in Nat /\ Len(cl) \in Nat /\ Len(recs) \in Nat
      /\ Len(ms) \in Nat /\ Len(rs) \in Nat
  BY StackTypes
<1>5. /\ \A i \in 1..Len(fr) : /\ fr[i].closure_depth \in Nat
                               /\ fr[i].seh_depth \in Nat
      /\ \A i \in 1..Len(recs) : /\ recs[i].saved_closure_depth \in Nat
                                 /\ recs[i].saved_frame_depth \in Nat
      /\ \A i \in 1..Len(rs) : rs[i].saved_closure_depth \in Nat
  BY StackTypes
<1>6. \A i \in 1..(Len(fr) + 1) : i \in 1..Len(fr) \/ i = Len(fr) + 1
  BY <1>4
<1>7. ASSUME NEW k \in 1..Len(ds)
      PROVE  k \in 1..Len(cl) \/ (k - Len(cl) \in 1..Len(ms)
                                   /\ k = Len(cl) + (k - Len(cl)))
  BY <1>2, <1>4
<1>8. ASSUME NEW k \in 1..Len(es)
      PROVE  k \in 1..Len(recs) \/ (k - Len(recs) \in 1..Len(rs)
                                   /\ k = Len(recs) + (k - Len(recs)))
  BY <1>3, <1>4
<1>9. \A i \in 1..Len(fr) : /\ fr[i].closure_depth <= Len(cl)
                            /\ fr[i].seh_depth <= Len(recs)
  BY DEF Layered, Watermarks
<1>10. Watermarks(gs, ds, es)
  <2>1. ASSUME NEW i \in 1..Len(gs), NEW j \in 1..Len(gs), i <= j
        PROVE  /\ gs[i].closure_depth <= gs[j].closure_depth
               /\ gs[i].seh_depth <= gs[j].seh_depth
    <3>1. CASE j \in 1..Len(fr)
      <4>1. i \in 1..Len(fr)
        BY <3>1, <2>1, <1>1, <1>4
      <4> QED
        BY <4>1, <3>1, <2>1, <1>1 DEF Layered, Watermarks
    <3>2. CASE j = Len(fr) + 1
      <4>1. gs[j] = F
        BY <3>2, <1>1
      <4>2. CASE i = Len(fr) + 1
        BY <4>1, <4>2, <1>1, <1>4
      <4>3. CASE i \in 1..Len(fr)
        BY <4>1, <4>3, <1>1, <1>9
      <4> QED
        BY <4>2, <4>3, <1>1, <1>6
    <3> QED
      BY <3>1, <3>2, <1>1, <1>6
  <2>2. ASSUME NEW i \in 1..Len(gs)
        PROVE  gs[i].closure_depth <= Len(ds) /\ gs[i].seh_depth <= Len(es)
    <3>1. CASE i \in 1..Len(fr)
      <4>1. gs[i].closure_depth <= Len(cl) /\ gs[i].seh_depth <= Len(recs)
        BY <3>1, <1>1, <1>9
      <4>2. gs[i].closure_depth \in Nat /\ gs[i].seh_depth \in Nat
        BY <3>1, <1>1, <1>5
      <4>3. /\ Len(cl) \in Nat /\ Len(recs) \in Nat
            /\ Len(cl) <= Len(ds) /\ Len(recs) <= Len(es)
        BY <1>2, <1>3, <1>4
      <4>4. Len(ds) \in Nat /\ Len(es) \in Nat
        BY <1>2, <1>3, <1>4
      <4>5. gs[i].closure_depth <= Len(ds)
        BY ONLY <4>1, <4>2, <4>3, <4>4
      <4>6. gs[i].seh_depth <= Len(es)
        BY ONLY <4>1, <4>2, <4>3, <4>4
      <4> QED
        BY <4>5, <4>6
    <3>2. CASE i = Len(fr) + 1
      BY <3>2, <1>1, <1>2, <1>3, <1>4
    <3> QED
      BY <3>1, <3>2, <1>1, <1>6
  <2> QED
    BY <2>1, <2>2 DEF Watermarks
<1>11. CellsOwned(gs, ds)
  <2> SUFFICES ASSUME NEW k \in 1..Len(ds)
               PROVE  \E f \in 1..Len(gs) :
                        /\ gs[f].closure_depth < k /\ ds[k] = gs[f].gen
                        /\ \A j \in 1..Len(gs) : j > f =>
                              k <= gs[j].closure_depth
    BY DEF CellsOwned
  <2>1. CASE k \in 1..Len(cl)
    <3>1. PICK f \in 1..Len(fr) :
            /\ fr[f].closure_depth < k /\ cl[k] = fr[f].gen
            /\ \A j \in 1..Len(fr) : j > f => k <= fr[j].closure_depth
      BY <2>1 DEF Layered, CellsOwned
    <3>2. f \in 1..Len(gs) /\ gs[f] = fr[f] /\ ds[k] = cl[k]
      BY <1>1, <1>2, <1>4, <2>1
    <3>3. ASSUME NEW j \in 1..Len(gs), j > f PROVE k <= gs[j].closure_depth
      <4>1. CASE j \in 1..Len(fr)
        BY <4>1, <3>1, <3>3, <1>1
      <4>2. CASE j = Len(fr) + 1
        BY <4>2, <2>1, <1>1, <1>4
      <4> QED
        BY <4>1, <4>2, <1>1, <1>6
    <3> QED
      BY <3>1, <3>2, <3>3
  <2>2. CASE k - Len(cl) \in 1..Len(ms) /\ k = Len(cl) + (k - Len(cl))
    <3>1. ds[k] = F.gen
      BY <2>2, <1>2
    <3>2. Len(fr) + 1 \in 1..Len(gs) /\ ~(\E j \in 1..Len(gs) : j > Len(fr) + 1)
      BY <1>1, <1>4
    <3>3. F.closure_depth < k
      BY <2>2, <1>4
    <3> QED
      BY <3>1, <3>2, <3>3, <1>1
  <2> QED
    BY <2>1, <2>2, <1>7
<1>12. ASSUME NEW k \in 1..Len(es) PROVE RecordFits(gs, ds, es, k)
  <2>1. CASE k \in 1..Len(recs)
    <3> DEFINE f == recs[k].saved_frame_depth
               c == recs[k].saved_closure_depth
    <3>1. RecordFits(fr, cl, recs, k)
      BY <2>1 DEF Layered
    <3>2. es[k] = recs[k] /\ c \in Nat
      BY <2>1, <1>3, <1>5
    <3>3. f \in 1..Len(fr) /\ c <= Len(cl)
      BY <3>1 DEF RecordFits
    <3>4. f \in 1..Len(gs) /\ gs[f] = fr[f] /\ c <= Len(ds)
      <4> HIDE DEF f, c
      <4>1. f \in 1..Len(gs) /\ gs[f] = fr[f]
        BY <3>3, <1>1, <1>4
      <4>2. c <= Len(ds)
        BY <3>2, <3>3, <1>2, <1>4
      <4> QED
        BY <4>1, <4>2
    <3>5. ASSUME NEW j \in 1..Len(gs), j > f
          PROVE  k <= gs[j].seh_depth /\ c <= gs[j].closure_depth
      <4>1. CASE j \in 1..Len(fr)
        <5>1. k <= fr[j].seh_depth /\ c <= fr[j].closure_depth
          BY <4>1, <3>1, <3>5 DEF RecordFits
        <5> HIDE DEF c
        <5> QED
          BY <5>1, <4>1, <1>1
      <4>2. CASE j = Len(fr) + 1
        <5>1. gs[j] = F
          BY <4>2, <1>1
        <5>2. k <= Len(recs) /\ c <= Len(cl)
          BY <2>1, <3>3
        <5> HIDE DEF c
        <5> QED
          BY <5>1, <5>2, <1>4
      <4> QED
        BY <4>1, <4>2, <1>1, <1>6
    <3> QED
      BY <3>1, <3>2, <3>4, <3>5 DEF RecordFits
  <2>2. CASE k - Len(recs) \in 1..Len(rs) /\ k = Len(recs) + (k - Len(recs))
    <3>1. PICK q \in 1..Len(rs) : q = k - Len(recs) /\ k = Len(recs) + q
      BY <2>2
    <3>2. es[k] = rs[q]
      BY <3>1, <1>3
    <3>3. /\ rs[q].owner = F.gen /\ rs[q].saved_frame_depth = Len(fr) + 1
          /\ Len(cl) <= rs[q].saved_closure_depth
          /\ rs[q].saved_closure_depth <= Len(cl) + Len(ms)
      OBVIOUS
    <3>4. F.at # "prologue"
      <4>1. Len(rs) # 0
        BY <3>1, <1>4
      <4>2. rs # <<>>
        BY <4>1
      <4> QED
        BY <4>2
    <3>5. Len(fr) + 1 \in 1..Len(gs) /\ ~(\E j \in 1..Len(gs) : j > Len(fr) + 1)
      BY <1>1, <1>4
    <3>6. F.seh_depth < k /\ Len(fr) + 1 > 1
      BY <3>1, <1>4
    <3> QED
      BY <3>2, <3>3, <3>4, <3>5, <3>6, <1>1, <1>2 DEF RecordFits
  <2> QED
    BY <2>1, <2>2, <1>8, <1>12
<1>13. Rising(es)
  <2> SUFFICES ASSUME NEW i \in 1..Len(es), NEW j \in 1..Len(es), i <= j
               PROVE  es[i].saved_closure_depth <= es[j].saved_closure_depth
    BY DEF Rising
  <2>1. CASE j \in 1..Len(recs)
    <3>1. i \in 1..Len(recs)
      BY <2>1, <1>3, <1>4
    <3> QED
      BY <2>1, <3>1, <1>3 DEF Layered, Rising
  <2>2. CASE j - Len(recs) \in 1..Len(rs) /\ j = Len(recs) + (j - Len(recs))
    <3>1. PICK q \in 1..Len(rs) : j = Len(recs) + q
      BY <2>2
    <3>2. es[j] = rs[q] /\ rs[q].saved_closure_depth \in Nat
      BY <3>1, <1>3, <1>5
    <3>3. CASE i \in 1..Len(recs)
      <4>1. RecordFits(fr, cl, recs, i)
        BY <3>3 DEF Layered
      <4>2. recs[i].saved_closure_depth <= Len(cl)
        BY <4>1 DEF RecordFits
      <4>3. recs[i].saved_closure_depth \in Nat /\ es[i] = recs[i]
        BY <3>3, <1>3, <1>5
      <4>4. Len(cl) <= rs[q].saved_closure_depth
        OBVIOUS
      <4> DEFINE a == recs[i].saved_closure_depth
                 b == rs[q].saved_closure_depth
      <4>5. a <= b
        <5>1. a \in Nat /\ b \in Nat /\ a <= Len(cl) /\ Len(cl) <= b
          BY <4>2, <4>3, <4>4, <3>2
        <5> HIDE DEF a, b
        <5> QED
          BY <5>1, <1>4
      <4> QED
        BY <4>3, <4>5, <3>2
    <3>4. CASE i - Len(recs) \in 1..Len(rs) /\ i = Len(recs) + (i - Len(recs))
      <4>1. PICK p \in 1..Len(rs) : i = Len(recs) + p
        BY <3>4
      <4>2. p <= q /\ es[i] = rs[p]
        BY <4>1, <3>1, <1>3, <1>4
      <4> QED
        BY <4>2, <3>2 DEF Rising
    <3> QED
      BY <3>3, <3>4, <1>8
  <2> QED
    BY <2>1, <2>2, <1>8
<1>14. Layered(gs, ds, es)
  BY <1>10, <1>11, <1>12, <1>13 DEF Layered
<1> QED
  BY <1>14 DEF gs, ds, es
\* The frame on top makes a cell.
LEMMA LayersCell ==
    ASSUME NEW fr \in Seq(Frame), NEW cl \in Seq(Owner), NEW recs \in Seq(Record),
           Layered(fr, cl, recs), Len(fr) >= 1
    PROVE  Layered(fr, Append(cl, fr[Len(fr)].gen), recs)
<1> DEFINE o == fr[Len(fr)].gen
           ds == Append(cl, o)
<1>1. /\ Len(fr) \in Nat /\ Len(cl) \in Nat /\ Len(recs) \in Nat
      /\ Len(fr) \in 1..Len(fr)
  BY StackTypes
<1>2. Len(ds) = Len(cl) + 1 /\ ds[Len(cl) + 1] = o
      /\ \A k \in 1..Len(cl) : ds[k] = cl[k]
  <2>1. o \in Owner
    BY <1>1, StackTypes
  <2> QED
    BY <2>1, AppendFacts
<1> HIDE DEF ds
<1>3. \A i \in 1..Len(fr) : /\ fr[i].closure_depth \in Nat
                            /\ fr[i].seh_depth \in Nat
                            /\ fr[i].closure_depth <= Len(cl)
  BY StackTypes DEF Layered, Watermarks
<1>4. Watermarks(fr, ds, recs)
  <2>1. \A i \in 1..Len(fr) : fr[i].closure_depth <= Len(ds)
    BY <1>1, <1>2, <1>3
  <2> QED
    BY <2>1 DEF Layered, Watermarks
<1>5. CellsOwned(fr, ds)
  <2> SUFFICES ASSUME NEW k \in 1..Len(ds)
               PROVE  \E f \in 1..Len(fr) :
                        /\ fr[f].closure_depth < k /\ ds[k] = fr[f].gen
                        /\ \A j \in 1..Len(fr) : j > f =>
                              k <= fr[j].closure_depth
    BY DEF CellsOwned
  <2>1. CASE k \in 1..Len(cl)
    BY <2>1, <1>2 DEF Layered, CellsOwned
  <2>2. CASE k = Len(cl) + 1
    <3>1. fr[Len(fr)].closure_depth < k
      BY <2>2, <1>1, <1>3
    <3>2. ~\E j \in 1..Len(fr) : j > Len(fr)
      BY <1>1
    <3> QED
      BY <2>2, <3>1, <3>2, <1>1, <1>2
  <2>3. k \in 1..Len(cl) \/ k = Len(cl) + 1
    BY <1>1, <1>2
  <2> QED
    BY <2>1, <2>2, <2>3
<1>6. ASSUME NEW k \in 1..Len(recs) PROVE RecordFits(fr, ds, recs, k)
  <2>1. RecordFits(fr, cl, recs, k)
    BY DEF Layered
  <2> DEFINE c == recs[k].saved_closure_depth
  <2>2. c \in Nat /\ c <= Len(cl)
    BY <2>1, StackTypes DEF RecordFits
  <2>3. c <= Len(ds)
    <3> HIDE DEF c
    <3> QED
      BY <2>2, <1>1, <1>2
  <2> QED
    BY <2>1, <2>3 DEF RecordFits
<1>7. Layered(fr, ds, recs)
  BY <1>4, <1>5, <1>6 DEF Layered
<1> QED
  BY <1>7 DEF ds

\* The frame on top opens a try.
LEMMA LayersTry ==
    ASSUME NEW fr \in Seq(Frame), NEW cl \in Seq(Owner), NEW recs \in Seq(Record),
           NEW e \in Record, Layered(fr, cl, recs), Len(fr) >= 1,
           e.owner = fr[Len(fr)].gen, e.mode = "try",
           e.saved_frame_depth = Len(fr), e.saved_closure_depth = Len(cl),
           fr[Len(fr)].at # "prologue"
    PROVE  Layered(fr, cl, Append(recs, e))
<1> DEFINE es == Append(recs, e)
<1>1. /\ Len(fr) \in Nat /\ Len(cl) \in Nat /\ Len(recs) \in Nat
      /\ Len(fr) \in 1..Len(fr)
  BY StackTypes
<1>2. /\ Len(es) = Len(recs) + 1 /\ es[Len(recs) + 1] = e
      /\ \A k \in 1..Len(recs) : es[k] = recs[k]
  BY AppendFacts
<1> HIDE DEF es
<1>3. \A i \in 1..Len(fr) : /\ fr[i].closure_depth \in Nat
                            /\ fr[i].seh_depth \in Nat
                            /\ fr[i].closure_depth <= Len(cl)
                            /\ fr[i].seh_depth <= Len(recs)
  BY StackTypes DEF Layered, Watermarks
<1>4. Watermarks(fr, cl, es)
  <2>1. \A i \in 1..Len(fr) : fr[i].seh_depth <= Len(es)
    BY <1>1, <1>2, <1>3
  <2> QED
    BY <2>1 DEF Layered, Watermarks
<1>5. ASSUME NEW k \in 1..Len(es) PROVE RecordFits(fr, cl, es, k)
  <2>1. CASE k \in 1..Len(recs)
    <3>1. RecordFits(fr, cl, recs, k) /\ es[k] = recs[k]
      BY <2>1, <1>2 DEF Layered
    <3> QED
      BY <3>1 DEF RecordFits
  <2>2. CASE k = Len(recs) + 1
    <3>1. es[k] = e
      BY <2>2, <1>2
    <3>2. fr[Len(fr)].seh_depth < k
      BY <2>2, <1>1, <1>3
    <3>3. ~\E j \in 1..Len(fr) : j > Len(fr)
      BY <1>1
    <3>4. fr[Len(fr)].closure_depth <= Len(cl)
      BY <1>1, <1>3
    <3> QED
      BY <3>1, <3>2, <3>3, <3>4, <1>1 DEF RecordFits
  <2> QED
    BY <2>1, <2>2, <1>1, <1>2
<1>6. Rising(es)
  <2> SUFFICES ASSUME NEW i \in 1..Len(es), NEW j \in 1..Len(es), i <= j
               PROVE  es[i].saved_closure_depth <= es[j].saved_closure_depth
    BY DEF Rising
  <2>1. CASE j \in 1..Len(recs)
    <3>1. i \in 1..Len(recs)
      BY <2>1, <1>1, <1>2
    <3> QED
      BY <2>1, <3>1, <1>2 DEF Layered, Rising
  <2>2. CASE j = Len(recs) + 1
    <3>1. es[j].saved_closure_depth = Len(cl)
      BY <2>2, <1>2
    <3>2. CASE i \in 1..Len(recs)
      <4>1. RecordFits(fr, cl, recs, i) /\ es[i] = recs[i]
        BY <3>2, <1>2 DEF Layered
      <4> QED
        BY <4>1, <3>1 DEF RecordFits
    <3>3. CASE i = Len(recs) + 1
      BY <3>1, <3>3, <1>1, <1>2
    <3> QED
      BY <3>2, <3>3, <1>1, <1>2
  <2> QED
    BY <2>1, <2>2, <1>1, <1>2
<1>7. Layered(fr, cl, es)
  BY <1>4, <1>5, <1>6 DEF Layered
<1> QED
  BY <1>7 DEF es
-----------------------------------------------------------------------------
(* What steps do to resumptions.                                           *)

SameResumes(rs, qs) ==
    /\ Len(qs) = Len(rs)
    /\ \A i \in 1..Len(rs) :
          /\ qs[i].gen = rs[i].gen /\ qs[i].frame_depth = rs[i].frame_depth
          /\ qs[i].closure = rs[i].closure /\ qs[i].seh = rs[i].seh
          /\ qs[i].delegate = rs[i].delegate
          /\ qs[i].prologue = rs[i].prologue /\ qs[i].flag = rs[i].flag
          /\ rs[i].closure <= qs[i].closure_depth

\* Frame f of gs is one of fr, perhaps gone on from where it was, or that of a
\* function.
FrameKept(fr, gs, f) ==
    \/ /\ f <= Len(fr)
       /\ gs[f].gen = fr[f].gen /\ gs[f].closure_depth = fr[f].closure_depth
       /\ gs[f].seh_depth = fr[f].seh_depth
       /\ gs[f].at = "prologue" <=> fr[f].at = "prologue"
       /\ fr[f].gen = 0 /\ fr[f].at = "body" => gs[f].at = "body"
    \/ f > Len(fr) /\ gs[f].gen = 0 /\ gs[f].at = "body"

LEMMA ResumeTypes ==
    ASSUME NEW rs \in Seq(Resume)
    PROVE  /\ Len(rs) \in Nat
           /\ \A i \in 1..Len(rs) :
                /\ rs[i] \in Resume /\ rs[i].gen \in Gen
                /\ rs[i].frame_depth \in Nat /\ rs[i].closure \in Nat
                /\ rs[i].seh \in Nat /\ rs[i].delegate \in Nat
                /\ rs[i].closure_depth \in Nat
                /\ rs[i].prologue \in BOOLEAN /\ rs[i].flag \in BOOLEAN
<1>1. \A i \in 1..Len(rs) : rs[i] \in Resume
  OBVIOUS
<1>2. \A x \in Resume : /\ x.gen \in Gen
                        /\ x.frame_depth \in Nat /\ x.closure \in Nat
                        /\ x.seh \in Nat /\ x.delegate \in Nat
                        /\ x.closure_depth \in Nat
                        /\ x.prologue \in BOOLEAN /\ x.flag \in BOOLEAN
  BY DEF Resume
<1> QED
  BY <1>1, <1>2

\* Resumptions outlast what happens above their frames.
LEMMA ResumesKept ==
    ASSUME NEW fr \in Seq(Frame), NEW rs \in Seq(Resume), NEW dels,
           NEW gs \in Seq(Frame), NEW qs, NEW es,
           ResumesInv(fr, dels, rs), SameResumes(rs, qs),
           \A i \in 1..Len(rs) : /\ rs[i].frame_depth < Len(gs)
                                 /\ rs[i].delegate <= Len(es),
           \A f \in 1..Len(gs) : FrameKept(fr, gs, f)
    PROVE  ResumesInv(gs, es, qs)
<1>1. Len(qs) = Len(rs) /\ Len(rs) \in Nat /\ Len(fr) \in Nat /\ Len(gs) \in Nat
  BY ResumeTypes DEF SameResumes
<1>2. \A i \in 1..Len(rs) :
          /\ qs[i].gen = rs[i].gen /\ qs[i].frame_depth = rs[i].frame_depth
          /\ qs[i].closure = rs[i].closure /\ qs[i].seh = rs[i].seh
          /\ qs[i].delegate = rs[i].delegate
          /\ qs[i].prologue = rs[i].prologue /\ qs[i].flag = rs[i].flag
          /\ rs[i].closure <= qs[i].closure_depth
  BY DEF SameResumes
<1>3. ASSUME NEW i \in 1..Len(rs) PROVE ResumptionFits(gs, es, qs[i])
  <2> DEFINE d == rs[i].frame_depth
  <2>1. ResumptionFits(fr, dels, rs[i])
    BY DEF ResumesInv
  <2>2. d \in Nat /\ d \in 1..(Len(fr) - 1) /\ d < Len(gs)
    BY <2>1, ResumeTypes DEF ResumptionFits
  <2>3. d \in 1..(Len(gs) - 1) /\ d + 1 \in 1..Len(gs) /\ ~(d + 1 > Len(fr))
    <3> HIDE DEF d
    <3> QED
      BY <2>2, <1>1
  <2>4. FrameKept(fr, gs, d + 1)
    BY <2>3
  <2>5. /\ gs[d + 1].gen = fr[d + 1].gen
        /\ gs[d + 1].closure_depth = fr[d + 1].closure_depth
        /\ gs[d + 1].seh_depth = fr[d + 1].seh_depth
        /\ fr[d + 1].at = "prologue" => gs[d + 1].at = "prologue"
    BY <2>3, <2>4 DEF FrameKept
  <2>6. rs[i].delegate <= Len(es)
    OBVIOUS
  <2> HIDE DEF d
  <2>7. d = rs[i].frame_depth
    BY DEF d
  <2>8. /\ qs[i].frame_depth = d /\ qs[i].gen = rs[i].gen
        /\ qs[i].closure = rs[i].closure /\ qs[i].seh = rs[i].seh
        /\ qs[i].delegate = rs[i].delegate /\ qs[i].prologue = rs[i].prologue
        /\ rs[i].closure <= qs[i].closure_depth
    BY <1>2, <2>7
  <2>9. /\ fr[d + 1].gen = rs[i].gen
        /\ fr[d + 1].closure_depth = rs[i].closure
        /\ fr[d + 1].seh_depth = rs[i].seh
        /\ rs[i].prologue => fr[d + 1].at = "prologue"
    BY <2>1, <2>7 DEF ResumptionFits
  <2> QED
    BY <2>3, <2>5, <2>6, <2>8, <2>9 DEF ResumptionFits
<1>4. \A i, j \in 1..Len(rs) : i < j =>
          /\ qs[i].frame_depth < qs[j].frame_depth
          /\ qs[i].delegate <= qs[j].delegate
          /\ qs[i].gen # qs[j].gen
          /\ qs[i].prologue => qs[j].flag
  BY <1>2 DEF ResumesInv
<1>5. ASSUME NEW f \in 1..Len(gs), gs[f].gen # 0 \/ gs[f].at # "body"
      PROVE  \E i \in 1..Len(rs) : /\ qs[i].frame_depth + 1 = f
                                   /\ gs[f].at = "prologue" => qs[i].prologue
  <2>1. /\ f \in 1..Len(fr) /\ (fr[f].gen # 0 \/ fr[f].at # "body")
        /\ gs[f].at = "prologue" => fr[f].at = "prologue"
    BY <1>5, <1>1 DEF FrameKept
  <2>2. PICK i \in 1..Len(rs) : /\ rs[i].frame_depth + 1 = f
                                /\ fr[f].at = "prologue" => rs[i].prologue
    BY <2>1 DEF ResumesInv
  <2> QED
    BY <2>1, <2>2, <1>2
<1> QED
  BY <1>1, <1>3, <1>4, <1>5 DEF ResumesInv

\* The resumption on top ends: the resumer's stacks are back.
LEMMA ResumesPopped ==
    ASSUME NEW fr \in Seq(Frame), NEW rs \in Seq(Resume), NEW dels,
           NEW fs, NEW es, rs # <<>>, ResumesInv(fr, dels, rs),
           Cut(fs, fr, Last(rs).frame_depth), Cut(es, dels, Last(rs).delegate)
    PROVE  ResumesInv(fs, es, Front(rs))
<1> DEFINE n == Len(rs)
           q == Front(rs)
<1>1. n \in Nat /\ n >= 1 /\ Len(q) = n - 1 /\ Last(rs) = rs[n] /\ n \in 1..n
      /\ \A i \in 1..(n - 1) : q[i] = rs[i] /\ i \in 1..n /\ i < n
  BY PopFacts
<1> HIDE DEF q, n
<1>n. n = Len(rs)
  BY DEF n
<1>2. \A i \in 1..n :
          /\ rs[i].frame_depth \in Nat /\ rs[i].delegate \in Nat
          /\ ResumptionFits(fr, dels, rs[i])
  BY ResumeTypes, <1>n DEF ResumesInv
<1>3. \A i \in 1..(n - 1) : /\ rs[i].frame_depth < rs[n].frame_depth
                            /\ rs[i].delegate <= rs[n].delegate
  BY <1>1, <1>n DEF ResumesInv
<1>4. /\ Len(fs) = rs[n].frame_depth /\ Len(es) = rs[n].delegate
      /\ \A i \in 1..Len(fs) : fs[i] = fr[i] /\ i \in 1..Len(fr)
  <2>1. rs[n].frame_depth <= Len(fr) /\ Len(fr) \in Nat
    BY <1>1, StackTypes DEF Cut
  <2> QED
    BY <2>1, <1>1, <1>2 DEF Cut
<1>5. ASSUME NEW i \in 1..(n - 1) PROVE ResumptionFits(fs, es, rs[i])
  <2> DEFINE d == rs[i].frame_depth
  <2>1. ResumptionFits(fr, dels, rs[i])
    BY <1>1, <1>2
  <2>2. d \in Nat /\ d >= 1 /\ d < Len(fs) /\ Len(fs) \in Nat
    BY <2>1, <1>1, <1>2, <1>3, <1>4 DEF ResumptionFits
  <2>3. d \in 1..(Len(fs) - 1) /\ d + 1 \in 1..Len(fs)
    <3> HIDE DEF d
    <3> QED
      BY <2>2
  <2>4. fs[d + 1] = fr[d + 1]
    BY <2>3, <1>4
  <2>5. rs[i].delegate <= Len(es)
    BY <1>3, <1>4
  <2> QED
    BY <2>1, <2>3, <2>4, <2>5 DEF ResumptionFits
<1>6. ASSUME NEW f \in 1..Len(fs), fs[f].gen # 0 \/ fs[f].at # "body"
      PROVE  \E i \in 1..(n - 1) : /\ rs[i].frame_depth + 1 = f
                                   /\ fs[f].at = "prologue" => rs[i].prologue
  <2>1. fs[f] = fr[f] /\ f \in 1..Len(fr) /\ Len(fs) \in Nat
    BY <1>4, <1>1, <1>2
  <2>2. PICK i \in 1..n : /\ rs[i].frame_depth + 1 = f
                          /\ fr[f].at = "prologue" => rs[i].prologue
    BY <2>1, <1>6, <1>n DEF ResumesInv
  <2>3. i # n
    BY <2>1, <2>2, <1>1, <1>2, <1>4
  <2>4. i \in 1..(n - 1)
    BY <2>3, <1>1
  <2> QED
    BY <2>1, <2>2, <2>4
<1>7. \A i, j \in 1..(n - 1) : i < j =>
          /\ rs[i].frame_depth < rs[j].frame_depth
          /\ rs[i].delegate <= rs[j].delegate
          /\ rs[i].gen # rs[j].gen
          /\ rs[i].prologue => rs[j].flag
  BY <1>1, <1>n DEF ResumesInv
<1>8. ResumesInv(fs, es, q)
  <2>1. Len(q) = n - 1 /\ \A i \in 1..(n - 1) : q[i] = rs[i]
    BY <1>1
  <2>2. \A i \in 1..(n - 1) : ResumptionFits(fs, es, q[i])
    BY <1>5, <2>1
  <2>3. \A i, j \in 1..(n - 1) : i < j =>
            /\ q[i].frame_depth < q[j].frame_depth
            /\ q[i].delegate <= q[j].delegate
            /\ q[i].gen # q[j].gen
            /\ q[i].prologue => q[j].flag
    BY <1>7, <2>1
  <2>4. \A f \in 1..Len(fs) : fs[f].gen # 0 \/ fs[f].at # "body" =>
            \E i \in 1..(n - 1) : /\ q[i].frame_depth + 1 = f
                                  /\ fs[f].at = "prologue" => q[i].prologue
    BY <1>6, <2>1
  <2> QED
    BY <2>1, <2>2, <2>3, <2>4 DEF ResumesInv
<1> QED
  BY <1>8 DEF q

\* A generator is resumed, or created, on top of everything.
LEMMA ResumesPushed ==
    ASSUME NEW fr \in Seq(Frame), NEW rs \in Seq(Resume), NEW dels,
           NEW F \in Frame, NEW r \in Resume, NEW es,
           ResumesInv(fr, dels, rs), Len(fr) >= 1,
           r.gen = F.gen, r.frame_depth = Len(fr), r.closure = F.closure_depth,
           r.seh = F.seh_depth, r.closure <= r.closure_depth,
           r.prologue <=> F.at = "prologue",
           (\E i \in 1..Len(rs) : rs[i].prologue) => r.flag,
           ~Active(r.gen, rs), Len(dels) \in Nat, Len(es) \in Nat,
           r.delegate = Len(dels), Len(dels) <= Len(es)
    PROVE  ResumesInv(Append(fr, F), es, Append(rs, r))
<1> DEFINE n == Len(rs) + 1
           gs == Append(fr, F)
           q == Append(rs, r)
<1>1. /\ Len(rs) \in Nat /\ n \in Nat /\ n = Len(rs) + 1 /\ Len(q) = n /\ q[n] = r
      /\ \A i \in 1..Len(rs) : q[i] = rs[i]
      /\ \A i \in 1..n : i \in 1..Len(rs) \/ i = n
  BY AppendFacts
<1>2. /\ Len(fr) \in Nat /\ Len(gs) = Len(fr) + 1 /\ gs[Len(fr) + 1] = F
      /\ \A i \in 1..Len(fr) : gs[i] = fr[i]
      /\ \A i \in 1..Len(gs) : i \in 1..Len(fr) \/ i = Len(fr) + 1
  BY AppendFacts
<1> HIDE DEF n, gs, q
<1>3. \A i \in 1..Len(rs) :
          /\ rs[i].frame_depth \in Nat /\ rs[i].delegate \in Nat
          /\ ResumptionFits(fr, dels, rs[i])
  BY ResumeTypes DEF ResumesInv
<1>4. ASSUME NEW i \in 1..n PROVE ResumptionFits(gs, es, q[i])
  <2>1. CASE i \in 1..Len(rs)
    <3> DEFINE d == rs[i].frame_depth
    <3>1. ResumptionFits(fr, dels, rs[i]) /\ rs[i].delegate \in Nat
      BY <2>1, <1>3
    <3>2. d \in 1..(Len(fr) - 1) /\ rs[i].delegate <= Len(dels)
      BY <3>1 DEF ResumptionFits
    <3>3. d \in 1..(Len(gs) - 1) /\ d + 1 \in 1..Len(fr)
      <4> HIDE DEF d
      <4> QED
        BY <3>2, <1>2
    <3>4. gs[d + 1] = fr[d + 1]
      BY <3>3, <1>2
    <3>5. rs[i].delegate <= Len(es)
      BY <3>1, <3>2
    <3> QED
      BY <2>1, <3>1, <3>3, <3>4, <3>5, <1>1 DEF ResumptionFits
  <2>2. CASE i = n
    <3>1. q[i] = r /\ r.frame_depth \in 1..(Len(gs) - 1)
          /\ gs[r.frame_depth + 1] = F
      BY <2>2, <1>1, <1>2
    <3> QED
      BY <3>1 DEF ResumptionFits
  <2> QED
    BY <2>1, <2>2, <1>1
<1>5. ASSUME NEW i \in 1..n, NEW j \in 1..n, i < j
      PROVE  /\ q[i].frame_depth < q[j].frame_depth
             /\ q[i].delegate <= q[j].delegate
             /\ q[i].gen # q[j].gen
             /\ q[i].prologue => q[j].flag
  <2>1. i \in 1..Len(rs) /\ q[i] = rs[i]
    BY <1>5, <1>1
  <2>2. CASE j \in 1..Len(rs)
    BY <2>1, <2>2, <1>1, <1>5 DEF ResumesInv
  <2>3. CASE j = n
    <3>1. rs[i].frame_depth < Len(fr) /\ rs[i].delegate <= Len(dels)
      BY <2>1, <1>2, <1>3 DEF ResumptionFits
    <3>2. rs[i].gen # r.gen /\ (rs[i].prologue => r.flag)
      BY <2>1 DEF Active
    <3> QED
      BY <2>1, <2>3, <3>1, <3>2, <1>1
  <2> QED
    BY <2>2, <2>3, <1>1
<1>6. ASSUME NEW f \in 1..Len(gs), gs[f].gen # 0 \/ gs[f].at # "body"
      PROVE  \E i \in 1..n : /\ q[i].frame_depth + 1 = f
                             /\ gs[f].at = "prologue" => q[i].prologue
  <2>1. CASE f \in 1..Len(fr)
    <3>1. PICK i \in 1..Len(rs) : /\ rs[i].frame_depth + 1 = f
                                  /\ fr[f].at = "prologue" => rs[i].prologue
      BY <2>1, <1>6, <1>2 DEF ResumesInv
    <3> QED
      BY <3>1, <2>1, <1>1, <1>2
  <2>2. CASE f = Len(fr) + 1
    BY <2>2, <1>1, <1>2
  <2> QED
    BY <2>1, <2>2, <1>2
<1>7. ResumesInv(gs, es, q)
  BY <1>1, <1>4, <1>5, <1>6 DEF ResumesInv
<1> QED
  BY <1>7 DEF gs, q
(* ... and to the delegates.                                               *)

LEMMA DelegatesKept ==
    ASSUME NEW dels, NEW rs \in Seq(Resume), NEW qs, NEW err, NEW err2,
           DelegatesInv(dels, rs, err), SameResumes(rs, qs),
           "deep" \in Uses /\ err => err2
    PROVE  DelegatesInv(dels, qs, err2)
<1>1. /\ Len(qs) = Len(rs)
      /\ \A i \in 1..Len(rs) : /\ qs[i].gen = rs[i].gen
                               /\ qs[i].delegate = rs[i].delegate
  BY DEF SameResumes
<1>2. \A k : DelegateOwned(dels, rs, k) => DelegateOwned(dels, qs, k)
  BY <1>1 DEF DelegateOwned
<1> QED
  BY <1>1, <1>2 DEF DelegatesInv

LEMMA DelegatesPopped ==
    ASSUME NEW dels, NEW rs \in Seq(Resume), NEW es, NEW err, NEW err2,
           rs # <<>>, DelegatesInv(dels, rs, err), Len(dels) \in Nat,
           Cut(es, dels, Last(rs).delegate)
    PROVE  DelegatesInv(es, Front(rs), err2)
<1> DEFINE n == Len(rs)
           q == Front(rs)
<1>1. n \in Nat /\ n >= 1 /\ Len(q) = n - 1 /\ Last(rs) = rs[n] /\ n \in 1..n
      /\ \A i \in 1..(n - 1) : q[i] = rs[i] /\ i \in 1..n
  BY PopFacts
<1> HIDE DEF q, n
<1>n. n = Len(rs)
  BY DEF n
<1>2. /\ \A i \in 1..n : rs[i].delegate \in Nat
      /\ Len(es) = rs[n].delegate /\ Len(es) <= Len(dels)
      /\ \A k \in 1..Len(es) : es[k] = dels[k]
  BY <1>1, <1>n, ResumeTypes DEF Cut
<1>3. ASSUME NEW k \in 1..Len(es) PROVE DelegateOwned(es, q, k)
  <2>1. /\ k \in 1..Len(dels) /\ k \in Nat /\ k <= rs[n].delegate
        /\ ~(rs[n].delegate < k)
    BY <1>1, <1>2
  <2>2. DelegateOwned(dels, rs, k)
    BY <2>1, <1>1, <1>n DEF DelegatesInv
  <2>3. PICK i \in 1..n :
            /\ rs[i].delegate < k /\ dels[k] = rs[i].gen
            /\ \A j \in 1..n : j > i => k <= rs[j].delegate
    BY <2>2, <1>n DEF DelegateOwned
  <2>4. i \in 1..(n - 1)
    <3>1. i # n
      BY <2>1, <2>3
    <3> QED
      BY <3>1, <1>1
  <2> QED
    BY <2>3, <2>4, <1>1, <1>2 DEF DelegateOwned
<1> QED
  BY <1>3 DEF DelegatesInv, q

LEMMA DelegatesPushed ==
    ASSUME NEW dels \in Seq(Gen), NEW rs \in Seq(Resume), NEW ds \in Seq(Gen),
           NEW r \in Resume, NEW err2,
           DelegatesInv(dels, rs, FALSE), r.delegate = Len(dels),
           \A k \in 1..Len(ds) : ds[k] = r.gen
    PROVE  DelegatesInv(dels \o ds, Append(rs, r), err2)
<1> DEFINE n == Len(rs) + 1
           es == dels \o ds
           q == Append(rs, r)
<1>1. /\ Len(rs) \in Nat /\ n \in Nat /\ n = Len(rs) + 1 /\ Len(q) = n /\ q[n] = r
      /\ \A i \in 1..Len(rs) : q[i] = rs[i] /\ i \in 1..n
      /\ \A i \in 1..n : i \in 1..Len(rs) \/ i = n
      /\ n \in 1..n /\ ~\E j \in 1..n : j > n
  BY AppendFacts
<1>2. /\ Len(dels) \in Nat /\ Len(ds) \in Nat /\ Len(es) = Len(dels) + Len(ds)
      /\ \A k \in 1..Len(dels) : es[k] = dels[k]
      /\ \A k \in 1..Len(ds) : es[Len(dels) + k] = ds[k]
  BY JoinFacts
<1> HIDE DEF n, es, q
<1>3. ASSUME NEW k \in 1..Len(es) PROVE DelegateOwned(es, q, k)
  <2>1. CASE k \in 1..Len(dels)
    <3>1. DelegateOwned(dels, rs, k)
      BY <2>1 DEF DelegatesInv
    <3>2. PICK i \in 1..Len(rs) :
            /\ rs[i].delegate < k /\ dels[k] = rs[i].gen
            /\ \A j \in 1..Len(rs) : j > i => k <= rs[j].delegate
      BY <3>1 DEF DelegateOwned
    <3>3. ASSUME NEW j \in 1..n, j > i PROVE k <= q[j].delegate
      <4>1. CASE j \in 1..Len(rs)
        BY <4>1, <3>2, <3>3, <1>1
      <4>2. CASE j = n
        BY <4>2, <2>1, <1>1
      <4> QED
        BY <4>1, <4>2, <1>1
    <3>4. i \in 1..n /\ q[i] = rs[i] /\ es[k] = dels[k]
      BY <2>1, <1>1, <1>2
    <3> QED
      BY <3>2, <3>3, <3>4, <1>1 DEF DelegateOwned
  <2>2. CASE k - Len(dels) \in 1..Len(ds) /\ k = Len(dels) + (k - Len(dels))
    <3>1. PICK p \in 1..Len(ds) : k = Len(dels) + p
      BY <2>2
    <3>2. es[k] = r.gen
      BY <3>1, <1>2
    <3>3. r.delegate < k
      BY <3>1, <1>2
    <3> QED
      BY <3>2, <3>3, <1>1 DEF DelegateOwned
  <2> QED
    BY <2>1, <2>2, <1>2
<1>4. DelegatesInv(es, q, err2)
  BY <1>3 DEF DelegatesInv
<1> QED
  BY <1>4 DEF es, q

\* A refused resumption puts delegates on the stack and no resumption.
LEMMA DelegatesRefused ==
    ASSUME NEW dels \in Seq(Gen), NEW rs \in Seq(Resume), NEW ds \in Seq(Gen),
           NEW err, DelegatesInv(dels, rs, err), "deep" \in Uses,
           \A i \in 1..Len(rs) : rs[i].delegate <= Len(dels)
    PROVE  DelegatesInv(dels \o ds, rs, TRUE)
<1> DEFINE es == dels \o ds
<1>2. /\ Len(dels) \in Nat /\ Len(ds) \in Nat /\ Len(es) = Len(dels) + Len(ds)
      /\ \A k \in 1..Len(dels) : es[k] = dels[k]
  BY JoinFacts
<1> HIDE DEF es
<1>r. \A i \in 1..Len(rs) : rs[i].delegate \in Nat
  BY ResumeTypes
<1>3. ASSUME NEW k \in 1..Len(es)
      PROVE  \/ DelegateOwned(es, rs, k)
             \/ \A j \in 1..Len(rs) : rs[j].delegate < k
  <2>1. CASE k \in 1..Len(dels)
    <3>1. es[k] = dels[k]
      BY <2>1, <1>2
    <3> QED
      BY <2>1, <3>1 DEF DelegatesInv, DelegateOwned
  <2>2. CASE k > Len(dels)
    BY <2>2, <1>2, <1>r
  <2> QED
    BY <2>1, <2>2, <1>2
<1>4. DelegatesInv(es, rs, TRUE)
  BY <1>3 DEF DelegatesInv
<1> QED
  BY <1>4 DEF es

\* yield* in the body on top opens a delegate ...
LEMMA DelegatesOpened ==
    ASSUME NEW dels \in Seq(Gen), NEW rs \in Seq(Resume), rs # <<>>,
           DelegatesInv(dels, rs, FALSE), Last(rs).delegate <= Len(dels)
    PROVE  DelegatesInv(Append(dels, Last(rs).gen), rs, FALSE)
<1> DEFINE n == Len(rs)
           es == Append(dels, Last(rs).gen)
<1>1. /\ n \in Nat /\ n >= 1 /\ Last(rs) = rs[n] /\ n \in 1..n
      /\ ~\E j \in 1..n : j > n
  <2>1. n \in Nat \ {0} /\ Last(rs) = rs[n]
    BY ONLY rs \in Seq(Resume), rs # <<>>, PopFacts
  <2> HIDE DEF n
  <2> QED
    BY <2>1
<1>r. rs[n].gen \in Gen /\ rs[n].delegate \in Nat
  BY <1>1, ResumeTypes
<1>2. /\ Len(dels) \in Nat /\ Len(es) = Len(dels) + 1
      /\ \A k \in 1..Len(dels) : es[k] = dels[k]
      /\ es[Len(dels) + 1] = rs[n].gen
  BY <1>1, <1>r, AppendFacts
<1>3. rs[n].delegate <= Len(dels)
  BY <1>1
<1> HIDE DEF es
<1>4. ASSUME NEW k \in 1..Len(es) PROVE DelegateOwned(es, rs, k)
  <2>1. CASE k \in 1..Len(dels)
    <3>1. es[k] = dels[k]
      BY <2>1, <1>2
    <3> QED
      BY <2>1, <3>1 DEF DelegatesInv, DelegateOwned
  <2>2. CASE k = Len(dels) + 1
    <3>1. rs[n].delegate < k /\ es[k] = rs[n].gen
      BY <2>2, <1>2, <1>3, <1>r
    <3> QED
      BY <3>1, <1>1 DEF DelegateOwned
  <2> QED
    BY <2>1, <2>2, <1>2
<1>5. DelegatesInv(es, rs, FALSE)
  BY <1>4 DEF DelegatesInv
<1> QED
  BY <1>5 DEF es

\* ... and closes its own.
LEMMA DelegatesClosed ==
    ASSUME NEW dels \in Seq(Gen), NEW rs \in Seq(Resume), rs # <<>>,
           NEW err, DelegatesInv(dels, rs, err), Last(rs).delegate <= Len(dels),
           \A i, j \in 1..Len(rs) : i < j => rs[i].gen # rs[j].gen,
           dels # <<>>, ~err, Last(dels) = Last(rs).gen
    PROVE  /\ DelegatesInv(Front(dels), rs, err)
           /\ Last(rs).delegate <= Len(dels) - 1
<1> DEFINE n == Len(rs)
           m == Len(dels)
           es == Front(dels)
<1>1. n \in Nat /\ n >= 1 /\ Last(rs) = rs[n] /\ n \in 1..n
  <2>1. n \in Nat \ {0} /\ Last(rs) = rs[n]
    BY ONLY rs \in Seq(Resume), rs # <<>>, PopFacts
  <2> HIDE DEF n
  <2> QED
    BY <2>1
<1>2. /\ m \in Nat /\ m >= 1 /\ Last(dels) = dels[m] /\ m \in 1..m
      /\ Len(es) = m - 1 /\ \A k \in 1..(m - 1) : es[k] = dels[k] /\ k \in 1..m
  BY PopFacts
<1>r. \A i \in 1..n : rs[i].delegate \in Nat
  BY ResumeTypes
<1> HIDE DEF es
<1>3. rs[n].delegate <= m - 1
  <2>1. SUFFICES ASSUME rs[n].delegate = m PROVE FALSE
    BY <1>1, <1>2, <1>r
  <2>2. PICK i \in 1..n : rs[i].delegate < m /\ dels[m] = rs[i].gen
    BY <1>2 DEF DelegatesInv, DelegateOwned
  <2>3. i # n
    BY <2>1, <2>2, <1>2
  <2>4. i < n
    BY <2>3, <1>1
  <2>5. rs[i].gen # rs[n].gen
    BY <2>4, <1>1
  <2> QED
    BY <2>2, <2>5, <1>1, <1>2
<1>4. ASSUME NEW k \in 1..Len(es) PROVE DelegateOwned(es, rs, k)
  <2>1. k \in 1..Len(dels) /\ es[k] = dels[k]
    BY <1>2
  <2>2. DelegateOwned(dels, rs, k)
    BY <2>1 DEF DelegatesInv
  <2> QED
    BY <2>1, <2>2 DEF DelegateOwned
<1>5. DelegatesInv(es, rs, err)
  BY <1>4 DEF DelegatesInv
<1> QED
  BY <1>1, <1>3, <1>5 DEF es
-----------------------------------------------------------------------------
(* handle_throw.                                                           *)

LEMMA MinFacts ==
    ASSUME NEW T \in SUBSET Nat, T # {}
    PROVE  Min(T) \in T /\ \A y \in T : Min(T) <= y
<1>1. PICK m \in T : \A k \in T : m <= k
  BY LeastElement
<1>2. \E x \in T : \A y \in T : x <= y
  BY <1>1
<1> QED
  BY <1>2 DEF Min

LEMMA MinIs ==
    ASSUME NEW T \in SUBSET Nat, NEW m \in T, \A y \in T : m <= y
    PROVE  Min(T) = m
<1>1. Min(T) \in T /\ Min(T) <= m /\ m <= Min(T)
  BY MinFacts
<1>2. Min(T) \in Nat /\ m \in Nat
  BY <1>1
<1> QED
  BY <1>1, <1>2

\* Records are in the order of the frames that pushed them, and the stacks can
\* be cut at any of them.
LEMMA RecordsOrdered ==
    ASSUME NEW fr \in Seq(Frame), NEW cl \in Seq(Owner), NEW recs \in Seq(Record),
           Layered(fr, cl, recs), NEW i \in 1..Len(recs), NEW k \in 1..Len(recs),
           i <= k
    PROVE  /\ recs[i].saved_frame_depth <= recs[k].saved_frame_depth
           /\ recs[i].saved_closure_depth <= recs[k].saved_closure_depth
<1> DEFINE f == recs[i].saved_frame_depth
           h == recs[k].saved_frame_depth
<1>1. f \in 1..Len(fr) /\ fr[f].seh_depth < i
  BY DEF Layered, RecordFits
<1>2. \A j \in 1..Len(fr) : j > h => k <= fr[j].seh_depth
  BY DEF Layered, RecordFits
<1>3. f \in Nat /\ h \in Nat /\ i \in Nat /\ k \in Nat /\ fr[f].seh_depth \in Nat
  BY <1>1, StackTypes
<1>4. f <= h
  <2> HIDE DEF f, h
  <2> QED
    BY <1>1, <1>2, <1>3
<1> QED
  BY <1>4 DEF Layered, Rising

LEMMA CutAtRecord ==
    ASSUME NEW fr \in Seq(Frame), NEW cl \in Seq(Owner), NEW recs \in Seq(Record),
           Layered(fr, cl, recs), NEW k \in 1..Len(recs), NEW m \in {k - 1, k}
    PROVE  CutPoint(fr, cl, recs, recs[k].saved_frame_depth,
                    recs[k].saved_closure_depth, m)
<1> DEFINE f == recs[k].saved_frame_depth
           c == recs[k].saved_closure_depth
<1>1. RecordFits(fr, cl, recs, k)
  BY DEF Layered
<1>2. /\ f \in 1..Len(fr) /\ fr[f].seh_depth < k
      /\ fr[f].closure_depth <= c /\ c <= Len(cl)
      /\ \A j \in 1..Len(fr) : j > f => k <= fr[j].seh_depth
                                        /\ c <= fr[j].closure_depth
  BY <1>1 DEF RecordFits
<1>3. /\ c \in Nat /\ Len(cl) \in Nat /\ Len(recs) \in Nat
      /\ \A j \in 1..Len(fr) : fr[j].seh_depth \in Nat
  BY StackTypes
<1>4. \A i \in 1..m : recs[i].saved_closure_depth <= c
  <2> SUFFICES ASSUME NEW i \in 1..m PROVE recs[i].saved_closure_depth <= c
    OBVIOUS
  <2>1. i \in 1..Len(recs) /\ i <= k
    BY <1>3
  <2> QED
    BY <2>1, RecordsOrdered
<1> HIDE DEF f, c
<1>5. fr[f].seh_depth <= m /\ m \in 0..Len(recs)
  BY <1>2, <1>3
<1>6. \A j \in 1..Len(fr) : j > f => m <= fr[j].seh_depth
  BY <1>2, <1>3
<1>7. c \in 0..Len(cl)
  BY <1>2, <1>3
<1>8. CutPoint(fr, cl, recs, f, c, m)
  BY <1>2, <1>4, <1>5, <1>6, <1>7 DEF CutPoint
<1> QED
  BY <1>8 DEF f, c

\* What handle_throw above frame b makes of layered stacks: it cuts them above
\* the boundary and, when a handler takes the exception, goes on in its frame
\* with its finally marked; no open try lies above the frame it stops at.
Thrown(fr, cl, recs, b, d, n, c, m) ==
    /\ CutPoint(fr, cl, recs, n, c, m) /\ n > b
    /\ d.taken \in BOOLEAN
    /\ d.frames \in Seq(Frame) /\ d.closures \in Seq(Owner)
    /\ d.seh \in Seq(Record)
    /\ Cut(d.closures, cl, c)
    /\ Len(d.frames) = n /\ Len(d.seh) = m
    /\ IF d.taken
       THEN /\ SameFrames(SubSeq(fr, 1, n), d.frames)
            /\ d.frames[n].at = "body"
            /\ \A i \in 1..(n - 1) : d.frames[i] = fr[i]
            /\ SameRecords(SubSeq(recs, 1, m), d.seh)
            /\ \A k \in 1..m : k <= fr[n].seh_depth => d.seh[k] = recs[k]
            /\ recs # <<>>
       ELSE Cut(d.frames, fr, n) /\ Cut(d.seh, recs, m)
    /\ \A k \in 1..Len(recs) :
          recs[k].saved_frame_depth > (IF d.taken THEN n ELSE b)
              => recs[k].mode # "try"

LEMMA DispatchCuts ==
    ASSUME NEW fr \in Seq(Frame), NEW cl \in Seq(Owner), NEW recs \in Seq(Record),
           Layered(fr, cl, recs), NEW b \in Nat, b < Len(fr)
    PROVE  \E n, c, m \in Nat :
              Thrown(fr, cl, recs, b, Dispatch(fr, cl, recs, b), n, c, m)
<1> DEFINE reach == {i \in DOMAIN recs :
                        \A j \in i..Len(recs) : recs[j].saved_frame_depth > b}
           able == {i \in reach : recs[i].mode = "try"}
           last == IF able # {} THEN Max(able)
                                ELSE Min(reach \cup {Len(recs) + 1})
           popped == last..Len(recs)
           fdepths == {recs[i].saved_frame_depth : i \in popped} \cup {Len(fr)}
           cdepths == {recs[i].saved_closure_depth : i \in popped} \cup {Len(cl)}
           unwound == Truncate(fr, Min(fdepths))
           d == Dispatch(fr, cl, recs, b)
<1>1. /\ d.taken = (able # {})
      /\ d.frames = IF able = {} THEN unwound
                    ELSE [unwound EXCEPT ![Len(unwound)].at = "body"]
      /\ d.closures = Truncate(cl, Min(cdepths))
      /\ d.seh = IF able # {} /\ recs[last].finally
                 THEN [SubSeq(recs, 1, last) EXCEPT ![last].mode = "throwing"]
                 ELSE SubSeq(recs, 1, last - 1)
  BY Zenon DEF Dispatch
<1> DEFINE N == Len(recs)
<1>2. /\ Len(fr) \in Nat /\ Len(cl) \in Nat /\ N \in Nat
      /\ \A i \in 1..Len(recs) : /\ recs[i] \in Record
                                 /\ recs[i].saved_closure_depth \in Nat
                                 /\ recs[i].saved_frame_depth \in Nat
  BY StackTypes
<1>3. \A i \in 1..Len(recs) : /\ recs[i].saved_frame_depth \in 1..Len(fr)
                              /\ recs[i].saved_closure_depth <= Len(cl)
  BY DEF Layered, RecordFits
<1>4. \A k \in 1..N : recs[k].saved_frame_depth > b => k \in reach
  <2> SUFFICES ASSUME NEW k \in 1..N, recs[k].saved_frame_depth > b,
                      NEW j \in k..N
               PROVE  recs[j].saved_frame_depth > b
    BY <1>2
  <2>1. j \in 1..N /\ k <= j
    BY <1>2
  <2>2. recs[k].saved_frame_depth <= recs[j].saved_frame_depth
    BY <2>1, RecordsOrdered
  <2> QED
    BY <2>1, <2>2, <1>2
<1>5. \A k \in reach : k \in 1..N /\ recs[k].saved_frame_depth > b
  BY <1>2
<1>6. able \in SUBSET (1..N) /\ reach \in SUBSET (1..N)
  OBVIOUS
<1>7. ASSUME NEW k \in 1..N, last = k
      PROVE  /\ Min(fdepths) = recs[k].saved_frame_depth
             /\ Min(cdepths) = recs[k].saved_closure_depth
  <2>1. \A i \in popped : i \in 1..N /\ k <= i
    BY <1>7, <1>2
  <2>2. k \in popped
    BY <1>7, <1>2
  <2>3. \A i \in popped :
            /\ recs[k].saved_frame_depth <= recs[i].saved_frame_depth
            /\ recs[k].saved_closure_depth <= recs[i].saved_closure_depth
    BY <2>1, RecordsOrdered
  <2>4. recs[k].saved_frame_depth <= Len(fr)
    BY <1>3, <1>2
  <2> HIDE DEF popped, last
  <2>5. fdepths \in SUBSET Nat /\ cdepths \in SUBSET Nat
    BY <2>1, <1>2
  <2>6. recs[k].saved_frame_depth \in fdepths
        /\ recs[k].saved_closure_depth \in cdepths
    BY <2>2
  <2>7. \A y \in fdepths : recs[k].saved_frame_depth <= y
    BY <2>3, <2>4
  <2>8. \A y \in cdepths : recs[k].saved_closure_depth <= y
    BY <2>3, <1>3
  <2> QED
    BY <2>5, <2>6, <2>7, <2>8, MinIs
<1> HIDE DEF last, reach
<1>8. CASE able # {}
  <2>1. last \in able /\ \A y \in able : y <= last
    <3>1. Max(able) \in able /\ \A y \in able : y <= Max(able)
      BY <1>8, <1>6, <1>2, MaxFacts
    <3> QED
      BY <3>1, <1>8 DEF last
  <2> DEFINE n == recs[last].saved_frame_depth
             c == recs[last].saved_closure_depth
             m == IF recs[last].finally THEN last ELSE last - 1
  <2>2. last \in 1..N /\ last \in reach /\ recs[last].mode = "try" /\ n > b
        /\ last \in Nat
    BY <2>1, <1>5, <1>6, <1>2
  <2>3. Min(fdepths) = n /\ Min(cdepths) = c
    BY <2>2, <1>7
  <2>4. n \in Nat /\ c \in Nat /\ n \in 1..Len(fr) /\ c <= Len(cl)
    BY <2>2, <1>2, <1>3
  <2>5. m \in {last - 1, last} /\ m \in 0..N /\ m \in Nat
    BY <2>2, <1>2
  <2>6. CutPoint(fr, cl, recs, n, c, m)
    BY <2>2, <2>5, CutAtRecord
  <2> HIDE DEF n, c, fdepths, cdepths
  <2>7. unwound \in Seq(Frame) /\ Cut(unwound, fr, n)
    BY <2>3, <2>4, TruncateCuts
  <2>8. d.closures \in Seq(Owner) /\ Cut(d.closures, cl, c)
    BY <2>3, <2>4, <1>1, TruncateCuts
  <2>9. Len(unwound) = n /\ \A i \in 1..n : unwound[i] = fr[i]
    BY <2>7 DEF Cut
  <2>10. d.frames = [unwound EXCEPT ![n].at = "body"]
    BY <1>1, <1>8, <2>9
  <2> HIDE DEF unwound
  <2>11. /\ d.frames \in Seq(Frame) /\ Len(d.frames) = n
         /\ d.frames[n].at = "body"
         /\ \A i \in 1..n : /\ d.frames[i].gen = fr[i].gen
                            /\ d.frames[i].closure_depth = fr[i].closure_depth
                            /\ d.frames[i].seh_depth = fr[i].seh_depth
         /\ \A i \in 1..(n - 1) : d.frames[i] = fr[i]
    <3>1. /\ n \in 1..n /\ unwound[n] \in Frame /\ \A i \in 1..(n - 1) : i \in 1..n
      BY <2>4, <2>7, <2>9
    <3>2. "body" \in At
      BY DEF At
    <3>3. [unwound[n] EXCEPT !.at = "body"] \in Frame
      BY <3>1, <3>2 DEF Frame
    <3>4. d.frames = [unwound EXCEPT ![n] = [unwound[n] EXCEPT !.at = "body"]]
      BY <2>10, <3>1, <2>7
    <3>5. d.frames \in Seq(Frame) /\ Len(d.frames) = n
      BY <3>1, <3>3, <3>4, <2>7, <2>9, ExceptSeq
    <3>6. \A i \in 1..n : d.frames[i] = IF i = n THEN [unwound[n] EXCEPT !.at = "body"]
                                                ELSE unwound[i]
      BY <3>1, <3>3, <3>4, <2>7, <2>9, ExceptSeq
    <3>7. \A i \in 1..(n - 1) : i # n
      BY <2>4
    <3>8. /\ d.frames[n].at = "body" /\ d.frames[n].gen = unwound[n].gen
          /\ d.frames[n].closure_depth = unwound[n].closure_depth
          /\ d.frames[n].seh_depth = unwound[n].seh_depth
      BY <3>1, <3>6 DEF Frame
    <3> QED
      BY <3>1, <3>5, <3>6, <3>7, <3>8, <2>9
  <2>12. Len(SubSeq(fr, 1, n)) = n /\ \A i \in 1..n : SubSeq(fr, 1, n)[i] = fr[i]
    BY <2>4, CutFacts
  <2>13. fr[n].at # "prologue"
    BY <2>2 DEF Layered, RecordFits, n
  <2>14. SameFrames(SubSeq(fr, 1, n), d.frames)
    <3>1. \A i \in 1..n : d.frames[i].at = "prologue" <=> fr[i].at = "prologue"
      <4>1. \A i \in 1..n : i = n \/ i \in 1..(n - 1)
        BY <2>4
      <4> QED
        BY <4>1, <2>11, <2>13
    <3> QED
      BY <3>1, <2>11, <2>12 DEF SameFrames
  <2>15. SubSeq(recs, 1, m) \in Seq(Record) /\ Cut(SubSeq(recs, 1, m), recs, m)
    BY <2>5, CutIsCut
  <2>16. /\ d.seh \in Seq(Record) /\ Len(d.seh) = m
         /\ SameRecords(SubSeq(recs, 1, m), d.seh)
         /\ \A k \in 1..m : k # last => d.seh[k] = SubSeq(recs, 1, m)[k]
    <3>1. CASE ~recs[last].finally
      <4>1. d.seh = SubSeq(recs, 1, m)
        BY <3>1, <1>1
      <4> QED
        BY <4>1, <2>15 DEF SameRecords, Cut
    <3>2. CASE recs[last].finally
      <4> DEFINE s == SubSeq(recs, 1, last)
      <4>1. m = last
        BY <3>2
      <4>2. d.seh = [s EXCEPT ![last].mode = "throwing"]
        BY <3>2, <1>8, <1>1
      <4>3. s \in Seq(Record) /\ Len(s) = last /\ last \in 1..last
        BY <4>1, <2>2, <2>15 DEF Cut
      <4> HIDE DEF s
      <4>4. s[last] \in Record
        BY <4>3
      <4>5. [s[last] EXCEPT !.mode = "throwing"] \in Record
        BY <4>4 DEF Record
      <4>6. d.seh = [s EXCEPT ![last] = [s[last] EXCEPT !.mode = "throwing"]]
        BY <4>2, <4>3
      <4>7. d.seh \in Seq(Record) /\ Len(d.seh) = last
        BY <4>3, <4>5, <4>6, ExceptSeq
      <4>8. \A i \in 1..last :
                d.seh[i] = IF i = last THEN [s[last] EXCEPT !.mode = "throwing"]
                                       ELSE s[i]
        BY <4>3, <4>5, <4>6, ExceptSeq
      <4>9. ASSUME NEW i \in 1..last
            PROVE
                /\ d.seh[i].owner = s[i].owner
                /\ d.seh[i].saved_frame_depth = s[i].saved_frame_depth
                /\ d.seh[i].saved_closure_depth = s[i].saved_closure_depth
                /\ d.seh[i].mode = "returning" => s[i].mode = "returning"
        <5>1. CASE i = last
          <6>1. d.seh[i] = [s[last] EXCEPT !.mode = "throwing"]
            BY <5>1, <4>8
          <6> QED
            BY <5>1, <6>1, <4>4 DEF Record
        <5>2. CASE i # last
          BY <5>2, <4>8
        <5> QED
          BY <5>1, <5>2
      <4>10. SameRecords(s, d.seh)
        BY <4>3, <4>7, <4>9 DEF SameRecords
      <4>11. \A k \in 1..m : k # last => d.seh[k] = s[k]
        BY <4>1, <4>8
      <4> QED
        BY <4>1, <4>7, <4>10, <4>11 DEF s
    <3> QED
      BY <3>1, <3>2
  <2>17. ASSUME NEW k \in 1..N, recs[k].saved_frame_depth > n
         PROVE  recs[k].mode # "try"
    <3>1. recs[k].saved_frame_depth > b /\ k \in reach
      BY <2>2, <2>4, <2>17, <1>2, <1>4
    <3>2. k > last
      <4>1. SUFFICES ASSUME k <= last PROVE FALSE
        BY <2>2
      <4>2. recs[k].saved_frame_depth <= n
        BY <4>1, <2>2, RecordsOrdered DEF n
      <4> QED
        BY <4>2, <2>17, <2>4, <1>2
    <3>3. k \notin able
      BY <3>2, <2>1, <2>2
    <3> QED
      BY <3>1, <3>3
  <2>18. d.taken = TRUE /\ recs # <<>>
    <3>1. recs # <<>>
      BY <2>2
    <3> QED
      BY <3>1, <1>1, <1>8
  <2>19. \A k \in 1..m : k <= fr[n].seh_depth => d.seh[k] = recs[k]
    <3>0. fr[n].seh_depth < last
      BY <2>2 DEF Layered, RecordFits, n
    <3>1. fr[n].seh_depth < last /\ fr[n].seh_depth \in Nat
      BY <3>0, <2>4, StackTypes
    <3>2. \A k \in 1..m : SubSeq(recs, 1, m)[k] = recs[k]
      BY <2>15 DEF Cut
    <3>3. \A k \in 1..m : k <= fr[n].seh_depth => k # last
      BY <3>1, <2>2
    <3> QED
      BY <3>2, <3>3, <2>16
  <2>20. Thrown(fr, cl, recs, b, d, n, c, m)
    BY <2>2, <2>6, <2>8, <2>11, <2>14, <2>16, <2>17, <2>18, <2>19 DEF Thrown
  <2> QED
    BY <2>20, <2>4, <2>5
<1>9. CASE able = {}
  <2>1. \A k \in 1..N : recs[k].saved_frame_depth > b => recs[k].mode # "try"
    BY <1>9, <1>4
  <2>2. ASSUME NEW n \in Nat, NEW c \in Nat, NEW m \in Nat,
               CutPoint(fr, cl, recs, n, c, m), n > b, m = last - 1,
               Min(fdepths) = n, Min(cdepths) = c
        PROVE  Thrown(fr, cl, recs, b, d, n, c, m)
    <3>1. n <= Len(fr) /\ c <= Len(cl) /\ m \in 0..N
      BY <2>2 DEF CutPoint
    <3> HIDE DEF fdepths, cdepths
    <3>2. d.frames \in Seq(Frame) /\ Cut(d.frames, fr, n)
      BY <3>1, <2>2, <1>1, <1>9, TruncateCuts
    <3>3. d.closures \in Seq(Owner) /\ Cut(d.closures, cl, c)
      BY <3>1, <2>2, <1>1, TruncateCuts
    <3>4. d.seh \in Seq(Record) /\ Cut(d.seh, recs, m)
      BY <3>1, <2>2, <1>1, <1>9, CutIsCut
    <3>5. d.taken = FALSE
      BY <1>1, <1>9
    <3> QED
      BY <2>1, <2>2, <3>2, <3>3, <3>4, <3>5 DEF Thrown, Cut
  <2>3. last = Min(reach \cup {N + 1})
    BY <1>9 DEF last
  <2>4. CASE reach = {}
    <3>1. last = N + 1
      <4>1. reach \cup {N + 1} = {N + 1} /\ {N + 1} \in SUBSET Nat
        BY <2>4, <1>2
      <4>2. Min({N + 1}) \in {N + 1}
        BY <4>1, MinFacts
      <4> QED
        BY <4>1, <4>2, <2>3
    <3>2. popped = {}
      BY <3>1, <1>2
    <3>3. fdepths = {Len(fr)} /\ cdepths = {Len(cl)}
      BY <3>2
    <3>4. Min(fdepths) = Len(fr) /\ Min(cdepths) = Len(cl)
      <4>1. \A x \in Nat : Min({x}) = x
        <5> TAKE x \in Nat
        <5>1. Min({x}) \in {x}
          BY MinFacts
        <5> QED
          BY <5>1
      <4> QED
        BY <4>1, <3>3, <1>2
    <3>5. CutPoint(fr, cl, recs, Len(fr), Len(cl), N)
      <4>1. Len(fr) \in 1..Len(fr) /\ ~\E j \in 1..Len(fr) : j > Len(fr)
        BY <1>2
      <4>2. \A i \in 1..Len(fr) : /\ fr[i].closure_depth <= Len(cl)
                                  /\ fr[i].seh_depth <= Len(recs)
        BY DEF Layered, Watermarks
      <4> QED
        BY <4>1, <4>2, <1>2, <1>3 DEF CutPoint
    <3>6. N = last - 1
      BY <3>1, <1>2
    <3>7. Thrown(fr, cl, recs, b, d, Len(fr), Len(cl), N)
      BY <3>4, <3>5, <3>6, <2>2, <1>2
    <3> QED
      BY <3>7, <1>2
  <2>5. CASE reach # {}
    <3>1. last \in reach
      <4>1. reach \cup {N + 1} \in SUBSET Nat /\ reach \cup {N + 1} # {}
        <5>1. reach \in SUBSET Nat /\ N + 1 \in Nat
          BY <1>6, <1>2
        <5> QED
          BY <5>1
      <4>2. last \in reach \cup {N + 1} /\ \A y \in reach : last <= y
        BY <4>1, <2>3, MinFacts
      <4>3. PICK y \in reach : last <= y
        BY <4>2, <2>5
      <4>4. last # N + 1
        BY <4>3, <1>5, <1>2
      <4> QED
        BY <4>2, <4>4
    <3> DEFINE n == recs[last].saved_frame_depth
               c == recs[last].saved_closure_depth
    <3>2. last \in 1..N /\ n > b /\ n \in Nat /\ c \in Nat /\ last - 1 \in Nat
      BY <3>1, <1>5, <1>2
    <3>3. Min(fdepths) = n /\ Min(cdepths) = c
      BY <3>2, <1>7
    <3>4. CutPoint(fr, cl, recs, n, c, last - 1)
      BY <3>2, CutAtRecord
    <3> HIDE DEF n, c
    <3>5. Thrown(fr, cl, recs, b, d, n, c, last - 1)
      BY <3>2, <3>3, <3>4, <2>2
    <3> QED
      BY <3>2, <3>5
  <2> QED
    BY <2>4, <2>5
<1> QED
  BY <1>8, <1>9
-----------------------------------------------------------------------------
(* What a step has to show.                                                *)

\* The bounds of the program let the code do what its comments say: a body is
\* resumed where its handlers were pushed, and where a resumption can meet the
\* call depth cap no try is open.
Sheltered ==
    /\ "moved" \notin Uses
    /\ "deep" \in Uses => limits.tries = 0

\* ... and no delegate's throw method fails over an open try.
Careful == Uses \cap {"deep", "delegate"} = {} \/ limits.tries = 0

\* ResumerRestored of a step.
StacksKept ==
    resumes # <<>> =>
        LET r == Last(resumes)
        IN  /\ Keeps(frames', frames, r.frame_depth)
            /\ Keeps(closures', closures, r.closure)
            /\ Keeps(seh', seh, r.seh)
            /\ Keeps(delegates', delegates, r.delegate)
            /\ Len(resumes') < Len(resumes) =>
                  /\ Len(frames') = r.frame_depth /\ Len(closures') = r.closure
                  /\ Len(seh') = r.seh /\ Len(delegates') = r.delegate

\* HandlersHonoured of a step: the records of a body whose frame goes.
MayGo(rec) == rec.mode = "try" => ~error' /\ ~rec.finally
Honoured ==
    \A g \in Gen :
        /\ Parked(g) /\ ~Parked(g)' /\ ~Active(g, resumes)'
              /\ state'[g] # "none" =>
              \A k \in 1..Len(suspended[g].seh) : MayGo(suspended[g].seh[k])
        /\ Active(g, resumes) /\ ~Parked(g)' /\ ~Active(g, resumes)'
              /\ state'[g] # "none" =>
              \A k \in 1..Len(seh) : seh[k].owner = g => MayGo(seh[k])

StepKeeps == GenInv' /\ StacksKept /\ (Careful => Honoured)

LEMMA LastIs ==
    ASSUME NEW S, NEW s \in Seq(S), s # <<>>
    PROVE  /\ Last(s) = s[Len(s)] /\ Len(s) \in 1..Len(s) /\ Last(s) \in S
           /\ Len(s) \in Nat /\ Len(s) >= 1
           /\ Front(s) \in Seq(S) /\ Len(Front(s)) = Len(s) - 1
           /\ \A i \in 1..(Len(s) - 1) : Front(s)[i] = s[i]
<1>1. /\ Len(s) \in Nat \ {0} /\ Last(s) = s[Len(s)] /\ Last(s) \in S
      /\ Front(s) \in Seq(S) /\ Len(Front(s)) = Len(s) - 1
      /\ \A i \in 1..(Len(s) - 1) : Front(s)[i] = s[i]
  BY PopFacts
<1> QED
  BY <1>1

\* What the invariant says of the state as a whole, and of the frame on top.
LEMMA TopFacts ==
    ASSUME GenInv
    PROVE  /\ frames \in Seq(Frame) /\ closures \in Seq(Owner)
           /\ seh \in Seq(Record) /\ delegates \in Seq(Gen)
           /\ resumes \in Seq(Resume)
           /\ Len(frames) \in Nat /\ Len(frames) >= 1
           /\ Len(closures) \in Nat /\ Len(seh) \in Nat /\ Len(delegates) \in Nat
           /\ Layered(frames, closures, seh)
           /\ ResumesInv(frames, delegates, resumes)
           /\ InvokeBoundary \in Nat /\ InvokeBoundary < Len(frames)
           /\ Top \in Frame /\ Depth = Len(frames)
<1>1. /\ frames \in Seq(Frame) /\ closures \in Seq(Owner)
      /\ seh \in Seq(Record) /\ delegates \in Seq(Gen)
      /\ resumes \in Seq(Resume)
      /\ Layered(frames, closures, seh)
      /\ ResumesInv(frames, delegates, resumes)
      /\ Len(frames) \in 1..MaxFrames
  BY DEF GenInv, GenTypes
<1>2. /\ Len(frames) \in Nat /\ Len(closures) \in Nat
      /\ Len(seh) \in Nat /\ Len(delegates) \in Nat
  BY <1>1
<1>3. Len(frames) >= 1
  BY <1>1, <1>2
<1>4. Top \in Frame /\ Depth = Len(frames)
  BY <1>1, <1>2, <1>3 DEF Top, Depth
<1>5. InvokeBoundary \in Nat /\ InvokeBoundary < Len(frames)
  <2>1. CASE resumes = <<>>
    BY <2>1, <1>2, <1>3 DEF InvokeBoundary
  <2>2. CASE resumes # <<>>
    <3>1. Last(resumes) = resumes[Len(resumes)] /\ Len(resumes) \in 1..Len(resumes)
      BY <1>1, <2>2, LastIs
    <3>2. ResumptionFits(frames, delegates, Last(resumes))
      BY <3>1, <1>1 DEF ResumesInv
    <3>3. Last(resumes).frame_depth \in 1..(Len(frames) - 1)
      BY <3>2 DEF ResumptionFits
    <3> QED
      BY <3>3, <2>2, <1>2 DEF InvokeBoundary
  <2> QED
    BY <2>1, <2>2
<1> QED
  BY <1>1, <1>2, <1>3, <1>4, <1>5

\* The resumption on top and its frame.
LEMMA LastFacts ==
    ASSUME GenInv, resumes # <<>>, NEW r, r = Last(resumes)
    PROVE  /\ r \in Resume /\ Len(resumes) \in 1..Len(resumes)
           /\ r = resumes[Len(resumes)]
           /\ r.gen \in Gen /\ Active(r.gen, resumes)
           /\ r.frame_depth \in Nat /\ r.frame_depth >= 1
           /\ r.frame_depth < Len(frames) /\ InvokeBoundary = r.frame_depth
           /\ r.closure \in Nat /\ r.seh \in Nat /\ r.delegate \in Nat
           /\ r.closure_depth \in Nat /\ r.closure <= r.closure_depth
           /\ r.closure <= Len(closures) /\ r.seh <= Len(seh)
           /\ r.delegate <= Len(delegates)
           /\ r.frame_depth + 1 \in 1..Len(frames)
           /\ frames[r.frame_depth + 1].gen = r.gen
           /\ frames[r.frame_depth + 1].closure_depth = r.closure
           /\ frames[r.frame_depth + 1].seh_depth = r.seh
           /\ r.prologue => frames[r.frame_depth + 1].at = "prologue"
           /\ r.prologue \in BOOLEAN /\ r.flag \in BOOLEAN
<1>1. /\ resumes \in Seq(Resume) /\ Len(frames) \in Nat
      /\ ResumesInv(frames, delegates, resumes)
  BY TopFacts
<1>2. r = resumes[Len(resumes)] /\ Len(resumes) \in 1..Len(resumes)
  BY <1>1, LastIs
<1>3. /\ r \in Resume /\ r.gen \in Gen /\ r.frame_depth \in Nat
      /\ r.closure \in Nat /\ r.seh \in Nat /\ r.delegate \in Nat
      /\ r.closure_depth \in Nat /\ r.prologue \in BOOLEAN /\ r.flag \in BOOLEAN
  BY <1>1, <1>2, ResumeTypes
<1>4. ResumptionFits(frames, delegates, r)
  BY <1>1, <1>2 DEF ResumesInv
<1>5. r.frame_depth + 1 \in 1..Len(frames) /\ r.frame_depth < Len(frames)
      /\ r.frame_depth >= 1
  BY <1>1, <1>3, <1>4 DEF ResumptionFits
<1>6. /\ frames[r.frame_depth + 1].closure_depth <= Len(closures)
      /\ frames[r.frame_depth + 1].seh_depth <= Len(seh)
  BY <1>5, TopFacts DEF Layered, Watermarks
<1>7. Active(r.gen, resumes) /\ InvokeBoundary = r.frame_depth
  BY <1>2 DEF Active, InvokeBoundary
<1> QED
  BY <1>2, <1>3, <1>4, <1>5, <1>6, <1>7 DEF ResumptionFits

\* The frame on top of a generator, and one that is not simply running, is that
\* of the resumption on top.
LEMMA TopIsLast ==
    ASSUME GenInv, Top.gen # 0 \/ Top.at # "body"
    PROVE  /\ resumes # <<>>
           /\ Last(resumes).frame_depth + 1 = Len(frames)
           /\ Top.gen = Last(resumes).gen
           /\ Top.at = "prologue" => Last(resumes).prologue
<1>1. /\ resumes \in Seq(Resume) /\ Len(frames) \in Nat /\ Len(frames) >= 1
      /\ ResumesInv(frames, delegates, resumes) /\ Len(resumes) \in Nat
  BY TopFacts, ResumeTypes
<1>2. Len(frames) \in 1..Len(frames) /\ Top = frames[Len(frames)]
  BY <1>1 DEF Top, Depth
<1>3. PICK i \in 1..Len(resumes) :
          /\ resumes[i].frame_depth + 1 = Len(frames)
          /\ Top.at = "prologue" => resumes[i].prologue
  BY <1>1, <1>2 DEF ResumesInv
<1>4. resumes # <<>>
  BY <1>3
<1>5. PICK r : r = Last(resumes)
  OBVIOUS
<1>6. /\ r = resumes[Len(resumes)] /\ Len(resumes) \in 1..Len(resumes)
      /\ r.frame_depth \in Nat /\ r.frame_depth < Len(frames)
      /\ frames[r.frame_depth + 1].gen = r.gen
  BY <1>4, <1>5, LastFacts
<1>7. i = Len(resumes)
  <2>1. SUFFICES ASSUME i < Len(resumes) PROVE FALSE
    BY <1>1
  <2>2. resumes[i].frame_depth < r.frame_depth
    BY <2>1, <1>1, <1>6 DEF ResumesInv
  <2>3. resumes[i].frame_depth \in Nat
    BY <1>1, ResumeTypes
  <2> QED
    BY <2>2, <2>3, <1>3, <1>6, <1>1
<1> QED
  BY <1>2, <1>3, <1>4, <1>5, <1>6, <1>7
\* Where generator h is after a step that ends and begins no resumption: as
\* before, or without the frame it had parked.
PlaceMoved(h) ==
    \/ state'[h] = state[h] /\ suspended'[h] = suspended[h]
    \/ /\ suspended'[h] = NoFrame
       /\ \/ state'[h] = "Completed"
          \/ state'[h] = "Executing" /\ Uses \cap {"deep", "delegate"} # {}
       /\ Careful /\ Parked(h) =>
            \A k \in 1..Len(suspended[h].seh) : MayGo(suspended[h].seh[k])

LastKept ==
    resumes # <<>> => LET r == Last(resumes)
                      IN  /\ Keeps(frames', frames, r.frame_depth)
                          /\ Keeps(closures', closures, r.closure)
                          /\ Keeps(seh', seh, r.seh)
                          /\ Keeps(delegates', delegates, r.delegate)

CellsKept ==
    /\ cells' \in [Gen -> Nat]
    /\ \A h \in Gen : IF Active(h, resumes)
                      THEN Cardinality(CellsOf(h, closures')) <= cells'[h]
                      ELSE cells'[h] = cells[h]

SameActive ==
    /\ \A h : Active(h, resumes') <=> Active(h, resumes)
    /\ \A h : Binding(h, resumes') <=> Binding(h, resumes)

LEMMA InnerStep ==
    ASSUME GenInv, limits' = limits, prologue' = prologue, error' \in BOOLEAN,
           frames' \in Seq(Frame), Len(frames') \in 1..MaxFrames,
           closures' \in Seq(Owner), delegates' \in Seq(Gen),
           seh' \in Seq(Record), resumes' \in Seq(Resume),
           Layered(frames', closures', seh'), SameResumes(resumes, resumes'),
           \A f \in 1..Len(frames') : FrameKept(frames, frames', f),
           InvokeBoundary < Len(frames'), LastKept,
           DelegatesInv(delegates', resumes', error'),
           limits.tries = 0 => seh' = <<>>, CellsKept,
           state' \in [Gen -> States],
           suspended' \in [Gen -> SuspendedFrame \cup {NoFrame}],
           \A h \in Gen : PlaceMoved(h)
    PROVE  StepKeeps
<1>1. /\ resumes \in Seq(Resume) /\ Len(resumes) \in Nat
      /\ frames \in Seq(Frame) /\ delegates \in Seq(Gen)
      /\ ResumesInv(frames, delegates, resumes)
      /\ Len(frames') \in Nat /\ Len(delegates') \in Nat
  BY TopFacts, ResumeTypes
<1>2. /\ Len(resumes') = Len(resumes)
      /\ \A i \in 1..Len(resumes) : /\ resumes'[i].gen = resumes[i].gen
                                    /\ resumes'[i].prologue = resumes[i].prologue
  BY DEF SameResumes
<1>3. ASSUME NEW i \in 1..Len(resumes)
      PROVE  /\ resumes[i].frame_depth < Len(frames')
             /\ resumes[i].delegate <= Len(delegates')
  <2>1. resumes # <<>>
    BY <1>1
  <2>2. PICK r : r = Last(resumes)
    OBVIOUS
  <2>3. /\ r = resumes[Len(resumes)] /\ InvokeBoundary = r.frame_depth
        /\ r.frame_depth \in Nat /\ r.delegate \in Nat
        /\ Len(resumes) \in 1..Len(resumes)
    BY <2>1, <2>2, LastFacts
  <2>4. r.delegate <= Len(delegates')
    BY <2>1, <2>2 DEF LastKept, Keeps
  <2>5. resumes[i].frame_depth \in Nat /\ resumes[i].delegate \in Nat
    BY <1>1, ResumeTypes
  <2>6. /\ resumes[i].frame_depth <= r.frame_depth
        /\ resumes[i].delegate <= r.delegate
    <3>1. CASE i = Len(resumes)
      BY <3>1, <2>3, <2>5
    <3>2. CASE i < Len(resumes)
      <4>1. /\ resumes[i].frame_depth < r.frame_depth
            /\ resumes[i].delegate <= r.delegate
        BY <3>2, <2>3, <1>1 DEF ResumesInv
      <4> QED
        BY <4>1, <2>3, <2>5
    <3> QED
      BY <3>1, <3>2, <1>1
  <2> QED
    BY <2>3, <2>4, <2>5, <2>6, <1>1
<1>4. ResumesInv(frames', delegates', resumes')
  BY <1>1, <1>3, ResumesKept
<1>5. SameActive
  BY <1>2 DEF SameActive, Active, Binding
<1>6. (\E i \in 1..Len(resumes') : resumes'[i].prologue) => prologue'
  BY <1>2 DEF GenInv
<1>7. GenTypes'
  <2>1. limits \in Setups /\ prologue \in BOOLEAN
    BY DEF GenInv, GenTypes
  <2>2. limits' \in Setups /\ prologue' \in BOOLEAN /\ cells' \in [Gen -> Nat]
    BY <2>1 DEF CellsKept
  <2>3. Len(frames') \in 1..MaxFrames'
    BY DEF MaxFrames
  <2> QED
    BY <2>2, <2>3 DEF GenTypes
<1>8. ASSUME NEW h \in Gen PROVE PlaceFits(h)'
  <2>1. PlaceFits(h)
    BY DEF GenInv
  <2>2. (Active(h, resumes') <=> Active(h, resumes))
        /\ (Binding(h, resumes') <=> Binding(h, resumes))
    BY <1>5 DEF SameActive
  <2>3. Active(h, resumes)' => Cardinality(CellsOf(h, closures'))  <= cells'[h]
    BY <2>2 DEF CellsKept
  <2>4. CASE state'[h] = state[h] /\ suspended'[h] = suspended[h]
    <3>1. Parked(h)' <=> Parked(h)
      BY <2>4 DEF Parked
    <3>2. Parked(h) => ParkedFits(h)'
      <4>1. SUFFICES ASSUME Parked(h) PROVE ParkedFits(h)'
        OBVIOUS
      <4>2. ParkedFits(h) /\ ~Active(h, resumes)
        BY <4>1, <2>1 DEF PlaceFits
      <4>3. cells'[h] = cells[h]
        BY <4>2 DEF CellsKept
      <4> QED
        BY <4>2, <4>3, <2>4 DEF ParkedFits
    <3> QED
      BY <2>1, <2>2, <2>3, <2>4, <3>1, <3>2 DEF PlaceFits, Uses
  <2>5. CASE suspended'[h] = NoFrame /\ state'[h] = "Completed"
    <3>1. ~Parked(h)'
      BY <2>5 DEF Parked
    <3> QED
      BY <2>3, <2>5, <3>1 DEF PlaceFits
  <2>6. CASE suspended'[h] = NoFrame /\ state'[h] = "Executing"
             /\ Uses \cap {"deep", "delegate"} # {}
    <3>1. ~Parked(h)'
      BY <2>6 DEF Parked
    <3> QED
      BY <2>3, <2>6, <3>1 DEF PlaceFits, Uses
  <2> QED
    BY <2>4, <2>5, <2>6 DEF PlaceMoved
<1>9. GenInv'
  <2>1. DelegatesInv(delegates, resumes, error)'
    BY DEF DelegatesInv, DelegateOwned, Uses
  <2>2. Layered(frames, closures, seh)'
    OBVIOUS
  <2>3. ResumesInv(frames, delegates, resumes)'
    BY <1>4
  <2>4. (limits.tries = 0 => seh = <<>>)'
    OBVIOUS
  <2>5. ((\E i \in 1..Len(resumes) : resumes[i].prologue) => prologue)'
    BY <1>6
  <2> QED
    BY <1>7, <1>8, <2>1, <2>2, <2>3, <2>4, <2>5 DEF GenInv
<1>10. StacksKept
  BY <1>1, <1>2 DEF StacksKept, LastKept
<1>11. ASSUME Careful PROVE Honoured
  <2> SUFFICES ASSUME NEW h \in Gen
               PROVE  /\ Parked(h) /\ ~Parked(h)' /\ ~Active(h, resumes)' =>
                            \A k \in 1..Len(suspended[h].seh) :
                                MayGo(suspended[h].seh[k])
                      /\ Active(h, resumes) => Active(h, resumes)'
    BY DEF Honoured
  <2>1. Active(h, resumes) => Active(h, resumes)'
    BY <1>5 DEF SameActive
  <2>2. ASSUME Parked(h), ~Parked(h)'
        PROVE  \A k \in 1..Len(suspended[h].seh) : MayGo(suspended[h].seh[k])
    BY <2>2, <1>11 DEF PlaceMoved, Parked
  <2> QED
    BY <2>1, <2>2
<1> QED
  BY <1>9, <1>10, <1>11 DEF StepKeeps
\* The cells of a generator on the stack are finitely many, and fewer of them
\* are left when the stack is cut.
LEMMA CellsFinite ==
    ASSUME NEW cl \in Seq(Owner), NEW h
    PROVE  /\ IsFiniteSet(CellsOf(h, cl)) /\ Cardinality(CellsOf(h, cl)) \in Nat
           /\ CellsOf(h, cl) \subseteq 1..Len(cl)
<1>1. Len(cl) \in Nat
  OBVIOUS
<1>2. IsFiniteSet(1..Len(cl))
  BY <1>1, FS_Interval
<1>3. CellsOf(h, cl) \subseteq 1..Len(cl)
  BY DEF CellsOf
<1>4. IsFiniteSet(CellsOf(h, cl))
  BY <1>2, <1>3, FS_Subset
<1> QED
  BY <1>3, <1>4, FS_CardinalityType

LEMMA CellsCut ==
    ASSUME NEW cl \in Seq(Owner), NEW cs \in Seq(Owner), NEW h, NEW n \in Nat,
           Cut(cs, cl, n)
    PROVE  Cardinality(CellsOf(h, cs)) <= Cardinality(CellsOf(h, cl))
<1>1. Len(cs) = n /\ n <= Len(cl) /\ Len(cl) \in Nat
      /\ \A k \in 1..n : cs[k] = cl[k]
  BY DEF Cut
<1>2. CellsOf(h, cs) \subseteq CellsOf(h, cl)
  BY <1>1 DEF CellsOf
<1> QED
  BY <1>2, CellsFinite, FS_Subset

\* A frame parked by its generator, with its state.
ParksAs(g, s, p) ==
    /\ s \in {"SuspendedStart", "SuspendedYield"}
    /\ p \in SuspendedFrame /\ p.at = "body"
    /\ \A k \in 1..Len(p.closure_maps) : p.closure_maps[k] = g
    /\ \A k \in 1..Len(p.delegates) : p.delegates[k] = g
    /\ \A k \in 1..Len(p.seh) : p.seh[k].owner = g
    /\ Rising(p.seh)
    /\ s = "SuspendedStart" => p.seh = <<>>
    /\ limits.tries = 0 => p.seh = <<>>
    /\ Len(p.closure_maps) <= cells[g]

\* The stacks can be cut where the resumption on top saved them.
LEMMA CutAtLast ==
    ASSUME GenInv, resumes # <<>>, NEW r, r = Last(resumes)
    PROVE  CutPoint(frames, closures, seh, r.frame_depth, r.closure, r.seh)
<1> DEFINE n == r.frame_depth
<1>1. /\ n \in Nat /\ n >= 1 /\ n < Len(frames) /\ n + 1 \in 1..Len(frames)
      /\ r.closure \in Nat /\ r.seh \in Nat
      /\ r.closure <= Len(closures) /\ r.seh <= Len(seh)
      /\ frames[n + 1].closure_depth = r.closure
      /\ frames[n + 1].seh_depth = r.seh
  BY LastFacts
<1>2. /\ frames \in Seq(Frame) /\ closures \in Seq(Owner) /\ seh \in Seq(Record)
      /\ Len(frames) \in Nat /\ Len(closures) \in Nat /\ Len(seh) \in Nat
      /\ Layered(frames, closures, seh)
  BY TopFacts
<1> HIDE DEF n
<1>3. \A j \in 1..Len(frames) : /\ frames[j].seh_depth \in Nat
                                /\ frames[j].closure_depth \in Nat
  BY <1>2, StackTypes
<1>4. \A i, j \in 1..Len(frames) : i <= j =>
          /\ frames[i].closure_depth <= frames[j].closure_depth
          /\ frames[i].seh_depth <= frames[j].seh_depth
  BY <1>2 DEF Layered, Watermarks
<1>5. /\ n \in 1..Len(frames) /\ r.closure \in 0..Len(closures)
      /\ r.seh \in 0..Len(seh)
  BY <1>1, <1>2
<1>6. frames[n].closure_depth <= r.closure /\ frames[n].seh_depth <= r.seh
  BY <1>1, <1>4, <1>5
<1>7. \A j \in 1..Len(frames) : j > n => n + 1 <= j
  BY <1>1
<1>8. \A j \in 1..Len(frames) : j > n =>
          r.closure <= frames[j].closure_depth /\ r.seh <= frames[j].seh_depth
  BY <1>1, <1>4, <1>7
<1>9. ASSUME NEW k \in 1..r.seh PROVE seh[k].saved_closure_depth <= r.closure
  <2> DEFINE f == seh[k].saved_frame_depth
             c == seh[k].saved_closure_depth
  <2>1. k \in 1..Len(seh) /\ k \in Nat /\ k <= r.seh
    BY <1>1, <1>2
  <2>2. /\ f \in 1..Len(frames) /\ frames[f].seh_depth < k
        /\ \A j \in 1..Len(frames) : j > f => c <= frames[j].closure_depth
    BY <2>1, <1>2 DEF Layered, RecordFits
  <2> HIDE DEF f, c
  <2>3. f <= n
    <3>1. SUFFICES ASSUME f > n PROVE FALSE
      BY <2>2, <1>1
    <3>2. r.seh <= frames[f].seh_depth
      BY <3>1, <2>2, <1>8
    <3> QED
      BY <3>2, <2>1, <2>2, <1>1, <1>3
  <2>4. n + 1 > f
    BY <2>2, <2>3, <1>1
  <2>5. c <= r.closure
    BY <2>2, <2>4, <1>1
  <2> QED
    BY <2>5 DEF c
<1>10. CutPoint(frames, closures, seh, n, r.closure, r.seh)
  BY <1>5, <1>6, <1>8, <1>9 DEF CutPoint
<1> QED
  BY <1>10 DEF n

\* The resumption on top ends: its frame is parked or the generator is done.
LEMMA PopStep ==
    ASSUME GenInv, resumes # <<>>, NEW r, r = Last(resumes), NEW s, NEW p,
           frames' \in Seq(Frame), Cut(frames', frames, r.frame_depth),
           closures' \in Seq(Owner), Cut(closures', closures, r.closure),
           seh' \in Seq(Record), Cut(seh', seh, r.seh),
           delegates' \in Seq(Gen), Cut(delegates', delegates, r.delegate),
           resumes' = Front(resumes), error' \in BOOLEAN,
           prologue' = IF r.prologue THEN r.flag ELSE prologue,
           cells' = cells, limits' = limits,
           state' = [state EXCEPT ![r.gen] = s],
           suspended' = [suspended EXCEPT ![r.gen] = p],
           (s = "Completed" /\ p = NoFrame) \/ ParksAs(r.gen, s, p),
           Careful /\ p = NoFrame =>
              \A k \in 1..Len(seh) : seh[k].owner = r.gen => MayGo(seh[k])
    PROVE  StepKeeps
<1>1. /\ resumes \in Seq(Resume) /\ Len(resumes) \in Nat /\ Len(resumes) >= 1
      /\ frames \in Seq(Frame) /\ delegates \in Seq(Gen) /\ Len(delegates) \in Nat
      /\ closures \in Seq(Owner) /\ seh \in Seq(Record)
      /\ ResumesInv(frames, delegates, resumes)
      /\ Layered(frames, closures, seh)
      /\ r = resumes[Len(resumes)] /\ Len(resumes) \in 1..Len(resumes)
      /\ resumes' \in Seq(Resume) /\ Len(resumes') = Len(resumes) - 1
      /\ \A i \in 1..(Len(resumes) - 1) : resumes'[i] = resumes[i]
  BY TopFacts, LastIs
<1>2. /\ r \in Resume /\ r.gen \in Gen /\ r.frame_depth \in Nat
      /\ r.frame_depth >= 1 /\ r.frame_depth < Len(frames) /\ Len(frames) \in Nat
      /\ r.closure \in Nat /\ r.seh \in Nat /\ r.delegate \in Nat
      /\ r.prologue \in BOOLEAN /\ r.flag \in BOOLEAN
  BY LastFacts, TopFacts
<1>3. Layered(frames', closures', seh')
  BY <1>1, CutAtLast, LayersCut
<1>4. ResumesInv(frames', delegates', resumes')
  BY <1>1, ResumesPopped
<1>5. DelegatesInv(delegates', resumes', error')
  BY <1>1, DelegatesPopped DEF GenInv
<1>6. ASSUME NEW i \in 1..(Len(resumes) - 1)
      PROVE  /\ i \in 1..Len(resumes) /\ resumes[i].gen # r.gen
             /\ resumes[i].prologue => r.flag
  <2>1. i \in 1..Len(resumes) /\ i < Len(resumes)
    BY <1>1
  <2>2. \A j \in 1..Len(resumes) : i < j =>
            /\ resumes[i].gen # resumes[j].gen
            /\ resumes[i].prologue => resumes[j].flag
    BY <2>1, <1>1 DEF ResumesInv
  <2> QED
    BY <2>1, <2>2, <1>1
<1>7. ASSUME NEW h
      PROVE  /\ Active(h, resumes') => Active(h, resumes) /\ h # r.gen
             /\ h # r.gen => (Active(h, resumes) => Active(h, resumes'))
             /\ h # r.gen => (Binding(h, resumes) => Binding(h, resumes'))
  <2>1. Active(h, resumes') => Active(h, resumes) /\ h # r.gen
    BY <1>1, <1>6 DEF Active
  <2>2. \A i \in 1..Len(resumes) : i = Len(resumes) \/ i \in 1..(Len(resumes) - 1)
    BY <1>1
  <2>3. h # r.gen => (Active(h, resumes) => Active(h, resumes'))
    BY <2>2, <1>1 DEF Active
  <2>4. h # r.gen => (Binding(h, resumes) => Binding(h, resumes'))
    BY <2>2, <1>1 DEF Binding
  <2> QED
    BY <2>1, <2>3, <2>4
<1>8. (\E i \in 1..Len(resumes') : resumes'[i].prologue) => prologue'
  <2> SUFFICES ASSUME NEW i \in 1..(Len(resumes) - 1), resumes[i].prologue
               PROVE  prologue'
    BY <1>1
  <2>1. r.flag /\ prologue
    BY <1>6 DEF GenInv
  <2> QED
    BY <2>1
<1>9. /\ state \in [Gen -> States] /\ limits \in Setups
      /\ suspended \in [Gen -> SuspendedFrame \cup {NoFrame}]
      /\ cells \in [Gen -> Nat] /\ prologue \in BOOLEAN
      /\ Len(frames) \in 1..MaxFrames
  BY DEF GenInv, GenTypes
<1>10. GenTypes'
  <2>1. s \in States /\ p \in SuspendedFrame \cup {NoFrame}
    BY DEF ParksAs, States
  <2>2. state' \in [Gen -> States]
    BY <2>1, <1>2, <1>9
  <2>3. suspended' \in [Gen -> SuspendedFrame \cup {NoFrame}]
    BY <2>1, <1>2, <1>9
  <2>4. Len(frames') \in 1..MaxFrames'
    <3>1. Len(frames') = r.frame_depth
      BY DEF Cut
    <3>2. MaxFrames' = MaxFrames /\ MaxFrames \in Nat
      BY <1>9, GeneratorsAssumption DEF MaxFrames
    <3> QED
      BY <3>1, <3>2, <1>2, <1>9
  <2>5. prologue' \in BOOLEAN
    BY <1>2, <1>9
  <2> QED
    BY <2>2, <2>3, <2>4, <2>5, <1>1, <1>9 DEF GenTypes
<1>11. ASSUME NEW h \in Gen PROVE PlaceFits(h)'
  <2>1. PlaceFits(h)
    BY DEF GenInv
  <2>2. CASE h # r.gen
    <3>1. state'[h] = state[h] /\ suspended'[h] = suspended[h]
      BY <2>2, <1>9
    <3>2. (Parked(h)' <=> Parked(h)) /\ (ParkedFits(h) => ParkedFits(h)')
      BY <3>1 DEF Parked, ParkedFits
    <3>3. /\ Active(h, resumes') <=> Active(h, resumes)
          /\ Binding(h, resumes) => Binding(h, resumes')
      BY <2>2, <1>7
    <3>4. Active(h, resumes) => Cardinality(CellsOf(h, closures')) <= cells[h]
      <4>1. Cardinality(CellsOf(h, closures')) <= Cardinality(CellsOf(h, closures))
        BY <1>1, <1>2, CellsCut
      <4>2. /\ Cardinality(CellsOf(h, closures')) \in Nat
            /\ Cardinality(CellsOf(h, closures)) \in Nat /\ cells[h] \in Nat
        BY <1>1, <1>9, CellsFinite
      <4> QED
        BY <4>1, <4>2, <2>1 DEF PlaceFits
    <3> QED
      BY <2>1, <3>1, <3>2, <3>3, <3>4 DEF PlaceFits, Uses
  <2>3. CASE h = r.gen
    <3>1. state'[h] = s /\ suspended'[h] = p /\ ~Active(h, resumes)'
      BY <2>3, <1>2, <1>7, <1>9
    <3>2. CASE s = "Completed" /\ p = NoFrame
      <4>1. ~Parked(h)'
        BY <3>1, <3>2 DEF Parked
      <4> QED
        BY <3>1, <3>2, <4>1 DEF PlaceFits
    <3>3. CASE ParksAs(r.gen, s, p)
      <4>1. Parked(h)'
        BY <3>1, <3>3, NoFrameAssumption DEF Parked, ParksAs
      <4>2. ParkedFits(h)'
        BY <2>3, <3>1, <3>3 DEF ParkedFits, ParksAs
      <4>3. state'[h] \in {"SuspendedStart", "SuspendedYield"}
        BY <3>1, <3>3 DEF ParksAs
      <4> QED
        BY <3>1, <4>1, <4>2, <4>3 DEF PlaceFits
    <3> QED
      BY <3>2, <3>3
  <2> QED
    BY <2>2, <2>3
<1>12. GenInv'
  <2>1. DelegatesInv(delegates, resumes, error)'
    BY <1>5 DEF DelegatesInv, DelegateOwned, Uses
  <2>2. (limits.tries = 0 => seh = <<>>)'
    <3>1. SUFFICES ASSUME limits.tries = 0 PROVE seh' = <<>>
      OBVIOUS
    <3>2. seh = <<>>
      BY <3>1 DEF GenInv
    <3>3. Len(seh') = 0
      <4>1. Len(seh) = 0 /\ Len(seh') = r.seh /\ r.seh <= Len(seh)
        BY <3>2 DEF Cut
      <4> QED
        BY <4>1, <1>2
    <3> QED
      BY <3>3
  <2>3. ((\E i \in 1..Len(resumes) : resumes[i].prologue) => prologue)'
    BY <1>8
  <2> QED
    BY <1>3, <1>4, <1>10, <1>11, <2>1, <2>2, <2>3 DEF GenInv
<1>13. StacksKept
  <2>1. /\ Keeps(frames', frames, r.frame_depth) /\ Keeps(closures', closures, r.closure)
        /\ Keeps(seh', seh, r.seh) /\ Keeps(delegates', delegates, r.delegate)
    BY <1>2 DEF Cut, Keeps
  <2>2. /\ Len(frames') = r.frame_depth /\ Len(closures') = r.closure
        /\ Len(seh') = r.seh /\ Len(delegates') = r.delegate
    BY DEF Cut
  <2> QED
    BY <2>1, <2>2 DEF StacksKept
<1>14. ASSUME Careful PROVE Honoured
  <2> SUFFICES ASSUME NEW h \in Gen, ~Parked(h)', ~Active(h, resumes)'
               PROVE  /\ Parked(h) => \A k \in 1..Len(suspended[h].seh) :
                                        MayGo(suspended[h].seh[k])
                      /\ Active(h, resumes) =>
                            \A k \in 1..Len(seh) :
                                seh[k].owner = h => MayGo(seh[k])
    BY DEF Honoured
  <2>1. CASE h # r.gen
    <3>1. suspended'[h] = suspended[h]
      BY <2>1, <1>9
    <3> QED
      BY <2>1, <3>1, <1>7 DEF Parked
  <2>2. CASE h = r.gen
    <3>1. Active(h, resumes)
      BY <2>2, <1>1 DEF Active
    <3>2. ~Parked(h)
      BY <3>1 DEF GenInv, PlaceFits
    <3>3. suspended'[h] = p
      BY <2>2, <1>2, <1>9
    <3>4. p = NoFrame
      BY <3>3 DEF Parked
    <3> QED
      BY <2>2, <3>2, <3>4, <1>14
  <2> QED
    BY <2>1, <2>2
<1> QED
  BY <1>12, <1>13, <1>14 DEF StepKeeps
\* A stack that only grew keeps every part of it.
LEMMA KeepsLess ==
    ASSUME NEW t, NEW s, NEW n \in Nat, Len(s) \in Nat, Len(t) \in Nat,
           n <= Len(s), Len(s) <= Len(t), \A i \in 1..Len(s) : t[i] = s[i]
    PROVE  Keeps(t, s, n)
BY DEF Keeps

\* A generator is created or resumed: its frame is on top.
Pushes(g, F, r, s, ds) ==
    /\ Len(frames) < MaxFrames
    /\ frames' = Append(frames, F) /\ F.gen = g
    /\ F.closure_depth = Len(closures) /\ F.seh_depth = Len(seh)
    /\ closures' \in Seq(Owner) /\ seh' \in Seq(Record)
    /\ Layered(frames', closures', seh')
    /\ Keeps(closures', closures, Len(closures)) /\ Keeps(seh', seh, Len(seh))
    /\ \A k \in 1..Len(closures') : k > Len(closures) => closures'[k] = g
    /\ delegates' = delegates \o ds /\ \A k \in 1..Len(ds) : ds[k] = g
    /\ resumes' = Append(resumes, r) /\ r.gen = g
    /\ r.frame_depth = Len(frames) /\ r.closure = Len(closures)
    /\ r.seh = Len(seh) /\ r.delegate = Len(delegates)
    /\ r.closure <= r.closure_depth
    /\ r.prologue <=> F.at = "prologue"
    /\ prologue => r.flag
    /\ prologue' \in BOOLEAN /\ (r.prologue \/ prologue => prologue')
    /\ error' = error /\ limits' = limits
    /\ limits.tries = 0 => seh' = <<>>
    /\ state' = [state EXCEPT ![g] = s]
    /\ s = "Executing" \/ (s = "SuspendedStart" /\ r.prologue)
    /\ suspended' = [suspended EXCEPT ![g] = NoFrame]
    /\ cells' \in [Gen -> Nat] /\ \A h \in Gen : h # g => cells'[h] = cells[h]
    /\ Len(closures') - Len(closures) <= cells'[g]

LEMMA PushStep ==
    ASSUME GenInv, ~error, NEW g \in Gen, ~Active(g, resumes),
           NEW F \in Frame, NEW r \in Resume, NEW s \in States, NEW ds \in Seq(Gen),
           Pushes(g, F, r, s, ds)
    PROVE  StepKeeps
<1>p. /\ F.gen = g /\ F.closure_depth = Len(closures) /\ F.seh_depth = Len(seh)
      /\ Len(frames) < MaxFrames
      /\ closures' \in Seq(Owner) /\ seh' \in Seq(Record)
      /\ Layered(frames', closures', seh')
      /\ limits' = limits /\ error' = error
      /\ limits.tries = 0 => seh' = <<>>
      /\ prologue' \in BOOLEAN /\ cells' \in [Gen -> Nat]
  BY DEF Pushes
<1>k. /\ Len(closures) <= Len(closures')
      /\ \A k \in 1..Len(closures) : closures'[k] = closures[k]
      /\ Len(seh) <= Len(seh') /\ \A k \in 1..Len(seh) : seh'[k] = seh[k]
      /\ \A k \in 1..Len(closures') : k > Len(closures) => closures'[k] = g
      /\ Len(closures') - Len(closures) <= cells'[g]
  BY DEF Pushes, Keeps
<1>s. /\ state' = [state EXCEPT ![g] = s]
      /\ s = "Executing" \/ (s = "SuspendedStart" /\ r.prologue)
      /\ suspended' = [suspended EXCEPT ![g] = NoFrame]
      /\ \A h \in Gen : h # g => cells'[h] = cells[h]
  BY DEF Pushes
<1>r. /\ r.gen = g /\ r.frame_depth = Len(frames) /\ r.closure = Len(closures)
      /\ r.seh = Len(seh) /\ r.delegate = Len(delegates)
      /\ r.closure <= r.closure_depth
      /\ r.prologue <=> F.at = "prologue"
      /\ prologue => r.flag
      /\ r.prologue \/ prologue => prologue'
  BY DEF Pushes
<1>1. /\ resumes \in Seq(Resume) /\ Len(resumes) \in Nat
      /\ frames \in Seq(Frame) /\ Len(frames) \in Nat /\ Len(frames) >= 1
      /\ delegates \in Seq(Gen) /\ Len(delegates) \in Nat
      /\ closures \in Seq(Owner) /\ seh \in Seq(Record)
      /\ Len(closures) \in Nat /\ Len(seh) \in Nat /\ Len(closures') \in Nat
      /\ ResumesInv(frames, delegates, resumes)
      /\ Layered(frames, closures, seh)
  BY TopFacts, ResumeTypes
<1>2. /\ resumes' \in Seq(Resume) /\ Len(resumes') = Len(resumes) + 1
      /\ resumes'[Len(resumes) + 1] = r
      /\ \A i \in 1..Len(resumes) : resumes'[i] = resumes[i]
      /\ \A i \in 1..Len(resumes') : i \in 1..Len(resumes) \/ i = Len(resumes) + 1
  <2>1. resumes' = Append(resumes, r)
    BY DEF Pushes
  <2>2. /\ resumes' \in Seq(Resume) /\ Len(resumes') = Len(resumes) + 1
        /\ resumes'[Len(resumes) + 1] = r
        /\ \A i \in 1..Len(resumes) : resumes'[i] = resumes[i]
    BY <1>1, <2>1, AppendFacts
  <2> QED
    BY <1>1, <2>2
<1>3. /\ frames' \in Seq(Frame) /\ Len(frames') = Len(frames) + 1
      /\ \A i \in 1..Len(frames) : frames'[i] = frames[i]
  BY <1>1, AppendFacts DEF Pushes
<1>4. /\ delegates' \in Seq(Gen) /\ Len(delegates') = Len(delegates) + Len(ds)
      /\ Len(ds) \in Nat /\ \A i \in 1..Len(delegates) : delegates'[i] = delegates[i]
  BY <1>1, JoinFacts DEF Pushes
<1>5. /\ state \in [Gen -> States] /\ limits \in Setups
      /\ suspended \in [Gen -> SuspendedFrame \cup {NoFrame}]
      /\ cells \in [Gen -> Nat] /\ prologue \in BOOLEAN
      /\ Len(frames) \in 1..MaxFrames /\ MaxFrames \in Nat
  BY GeneratorsAssumption DEF GenInv, GenTypes, MaxFrames
<1>6. ResumesInv(frames', delegates', resumes')
  <2>1. (\E i \in 1..Len(resumes) : resumes[i].prologue) => r.flag
    BY <1>r DEF GenInv
  <2>2. Len(delegates') \in Nat /\ Len(delegates) <= Len(delegates')
    BY <1>1, <1>4
  <2> QED
    BY <1>1, <1>p, <1>r, <2>1, <2>2, ResumesPushed DEF Pushes
<1>7. DelegatesInv(delegates', resumes', error')
  <2>1. DelegatesInv(delegates, resumes, FALSE)
    BY DEF GenInv, DelegatesInv
  <2> QED
    BY <2>1, <1>1, <1>r, DelegatesPushed DEF Pushes
<1>8. \A h : /\ Active(h, resumes') <=> Active(h, resumes) \/ h = g
             /\ Binding(h, resumes) => Binding(h, resumes')
  <2> TAKE h
  <2>1. \A i \in 1..Len(resumes) : i \in 1..Len(resumes')
    BY <1>1, <1>2
  <2>2. Len(resumes) + 1 \in 1..Len(resumes')
    BY <1>1, <1>2
  <2>3. Active(h, resumes') <=> Active(h, resumes) \/ h = g
    BY <2>1, <2>2, <1>2, <1>r DEF Active
  <2>4. Binding(h, resumes) => Binding(h, resumes')
    BY <2>1, <1>2 DEF Binding
  <2> QED
    BY <2>3, <2>4
<1>9. (\E i \in 1..Len(resumes') : resumes'[i].prologue) => prologue'
  <2> SUFFICES ASSUME NEW i \in 1..Len(resumes'), resumes'[i].prologue
               PROVE  prologue'
    OBVIOUS
  <2>1. CASE i \in 1..Len(resumes)
    <3>1. resumes[i].prologue
      BY <2>1, <1>2
    <3>2. prologue
      BY <2>1, <3>1 DEF GenInv
    <3> QED
      BY <3>2, <1>r
  <2>2. CASE i = Len(resumes) + 1
    BY <2>2, <1>2, <1>r
  <2> QED
    BY <2>1, <2>2, <1>2
<1>10. GenTypes'
  <2>1. /\ state' \in [Gen -> States]
        /\ suspended' \in [Gen -> SuspendedFrame \cup {NoFrame}]
    BY <1>5, <1>s
  <2>2. Len(frames') \in 1..MaxFrames'
    <3>1. MaxFrames' = MaxFrames
      BY <1>p DEF MaxFrames
    <3> QED
      BY <3>1, <1>1, <1>3, <1>5, <1>p
  <2>3. error' \in BOOLEAN /\ limits' \in Setups
    BY <1>5, <1>p DEF GenInv, GenTypes
  <2> QED
    BY <2>1, <2>2, <2>3, <1>2, <1>3, <1>4, <1>p DEF GenTypes
<1>11. CellsOf(g, closures) = {}
  <2>1. SUFFICES ASSUME NEW k \in 1..Len(closures), closures[k] = g
                 PROVE  FALSE
    BY DEF CellsOf
  <2>2. PICK f \in 1..Len(frames) : frames[f].gen = g
    <3>1. CellsOwned(frames, closures)
      BY <1>1 DEF Layered
    <3>2. \E f \in 1..Len(frames) : closures[k] = frames[f].gen
      BY <3>1 DEF CellsOwned
    <3> QED
      BY <2>1, <3>2
  <2>3. frames[f].gen # 0
    BY <2>2, GeneratorsAssumption DEF Gen
  <2>4. PICK i \in 1..Len(resumes) : resumes[i].frame_depth + 1 = f
    BY <2>3, <1>1 DEF ResumesInv
  <2>5. ResumptionFits(frames, delegates, resumes[i])
    BY <1>1 DEF ResumesInv
  <2>6. resumes[i].gen = g
    BY <2>2, <2>4, <2>5 DEF ResumptionFits
  <2> QED
    BY <2>6 DEF Active
<1>12. ASSUME NEW h \in Gen PROVE PlaceFits(h)'
  <2>1. PlaceFits(h)
    BY DEF GenInv
  <2>2. CASE h # g
    <3>1. state'[h] = state[h] /\ suspended'[h] = suspended[h]
          /\ cells'[h] = cells[h]
      BY <2>2, <1>5, <1>s
    <3>2. (Parked(h)' <=> Parked(h)) /\ (ParkedFits(h) => ParkedFits(h)')
      BY <3>1, <1>p DEF Parked, ParkedFits
    <3>3. /\ Active(h, resumes') <=> Active(h, resumes)
          /\ Binding(h, resumes) => Binding(h, resumes')
      BY <2>2, <1>8
    <3>4. CellsOf(h, closures') = CellsOf(h, closures)
      <4>2. ASSUME NEW k \in 1..Len(closures'), closures'[k] = h
            PROVE  k \in 1..Len(closures) /\ closures[k] = h
        <5>1. ~(k > Len(closures))
          BY <4>2, <2>2, <1>k
        <5>2. k \in 1..Len(closures)
          BY <5>1, <1>1
        <5> QED
          BY <4>2, <5>2, <1>k
      <4>3. \A k \in 1..Len(closures) : closures[k] = h =>
                k \in 1..Len(closures') /\ closures'[k] = h
        BY <1>k, <1>1
      <4> QED
        BY <4>2, <4>3 DEF CellsOf
    <3> QED
      BY <2>1, <3>1, <3>2, <3>3, <3>4, <1>p DEF PlaceFits, Uses
  <2>3. CASE h = g
    <3>1. state'[h] = s /\ suspended'[h] = NoFrame /\ Active(h, resumes)'
      BY <2>3, <1>5, <1>8, <1>s
    <3>2. s = "SuspendedStart" => Binding(h, resumes)'
      <4>1. SUFFICES ASSUME r.prologue PROVE Binding(g, resumes')
        BY <2>3, <1>s
      <4>2. Len(resumes) + 1 \in 1..Len(resumes')
        BY <1>1, <1>2
      <4> QED
        BY <4>1, <4>2, <1>2, <1>r DEF Binding
    <3>3. Cardinality(CellsOf(h, closures')) <= cells'[h]
      <4> DEFINE a == Len(closures)
                 b == Len(closures')
      <4>1. CellsOf(g, closures') \subseteq (a + 1)..b
        <5>1. a <= b /\ a \in Nat /\ b \in Nat
          BY <1>1, <1>k
        <5>2. ASSUME NEW k \in 1..b, closures'[k] = g PROVE k \in (a + 1)..b
          <6>1. k \notin 1..a
            BY <5>2, <1>k, <1>11 DEF CellsOf
          <6> HIDE DEF a, b
          <6> QED
            BY <5>1, <6>1
        <5> QED
          BY <5>2 DEF CellsOf
      <4>2. a <= b /\ a \in Nat /\ b \in Nat
        BY <1>1, <1>k
      <4> HIDE DEF a, b
      <4>3. /\ IsFiniteSet((a + 1)..b)
            /\ Cardinality((a + 1)..b) = IF a + 1 > b THEN 0 ELSE b - (a + 1) + 1
        <5>1. PICK low : low = a + 1
          OBVIOUS
        <5>2. low \in Int /\ b \in Int
          BY <4>2, <5>1
        <5>3. /\ IsFiniteSet(low..b)
              /\ Cardinality(low..b) = IF low > b THEN 0 ELSE b - low + 1
          BY <5>2, FS_Interval
        <5> QED
          BY <5>1, <5>3
      <4>4. Cardinality((a + 1)..b) = b - a
        <5>1. a + 1 > b => b - a = 0
          BY <4>2
        <5>2. ~(a + 1 > b) => b - (a + 1) + 1 = b - a
          BY <4>2
        <5> QED
          BY <4>3, <5>1, <5>2
      <4>5. Cardinality(CellsOf(g, closures')) <= b - a
        <5>1. CellsOf(g, closures') \subseteq (a + 1)..b /\ IsFiniteSet((a + 1)..b)
          BY <4>1, <4>3
        <5>2. Cardinality(CellsOf(g, closures')) <= Cardinality((a + 1)..b)
          BY ONLY <5>1, FS_Subset
        <5> QED
          BY <5>2, <4>4
      <4>6. /\ Cardinality(CellsOf(g, closures')) \in Nat /\ cells'[g] \in Nat
            /\ b - a <= cells'[g]
        BY <1>k, <1>p, CellsFinite DEF a, b
      <4> QED
        BY <2>3, <4>2, <4>5, <4>6
    <3>4. ~Parked(h)'
      BY <3>1 DEF Parked
    <3> QED
      BY <3>1, <3>2, <3>3, <3>4, <1>s DEF PlaceFits
  <2> QED
    BY <2>2, <2>3
<1>13. GenInv'
  <2>1. DelegatesInv(delegates, resumes, error)'
    BY <1>7, <1>p DEF DelegatesInv, DelegateOwned, Uses
  <2>2. (limits.tries = 0 => seh = <<>>)'
    BY <1>p
  <2>3. ((\E i \in 1..Len(resumes) : resumes[i].prologue) => prologue)'
    BY <1>9
  <2> QED
    BY <1>6, <1>10, <1>12, <1>p, <2>1, <2>2, <2>3 DEF GenInv
<1>14. StacksKept
  <2> SUFFICES ASSUME resumes # <<>>
               PROVE  LET q == Last(resumes)
                      IN  /\ Keeps(frames', frames, q.frame_depth)
                          /\ Keeps(closures', closures, q.closure)
                          /\ Keeps(seh', seh, q.seh)
                          /\ Keeps(delegates', delegates, q.delegate)
    BY <1>1, <1>2 DEF StacksKept
  <2>1. PICK q : q = Last(resumes)
    OBVIOUS
  <2>2. /\ q.frame_depth \in Nat /\ q.frame_depth < Len(frames)
        /\ q.closure \in Nat /\ q.seh \in Nat /\ q.delegate \in Nat
        /\ q.closure <= Len(closures) /\ q.seh <= Len(seh)
        /\ q.delegate <= Len(delegates)
    BY <2>1, LastFacts
  <2>3. Keeps(frames', frames, q.frame_depth)
    <3>1. Len(frames) <= Len(frames') /\ Len(frames') \in Nat
          /\ q.frame_depth <= Len(frames)
      BY <2>2, <1>1, <1>3
    <3> QED
      BY <3>1, <2>2, <1>1, <1>3, KeepsLess
  <2>4. Keeps(closures', closures, q.closure)
    BY <2>2, <1>1, <1>k, KeepsLess
  <2>5. Keeps(seh', seh, q.seh)
    <3>1. Len(seh') \in Nat
      BY <1>p
    <3> QED
      BY <3>1, <2>2, <1>1, <1>k, KeepsLess
  <2>6. Keeps(delegates', delegates, q.delegate)
    <3>1. Len(delegates) <= Len(delegates') /\ Len(delegates') \in Nat
      BY <1>1, <1>4
    <3> QED
      BY <3>1, <2>2, <1>1, <1>4, KeepsLess
  <2> QED
    BY <2>1, <2>3, <2>4, <2>5, <2>6
<1>15. Honoured
  <2> SUFFICES ASSUME NEW h \in Gen, ~Parked(h)', ~Active(h, resumes)'
               PROVE  ~Parked(h) /\ ~Active(h, resumes)
    BY DEF Honoured
  <2>1. h # g /\ ~Active(h, resumes)
    BY <1>8
  <2>2. suspended'[h] = suspended[h]
    BY <2>1, <1>5, <1>s
  <2> QED
    BY <2>1, <2>2 DEF Parked
<1> QED
  BY <1>13, <1>14, <1>15 DEF StepKeeps
-----------------------------------------------------------------------------
(* Steps of running code.                                                  *)

\* What does not change is as it was.
LEMMA Unmoved ==
    ASSUME GenInv
    PROVE  /\ SameResumes(resumes, resumes)
           /\ \A f \in 1..Len(frames) : FrameKept(frames, frames, f)
           /\ resumes # <<>> =>
                LET r == Last(resumes)
                IN  /\ Keeps(frames, frames, r.frame_depth)
                    /\ Keeps(closures, closures, r.closure)
                    /\ Keeps(seh, seh, r.seh)
                    /\ Keeps(delegates, delegates, r.delegate)
           /\ cells \in [Gen -> Nat]
           /\ \A h \in Gen : Active(h, resumes) =>
                Cardinality(CellsOf(h, closures)) <= cells[h]
           /\ limits.tries = 0 => seh = <<>>
           /\ DelegatesInv(delegates, resumes, error)
           /\ state \in [Gen -> States]
           /\ suspended \in [Gen -> SuspendedFrame \cup {NoFrame}]
           /\ prologue \in BOOLEAN /\ error \in BOOLEAN
           /\ Len(frames) \in 1..MaxFrames /\ MaxFrames \in Nat
           /\ limits \in Setups
<1>1. SameResumes(resumes, resumes)
  <2>1. resumes \in Seq(Resume) /\ ResumesInv(frames, delegates, resumes)
    BY TopFacts
  <2> QED
    BY <2>1 DEF SameResumes, ResumesInv, ResumptionFits
<1>2. \A f \in 1..Len(frames) : FrameKept(frames, frames, f)
  <2>1. Len(frames) \in Nat
    BY TopFacts
  <2> QED
    BY <2>1 DEF FrameKept
<1>3. ASSUME resumes # <<>>, NEW r, r = Last(resumes)
      PROVE  /\ Keeps(frames, frames, r.frame_depth)
             /\ Keeps(closures, closures, r.closure)
             /\ Keeps(seh, seh, r.seh)
             /\ Keeps(delegates, delegates, r.delegate)
  <2>1. /\ r.frame_depth \in Nat /\ r.frame_depth <= Len(frames)
        /\ r.closure <= Len(closures) /\ r.seh <= Len(seh)
        /\ r.delegate <= Len(delegates)
    BY <1>3, LastFacts, TopFacts
  <2> QED
    BY <2>1 DEF Keeps
<1>4. MaxFrames \in Nat /\ limits \in Setups
  BY GeneratorsAssumption DEF GenInv, GenTypes, MaxFrames
<1>5. \A h \in Gen : Active(h, resumes) =>
          Cardinality(CellsOf(h, closures)) <= cells[h]
  BY DEF GenInv, PlaceFits
<1> QED
  BY <1>1, <1>2, <1>3, <1>4, <1>5 DEF GenInv, GenTypes

\* Stacks that only grow keep what the resumer has on them.
LEMMA GrownKept ==
    ASSUME GenInv,
           Len(frames') \in Nat, Len(frames) <= Len(frames'),
           \A i \in 1..Len(frames) : frames'[i] = frames[i],
           Len(closures') \in Nat, Len(closures) <= Len(closures'),
           \A i \in 1..Len(closures) : closures'[i] = closures[i],
           Len(seh') \in Nat, Len(seh) <= Len(seh'),
           \A i \in 1..Len(seh) : seh'[i] = seh[i],
           Len(delegates') \in Nat, Len(delegates) <= Len(delegates'),
           \A i \in 1..Len(delegates) : delegates'[i] = delegates[i]
    PROVE  LastKept
<1> SUFFICES ASSUME resumes # <<>>, NEW r, r = Last(resumes)
             PROVE  /\ Keeps(frames', frames, r.frame_depth)
                    /\ Keeps(closures', closures, r.closure)
                    /\ Keeps(seh', seh, r.seh)
                    /\ Keeps(delegates', delegates, r.delegate)
  BY DEF LastKept
<1>1. /\ r.frame_depth \in Nat /\ r.frame_depth <= Len(frames)
      /\ r.closure \in Nat /\ r.closure <= Len(closures)
      /\ r.seh \in Nat /\ r.seh <= Len(seh)
      /\ r.delegate \in Nat /\ r.delegate <= Len(delegates)
  BY LastFacts, TopFacts
<1>2. /\ Len(frames) \in Nat /\ Len(closures) \in Nat /\ Len(seh) \in Nat
      /\ Len(delegates) \in Nat
  BY TopFacts
<1>3. Keeps(frames', frames, r.frame_depth)
  BY <1>1, <1>2, KeepsLess
<1>4. Keeps(closures', closures, r.closure)
  BY <1>1, <1>2, KeepsLess
<1>5. Keeps(seh', seh, r.seh)
  BY <1>1, <1>2, KeepsLess
<1>6. Keeps(delegates', delegates, r.delegate)
  BY <1>1, <1>2, KeepsLess
<1> QED
  BY <1>3, <1>4, <1>5, <1>6

\* What generators have parked stays, unless a step says otherwise.
LEMMA PlacesStay ==
    ASSUME UNCHANGED <<state, suspended>>
    PROVE  \A h \in Gen : PlaceMoved(h)
BY DEF PlaceMoved

\* Entries of nobody's are no generator's cells.
LEMMA CellsOfOthers ==
    ASSUME NEW cl \in Seq(Owner), NEW ms \in Seq(Owner), NEW h,
           \A k \in 1..Len(ms) : ms[k] # h
    PROVE  CellsOf(h, cl \o ms) = CellsOf(h, cl)
<1> DEFINE ds == cl \o ms
<1>1. /\ Len(ds) = Len(cl) + Len(ms) /\ Len(cl) \in Nat /\ Len(ms) \in Nat
      /\ \A k \in 1..Len(cl) : ds[k] = cl[k]
      /\ \A k \in 1..Len(ms) : ds[Len(cl) + k] = ms[k]
  BY JoinFacts
<1> HIDE DEF ds
<1>2. ASSUME NEW k \in 1..Len(ds), ds[k] = h PROVE k \in 1..Len(cl)
  <2>1. SUFFICES ASSUME k > Len(cl) PROVE FALSE
    BY <1>1
  <2>2. PICK q \in 1..Len(ms) : k = Len(cl) + q
    <3>1. k - Len(cl) \in 1..Len(ms) /\ k = Len(cl) + (k - Len(cl))
      BY <2>1, <1>1
    <3> QED
      BY <3>1
  <2> QED
    BY <2>2, <1>1, <1>2
<1>3. CellsOf(h, ds) = CellsOf(h, cl)
  BY <1>1, <1>2 DEF CellsOf
<1> QED
  BY <1>3 DEF ds

\* At most one entry on top, all of one owner.
LEMMA FewFacts ==
    ASSUME NEW c \in 0..1, NEW o \in Owner
    PROVE  /\ [i \in 1..c |-> o] \in Seq(Owner) /\ Len([i \in 1..c |-> o]) = c
           /\ \A k \in 1..c : [i \in 1..c |-> o][k] = o
OBVIOUS

\* A function is called.
LEMMA CallStep ==
    ASSUME GenInv, NEW c \in 0..1, Call(c)
    PROVE  StepKeeps
<1> DEFINE F == [gen |-> 0, at |-> "body", closure_depth |-> Len(closures),
                 seh_depth |-> Len(seh)]
           ms == [i \in 1..c |-> 0]
<1>1. /\ frames' = Append(frames, F) /\ closures' = closures \o ms
      /\ Len(frames) < MaxFrames
      /\ UNCHANGED <<state, suspended, cells, limits, seh, delegates, resumes,
                     prologue, error>>
  BY DEF Call, genVars, Depth
<1>2. /\ frames \in Seq(Frame) /\ closures \in Seq(Owner) /\ seh \in Seq(Record)
      /\ Len(frames) \in Nat /\ Len(frames) >= 1 /\ Len(closures) \in Nat
      /\ Len(seh) \in Nat /\ Len(delegates) \in Nat
      /\ delegates \in Seq(Gen) /\ resumes \in Seq(Resume)
      /\ Layered(frames, closures, seh)
      /\ InvokeBoundary \in Nat /\ InvokeBoundary < Len(frames)
  BY TopFacts
<1>3. 0 \in Owner /\ \A h \in Gen : h # 0
  BY GeneratorsAssumption DEF Owner, Gen
<1>4. ms \in Seq(Owner) /\ Len(ms) = c /\ \A k \in 1..Len(ms) : ms[k] = 0
  BY <1>3, FewFacts
<1>5. F \in Frame
  BY <1>2, <1>3 DEF Frame, At
<1>6. /\ F.gen = 0 /\ F.at = "body" /\ F.closure_depth = Len(closures)
      /\ F.seh_depth = Len(seh)
  OBVIOUS
<1> HIDE DEF F, ms
<1>7. Layered(frames', closures', seh')
  <2> DEFINE none == <<>>
  <2>1. seh \o none = seh /\ none \in Seq(Record) /\ Rising(none)
        /\ Len(none) = 0 /\ none = <<>>
    BY <1>2 DEF Rising
  <2> HIDE DEF none
  <2>2. \A k \in 1..Len(ms) : ms[k] = F.gen
    BY <1>4, <1>6
  <2>3. \A k \in 1..Len(none) : FALSE
    BY <2>1
  <2>4. Layered(Append(frames, F), closures \o ms, seh \o none)
    BY <1>2, <1>4, <1>5, <1>6, <2>1, <2>2, <2>3, LayersPush
  <2> QED
    BY <1>1, <2>1, <2>4
<1>8. /\ frames' \in Seq(Frame) /\ Len(frames') = Len(frames) + 1
      /\ \A i \in 1..Len(frames) : frames'[i] = frames[i]
      /\ frames'[Len(frames) + 1] = F
  BY <1>1, <1>2, <1>5, AppendFacts
<1>9. /\ closures' \in Seq(Owner) /\ Len(closures') = Len(closures) + c
      /\ \A i \in 1..Len(closures) : closures'[i] = closures[i]
  BY <1>1, <1>2, <1>4, JoinFacts
<1>10. ASSUME NEW f \in 1..Len(frames') PROVE FrameKept(frames, frames', f)
  <2>1. CASE f \in 1..Len(frames)
    BY <2>1, <1>2, <1>8 DEF FrameKept
  <2>2. CASE f = Len(frames) + 1
    BY <2>2, <1>2, <1>6, <1>8 DEF FrameKept
  <2> QED
    BY <2>1, <2>2, <1>2, <1>8
<1>11. LastKept
  <2>1. Len(closures') \in Nat /\ Len(closures) <= Len(closures')
    BY <1>2, <1>9
  <2> QED
    BY <2>1, <1>1, <1>2, <1>8, <1>9, GrownKept
<1>12. CellsKept
  <2>1. \A h \in Gen : CellsOf(h, closures') = CellsOf(h, closures)
    BY <1>1, <1>2, <1>3, <1>4, CellsOfOthers
  <2> QED
    BY <2>1, <1>1, Unmoved DEF CellsKept
<1>13. Len(frames') \in 1..MaxFrames
  BY <1>1, <1>2, <1>8, Unmoved
<1>14. /\ SameResumes(resumes, resumes') /\ DelegatesInv(delegates', resumes', error')
       /\ limits.tries = 0 => seh' = <<>>
       /\ state' \in [Gen -> States]
       /\ suspended' \in [Gen -> SuspendedFrame \cup {NoFrame}]
       /\ error' \in BOOLEAN /\ InvokeBoundary < Len(frames')
  BY <1>1, <1>2, <1>8, Unmoved
<1>15. \A h \in Gen : PlaceMoved(h)
  BY <1>1, PlacesStay
<1> QED
  BY <1>1, <1>2, <1>7, <1>8, <1>9, <1>10, <1>11, <1>12, <1>13, <1>14, <1>15,
     InnerStep
\* The resumption on top saved the stacks below what the frame on top has.
LEMMA LastBelowTop ==
    ASSUME GenInv
    PROVE  /\ Top.closure_depth \in Nat /\ Top.seh_depth \in Nat
           /\ Top.closure_depth <= Len(closures) /\ Top.seh_depth <= Len(seh)
           /\ Top = frames[Len(frames)] /\ Len(frames) \in 1..Len(frames)
           /\ resumes # <<>> => /\ Last(resumes).closure <= Top.closure_depth
                                /\ Last(resumes).seh <= Top.seh_depth
<1>1. /\ frames \in Seq(Frame) /\ closures \in Seq(Owner) /\ seh \in Seq(Record)
      /\ Len(frames) \in Nat /\ Len(frames) >= 1 /\ Layered(frames, closures, seh)
  BY TopFacts
<1>2. Top = frames[Len(frames)] /\ Len(frames) \in 1..Len(frames)
  BY <1>1 DEF Top, Depth
<1>3. Watermarks(frames, closures, seh)
  BY <1>1 DEF Layered
<1>4. Top.closure_depth \in Nat /\ Top.seh_depth \in Nat
  BY <1>1, <1>2, StackTypes
<1>5. Top.closure_depth <= Len(closures) /\ Top.seh_depth <= Len(seh)
  BY <1>2, <1>3 DEF Watermarks
<1>6. ASSUME resumes # <<>>, NEW r, r = Last(resumes)
      PROVE  r.closure <= Top.closure_depth /\ r.seh <= Top.seh_depth
  <2>1. /\ r.frame_depth + 1 \in 1..Len(frames)
        /\ frames[r.frame_depth + 1].closure_depth = r.closure
        /\ frames[r.frame_depth + 1].seh_depth = r.seh
    BY <1>6, LastFacts
  <2>2. r.frame_depth + 1 <= Len(frames)
    BY <2>1, <1>1
  <2> QED
    BY <1>2, <1>3, <2>1, <2>2 DEF Watermarks
<1> QED
  BY <1>2, <1>4, <1>5, <1>6

\* A stack kept up to a depth is kept up to any smaller one.
LEMMA KeepsFewer ==
    ASSUME NEW t, NEW s, NEW n \in Nat, NEW m \in Nat, m <= n, Keeps(t, s, n)
    PROVE  Keeps(t, s, m)
<1>1. \A i \in 1..m : i \in 1..n
  OBVIOUS
<1>2. m <= Len(s) /\ m <= Len(t)
  BY DEF Keeps
<1> QED
  BY <1>1, <1>2 DEF Keeps

\* A stack cut at a depth keeps its frames.
LEMMA CutFrames ==
    ASSUME NEW fr, NEW gs, NEW n \in Nat, Cut(gs, fr, n), NEW f \in 1..n
    PROVE  FrameKept(fr, gs, f)
<1>1. gs[f] = fr[f]
  BY DEF Cut
<1>2. f <= Len(fr)
  BY DEF Cut
<1> QED
  BY <1>1, <1>2 DEF FrameKept

\* What happens above the watermarks of the frame on top does not touch what
\* the resumer has on the stacks.
LEMMA AboveTopKept ==
    ASSUME GenInv, Keeps(frames', frames, Len(frames) - 1),
           Keeps(closures', closures, Top.closure_depth),
           Keeps(seh', seh, Top.seh_depth), UNCHANGED delegates
    PROVE  LastKept
<1> SUFFICES ASSUME resumes # <<>>, NEW r, r = Last(resumes)
             PROVE  /\ Keeps(frames', frames, r.frame_depth)
                    /\ Keeps(closures', closures, r.closure)
                    /\ Keeps(seh', seh, r.seh)
                    /\ Keeps(delegates', delegates, r.delegate)
  BY DEF LastKept
<1>1. /\ r.frame_depth \in Nat /\ r.frame_depth < Len(frames)
      /\ r.closure \in Nat /\ r.seh \in Nat /\ Len(frames) \in Nat
      /\ r.closure <= Top.closure_depth /\ r.seh <= Top.seh_depth
      /\ Top.closure_depth \in Nat /\ Top.seh_depth \in Nat
  BY LastFacts, TopFacts, LastBelowTop
<1>3. Keeps(delegates', delegates, r.delegate)
  BY Unmoved
<1>4. Len(frames) - 1 \in Nat /\ r.frame_depth <= Len(frames) - 1
  BY <1>1
<1>5. Keeps(frames', frames, r.frame_depth)
  BY <1>1, <1>4, KeepsFewer
<1>6. Keeps(closures', closures, r.closure)
  BY <1>1, KeepsFewer
<1>7. Keeps(seh', seh, r.seh)
  BY <1>1, KeepsFewer
<1> QED
  BY <1>3, <1>5, <1>6, <1>7

\* A step that leaves the generators alone.
LEMMA QuietStep ==
    ASSUME GenInv, UNCHANGED <<state, suspended, cells, limits, resumes, prologue,
                               delegates>>,
           error' \in BOOLEAN, "deep" \in Uses /\ error => error',
           frames' \in Seq(Frame), Len(frames') \in 1..MaxFrames,
           closures' \in Seq(Owner), seh' \in Seq(Record),
           Layered(frames', closures', seh'),
           \A f \in 1..Len(frames') : FrameKept(frames, frames', f),
           InvokeBoundary < Len(frames'), LastKept,
           limits.tries = 0 => seh' = <<>>,
           \A h \in Gen : Active(h, resumes) =>
              Cardinality(CellsOf(h, closures')) <= cells[h]
    PROVE  StepKeeps
<1>1. /\ frames \in Seq(Frame) /\ delegates \in Seq(Gen) /\ resumes \in Seq(Resume)
  BY TopFacts
<1>2. SameResumes(resumes, resumes') /\ DelegatesInv(delegates', resumes', error')
  BY <1>1, Unmoved, DelegatesKept
<1>3. CellsKept
  BY Unmoved DEF CellsKept
<1>4. /\ state' \in [Gen -> States]
      /\ suspended' \in [Gen -> SuspendedFrame \cup {NoFrame}]
      /\ \A h \in Gen : PlaceMoved(h)
  BY Unmoved, PlacesStay
<1> QED
  BY <1>1, <1>2, <1>3, <1>4, InnerStep

\* The body of a generator makes a cell.
LEMMA CellStep ==
    ASSUME GenInv, MakeCell
    PROVE  StepKeeps
<1>1. /\ Top.gen # 0 /\ closures' = Append(closures, Top.gen)
      /\ cells' = [cells EXCEPT ![Top.gen] = @ + 1]
      /\ UNCHANGED <<state, suspended, frames, seh, delegates, resumes,
                     prologue, error, limits>>
  BY DEF MakeCell
<1>2. /\ frames \in Seq(Frame) /\ closures \in Seq(Owner) /\ seh \in Seq(Record)
      /\ Len(frames) \in Nat /\ Len(frames) >= 1 /\ Len(closures) \in Nat
      /\ Len(seh) \in Nat /\ Len(delegates) \in Nat
      /\ delegates \in Seq(Gen) /\ resumes \in Seq(Resume)
      /\ Layered(frames, closures, seh)
      /\ InvokeBoundary \in Nat /\ InvokeBoundary < Len(frames)
  BY TopFacts
<1>3. PICK g : g = Top.gen
  OBVIOUS
<1>4. g \in Gen /\ g \in Owner /\ Active(g, resumes)
  <2>1. PICK r : r = Last(resumes)
    OBVIOUS
  <2>2. resumes # <<>> /\ g = r.gen
    BY <1>1, <1>3, <2>1, TopIsLast
  <2> QED
    BY <2>1, <2>2, LastFacts, GeneratorsAssumption DEF Gen, Owner
<1>5. Layered(frames', closures', seh')
  <2>1. Top = frames[Len(frames)]
    BY LastBelowTop
  <2>2. Layered(frames, Append(closures, frames[Len(frames)].gen), seh)
    BY <1>2, LayersCell
  <2> QED
    BY <1>1, <2>1, <2>2
<1>6. /\ closures' \in Seq(Owner) /\ Len(closures') = Len(closures) + 1
      /\ \A i \in 1..Len(closures) : closures'[i] = closures[i]
      /\ closures'[Len(closures) + 1] = g
  BY <1>1, <1>2, <1>3, <1>4, AppendFacts
<1>7. LastKept
  <2>1. Len(closures') \in Nat /\ Len(closures) <= Len(closures')
    BY <1>2, <1>6
  <2> QED
    BY <2>1, <1>1, <1>2, <1>6, GrownKept
<1>8. cells \in [Gen -> Nat] /\ cells' \in [Gen -> Nat]
  <2>1. cells \in [Gen -> Nat]
    BY Unmoved
  <2> QED
    BY <2>1, <1>1, <1>3, <1>4
<1>9. ASSUME NEW h \in Gen
      PROVE  IF Active(h, resumes)
             THEN Cardinality(CellsOf(h, closures')) <= cells'[h]
             ELSE cells'[h] = cells[h]
  <2>1. \A k \in 1..Len(closures') : k \in 1..Len(closures) \/ k = Len(closures) + 1
    BY <1>2, <1>6
  <2>2. \A k \in 1..Len(closures) : k \in 1..Len(closures')
    BY <1>2, <1>6
  <2>3. CASE h = g
    <3>1. CellsOf(h, closures') \subseteq CellsOf(h, closures) \cup {Len(closures) + 1}
      BY <2>1, <1>6 DEF CellsOf
    <3>2. Len(closures) + 1 \notin CellsOf(h, closures)
      BY <1>2 DEF CellsOf
    <3>3. /\ IsFiniteSet(CellsOf(h, closures) \cup {Len(closures) + 1})
          /\ Cardinality(CellsOf(h, closures) \cup {Len(closures) + 1})
                = Cardinality(CellsOf(h, closures)) + 1
      BY <3>2, <1>2, CellsFinite, FS_AddElement
    <3>4. Cardinality(CellsOf(h, closures'))
            <= Cardinality(CellsOf(h, closures)) + 1
      BY <3>1, <3>3, FS_Subset
    <3>5. Cardinality(CellsOf(h, closures)) <= cells[h]
      BY <2>3, <1>4, Unmoved
    <3>6. /\ Cardinality(CellsOf(h, closures)) \in Nat
          /\ Cardinality(CellsOf(h, closures')) \in Nat
      BY <1>2, <1>6, CellsFinite
    <3>7. cells'[h] = cells[h] + 1 /\ cells[h] \in Nat
      BY <2>3, <1>1, <1>3, <1>8
    <3> QED
      BY <2>3, <1>4, <3>4, <3>5, <3>6, <3>7
  <2>4. CASE h # g
    <3>1. CellsOf(h, closures') = CellsOf(h, closures)
      BY <2>1, <2>2, <2>4, <1>6 DEF CellsOf
    <3>2. cells'[h] = cells[h]
      BY <2>4, <1>1, <1>3, <1>8
    <3> QED
      BY <3>1, <3>2, Unmoved
  <2> QED
    BY <2>3, <2>4
<1>10. CellsKept
  BY <1>8, <1>9 DEF CellsKept
<1>11. /\ SameResumes(resumes, resumes') /\ DelegatesInv(delegates', resumes', error')
       /\ limits.tries = 0 => seh' = <<>>
       /\ state' \in [Gen -> States]
       /\ suspended' \in [Gen -> SuspendedFrame \cup {NoFrame}]
       /\ error' \in BOOLEAN /\ InvokeBoundary < Len(frames')
       /\ Len(frames') \in 1..MaxFrames
       /\ \A f \in 1..Len(frames') : FrameKept(frames, frames', f)
  BY <1>1, <1>2, Unmoved
<1>12. \A h \in Gen : PlaceMoved(h)
  BY <1>1, PlacesStay
<1> QED
  BY <1>1, <1>2, <1>5, <1>6, <1>7, <1>10, <1>11, <1>12, InnerStep
\* A try is opened.
LEMMA TryStep ==
    ASSUME GenInv, NEW fin \in BOOLEAN, Try(fin)
    PROVE  StepKeeps
<1> DEFINE e == [owner |-> Top.gen, finally |-> fin, mode |-> "try",
                 saved_frame_depth |-> Len(frames),
                 saved_closure_depth |-> Len(closures)]
<1>1. /\ seh' = Append(seh, e) /\ Top.at = "body" /\ Len(seh) < MaxTries
      /\ UNCHANGED <<state, suspended, cells, limits, frames, closures,
                     delegates, resumes, prologue, error>>
  BY DEF Try, genVars, Depth
<1>2. /\ frames \in Seq(Frame) /\ closures \in Seq(Owner) /\ seh \in Seq(Record)
      /\ Len(frames) \in Nat /\ Len(frames) >= 1 /\ Len(closures) \in Nat
      /\ Len(seh) \in Nat /\ Len(delegates) \in Nat
      /\ Layered(frames, closures, seh)
      /\ InvokeBoundary \in Nat /\ InvokeBoundary < Len(frames)
      /\ Top \in Frame /\ Top = frames[Len(frames)]
  BY TopFacts, LastBelowTop
<1>3. /\ e.owner = frames[Len(frames)].gen /\ e.mode = "try"
      /\ e.saved_frame_depth = Len(frames) /\ e.saved_closure_depth = Len(closures)
      /\ frames[Len(frames)].at # "prologue"
  BY <1>1, <1>2
<1>4. e \in Record
  BY <1>2 DEF Record, Frame
<1> HIDE DEF e
<1>5. Layered(frames', closures', seh')
  BY <1>1, <1>2, <1>3, <1>4, LayersTry
<1>6. /\ seh' \in Seq(Record) /\ Len(seh') = Len(seh) + 1
      /\ \A i \in 1..Len(seh) : seh'[i] = seh[i]
  BY <1>1, <1>2, <1>4, AppendFacts
<1>7. LastKept
  <2>1. Len(seh') \in Nat /\ Len(seh) <= Len(seh')
    BY <1>2, <1>6
  <2> QED
    BY <2>1, <1>1, <1>2, <1>6, GrownKept
<1>8. limits.tries = 0 => seh' = <<>>
  <2>1. limits.tries # 0
    BY <1>1, <1>2 DEF MaxTries
  <2> QED
    BY <2>1
<1> QED
  BY <1>1, <1>2, <1>5, <1>6, <1>7, <1>8, Unmoved, QuietStep

\* The records of the frame on top that are left when it goes on without the
\* last one, whose try is over, or with all of them.
Rest(recs) ==
    /\ recs \in Seq(Record) /\ Layered(frames, closures, recs)
    /\ Top.seh_depth <= Len(recs) /\ Len(recs) <= Len(seh)
    /\ \A k \in 1..Len(recs) : recs[k] = seh[k]
    /\ \A k \in 1..Len(seh) : k > Len(recs) => seh[k].mode # "try"
    /\ limits.tries = 0 => recs = <<>>

LEMMA RestAll ==
    ASSUME GenInv
    PROVE  Rest(seh)
<1>1. seh \in Seq(Record) /\ Layered(frames, closures, seh) /\ Len(seh) \in Nat
  BY TopFacts
<1>2. ~\E k \in 1..Len(seh) : k > Len(seh)
  BY <1>1
<1> QED
  BY <1>1, <1>2, LastBelowTop, Unmoved DEF Rest

\* All but the last record of the frame on top.
LEMMA FrontLayered ==
    ASSUME GenInv, OwnRecords # {}
    PROVE  /\ seh # <<>> /\ Front(seh) \in Seq(Record)
           /\ Layered(frames, closures, Front(seh))
           /\ Len(Front(seh)) = Len(seh) - 1 /\ Top.seh_depth <= Len(seh) - 1
           /\ \A k \in 1..(Len(seh) - 1) : Front(seh)[k] = seh[k]
           /\ Last(seh) = seh[Len(seh)] /\ Len(seh) \in Nat /\ Len(seh) >= 1
<1>1. /\ frames \in Seq(Frame) /\ closures \in Seq(Owner) /\ seh \in Seq(Record)
      /\ Len(frames) \in Nat /\ Len(frames) >= 1 /\ Len(closures) \in Nat
      /\ Len(seh) \in Nat /\ Layered(frames, closures, seh)
  BY TopFacts
<1>2. /\ Top.closure_depth \in Nat /\ Top.seh_depth \in Nat
      /\ Top.closure_depth <= Len(closures)
      /\ Top = frames[Len(frames)] /\ Len(frames) \in 1..Len(frames)
  BY LastBelowTop
<1>3. Top.seh_depth < Len(seh)
  BY <1>1, <1>2 DEF OwnRecords
<1>4. seh # <<>> /\ Len(seh) >= 1
  BY <1>1, <1>2, <1>3
<1>5. /\ Front(seh) \in Seq(Record) /\ Len(Front(seh)) = Len(seh) - 1
      /\ \A k \in 1..(Len(seh) - 1) : Front(seh)[k] = seh[k]
      /\ Last(seh) = seh[Len(seh)]
  BY <1>1, <1>4, LastIs
<1>6. CutPoint(frames, closures, seh, Len(frames), Len(closures), Len(seh) - 1)
  <2>1. ASSUME NEW k \in 1..(Len(seh) - 1)
        PROVE  seh[k].saved_closure_depth <= Len(closures)
    <3>1. k \in 1..Len(seh)
      BY <1>1
    <3>2. RecordFits(frames, closures, seh, k)
      BY <3>1, <1>1 DEF Layered
    <3> QED
      BY <3>2 DEF RecordFits
  <2>2. /\ Len(closures) \in 0..Len(closures) /\ Len(seh) - 1 \in 0..Len(seh)
        /\ Top.seh_depth <= Len(seh) - 1
        /\ ~\E j \in 1..Len(frames) : j > Len(frames)
    BY <1>1, <1>2, <1>3, <1>4
  <2> QED
    BY <2>1, <2>2, <1>2 DEF CutPoint
<1>7. /\ Cut(frames, frames, Len(frames)) /\ Cut(closures, closures, Len(closures))
      /\ Cut(Front(seh), seh, Len(seh) - 1)
  BY <1>1, <1>5 DEF Cut
<1>8. Layered(frames, closures, Front(seh))
  BY <1>1, <1>6, <1>7, LayersCut
<1> QED
  BY <1>1, <1>2, <1>3, <1>4, <1>5, <1>8

LEMMA RestFront ==
    ASSUME GenInv, OwnRecords # {}, Last(seh).mode # "try"
    PROVE  Rest(Front(seh))
<1>1. /\ Front(seh) \in Seq(Record) /\ Layered(frames, closures, Front(seh))
      /\ Len(Front(seh)) = Len(seh) - 1 /\ Top.seh_depth <= Len(seh) - 1
      /\ \A k \in 1..(Len(seh) - 1) : Front(seh)[k] = seh[k]
      /\ Last(seh) = seh[Len(seh)] /\ Len(seh) \in Nat /\ Len(seh) >= 1
  BY FrontLayered
<1>2. \A k \in 1..Len(seh) : k > Len(seh) - 1 => k = Len(seh)
  BY <1>1
<1>3. limits.tries # 0
  <2>1. seh # <<>>
    BY FrontLayered
  <2> QED
    BY <2>1, Unmoved
<1> QED
  BY <1>1, <1>2, <1>3 DEF Rest

\* A try ends.
LEMMA EndTryStep ==
    ASSUME GenInv, EndTry
    PROVE  StepKeeps
<1>1. /\ seh' = Front(seh) /\ OwnRecords # {}
      /\ UNCHANGED <<state, suspended, cells, limits, frames, closures,
                     delegates, resumes, prologue, error>>
  BY DEF EndTry, genVars
<1>2. /\ frames \in Seq(Frame) /\ closures \in Seq(Owner)
      /\ Len(frames) \in Nat /\ Len(frames) >= 1 /\ Len(closures) \in Nat
      /\ InvokeBoundary \in Nat /\ InvokeBoundary < Len(frames)
      /\ Top.closure_depth \in Nat /\ Top.seh_depth \in Nat
      /\ Top.closure_depth <= Len(closures)
  BY TopFacts, LastBelowTop
<1>3. /\ seh # <<>> /\ seh' \in Seq(Record) /\ Layered(frames', closures', seh')
      /\ Len(seh') = Len(seh) - 1 /\ Top.seh_depth <= Len(seh) - 1
      /\ \A k \in 1..(Len(seh) - 1) : seh'[k] = seh[k]
      /\ Len(seh) \in Nat /\ Len(seh) >= 1
  BY <1>1, FrontLayered
<1>4. LastKept
  <2>1. Keeps(frames', frames, Len(frames) - 1)
    BY <1>1, <1>2 DEF Keeps
  <2>2. Keeps(closures', closures, Top.closure_depth)
    BY <1>1, <1>2 DEF Keeps
  <2>3. Keeps(seh', seh, Top.seh_depth)
    <3>1. \A k \in 1..Top.seh_depth : k \in 1..(Len(seh) - 1)
      BY <1>2, <1>3
    <3> QED
      BY <3>1, <1>2, <1>3 DEF Keeps
  <2> QED
    BY <2>1, <2>2, <2>3, <1>1, AboveTopKept
<1>5. limits.tries = 0 => seh' = <<>>
  BY <1>3, Unmoved
<1> QED
  BY <1>1, <1>2, <1>3, <1>4, <1>5, Unmoved, QuietStep
\* Only the delegates change.
LEMMA DelegateStep ==
    ASSUME GenInv, UNCHANGED <<state, suspended, cells, limits, frames, closures,
                               seh, resumes, prologue, error>>,
           delegates' \in Seq(Gen), DelegatesInv(delegates', resumes, error),
           resumes # <<>> => Keeps(delegates', delegates, Last(resumes).delegate)
    PROVE  StepKeeps
<1>1. LastKept
  BY Unmoved DEF LastKept
<1>2. CellsKept
  BY Unmoved DEF CellsKept
<1>3. \A h \in Gen : PlaceMoved(h)
  BY PlacesStay
<1> QED
  BY <1>1, <1>2, <1>3, TopFacts, Unmoved, InnerStep

\* yield* begins ...
LEMMA OpenStep ==
    ASSUME GenInv, DelegateOpen
    PROVE  StepKeeps
<1>1. /\ ~error /\ Top.gen # 0 /\ delegates' = Append(delegates, Top.gen)
      /\ UNCHANGED <<state, suspended, cells, limits, frames, closures,
                     seh, resumes, prologue, error>>
  BY DEF DelegateOpen, CodeRuns, Running, genVars
<1>2. PICK r : r = Last(resumes)
  OBVIOUS
<1>3. /\ resumes # <<>> /\ Top.gen = r.gen /\ r.gen \in Gen
      /\ r.delegate \in Nat /\ r.delegate <= Len(delegates)
      /\ delegates \in Seq(Gen) /\ resumes \in Seq(Resume) /\ Len(delegates) \in Nat
  BY <1>1, <1>2, TopIsLast, LastFacts, TopFacts
<1>4. /\ delegates' \in Seq(Gen) /\ Len(delegates') = Len(delegates) + 1
      /\ \A i \in 1..Len(delegates) : delegates'[i] = delegates[i]
  BY <1>1, <1>3, AppendFacts
<1>5. error = FALSE
  BY <1>1, Unmoved
<1>6. DelegatesInv(delegates', resumes, error)
  <2>1. DelegatesInv(delegates, resumes, FALSE)
    BY <1>5, Unmoved
  <2>2. DelegatesInv(Append(delegates, Last(resumes).gen), resumes, FALSE)
    BY <1>2, <1>3, <2>1, DelegatesOpened
  <2> QED
    BY <2>2, <1>1, <1>2, <1>3, <1>5
<1>7. Keeps(delegates', delegates, r.delegate)
  <2>1. Len(delegates') \in Nat /\ Len(delegates) <= Len(delegates')
    BY <1>3, <1>4
  <2> QED
    BY <2>1, <1>3, <1>4, KeepsLess
<1> QED
  BY <1>1, <1>2, <1>4, <1>6, <1>7, DelegateStep

\* ... and is over.
LEMMA CloseStep ==
    ASSUME GenInv, DelegateClose
    PROVE  StepKeeps
<1>1. /\ ~error /\ Top.gen # 0 /\ delegates' = Front(delegates)
      /\ delegates # <<>> /\ Last(delegates) = Top.gen
      /\ UNCHANGED <<state, suspended, cells, limits, frames, closures,
                     seh, resumes, prologue, error>>
  BY DEF DelegateClose, CodeRuns, Running, genVars
<1>2. PICK r : r = Last(resumes)
  OBVIOUS
<1>3. /\ resumes # <<>> /\ Top.gen = r.gen /\ r.gen \in Gen
      /\ r.delegate \in Nat /\ r.delegate <= Len(delegates)
      /\ delegates \in Seq(Gen) /\ resumes \in Seq(Resume) /\ Len(delegates) \in Nat
      /\ ResumesInv(frames, delegates, resumes)
  BY <1>1, <1>2, TopIsLast, LastFacts, TopFacts
<1>4. /\ delegates' \in Seq(Gen) /\ Len(delegates') = Len(delegates) - 1
      /\ \A i \in 1..(Len(delegates) - 1) : delegates'[i] = delegates[i]
      /\ Len(delegates) >= 1
  BY <1>1, <1>3, LastIs
<1>5. \A i, j \in 1..Len(resumes) : i < j => resumes[i].gen # resumes[j].gen
  BY <1>3 DEF ResumesInv
<1>6. /\ DelegatesInv(Front(delegates), resumes, error)
      /\ Last(resumes).delegate <= Len(delegates) - 1
  BY <1>1, <1>2, <1>3, <1>5, Unmoved, DelegatesClosed
<1>7. Keeps(delegates', delegates, r.delegate)
  <2>1. \A i \in 1..r.delegate : i \in 1..(Len(delegates) - 1)
    BY <1>2, <1>3, <1>6
  <2> QED
    BY <2>1, <1>2, <1>3, <1>4, <1>6 DEF Keeps
<1> QED
  BY <1>1, <1>2, <1>4, <1>6, <1>7, DelegateStep

-----------------------------------------------------------------------------
(* The end of a resumption.                                                *)

\* What lies above a watermark.
LEMMA AboveFacts ==
    ASSUME NEW S, NEW s \in Seq(S), NEW n \in Nat
    PROVE  /\ SubSeq(s, n + 1, Len(s)) \in Seq(S)
           /\ Len(SubSeq(s, n + 1, Len(s))) =
                IF n <= Len(s) THEN Len(s) - n ELSE 0
           /\ Len(SubSeq(s, n + 1, Len(s))) \in Nat
           /\ \A k \in 1..Len(SubSeq(s, n + 1, Len(s))) :
                /\ SubSeq(s, n + 1, Len(s))[k] = s[n + k]
                /\ n + k \in 1..Len(s) /\ n + k > n
<1>1. Len(s) \in Nat
  OBVIOUS
<1>2. \A i \in (n + 1)..Len(s) : s[i] \in S
  <2>1. \A i \in (n + 1)..Len(s) : i \in 1..Len(s)
    BY <1>1
  <2> QED
    BY <2>1
<1> DEFINE t == SubSeq(s, n + 1, Len(s))
<1>3. /\ t \in Seq(S)
      /\ Len(t) = IF n + 1 <= Len(s) THEN Len(s) - (n + 1) + 1 ELSE 0
      /\ \A i \in 1..(Len(s) - (n + 1) + 1) : t[i] = s[(n + 1) + i - 1]
  <2>1. n + 1 \in Int /\ Len(s) \in Int
    BY <1>1
  <2> QED
    BY <1>2, <2>1, SubSeqProperties
<1> HIDE DEF t
<1>4. Len(t) = IF n <= Len(s) THEN Len(s) - n ELSE 0
  BY <1>1, <1>3
<1>5. ASSUME NEW k \in 1..Len(t)
      PROVE  t[k] = s[n + k] /\ n + k \in 1..Len(s) /\ n + k > n
  <2>1. k \in 1..(Len(s) - (n + 1) + 1) /\ (n + 1) + k - 1 = n + k
    BY <1>1, <1>4
  <2> QED
    BY <2>1, <1>1, <1>3
<1>6. Len(t) \in Nat
  BY <1>3
<1> QED
  BY <1>3, <1>4, <1>5, <1>6 DEF t

\* What lies above the resumption on top, when its frame is the one on top, is
\* the generator's.
LEMMA AboveIsOwn ==
    ASSUME GenInv, ~error, resumes # <<>>, NEW r, r = Last(resumes),
           r.frame_depth + 1 = Len(frames)
    PROVE  /\ \A k \in 1..Len(closures) : k > r.closure => closures[k] = r.gen
           /\ \A k \in 1..Len(delegates) : k > r.delegate => delegates[k] = r.gen
           /\ \A k \in 1..Len(seh) : k > r.seh =>
                /\ seh[k].owner = r.gen /\ Top.at # "prologue"
                /\ seh[k].saved_frame_depth = Len(frames)
<1>1. /\ frames \in Seq(Frame) /\ closures \in Seq(Owner) /\ seh \in Seq(Record)
      /\ Len(frames) \in Nat /\ Len(frames) >= 1 /\ Layered(frames, closures, seh)
      /\ resumes \in Seq(Resume) /\ Len(resumes) \in Nat
      /\ ResumesInv(frames, delegates, resumes)
      /\ Top = frames[Len(frames)] /\ Len(frames) \in 1..Len(frames)
  BY TopFacts, LastBelowTop, ResumeTypes
<1>2. /\ r = resumes[Len(resumes)] /\ Len(resumes) \in 1..Len(resumes)
      /\ r.closure \in Nat /\ r.seh \in Nat /\ r.delegate \in Nat
      /\ Top.gen = r.gen /\ Top.closure_depth = r.closure /\ Top.seh_depth = r.seh
  BY <1>1, LastFacts
<1>3. ASSUME NEW k \in 1..Len(closures), k > r.closure
      PROVE  closures[k] = r.gen
  <2>1. PICK f \in 1..Len(frames) :
            /\ closures[k] = frames[f].gen
            /\ \A j \in 1..Len(frames) : j > f => k <= frames[j].closure_depth
    BY <1>1 DEF Layered, CellsOwned
  <2>2. f = Len(frames)
    <3>1. SUFFICES ASSUME f < Len(frames) PROVE FALSE
      BY <1>1
    <3>2. k <= Top.closure_depth
      BY <2>1, <3>1, <1>1
    <3> QED
      BY <3>2, <1>2, <1>3
  <2> QED
    BY <2>1, <2>2, <1>1, <1>2
<1>4. ASSUME NEW k \in 1..Len(delegates), k > r.delegate
      PROVE  delegates[k] = r.gen
  <2>1. DelegateOwned(delegates, resumes, k)
    BY DEF GenInv, DelegatesInv
  <2>2. PICK i \in 1..Len(resumes) :
            /\ delegates[k] = resumes[i].gen
            /\ \A j \in 1..Len(resumes) : j > i => k <= resumes[j].delegate
    BY <2>1 DEF DelegateOwned
  <2>3. i = Len(resumes)
    <3>1. SUFFICES ASSUME i < Len(resumes) PROVE FALSE
      BY <1>1
    <3>2. k <= r.delegate
      BY <2>2, <3>1, <1>2
    <3> QED
      BY <3>2, <1>2, <1>4
  <2> QED
    BY <2>2, <2>3, <1>2
<1>5. ASSUME NEW k \in 1..Len(seh), k > r.seh
      PROVE  /\ seh[k].owner = r.gen /\ Top.at # "prologue"
             /\ seh[k].saved_frame_depth = Len(frames)
  <2>1. PICK f : f = seh[k].saved_frame_depth
    OBVIOUS
  <2>2. /\ f \in 1..Len(frames) /\ seh[k].owner = frames[f].gen
        /\ frames[f].at # "prologue"
        /\ \A j \in 1..Len(frames) : j > f => k <= frames[j].seh_depth
    BY <1>1, <2>1 DEF Layered, RecordFits
  <2>3. f = Len(frames)
    <3>1. SUFFICES ASSUME f < Len(frames) PROVE FALSE
      BY <2>2, <1>1
    <3>2. k <= Top.seh_depth
      BY <2>2, <3>1, <1>1
    <3> QED
      BY <3>2, <1>2, <1>5
  <2> QED
    BY <2>1, <2>2, <2>3, <1>1, <1>2
<1> QED
  BY <1>3, <1>4, <1>5
\* restore_execution_state cuts the stacks where the resumption saved them.
LEMMA RestoreCuts ==
    ASSUME GenInv, resumes # <<>>, NEW r, r = Last(resumes), Restore(r)
    PROVE  /\ frames' \in Seq(Frame) /\ Cut(frames', frames, r.frame_depth)
           /\ closures' \in Seq(Owner) /\ Cut(closures', closures, r.closure)
           /\ seh' \in Seq(Record) /\ Cut(seh', seh, r.seh)
           /\ delegates' \in Seq(Gen) /\ Cut(delegates', delegates, r.delegate)
           /\ resumes' = Front(resumes)
           /\ prologue' = IF r.prologue THEN r.flag ELSE prologue
<1>1. /\ frames \in Seq(Frame) /\ closures \in Seq(Owner) /\ seh \in Seq(Record)
      /\ delegates \in Seq(Gen) /\ Len(frames) \in Nat /\ Len(closures) \in Nat
      /\ Len(seh) \in Nat /\ Len(delegates) \in Nat
  BY TopFacts
<1>2. /\ r.frame_depth \in 0..Len(frames) /\ r.closure \in 0..Len(closures)
      /\ r.seh \in 0..Len(seh) /\ r.delegate \in 0..Len(delegates)
  BY <1>1, LastFacts
<1>3. /\ frames' = SubSeq(frames, 1, r.frame_depth)
      /\ closures' = SubSeq(closures, 1, r.closure)
      /\ seh' = SubSeq(seh, 1, r.seh)
      /\ delegates' = SubSeq(delegates, 1, r.delegate)
      /\ resumes' = Front(resumes)
      /\ prologue' = IF r.prologue THEN r.flag ELSE prologue
  BY DEF Restore
<1>4. frames' \in Seq(Frame) /\ Cut(frames', frames, r.frame_depth)
  BY <1>1, <1>2, <1>3, CutIsCut
<1>5. closures' \in Seq(Owner) /\ Cut(closures', closures, r.closure)
  BY <1>1, <1>2, <1>3, CutIsCut
<1>6. seh' \in Seq(Record) /\ Cut(seh', seh, r.seh)
  BY <1>1, <1>2, <1>3, CutIsCut
<1>7. delegates' \in Seq(Gen) /\ Cut(delegates', delegates, r.delegate)
  BY <1>1, <1>2, <1>3, CutIsCut
<1> QED
  BY <1>3, <1>4, <1>5, <1>6, <1>7

\* The frame on top is parked.
LEMMA ParkStep ==
    ASSUME GenInv, ~error, resumes # <<>>,
           Last(resumes).frame_depth + 1 = Len(frames),
           NEW to \in {"SuspendedStart", "SuspendedYield"},
           to = "SuspendedStart" => Top.at = "prologue", Park(to, "body")
    PROVE  StepKeeps
<1>1. PICK r : r = Last(resumes)
  OBVIOUS
<1> DEFINE maps == SubSeq(closures, r.closure_depth + 1, Len(closures))
           dels == SubSeq(delegates, r.delegate + 1, Len(delegates))
           recs == SubSeq(seh, r.seh + 1, Len(seh))
           p == [at |-> "body", closure_maps |-> maps, delegates |-> dels,
                 seh |-> recs]
<1>2. /\ state' = [state EXCEPT ![r.gen] = to]
      /\ suspended' = [suspended EXCEPT ![r.gen] = p]
      /\ Restore(r) /\ UNCHANGED <<cells, error, limits>>
  BY <1>1 DEF Park
<1>3. /\ closures \in Seq(Owner) /\ seh \in Seq(Record) /\ delegates \in Seq(Gen)
      /\ Len(closures) \in Nat /\ Len(seh) \in Nat /\ Len(delegates) \in Nat
      /\ resumes \in Seq(Resume)
  BY TopFacts
<1>4. /\ r.gen \in Gen /\ Active(r.gen, resumes)
      /\ r.closure \in Nat /\ r.seh \in Nat /\ r.delegate \in Nat
      /\ r.closure_depth \in Nat /\ r.closure <= r.closure_depth
  BY <1>1, LastFacts
<1>5. /\ \A k \in 1..Len(closures) : k > r.closure => closures[k] = r.gen
      /\ \A k \in 1..Len(delegates) : k > r.delegate => delegates[k] = r.gen
      /\ \A k \in 1..Len(seh) : k > r.seh =>
            seh[k].owner = r.gen /\ Top.at # "prologue"
  BY <1>1, AboveIsOwn
<1>6. /\ maps \in Seq(Owner) /\ Len(maps) \in Nat
      /\ Len(maps) = IF r.closure_depth <= Len(closures)
                     THEN Len(closures) - r.closure_depth ELSE 0
      /\ \A k \in 1..Len(maps) : /\ maps[k] = closures[r.closure_depth + k]
                                 /\ r.closure_depth + k \in 1..Len(closures)
                                 /\ r.closure_depth + k > r.closure_depth
  BY <1>3, <1>4, AboveFacts
<1>7. /\ dels \in Seq(Gen) /\ Len(dels) \in Nat
      /\ \A k \in 1..Len(dels) : /\ dels[k] = delegates[r.delegate + k]
                                 /\ r.delegate + k \in 1..Len(delegates)
                                 /\ r.delegate + k > r.delegate
  BY <1>3, <1>4, AboveFacts
<1>8. /\ recs \in Seq(Record) /\ Len(recs) \in Nat
      /\ \A k \in 1..Len(recs) : /\ recs[k] = seh[r.seh + k]
                                 /\ r.seh + k \in 1..Len(seh)
                                 /\ r.seh + k > r.seh
  BY <1>3, <1>4, AboveFacts
<1>9. /\ p.at = "body" /\ p.closure_maps = maps /\ p.delegates = dels
      /\ p.seh = recs
  OBVIOUS
<1>10. p \in SuspendedFrame
  <2> HIDE DEF maps, dels, recs
  <2>1. \A g \in Gen : g \in Owner
    BY GeneratorsAssumption DEF Gen, Owner
  <2>2. dels \in Seq(Owner)
    <3>1. \A k \in 1..Len(dels) : dels[k] \in Owner
      BY <1>7, <2>1
    <3>2. dels = [k \in 1..Len(dels) |-> dels[k]]
      BY <1>7
    <3> HIDE DEF dels
    <3> QED
      BY <3>1, <3>2, <1>7
  <2> QED
    BY <1>6, <1>8, <2>2 DEF SuspendedFrame, At
<1> HIDE DEF maps, dels, recs, p
<1>11. \A k \in 1..Len(maps) : maps[k] = r.gen
  <2>1. \A k \in 1..Len(maps) : r.closure_depth + k > r.closure
    BY <1>4, <1>6
  <2> QED
    BY <2>1, <1>5, <1>6
<1>12. \A k \in 1..Len(dels) : dels[k] = r.gen
  BY <1>5, <1>7
<1>13. \A k \in 1..Len(recs) : recs[k].owner = r.gen /\ Top.at # "prologue"
  BY <1>5, <1>8
<1>14. Rising(recs)
  <2>1. Rising(seh)
    BY TopFacts DEF Layered
  <2> SUFFICES ASSUME NEW i \in 1..Len(recs), NEW j \in 1..Len(recs), i <= j
               PROVE  recs[i].saved_closure_depth <= recs[j].saved_closure_depth
    BY DEF Rising
  <2>2. r.seh + i <= r.seh + j
    BY <1>4, <1>8
  <2> QED
    BY <2>1, <2>2, <1>8 DEF Rising
<1>15. Top.at = "prologue" => recs = <<>>
  <2>1. SUFFICES ASSUME Top.at = "prologue" PROVE recs = <<>>
    OBVIOUS
  <2>2. Len(recs) = 0
    <3>1. ~(1 \in 1..Len(recs))
      BY <2>1, <1>13
    <3> QED
      BY <3>1, <1>8
  <2> QED
    BY <2>2, <1>8
<1>16. limits.tries = 0 => recs = <<>>
  <2>1. SUFFICES ASSUME limits.tries = 0 PROVE recs = <<>>
    OBVIOUS
  <2>2. Len(seh) = 0
    BY <2>1, Unmoved
  <2>3. Len(recs) = 0
    <3>1. ~(1 \in 1..Len(recs))
      BY <1>8, <2>2
    <3> QED
      BY <3>1, <1>8
  <2> QED
    BY <2>3, <1>8
<1>17. Len(maps) <= cells[r.gen]
  <2>1. cells[r.gen] \in Nat
    BY <1>4, Unmoved
  <2>2. CASE r.closure_depth <= Len(closures)
    <3> DEFINE a == r.closure_depth
               b == Len(closures)
    <3>1. (a + 1)..b \subseteq CellsOf(r.gen, closures)
      <4>1. \A k \in (a + 1)..b : k \in 1..Len(closures) /\ k > r.closure
        BY <1>3, <1>4
      <4> QED
        BY <4>1, <1>5 DEF CellsOf
    <3>2. a \in Nat /\ b \in Nat /\ a <= b
      BY <1>3, <1>4, <2>2
    <3>3. Len(maps) = b - a
      BY <1>6, <2>2
    <3> HIDE DEF a, b
    <3>4. /\ a + 1 \in Int /\ b \in Int
          /\ a + 1 > b => b - a = 0
          /\ ~(a + 1 > b) => b - (a + 1) + 1 = b - a
      BY <3>2
    <3>5. Cardinality((a + 1)..b) = b - a
      BY <3>4, FS_Interval
    <3>6. Cardinality((a + 1)..b) <= Cardinality(CellsOf(r.gen, closures))
      BY <3>1, <1>3, CellsFinite, FS_Subset
    <3>7. /\ Cardinality(CellsOf(r.gen, closures)) <= cells[r.gen]
          /\ Cardinality(CellsOf(r.gen, closures)) \in Nat
      BY <1>3, <1>4, CellsFinite, Unmoved
    <3> QED
      BY <3>2, <3>3, <3>5, <3>6, <3>7, <2>1
  <2>3. CASE ~(r.closure_depth <= Len(closures))
    BY <2>1, <2>3, <1>6
  <2> QED
    BY <2>2, <2>3
<1>18. ParksAs(r.gen, to, p)
  BY <1>9, <1>10, <1>11, <1>12, <1>13, <1>14, <1>15, <1>16, <1>17 DEF ParksAs
<1>19. p # NoFrame
  BY <1>10, NoFrameAssumption
<1>20. /\ frames' \in Seq(Frame) /\ Cut(frames', frames, r.frame_depth)
       /\ closures' \in Seq(Owner) /\ Cut(closures', closures, r.closure)
       /\ seh' \in Seq(Record) /\ Cut(seh', seh, r.seh)
       /\ delegates' \in Seq(Gen) /\ Cut(delegates', delegates, r.delegate)
       /\ resumes' = Front(resumes)
       /\ prologue' = IF r.prologue THEN r.flag ELSE prologue
  BY <1>1, <1>2, RestoreCuts
<1>21. error' \in BOOLEAN
  BY <1>2, Unmoved
<1> QED
  BY <1>1, <1>2, <1>18, <1>19, <1>20, <1>21, PopStep

\* The prologue of a generator ends ...
LEMMA PrologueEndStep ==
    ASSUME GenInv, PrologueEnd
    PROVE  StepKeeps
<1>1. Top.at = "prologue" /\ ~error
  BY DEF PrologueEnd, Running
<1>2. PICK r : r = Last(resumes)
  OBVIOUS
<1>3. /\ resumes # <<>> /\ r.frame_depth + 1 = Len(frames) /\ r.prologue
  BY <1>1, <1>2, TopIsLast
<1>4. r = resumes[Len(resumes)] /\ Len(resumes) \in 1..Len(resumes)
  BY <1>2, <1>3, LastFacts
<1>5. prologue
  BY <1>3, <1>4 DEF GenInv
<1>6. Park("SuspendedStart", "body")
  BY <1>5 DEF PrologueEnd
<1> QED
  BY <1>1, <1>2, <1>3, <1>6, ParkStep

\* ... and its body yields.
LEMMA YieldStep ==
    ASSUME GenInv, Yield
    PROVE  StepKeeps
<1>1. ~error /\ Top.gen # 0 /\ Park("SuspendedYield", "body")
  BY DEF Yield, Running
<1>2. resumes # <<>> /\ Last(resumes).frame_depth + 1 = Len(frames)
  BY <1>1, TopIsLast
<1>3. PICK to \in {"SuspendedStart", "SuspendedYield"} : to = "SuspendedYield"
  OBVIOUS
<1>4. Park(to, "body") /\ (to = "SuspendedStart" => Top.at = "prologue")
  BY <1>1, <1>3
<1> QED
  BY <1>1, <1>2, <1>4, ParkStep
\* A record above the watermark of the frame on top is of that frame.
LEMMA OwnRecord ==
    ASSUME GenInv, NEW recs, Rest(recs),
           NEW k \in 1..Len(recs), k > Top.seh_depth
    PROVE  /\ recs[k].saved_frame_depth = Len(frames)
           /\ recs[k].mode = "returning" => Len(frames) > 1
           /\ recs[k].owner = Top.gen /\ Top.at # "prologue"
<1>1. /\ Len(frames) \in Nat /\ Top = frames[Len(frames)]
      /\ Len(frames) \in 1..Len(frames) /\ Top.seh_depth \in Nat
  BY TopFacts, LastBelowTop
<1>2. PICK f : f = recs[k].saved_frame_depth
  OBVIOUS
<1>3. /\ f \in 1..Len(frames) /\ recs[k].owner = frames[f].gen
      /\ frames[f].at # "prologue" /\ (recs[k].mode = "returning" => f > 1)
      /\ \A j \in 1..Len(frames) : j > f => k <= frames[j].seh_depth
  BY <1>2 DEF Rest, Layered, RecordFits
<1>4. f = Len(frames)
  <2>1. SUFFICES ASSUME f < Len(frames) PROVE FALSE
    BY <1>1, <1>3
  <2>2. k <= Top.seh_depth
    BY <2>1, <1>1, <1>3
  <2> QED
    BY <2>2, <1>1
<1> QED
  BY <1>1, <1>2, <1>3, <1>4

\* A function returns: its frame goes and what it had above its watermarks.
LEMMA LeaveStep ==
    ASSUME GenInv, ~error, Len(frames) > 1, NEW recs, Rest(recs), Top.gen = 0,
           frames' = Front(frames),
           closures' = SubSeq(closures, 1, Top.closure_depth),
           seh' = SubSeq(recs, 1, Top.seh_depth),
           UNCHANGED <<state, suspended, cells, limits, delegates, resumes,
                       prologue, error>>
    PROVE  StepKeeps
<1>1. /\ frames \in Seq(Frame) /\ closures \in Seq(Owner)
      /\ Len(frames) \in Nat /\ Len(frames) >= 1 /\ Len(closures) \in Nat
      /\ Len(seh) \in Nat /\ resumes \in Seq(Resume)
      /\ InvokeBoundary \in Nat /\ InvokeBoundary < Len(frames)
      /\ Top = frames[Len(frames)] /\ Len(frames) \in 1..Len(frames)
      /\ Top.closure_depth \in Nat /\ Top.seh_depth \in Nat
      /\ Top.closure_depth <= Len(closures)
  BY TopFacts, LastBelowTop
<1>2. /\ recs \in Seq(Record) /\ Layered(frames, closures, recs)
      /\ Top.seh_depth <= Len(recs) /\ Len(recs) <= Len(seh)
      /\ \A k \in 1..Len(recs) : recs[k] = seh[k]
      /\ Len(recs) \in Nat
  BY DEF Rest
<1>3. /\ frames' \in Seq(Frame) /\ Cut(frames', frames, Len(frames) - 1)
      /\ Len(frames') = Len(frames) - 1
  <2>1. frames # <<>>
    BY <1>1
  <2>2. /\ Front(frames) \in Seq(Frame) /\ Len(Front(frames)) = Len(frames) - 1
        /\ \A i \in 1..(Len(frames) - 1) : Front(frames)[i] = frames[i]
    BY <1>1, <2>1, LastIs
  <2> QED
    BY <2>2, <1>1 DEF Cut
<1>4. closures' \in Seq(Owner) /\ Cut(closures', closures, Top.closure_depth)
  <2>1. Top.closure_depth \in 0..Len(closures)
    BY <1>1
  <2> QED
    BY <2>1, <1>1, CutIsCut
<1>5. seh' \in Seq(Record) /\ Cut(seh', recs, Top.seh_depth)
  <2>1. Top.seh_depth \in 0..Len(recs)
    BY <1>1, <1>2
  <2> QED
    BY <2>1, <1>2, CutIsCut
<1>6. CutPoint(frames, closures, recs, Len(frames) - 1, Top.closure_depth,
               Top.seh_depth)
  <2>1. /\ Len(frames) - 1 \in 1..Len(frames)
        /\ Top.closure_depth \in 0..Len(closures)
        /\ Top.seh_depth \in 0..Len(recs) /\ Len(frames) - 1 <= Len(frames)
    BY <1>1, <1>2
  <2>2. /\ frames[Len(frames) - 1].closure_depth <= Top.closure_depth
        /\ frames[Len(frames) - 1].seh_depth <= Top.seh_depth
    BY <2>1, <1>1, <1>2 DEF Layered, Watermarks
  <2>3. \A j \in 1..Len(frames) : j > Len(frames) - 1 => j = Len(frames)
    BY <1>1
  <2>4. \A j \in 1..Len(frames) : j > Len(frames) - 1 =>
            Top.closure_depth <= frames[j].closure_depth
              /\ Top.seh_depth <= frames[j].seh_depth
    BY <2>3, <1>1
  <2>5. ASSUME NEW k \in 1..Top.seh_depth
        PROVE  recs[k].saved_closure_depth <= Top.closure_depth
    <3>1. k \in 1..Len(recs) /\ k <= Top.seh_depth /\ k \in Nat
      BY <1>1, <1>2
    <3>2. PICK f : f = recs[k].saved_frame_depth
      OBVIOUS
    <3>3. /\ f \in 1..Len(frames) /\ frames[f].seh_depth < k
          /\ \A j \in 1..Len(frames) : j > f =>
                recs[k].saved_closure_depth <= frames[j].closure_depth
      BY <3>1, <3>2, <1>2 DEF Layered, RecordFits
    <3>4. f # Len(frames)
      BY <3>1, <3>3, <1>1
    <3>5. Len(frames) > f
      BY <3>3, <3>4, <1>1
    <3> QED
      BY <3>3, <3>5, <1>1
  <2> QED
    BY <2>1, <2>2, <2>4, <2>5 DEF CutPoint
<1>7. Layered(frames', closures', seh')
  BY <1>1, <1>2, <1>3, <1>4, <1>5, <1>6, LayersCut
<1>8. InvokeBoundary < Len(frames')
  <2>1. CASE resumes = <<>>
    BY <2>1, <1>1, <1>3 DEF InvokeBoundary
  <2>2. CASE resumes # <<>>
    <3>1. PICK r : r = Last(resumes)
      OBVIOUS
    <3>2. /\ r.frame_depth + 1 \in 1..Len(frames) /\ r.gen \in Gen
          /\ frames[r.frame_depth + 1].gen = r.gen
          /\ InvokeBoundary = r.frame_depth
      BY <2>2, <3>1, LastFacts
    <3>3. r.gen # 0
      BY <3>2, GeneratorsAssumption DEF Gen
    <3>4. r.frame_depth + 1 # Len(frames)
      BY <3>2, <3>3, <1>1
    <3> QED
      BY <3>2, <3>4, <1>1, <1>3
  <2> QED
    BY <2>1, <2>2
<1>9. LastKept
  <2>1. Keeps(frames', frames, Len(frames) - 1)
    BY <1>1, <1>3 DEF Cut, Keeps
  <2>2. Keeps(closures', closures, Top.closure_depth)
    BY <1>1, <1>4 DEF Cut, Keeps
  <2>3. Keeps(seh', seh, Top.seh_depth)
    <3>1. \A k \in 1..Top.seh_depth : k \in 1..Len(recs)
      BY <1>1, <1>2
    <3> QED
      BY <3>1, <1>1, <1>2, <1>5 DEF Cut, Keeps
  <2> QED
    BY <2>1, <2>2, <2>3, AboveTopKept
<1>10. ASSUME NEW f \in 1..Len(frames') PROVE FrameKept(frames, frames', f)
  <2>1. Len(frames) - 1 \in Nat /\ f \in 1..(Len(frames) - 1)
    BY <1>1, <1>3
  <2> QED
    BY <2>1, <1>3, CutFrames
<1>11. limits.tries = 0 => seh' = <<>>
  <2>1. SUFFICES ASSUME limits.tries = 0 PROVE seh' = <<>>
    OBVIOUS
  <2>2. Len(recs) = 0
    BY <2>1 DEF Rest
  <2>3. Len(seh') = 0
    BY <2>2, <1>1, <1>2, <1>5 DEF Cut
  <2> QED
    BY <2>3, <1>5
<1>12. ASSUME NEW h \in Gen, Active(h, resumes)
       PROVE  Cardinality(CellsOf(h, closures')) <= cells[h]
  <2>1. Cardinality(CellsOf(h, closures')) <= Cardinality(CellsOf(h, closures))
    BY <1>1, <1>4, CellsCut
  <2>2. /\ Cardinality(CellsOf(h, closures')) \in Nat
        /\ Cardinality(CellsOf(h, closures)) \in Nat /\ cells[h] \in Nat
    BY <1>1, <1>4, CellsFinite, Unmoved
  <2>3. Cardinality(CellsOf(h, closures)) <= cells[h]
    BY <1>12, Unmoved
  <2> QED
    BY <2>1, <2>2, <2>3
<1>13. Len(frames') \in 1..MaxFrames
  BY <1>1, <1>3, Unmoved
<1> QED
  BY <1>3, <1>4, <1>5, <1>7, <1>8, <1>9, <1>10, <1>11, <1>12, <1>13, Unmoved,
     QuietStep

\* A finally of the frame on top goes first.
LEMMA DueStep ==
    ASSUME GenInv, ~error, Len(frames) > 1, NEW recs, Rest(recs),
           NEW i \in 1..Len(recs), i > Top.seh_depth, Top.at # "prologue",
           seh' = [recs EXCEPT ![i].mode = "returning"],
           frames' = [frames EXCEPT ![Len(frames)].at = "body"],
           UNCHANGED <<state, suspended, cells, limits, closures, delegates,
                       resumes, prologue, error>>
    PROVE  StepKeeps
<1>1. /\ frames \in Seq(Frame) /\ closures \in Seq(Owner)
      /\ Len(frames) \in Nat /\ Len(frames) >= 1 /\ Len(closures) \in Nat
      /\ Len(seh) \in Nat
      /\ InvokeBoundary \in Nat /\ InvokeBoundary < Len(frames)
      /\ Top = frames[Len(frames)] /\ Len(frames) \in 1..Len(frames)
      /\ Top \in Frame
      /\ Top.closure_depth \in Nat /\ Top.seh_depth \in Nat
      /\ Top.closure_depth <= Len(closures)
  BY TopFacts, LastBelowTop
<1>2. /\ recs \in Seq(Record) /\ Layered(frames, closures, recs)
      /\ Len(recs) <= Len(seh) /\ Len(recs) \in Nat
      /\ \A k \in 1..Len(recs) : recs[k] = seh[k]
  BY DEF Rest
<1>3. recs[i].saved_frame_depth = Len(frames)
  BY OwnRecord
<1> DEFINE G == [frames[Len(frames)] EXCEPT !.at = "body"]
           e == [recs[i] EXCEPT !.mode = "returning"]
<1>4. /\ G \in Frame /\ G.at = "body" /\ G.gen = Top.gen
      /\ G.closure_depth = Top.closure_depth /\ G.seh_depth = Top.seh_depth
  BY <1>1 DEF Frame, At
<1>5. /\ e \in Record /\ e.mode = "returning" /\ e.owner = recs[i].owner
      /\ e.saved_frame_depth = recs[i].saved_frame_depth
      /\ e.saved_closure_depth = recs[i].saved_closure_depth
  <2>1. recs[i] \in Record
    BY <1>2
  <2> QED
    BY <2>1 DEF Record
<1>6. frames' = [frames EXCEPT ![Len(frames)] = G] /\ seh' = [recs EXCEPT ![i] = e]
  OBVIOUS
<1> HIDE DEF G, e
<1>7. /\ frames' \in Seq(Frame) /\ Len(frames') = Len(frames)
      /\ \A j \in 1..Len(frames) :
            frames'[j] = IF j = Len(frames) THEN G ELSE frames[j]
  <2> DEFINE t == [frames EXCEPT ![Len(frames)] = G]
  <2>1. /\ t \in Seq(Frame) /\ Len(t) = Len(frames)
        /\ \A j \in 1..Len(frames) :
              t[j] = IF j = Len(frames) THEN G ELSE frames[j]
    BY <1>1, <1>4, ExceptSeq
  <2> QED
    BY <2>1, <1>6
<1>8. /\ seh' \in Seq(Record) /\ Len(seh') = Len(recs)
      /\ \A j \in 1..Len(recs) : seh'[j] = IF j = i THEN e ELSE recs[j]
  <2> DEFINE t == [recs EXCEPT ![i] = e]
  <2>1. /\ t \in Seq(Record) /\ Len(t) = Len(recs)
        /\ \A j \in 1..Len(recs) : t[j] = IF j = i THEN e ELSE recs[j]
    BY <1>2, <1>5, ExceptSeq
  <2> QED
    BY <2>1, <1>6
<1>9. SameFrames(frames, frames')
  BY <1>1, <1>4, <1>7 DEF SameFrames
<1>10. SameRecords(recs, seh')
  BY <1>3, <1>5, <1>8 DEF SameRecords
<1>11. Layered(frames', closures', seh')
  <2>1. Layered(frames', closures, seh')
    BY <1>2, <1>9, <1>10, LayersSame
  <2> QED
    BY <2>1
<1>12. LastKept
  <2>1. Keeps(frames', frames, Len(frames) - 1)
    <3>1. \A j \in 1..(Len(frames) - 1) : j \in 1..Len(frames) /\ j # Len(frames)
      BY <1>1
    <3> QED
      BY <3>1, <1>1, <1>7 DEF Keeps
  <2>2. Keeps(closures', closures, Top.closure_depth)
    BY <1>1 DEF Keeps
  <2>3. Keeps(seh', seh, Top.seh_depth)
    <3>1. \A k \in 1..Top.seh_depth : k \in 1..Len(recs) /\ k # i
      BY <1>1, <1>2
    <3> QED
      BY <3>1, <1>1, <1>2, <1>8 DEF Keeps
  <2> QED
    BY <2>1, <2>2, <2>3, AboveTopKept
<1>13. ASSUME NEW f \in 1..Len(frames') PROVE FrameKept(frames, frames', f)
  BY <1>1, <1>4, <1>7 DEF FrameKept
<1>14. limits.tries = 0 => seh' = <<>>
  <2>1. recs # <<>>
    BY <1>2
  <2> QED
    BY <2>1 DEF Rest
<1>15. Len(frames') \in 1..MaxFrames /\ InvokeBoundary < Len(frames')
  BY <1>1, <1>7, Unmoved
<1> QED
  BY <1>1, <1>7, <1>8, <1>11, <1>12, <1>13, <1>14, <1>15, Unmoved, QuietStep
\* Ret: a finally that has not run goes first, then the frame.
LEMMA RetStep ==
    ASSUME GenInv, ~error, Len(frames) > 1, NEW recs, Rest(recs),
           Top.at # "prologue", Ret(recs)
    PROVE  StepKeeps
<1> DEFINE due == {i \in (Top.seh_depth + 1)..Len(recs) :
                      recs[i].finally /\ recs[i].mode = "try"}
           last == CHOOSE i \in due : \A j \in due : j <= i
<1>1. /\ Depth = Len(frames) /\ Top.seh_depth \in Nat /\ Len(recs) \in Nat
      /\ recs \in Seq(Record) /\ Len(seh) \in Nat
  BY TopFacts, LastBelowTop DEF Rest
<1>2. CASE due # {}
  <2>1. /\ seh' = [recs EXCEPT ![last].mode = "returning"]
        /\ frames' = [frames EXCEPT ![Len(frames)].at = "body"]
        /\ UNCHANGED <<state, suspended, cells, limits, closures, delegates,
                       resumes, prologue, error>>
    BY <1>1, <1>2 DEF Ret, genVars
  <2>2. due \in SUBSET (1..Len(recs))
    BY <1>1
  <2>3. \E i \in due : \A j \in due : j <= i
    <3>1. Max(due) \in due /\ \A j \in due : j <= Max(due)
      BY <1>1, <1>2, <2>2, MaxFacts
    <3> QED
      BY <3>1
  <2>4. last \in due
    BY <2>3
  <2>5. last \in 1..Len(recs) /\ last > Top.seh_depth
    BY <1>1, <2>2, <2>4
  <2> HIDE DEF last, due
  <2> QED
    BY <2>1, <2>5, DueStep
<1>3. CASE due = {} /\ Top.gen # 0
  <2>1. PICK r : r = Last(resumes)
    OBVIOUS
  <2>2. /\ Complete(r.gen) /\ Restore(r) /\ UNCHANGED <<cells, error, limits>>
    BY <1>3, <2>1 DEF Ret
  <2>3. /\ resumes # <<>> /\ r.frame_depth + 1 = Len(frames) /\ Top.gen = r.gen
    BY <1>3, <2>1, TopIsLast
  <2>4. /\ frames' \in Seq(Frame) /\ Cut(frames', frames, r.frame_depth)
        /\ closures' \in Seq(Owner) /\ Cut(closures', closures, r.closure)
        /\ seh' \in Seq(Record) /\ Cut(seh', seh, r.seh)
        /\ delegates' \in Seq(Gen) /\ Cut(delegates', delegates, r.delegate)
        /\ resumes' = Front(resumes)
        /\ prologue' = IF r.prologue THEN r.flag ELSE prologue
    BY <2>1, <2>2, <2>3, RestoreCuts
  <2>5. /\ state' = [state EXCEPT ![r.gen] = "Completed"]
        /\ suspended' = [suspended EXCEPT ![r.gen] = NoFrame]
    BY <2>2 DEF Complete
  <2>6. error' \in BOOLEAN /\ ~error'
    BY <2>2, Unmoved
  <2>7. ASSUME NEW k \in 1..Len(seh), seh[k].owner = r.gen PROVE MayGo(seh[k])
    <3>1. r.gen # 0 /\ r.gen \in Gen
      BY <2>1, <2>3, LastFacts, GeneratorsAssumption DEF Gen
    <3>2. k > Top.seh_depth
      <4>1. PICK f : f = seh[k].saved_frame_depth
        OBVIOUS
      <4>2. /\ f \in 1..Len(frames) /\ frames[f].gen = r.gen
            /\ frames[f].seh_depth < k
        BY <2>7, <4>1, TopFacts DEF Layered, RecordFits
      <4>3. PICK i \in 1..Len(resumes) : resumes[i].frame_depth + 1 = f
        BY <3>1, <4>2, TopFacts DEF ResumesInv
      <4>4. resumes[i].gen = r.gen
        BY <4>2, <4>3, TopFacts DEF ResumesInv, ResumptionFits
      <4>5. i = Len(resumes)
        <5>1. r = resumes[Len(resumes)] /\ Len(resumes) \in 1..Len(resumes)
          BY <2>1, <2>3, LastFacts
        <5>2. ~(i < Len(resumes))
          BY <4>4, <5>1, TopFacts DEF ResumesInv
        <5> QED
          BY <5>1, <5>2
      <4>6. f = Len(frames)
        BY <2>1, <2>3, <4>3, <4>5, LastFacts
      <4> QED
        BY <4>2, <4>6, LastBelowTop
    <3>3. CASE k <= Len(recs)
      <4>1. recs[k] = seh[k]
        BY <3>3, <1>1 DEF Rest
      <4>2. k \in (Top.seh_depth + 1)..Len(recs)
        BY <3>2, <3>3, <1>1
      <4>3. ~(seh[k].finally /\ seh[k].mode = "try")
        BY <4>1, <4>2, <1>3
      <4> QED
        BY <4>3, <2>6 DEF MayGo
    <3>4. CASE k > Len(recs)
      BY <3>4 DEF Rest, MayGo
    <3> QED
      BY <3>3, <3>4, <1>1
  <2> QED
    BY <2>1, <2>2, <2>3, <2>4, <2>5, <2>6, <2>7, PopStep
<1>4. CASE due = {} /\ ~(Top.gen # 0)
  <2>1. /\ frames' = Front(frames)
        /\ closures' = SubSeq(closures, 1, Top.closure_depth)
        /\ seh' = SubSeq(recs, 1, Top.seh_depth)
        /\ UNCHANGED <<state, suspended, cells, limits, delegates, resumes,
                       prologue, error>>
    BY <1>4 DEF Ret, genVars
  <2> QED
    BY <1>4, <2>1, LeaveStep
<1> QED
  BY <1>2, <1>3, <1>4

LEMMA ReturnStep ==
    ASSUME GenInv, Return
    PROVE  StepKeeps
<1>1. ~error /\ Len(frames) > 1 /\ Top.at # "prologue" /\ Ret(seh)
  BY DEF Return, Running, Depth
<1> QED
  BY <1>1, RestAll, RetStep
-----------------------------------------------------------------------------
(* Exceptions.                                                             *)

\* The run starts afresh.
LEMMA ResetStep ==
    ASSUME GenInv, resumes = <<>>, Reset
    PROVE  StepKeeps
<1> DEFINE F == [gen |-> 0, at |-> "body", closure_depth |-> 0, seh_depth |-> 0]
<1>1. /\ state' = [g \in Gen |-> "none"] /\ suspended' = [g \in Gen |-> NoFrame]
      /\ cells' = [g \in Gen |-> 0] /\ frames' = <<F>>
      /\ closures' = <<>> /\ seh' = <<>> /\ delegates' = <<>> /\ resumes' = <<>>
      /\ prologue' = FALSE /\ error' = FALSE /\ limits' = limits
  BY DEF Reset
<1>2. limits \in Setups /\ MaxFrames \in Nat /\ MaxFrames >= 1
  <2>1. limits \in Setups
    BY Unmoved
  <2> QED
    BY <2>1, GeneratorsAssumption DEF MaxFrames
<1>3. F \in Frame /\ F.gen = 0 /\ F.at = "body" /\ F.closure_depth = 0
      /\ F.seh_depth = 0
  BY GeneratorsAssumption DEF Frame, At, Owner
<1> HIDE DEF F
<1>4. /\ frames' \in Seq(Frame) /\ Len(frames') = 1 /\ frames'[1] = F
      /\ \A f \in 1..1 : frames'[f] = F
  BY <1>1, <1>3
<1>5. /\ closures' \in Seq(Owner) /\ seh' \in Seq(Record)
      /\ delegates' \in Seq(Gen) /\ resumes' \in Seq(Resume)
      /\ Len(closures') = 0 /\ Len(seh') = 0 /\ Len(delegates') = 0
      /\ Len(resumes') = 0
  BY <1>1
<1>6. GenTypes'
  <2>1. Len(frames') \in 1..MaxFrames'
    <3>1. MaxFrames' = MaxFrames
      BY <1>1 DEF MaxFrames
    <3> QED
      BY <3>1, <1>2, <1>4
  <2>2. state' \in [Gen -> States] /\ cells' \in [Gen -> Nat]
        /\ suspended' \in [Gen -> SuspendedFrame \cup {NoFrame}]
    BY <1>1 DEF States
  <2> QED
    BY <2>1, <2>2, <1>1, <1>2, <1>4, <1>5 DEF GenTypes
<1>7. Layered(frames', closures', seh')
  <2>1. Watermarks(frames', closures', seh')
    BY <1>3, <1>4, <1>5 DEF Watermarks
  <2>2. ~\E k \in 1..0 : TRUE
    OBVIOUS
  <2> QED
    BY <2>1, <2>2, <1>5 DEF Layered, CellsOwned, Rising
<1>8. ResumesInv(frames', delegates', resumes')
  <2>1. ~\E k \in 1..0 : TRUE
    OBVIOUS
  <2> QED
    BY <2>1, <1>3, <1>4, <1>5 DEF ResumesInv
<1>9. ASSUME NEW h \in Gen PROVE PlaceFits(h)'
  <2>1. state'[h] = "none" /\ suspended'[h] = NoFrame
    BY <1>1
  <2>2. ~Active(h, resumes)'
    BY <1>5 DEF Active
  <2>3. ~Parked(h)'
    BY <2>1 DEF Parked
  <2> QED
    BY <2>1, <2>2, <2>3 DEF PlaceFits
<1>10. GenInv'
  <2>1. DelegatesInv(delegates, resumes, error)'
    BY <1>5 DEF DelegatesInv
  <2>2. ((\E i \in 1..Len(resumes) : resumes[i].prologue) => prologue)'
    BY <1>5
  <2>3. (limits.tries = 0 => seh = <<>>)'
    BY <1>1
  <2> QED
    BY <1>6, <1>7, <1>8, <1>9, <2>1, <2>2, <2>3 DEF GenInv
<1>11. StacksKept
  BY DEF StacksKept
<1>12. Honoured
  BY <1>1 DEF Honoured
<1> QED
  BY <1>10, <1>11, <1>12 DEF StepKeeps

\* A cut above the frame of the resumption on top leaves what is below it.
LEMMA AtLeastLast ==
    ASSUME GenInv, NEW recs, NEW n \in Nat, NEW c \in Nat, NEW m \in Nat,
           CutPoint(frames, closures, recs, n, c, m), n > InvokeBoundary,
           resumes # <<>>, NEW r, r = Last(resumes)
    PROVE  /\ r.frame_depth <= n - 1 /\ r.closure <= c /\ r.seh <= m
           /\ r.seh <= frames[n].seh_depth
<1>1. /\ r.frame_depth \in Nat /\ InvokeBoundary = r.frame_depth
      /\ r.closure \in Nat /\ r.seh \in Nat
      /\ r.frame_depth + 1 \in 1..Len(frames)
      /\ frames[r.frame_depth + 1].closure_depth = r.closure
      /\ frames[r.frame_depth + 1].seh_depth = r.seh
  BY LastFacts
<1>2. /\ n \in 1..Len(frames) /\ r.frame_depth + 1 <= n
      /\ frames[n].closure_depth <= c /\ frames[n].seh_depth <= m
  BY <1>1 DEF CutPoint
<1>3. /\ frames[n].closure_depth \in Nat /\ frames[n].seh_depth \in Nat
  BY <1>2, TopFacts, StackTypes
<1>4. r.closure <= frames[n].closure_depth /\ r.seh <= frames[n].seh_depth
  <2>1. \A i, j \in 1..Len(frames) : i <= j =>
           /\ frames[i].closure_depth <= frames[j].closure_depth
           /\ frames[i].seh_depth <= frames[j].seh_depth
    BY TopFacts DEF Layered, Watermarks
  <2> QED
    BY <2>1, <1>1, <1>2
<1>5. r.frame_depth <= n - 1
  BY <1>1, <1>2
<1>6. r.closure <= c
  BY <1>1, <1>2, <1>3, <1>4
<1>7. r.seh <= m
  BY <1>1, <1>2, <1>3, <1>4
<1> QED
  BY <1>4, <1>5, <1>6, <1>7

\* The records of the body that the resumption on top runs are of its frame.
LEMMA OwnedByLast ==
    ASSUME GenInv, resumes # <<>>, NEW r, r = Last(resumes),
           NEW k \in 1..Len(seh), seh[k].owner = r.gen
    PROVE  seh[k].saved_frame_depth = r.frame_depth + 1
<1>1. /\ r.gen # 0 /\ r = resumes[Len(resumes)]
      /\ Len(resumes) \in 1..Len(resumes)
  BY LastFacts, GeneratorsAssumption DEF Gen
<1>2. PICK f : f = seh[k].saved_frame_depth
  OBVIOUS
<1>3. f \in 1..Len(frames) /\ frames[f].gen = r.gen
  BY <1>2, TopFacts DEF Layered, RecordFits
<1>4. PICK i \in 1..Len(resumes) : resumes[i].frame_depth + 1 = f
  BY <1>1, <1>3, TopFacts DEF ResumesInv
<1>5. resumes[i].gen = r.gen
  BY <1>3, <1>4, TopFacts DEF ResumesInv, ResumptionFits
<1>6. i = Len(resumes)
  <2>1. ~(i < Len(resumes))
    BY <1>1, <1>5, TopFacts DEF ResumesInv
  <2> QED
    BY <2>1, <1>1
<1> QED
  BY <1>1, <1>2, <1>4, <1>6

\* What handle_throw does to the frame on top's stacks.
LEMMA RaiseCuts ==
    ASSUME GenInv, NEW recs, Rest(recs), NEW d,
           d = Dispatch(frames, closures, recs, InvokeBoundary)
    PROVE  \E n, c, m \in Nat :
              Thrown(frames, closures, recs, InvokeBoundary, d, n, c, m)
<1>1. /\ frames \in Seq(Frame) /\ closures \in Seq(Owner)
      /\ InvokeBoundary \in Nat /\ InvokeBoundary < Len(frames)
      /\ recs \in Seq(Record) /\ Layered(frames, closures, recs)
  BY TopFacts DEF Rest
<1>2. PICK b : b = InvokeBoundary
  OBVIOUS
<1>3. /\ b \in Nat /\ b < Len(frames) /\ d = Dispatch(frames, closures, recs, b)
  BY <1>1, <1>2
<1>4. \E n, c, m \in Nat : Thrown(frames, closures, recs, b,
                                  Dispatch(frames, closures, recs, b), n, c, m)
  BY <1>1, <1>3, DispatchCuts
<1> QED
  BY <1>2, <1>3, <1>4

\* A stack cut twice.
LEMMA TruncateOfCut ==
    ASSUME NEW S, NEW s \in Seq(S), NEW t \in Seq(S), NEW i \in Nat, NEW j \in Nat,
           Cut(t, s, i), j <= i
    PROVE  Truncate(t, j) \in Seq(S) /\ Cut(Truncate(t, j), s, j)
<1>1. /\ j <= Len(t) /\ Len(t) = i /\ i <= Len(s) /\ Len(s) \in Nat
      /\ \A k \in 1..i : t[k] = s[k]
  BY DEF Cut
<1>2. Truncate(t, j) \in Seq(S) /\ Cut(Truncate(t, j), t, j)
  BY <1>1, TruncateCuts
<1>3. j <= Len(s) /\ \A k \in 1..j : k \in 1..i
  BY <1>1
<1> QED
  BY <1>1, <1>2, <1>3 DEF Cut

\* An exception nobody takes inside the resumption ends it.
LEMMA RaiseOutStep ==
    ASSUME GenInv, NEW recs, Rest(recs), NEW d, NEW n \in Nat, NEW c \in Nat,
           NEW m \in Nat,
           Thrown(frames, closures, recs, InvokeBoundary, d, n, c, m),
           d.taken = FALSE, resumes # <<>>, NEW r, r = Last(resumes), Complete(r.gen),
           frames' = Truncate(d.frames, r.frame_depth),
           closures' = Truncate(d.closures, r.closure),
           seh' = Truncate(d.seh, r.seh),
           delegates' = SubSeq(delegates, 1, r.delegate),
           resumes' = Front(resumes),
           prologue' = IF r.prologue THEN r.flag ELSE prologue,
           error' = TRUE, UNCHANGED <<cells, limits>>
    PROVE  StepKeeps
<1>1. /\ frames \in Seq(Frame) /\ closures \in Seq(Owner) /\ delegates \in Seq(Gen)
      /\ Len(frames) \in Nat /\ Len(closures) \in Nat /\ Len(seh) \in Nat
      /\ Len(delegates) \in Nat
  BY TopFacts
<1>2. /\ r.frame_depth \in Nat /\ r.closure \in Nat /\ r.seh \in Nat
      /\ r.delegate \in Nat /\ r.delegate <= Len(delegates)
      /\ InvokeBoundary = r.frame_depth
  BY LastFacts
<1>3. /\ recs \in Seq(Record) /\ Len(recs) \in Nat /\ Len(recs) <= Len(seh)
      /\ \A k \in 1..Len(recs) : recs[k] = seh[k]
      /\ \A k \in 1..Len(seh) : k > Len(recs) => seh[k].mode # "try"
  BY DEF Rest
<1>4. /\ CutPoint(frames, closures, recs, n, c, m) /\ n > InvokeBoundary
      /\ d.frames \in Seq(Frame) /\ d.closures \in Seq(Owner)
      /\ d.seh \in Seq(Record)
      /\ Cut(d.closures, closures, c) /\ Cut(d.frames, frames, n)
      /\ Cut(d.seh, recs, m)
      /\ \A k \in 1..Len(recs) :
            recs[k].saved_frame_depth > InvokeBoundary => recs[k].mode # "try"
  BY DEF Thrown
<1>5. r.frame_depth <= n - 1 /\ r.closure <= c /\ r.seh <= m
  BY <1>4, AtLeastLast
<1>6. frames' \in Seq(Frame) /\ Cut(frames', frames, r.frame_depth)
  <2>1. r.frame_depth <= n
    BY <1>2, <1>5
  <2> QED
    BY <2>1, <1>1, <1>2, <1>4, TruncateOfCut
<1>7. closures' \in Seq(Owner) /\ Cut(closures', closures, r.closure)
  BY <1>1, <1>2, <1>4, <1>5, TruncateOfCut
<1>8. seh' \in Seq(Record) /\ Cut(seh', seh, r.seh)
  <2>1. seh' \in Seq(Record) /\ Cut(seh', recs, r.seh)
    BY <1>2, <1>3, <1>4, <1>5, TruncateOfCut
  <2>2. r.seh <= Len(recs) /\ \A k \in 1..r.seh : seh'[k] = recs[k]
    BY <2>1 DEF Cut
  <2>3. \A k \in 1..r.seh : k \in 1..Len(recs)
    BY <2>2, <1>2, <1>3
  <2> QED
    BY <2>1, <2>2, <2>3, <1>1, <1>2, <1>3 DEF Cut
<1>9. delegates' \in Seq(Gen) /\ Cut(delegates', delegates, r.delegate)
  <2>1. r.delegate \in 0..Len(delegates)
    BY <1>1, <1>2
  <2> QED
    BY <2>1, <1>1, CutIsCut
<1>10. ASSUME NEW k \in 1..Len(seh), seh[k].owner = r.gen PROVE MayGo(seh[k])
  <2>1. seh[k].saved_frame_depth > InvokeBoundary
    BY <1>2, <1>10, OwnedByLast
  <2>2. CASE k <= Len(recs)
    <3>1. k \in 1..Len(recs)
      BY <2>2, <1>3
    <3> QED
      BY <2>1, <3>1, <1>3, <1>4 DEF MayGo
  <2>3. CASE k > Len(recs)
    BY <2>3, <1>3 DEF MayGo
  <2> QED
    BY <2>2, <2>3, <1>1, <1>3
<1>11. /\ state' = [state EXCEPT ![r.gen] = "Completed"]
       /\ suspended' = [suspended EXCEPT ![r.gen] = NoFrame]
  BY DEF Complete
<1> QED
  BY <1>6, <1>7, <1>8, <1>9, <1>10, <1>11, PopStep
\* What is left when a handler takes the exception is layered ...
LEMMA ThrownLayered ==
    ASSUME NEW fr \in Seq(Frame), NEW cl \in Seq(Owner), NEW recs \in Seq(Record),
           Layered(fr, cl, recs), NEW b \in Nat, NEW d, NEW n \in Nat, NEW c \in Nat,
           NEW m \in Nat, Thrown(fr, cl, recs, b, d, n, c, m)
    PROVE  Layered(d.frames, d.closures, d.seh)
<1>1. /\ CutPoint(fr, cl, recs, n, c, m) /\ Cut(d.closures, cl, c)
      /\ d.taken \in BOOLEAN
  BY DEF Thrown
<1>2. n \in 0..Len(fr) /\ m \in 0..Len(recs)
  BY <1>1 DEF CutPoint
<1>3. CASE d.taken = TRUE
  <2>1. Cut(SubSeq(fr, 1, n), fr, n) /\ Cut(SubSeq(recs, 1, m), recs, m)
    BY <1>2, CutIsCut
  <2>2. Layered(SubSeq(fr, 1, n), d.closures, SubSeq(recs, 1, m))
    BY <1>1, <2>1, LayersCut
  <2>3. SameFrames(SubSeq(fr, 1, n), d.frames) /\ SameRecords(SubSeq(recs, 1, m), d.seh)
    BY <1>3 DEF Thrown
  <2> QED
    BY <2>2, <2>3, LayersSame
<1>4. CASE d.taken = FALSE
  <2>1. Cut(d.frames, fr, n) /\ Cut(d.seh, recs, m)
    BY <1>4 DEF Thrown
  <2> QED
    BY <1>1, <2>1, LayersCut
<1> QED
  BY <1>1, <1>3, <1>4

\* ... and its frames are those of before.
FramesKept(fr, gs, n) ==
    \A f \in 1..n : /\ f \in 1..Len(fr) /\ FrameKept(fr, gs, f)
                    /\ f < n => gs[f] = fr[f]

LEMMA ThrownFrames ==
    ASSUME NEW fr \in Seq(Frame), NEW cl \in Seq(Owner), NEW recs \in Seq(Record),
           NEW b \in Nat, NEW d, NEW n \in Nat, NEW c \in Nat,
           NEW m \in Nat, Thrown(fr, cl, recs, b, d, n, c, m)
    PROVE  FramesKept(fr, d.frames, n)
<1> SUFFICES ASSUME NEW f \in 1..n
             PROVE  /\ f \in 1..Len(fr) /\ FrameKept(fr, d.frames, f)
                    /\ f < n => d.frames[f] = fr[f]
  BY DEF FramesKept
<1>1. n \in 1..Len(fr) /\ f \in 1..Len(fr) /\ d.taken \in BOOLEAN /\ f <= Len(fr)
  BY DEF Thrown, CutPoint
<1>2. CASE d.taken = TRUE
  <2>1. /\ SameFrames(SubSeq(fr, 1, n), d.frames)
        /\ d.frames[n].at = "body" /\ \A i \in 1..(n - 1) : d.frames[i] = fr[i]
    BY <1>2 DEF Thrown
  <2>2. Len(SubSeq(fr, 1, n)) = n /\ SubSeq(fr, 1, n)[f] = fr[f]
    <3>1. n \in 0..Len(fr)
      BY <1>1
    <3> QED
      BY <3>1, CutFacts
  <2>3. /\ d.frames[f].gen = fr[f].gen
        /\ d.frames[f].closure_depth = fr[f].closure_depth
        /\ d.frames[f].seh_depth = fr[f].seh_depth
        /\ d.frames[f].at = "prologue" <=> fr[f].at = "prologue"
    BY <2>1, <2>2 DEF SameFrames
  <2>4. CASE f = n
    BY <1>1, <2>1, <2>3, <2>4 DEF FrameKept
  <2>5. CASE f # n
    <3>1. f \in 1..(n - 1)
      BY <2>5
    <3> QED
      BY <1>1, <2>1, <2>3, <3>1 DEF FrameKept
  <2> QED
    BY <2>4, <2>5
<1>3. CASE d.taken = FALSE
  <2>1. d.frames[f] = fr[f]
    BY <1>3 DEF Thrown, Cut
  <2> QED
    BY <1>1, <2>1 DEF FrameKept
<1> QED
  BY <1>1, <1>2, <1>3

\* A handler inside the resumption takes the exception.
LEMMA RaiseInStep ==
    ASSUME GenInv, Sheltered, NEW recs, Rest(recs), NEW d, NEW n \in Nat,
           NEW c \in Nat, NEW m \in Nat,
           Thrown(frames, closures, recs, InvokeBoundary, d, n, c, m), d.taken,
           frames' = d.frames, closures' = d.closures, seh' = d.seh,
           cells' = CellsAfter(d), error' = FALSE,
           resumes' = IF Top.at # "raise" THEN resumes
                      ELSE [resumes EXCEPT ![Len(resumes)].closure_depth =
                               Len(d.closures)],
           UNCHANGED <<state, suspended, delegates, prologue, limits>>
    PROVE  StepKeeps
<1>1. /\ frames \in Seq(Frame) /\ closures \in Seq(Owner) /\ delegates \in Seq(Gen)
      /\ resumes \in Seq(Resume)
      /\ Len(frames) \in Nat /\ Len(closures) \in Nat /\ Len(seh) \in Nat
      /\ Len(delegates) \in Nat /\ Len(resumes) \in Nat
      /\ InvokeBoundary \in Nat /\ ResumesInv(frames, delegates, resumes)
  BY TopFacts, ResumeTypes
<1>2. /\ recs \in Seq(Record) /\ Len(recs) \in Nat /\ Len(recs) <= Len(seh)
      /\ \A k \in 1..Len(recs) : recs[k] = seh[k]
      /\ Layered(frames, closures, recs)
  BY DEF Rest
<1>3. /\ CutPoint(frames, closures, recs, n, c, m) /\ n > InvokeBoundary
      /\ d.frames \in Seq(Frame) /\ d.closures \in Seq(Owner)
      /\ d.seh \in Seq(Record)
      /\ Cut(d.closures, closures, c) /\ Len(d.frames) = n /\ Len(d.seh) = m
      /\ \A k \in 1..m : k <= frames[n].seh_depth => d.seh[k] = recs[k]
      /\ recs # <<>>
  BY DEF Thrown
<1>4. n \in 1..Len(frames) /\ m \in 0..Len(recs) /\ c \in 0..Len(closures)
      /\ Len(d.closures) = c
  BY <1>3 DEF CutPoint, Cut
<1>5. Layered(frames', closures', seh')
  BY <1>1, <1>2, ThrownLayered
<1>6. \A f \in 1..n : /\ f \in 1..Len(frames) /\ FrameKept(frames, frames', f)
                      /\ f < n => frames'[f] = frames[f]
  <2>1. FramesKept(frames, frames', n)
    BY <1>1, <1>2, ThrownFrames
  <2> QED
    BY <2>1 DEF FramesKept
<1>7. "deep" \notin Uses /\ limits.tries # 0
  <2>1. limits.tries # 0
    BY <1>3 DEF Rest
  <2> QED
    BY <2>1 DEF Sheltered
<1>8. ASSUME resumes # <<>>, NEW r, r = Last(resumes)
      PROVE  /\ Keeps(frames', frames, r.frame_depth)
             /\ Keeps(closures', closures, r.closure)
             /\ Keeps(seh', seh, r.seh)
             /\ Keeps(delegates', delegates, r.delegate)
             /\ r.closure <= c
  <2>1. /\ r.frame_depth \in Nat /\ r.closure \in Nat /\ r.seh \in Nat
        /\ r.frame_depth < Len(frames)
    BY <1>8, LastFacts
  <2>2. /\ r.frame_depth <= n - 1 /\ r.closure <= c /\ r.seh <= m
        /\ r.seh <= frames[n].seh_depth /\ frames[n].seh_depth \in Nat
    BY <1>1, <1>3, <1>4, <1>8, AtLeastLast, StackTypes
  <2>3. Keeps(frames', frames, r.frame_depth)
    <3>1. \A f \in 1..r.frame_depth : f \in 1..n /\ f < n
      BY <2>1, <2>2
    <3>2. \A f \in 1..r.frame_depth : frames'[f] = frames[f]
      BY <3>1, <1>6
    <3>3. r.frame_depth <= Len(frames) /\ r.frame_depth <= Len(frames')
      BY <1>1, <1>3, <2>1, <2>2
    <3> QED
      BY <3>2, <3>3 DEF Keeps
  <2>4. Keeps(closures', closures, r.closure)
    <3>1. \A k \in 1..r.closure : k \in 1..c
      BY <2>1, <2>2
    <3>2. r.closure <= Len(closures) /\ r.closure <= Len(closures')
      BY <1>4, <2>1, <2>2
    <3> QED
      BY <3>1, <3>2, <1>3 DEF Cut, Keeps
  <2>5. Keeps(seh', seh, r.seh)
    <3>1. \A k \in 1..r.seh : /\ k \in 1..m /\ k <= frames[n].seh_depth
                              /\ k \in 1..Len(recs)
      <4>1. \A k \in 1..r.seh : k \in 1..m
        BY <1>4, <2>1, <2>2
      <4>2. \A k \in 1..r.seh : k <= frames[n].seh_depth
        BY <2>1, <2>2
      <4>3. m <= Len(recs) /\ m \in Nat
        BY <1>2, <1>4
      <4>4. \A k \in 1..m : k \in 1..Len(recs)
        BY <1>2, <4>3
      <4> QED
        BY <4>1, <4>2, <4>4
    <3>2. r.seh <= Len(seh) /\ r.seh <= Len(seh')
      BY <1>1, <1>2, <1>3, <1>4, <2>1, <2>2
    <3> QED
      BY <3>1, <3>2, <1>2, <1>3 DEF Keeps
  <2>6. Keeps(delegates', delegates, r.delegate)
    BY <1>8, Unmoved
  <2> QED
    BY <2>2, <2>3, <2>4, <2>5, <2>6
<1>9. LastKept
  BY <1>8 DEF LastKept
<1>10. resumes' \in Seq(Resume) /\ SameResumes(resumes, resumes')
  <2>1. CASE Top.at # "raise"
    BY <2>1, <1>1, Unmoved
  <2>2. CASE Top.at = "raise"
    <3>1. resumes # <<>>
      BY <2>2, TopIsLast
    <3>2. PICK r : r = Last(resumes)
      OBVIOUS
    <3>3. /\ r = resumes[Len(resumes)] /\ Len(resumes) \in 1..Len(resumes)
          /\ r \in Resume /\ r.closure <= c
      BY <3>1, <3>2, <1>8, LastFacts
    <3> DEFINE q == [r EXCEPT !.closure_depth = c]
               t == [resumes EXCEPT ![Len(resumes)] = q]
    <3>4. /\ q \in Resume /\ q.gen = r.gen /\ q.frame_depth = r.frame_depth
          /\ q.closure = r.closure /\ q.seh = r.seh /\ q.delegate = r.delegate
          /\ q.prologue = r.prologue /\ q.flag = r.flag /\ q.closure_depth = c
      BY <3>3 DEF Resume
    <3>5. resumes' = t
      BY <2>2, <3>3, <1>4
    <3> HIDE DEF q
    <3>6. /\ t \in Seq(Resume) /\ Len(t) = Len(resumes)
          /\ \A i \in 1..Len(resumes) :
                t[i] = IF i = Len(resumes) THEN q ELSE resumes[i]
      BY <3>3, <3>4, <1>1, ExceptSeq
    <3> HIDE DEF t
    <3>7. \A i \in 1..Len(resumes) : resumes[i].closure <= resumes[i].closure_depth
      BY <1>1 DEF ResumesInv, ResumptionFits
    <3>8. SameResumes(resumes, t)
      BY <3>3, <3>4, <3>6, <3>7 DEF SameResumes
    <3> QED
      BY <3>5, <3>6, <3>8
  <2> QED
    BY <2>1, <2>2
<1>11. DelegatesInv(delegates', resumes', error')
  <2>1. DelegatesInv(delegates, resumes', error')
    BY <1>1, <1>7, <1>10, Unmoved, DelegatesKept
  <2> QED
    BY <2>1
<1>12. ASSUME NEW h \in Gen
       PROVE  /\ cells'[h] \in Nat
              /\ IF Active(h, resumes)
                 THEN Cardinality(CellsOf(h, closures')) <= cells'[h]
                 ELSE cells'[h] = cells[h]
  <2>1. /\ Cardinality(CellsOf(h, closures)) \in Nat
        /\ Cardinality(CellsOf(h, closures')) \in Nat /\ cells[h] \in Nat
        /\ Cardinality(CellsOf(h, closures')) <= Cardinality(CellsOf(h, closures))
    <3>1. cells[h] \in Nat
      BY Unmoved
    <3>2. /\ Cardinality(CellsOf(h, closures)) \in Nat
          /\ Cardinality(CellsOf(h, closures')) \in Nat
      BY <1>1, <1>3, CellsFinite
    <3>3. Cardinality(CellsOf(h, closures')) <= Cardinality(CellsOf(h, closures))
      BY <1>1, <1>3, CellsCut
    <3> QED
      BY <3>1, <3>2, <3>3
  <2>2. Active(h, resumes) => Cardinality(CellsOf(h, closures)) <= cells[h]
    BY Unmoved
  <2>3. CASE \E f \in 1..n : d.frames[f].gen = h
    <3>1. PICK f \in 1..n : d.frames[f].gen = h
      BY <2>3
    <3>2. frames[f].gen = h /\ f \in 1..Len(frames) /\ h # 0
      <4>1. h # 0
        BY GeneratorsAssumption DEF Gen
      <4>2. f \in 1..Len(frames) /\ FrameKept(frames, frames', f)
        BY <1>6
      <4>3. frames'[f].gen = h
        BY <3>1, <1>4
      <4>4. f <= Len(frames) /\ ~(f > Len(frames))
        BY <4>2, <1>1
      <4> QED
        BY <4>1, <4>2, <4>3, <4>4 DEF FrameKept
    <3>3. PICK i \in 1..Len(resumes) : resumes[i].frame_depth + 1 = f
      BY <3>2, <1>1 DEF ResumesInv
    <3>4. Active(h, resumes)
      BY <3>2, <3>3, <1>1 DEF ResumesInv, ResumptionFits, Active
    <3>5. cells'[h] = cells[h] - (Cardinality(CellsOf(h, closures))
                                    - Cardinality(CellsOf(h, closures')))
      <4>1. /\ DOMAIN d.frames = 1..n /\ DOMAIN closures = 1..Len(closures)
            /\ DOMAIN d.closures = 1..Len(d.closures)
        BY <1>1, <1>3
      <4> QED
        BY <4>1, <2>3 DEF CellsAfter, CellsOf
    <3> QED
      BY <3>4, <3>5, <2>1, <2>2
  <2>4. CASE ~\E f \in 1..n : d.frames[f].gen = h
    <3>1. cells'[h] = cells[h]
      <4>1. DOMAIN d.frames = 1..n
        BY <1>3
      <4> QED
        BY <4>1, <2>4 DEF CellsAfter
    <3> QED
      BY <3>1, <2>1, <2>2
  <2> QED
    BY <2>3, <2>4
<1>13. CellsKept
  <2>1. cells' = [g \in Gen |-> cells'[g]]
    BY DEF CellsAfter
  <2> QED
    BY <2>1, <1>12 DEF CellsKept
<1>14. Len(frames') \in 1..MaxFrames /\ InvokeBoundary < Len(frames')
  BY <1>1, <1>3, <1>4, Unmoved
<1>15. \A h \in Gen : PlaceMoved(h)
  BY PlacesStay
<1>16. \A f \in 1..Len(frames') : FrameKept(frames, frames', f)
  BY <1>3, <1>6
<1> QED
  BY <1>1, <1>3, <1>5, <1>7, <1>9, <1>10, <1>11, <1>13, <1>14, <1>15, <1>16,
     Unmoved, InnerStep
LEMMA RaiseStep ==
    ASSUME GenInv, Sheltered, NEW recs, Rest(recs), Raise(recs)
    PROVE  StepKeeps
<1>1. PICK d : d = Dispatch(frames, closures, recs, InvokeBoundary)
  OBVIOUS
<1>2. PICK n \in Nat, c \in Nat, m \in Nat :
          Thrown(frames, closures, recs, InvokeBoundary, d, n, c, m)
  BY <1>1, RaiseCuts
<1>3. d.taken \in BOOLEAN
  BY <1>2 DEF Thrown
<1>4. CASE d.taken = TRUE
  <2>1. /\ frames' = d.frames /\ closures' = d.closures /\ seh' = d.seh
        /\ cells' = CellsAfter(d) /\ error' = FALSE
        /\ resumes' = IF Top.at # "raise" THEN resumes
                      ELSE [resumes EXCEPT ![Len(resumes)].closure_depth =
                               Len(d.closures)]
        /\ UNCHANGED <<state, suspended, delegates, prologue, limits>>
    BY <1>1, <1>4 DEF Raise
  <2> QED
    BY <1>2, <1>4, <2>1, RaiseInStep
<1>5. CASE d.taken = FALSE /\ resumes = <<>>
  <2>1. Reset
    BY <1>1, <1>5 DEF Raise
  <2> QED
    BY <1>5, <2>1, ResetStep
<1>6. CASE d.taken = FALSE /\ resumes # <<>>
  <2>1. PICK r : r = Last(resumes)
    OBVIOUS
  <2>2. /\ Complete(r.gen)
        /\ frames' = Truncate(d.frames, r.frame_depth)
        /\ closures' = Truncate(d.closures, r.closure)
        /\ seh' = Truncate(d.seh, r.seh)
        /\ delegates' = SubSeq(delegates, 1, r.delegate)
        /\ resumes' = Front(resumes)
        /\ prologue' = IF r.prologue THEN r.flag ELSE prologue
        /\ error' = TRUE /\ UNCHANGED <<cells, limits>>
    BY <1>1, <1>6, <2>1 DEF Raise
  <2> QED
    BY <1>2, <1>6, <2>1, <2>2, RaiseOutStep
<1> QED
  BY <1>3, <1>4, <1>5, <1>6

LEMMA ThrowStep ==
    ASSUME GenInv, Sheltered, Throw
    PROVE  StepKeeps
BY RestAll, RaiseStep DEF Throw

\* The end of a finally.
LEMMA FinallyEndStep ==
    ASSUME GenInv, Sheltered, FinallyEnd
    PROVE  StepKeeps
<1>1. OwnRecords # {} /\ ~error
  BY DEF FinallyEnd, CodeRuns, Running
<1>2. CASE Last(seh).mode = "throwing" /\ Raise(Front(seh))
  <2>1. Rest(Front(seh))
    BY <1>1, <1>2, RestFront
  <2> QED
    BY <1>2, <2>1, RaiseStep
<1>3. CASE Last(seh).mode = "returning" /\ Ret(Front(seh))
  <2>1. Rest(Front(seh))
    BY <1>1, <1>3, RestFront
  <2>2. /\ Last(seh) = seh[Len(seh)] /\ Len(seh) \in Nat /\ Len(seh) >= 1
        /\ Top.seh_depth <= Len(seh) - 1 /\ Top.seh_depth \in Nat
    BY <1>1, FrontLayered, LastBelowTop
  <2>3. Len(seh) \in 1..Len(seh) /\ Len(seh) > Top.seh_depth
    BY <2>2
  <2>4. Len(frames) > 1 /\ Top.at # "prologue"
    BY <1>3, <2>2, <2>3, RestAll, OwnRecord
  <2> QED
    BY <1>1, <1>3, <2>1, <2>4, RetStep
<1> QED
  BY <1>2, <1>3 DEF FinallyEnd
-----------------------------------------------------------------------------
(* Creating and resuming.                                                  *)

\* Only the state of a generator changes, and its parked frame goes.
LEMMA AsideStep ==
    ASSUME GenInv, ~error, UNCHANGED <<cells, stackVars, resumes, prologue, limits>>,
           error' \in BOOLEAN, state' \in [Gen -> States],
           suspended' \in [Gen -> SuspendedFrame \cup {NoFrame}],
           \A h \in Gen : PlaceMoved(h)
    PROVE  StepKeeps
<1>1. /\ frames' = frames /\ closures' = closures /\ seh' = seh
      /\ delegates' = delegates
  BY DEF stackVars
<1>2. /\ frames \in Seq(Frame) /\ closures \in Seq(Owner) /\ seh \in Seq(Record)
      /\ delegates \in Seq(Gen) /\ resumes \in Seq(Resume)
      /\ Layered(frames, closures, seh) /\ InvokeBoundary < Len(frames)
  BY TopFacts
<1>3. LastKept
  BY <1>1, Unmoved DEF LastKept
<1>4. CellsKept
  BY <1>1, Unmoved DEF CellsKept
<1>5. SameResumes(resumes, resumes') /\ DelegatesInv(delegates', resumes', error')
  BY <1>1, <1>2, Unmoved, DelegatesKept
<1> QED
  BY <1>1, <1>2, <1>3, <1>4, <1>5, Unmoved, InnerStep

\* Generator g loses what it had parked, and its state with it.
LEMMA EndsAside ==
    ASSUME GenInv, NEW g \in Gen, NEW s \in States,
           state' = [state EXCEPT ![g] = s],
           suspended' = [suspended EXCEPT ![g] = NoFrame],
           s = "Completed" \/ (s = "Executing" /\ Uses \cap {"deep", "delegate"} # {}),
           Careful /\ Parked(g) =>
              \A k \in 1..Len(suspended[g].seh) : MayGo(suspended[g].seh[k])
    PROVE  /\ state' \in [Gen -> States]
           /\ suspended' \in [Gen -> SuspendedFrame \cup {NoFrame}]
           /\ \A h \in Gen : PlaceMoved(h)
<1>1. /\ state \in [Gen -> States]
      /\ suspended \in [Gen -> SuspendedFrame \cup {NoFrame}]
  BY Unmoved
<1>2. /\ state' \in [Gen -> States]
      /\ suspended' \in [Gen -> SuspendedFrame \cup {NoFrame}]
  BY <1>1
<1>3. ASSUME NEW h \in Gen PROVE PlaceMoved(h)
  <2>1. CASE h = g
    <3>1. state'[h] = s /\ suspended'[h] = NoFrame
      BY <2>1, <1>1
    <3> QED
      BY <2>1, <3>1 DEF PlaceMoved
  <2>2. CASE h # g
    <3>1. state'[h] = state[h] /\ suspended'[h] = suspended[h]
      BY <2>2, <1>1
    <3> QED
      BY <3>1 DEF PlaceMoved
  <2> QED
    BY <2>1, <2>2
<1> QED
  BY <1>2, <1>3

\* What is parked, and when it has no records.
LEMMA PlaceFacts ==
    ASSUME GenInv, NEW g \in Gen
    PROVE  /\ Parked(g) => /\ ParkedFits(g) /\ ~Active(g, resumes)
                           /\ suspended[g] \in SuspendedFrame
                           /\ state[g] \in {"SuspendedStart", "SuspendedYield"}
           /\ Parked(g) /\ (state[g] = "SuspendedStart" \/ limits.tries = 0) =>
                ~\E k \in 1..Len(suspended[g].seh) : TRUE
           /\ state[g] = "SuspendedYield" => Parked(g)
           /\ state[g] = "SuspendedStart" /\ Known(g) => Parked(g)
           /\ state[g] = "none" => ~Active(g, resumes) /\ ~Parked(g)
           /\ ~Parked(g) <=> suspended[g] = NoFrame
<1>1. PlaceFits(g)
  BY DEF GenInv
<1>2. Parked(g) => ParkedFits(g)
  BY <1>1 DEF PlaceFits
<1>3. Parked(g) => suspended[g] \in SuspendedFrame
  BY <1>2 DEF ParkedFits
<1>4. Parked(g) /\ (state[g] = "SuspendedStart" \/ limits.tries = 0) =>
          ~\E k \in 1..Len(suspended[g].seh) : TRUE
  <2>1. SUFFICES ASSUME suspended[g].seh = <<>>
                 PROVE  ~\E k \in 1..Len(suspended[g].seh) : TRUE
    BY <1>2 DEF ParkedFits
  <2>2. Len(suspended[g].seh) = 0
    BY <2>1
  <2> QED
    BY <2>2
<1>5. state[g] = "SuspendedStart" /\ Known(g) => Parked(g)
  <2>1. SUFFICES ASSUME Binding(g, resumes), Known(g) PROVE FALSE
    BY <1>1 DEF PlaceFits
  <2>2. resumes \in Seq(Resume)
    BY TopFacts
  <2>3. DOMAIN resumes = 1..Len(resumes)
    BY <2>2
  <2> QED
    BY <2>1, <2>3 DEF Binding, Known
<1> QED
  BY <1>1, <1>2, <1>3, <1>4, <1>5 DEF PlaceFits, Parked

LEMMA NextExecutingStep ==
    ASSUME GenInv, NEW g \in Gen, NextExecuting(g)
    PROVE  StepKeeps
<1>1. /\ ~error /\ state[g] = "Executing" /\ error' = TRUE
      /\ state' = [state EXCEPT ![g] = "Completed"]
      /\ suspended' = [suspended EXCEPT ![g] = NoFrame]
      /\ UNCHANGED <<cells, stackVars, resumes, prologue, limits>>
  BY DEF NextExecuting, Complete, CodeRuns, Running
<1>2. ~Parked(g)
  BY <1>1, PlaceFacts
<1>3. PICK s \in States : s = "Completed" /\ state' = [state EXCEPT ![g] = s]
  BY <1>1 DEF States
<1>4. /\ state' = [state EXCEPT ![g] = s]
      /\ s = "Completed" \/ (s = "Executing" /\ Uses \cap {"deep", "delegate"} # {})
  BY <1>3
<1>5. suspended' = [suspended EXCEPT ![g] = NoFrame]
  BY <1>1
<1>6. /\ state' \in [Gen -> States]
      /\ suspended' \in [Gen -> SuspendedFrame \cup {NoFrame}]
      /\ \A h \in Gen : PlaceMoved(h)
  BY <1>2, <1>4, <1>5, EndsAside
<1> QED
  BY <1>1, <1>6, AsideStep

LEMMA GenThrowDelegateStep ==
    ASSUME GenInv, NEW g \in Gen, GenThrowDelegate(g)
    PROVE  StepKeeps
<1>1. /\ "delegate" \in Uses /\ ~error /\ error' \in BOOLEAN
      /\ UNCHANGED <<cells, stackVars, resumes, prologue, limits>>
  BY DEF GenThrowDelegate, CodeRuns, Running
<1>2. \E s \in {"Completed", "Executing"} :
          /\ state' = [state EXCEPT ![g] = s]
          /\ suspended' = [suspended EXCEPT ![g] = NoFrame]
  BY DEF GenThrowDelegate, Complete
<1>3. PICK s \in {"Completed", "Executing"} :
          /\ state' = [state EXCEPT ![g] = s]
          /\ suspended' = [suspended EXCEPT ![g] = NoFrame]
  BY <1>2
<1>4. s \in States
  BY DEF States
<1>5. s = "Completed" \/ (s = "Executing" /\ Uses \cap {"deep", "delegate"} # {})
  BY <1>1, <1>3
<1>6. Careful /\ Parked(g) =>
          \A k \in 1..Len(suspended[g].seh) : MayGo(suspended[g].seh[k])
  BY <1>1, PlaceFacts DEF Careful
<1>7. /\ state' \in [Gen -> States]
      /\ suspended' \in [Gen -> SuspendedFrame \cup {NoFrame}]
      /\ \A h \in Gen : PlaceMoved(h)
  BY <1>3, <1>4, <1>5, <1>6, EndsAside
<1> QED
  BY <1>1, <1>7, AsideStep

LEMMA AbruptStep ==
    ASSUME GenInv, NEW g \in Gen, Abrupt(g)
    PROVE  StepKeeps
<1>1. /\ ~error /\ error' \in BOOLEAN
      /\ state[g] \in {"SuspendedStart", "Executing", "Completed"}
      /\ state' = [state EXCEPT ![g] = "Completed"]
      /\ suspended' = [suspended EXCEPT ![g] = NoFrame]
      /\ UNCHANGED <<cells, stackVars, resumes, prologue, limits>>
  BY DEF Abrupt, Complete, CodeRuns, Running
<1>2. Parked(g) => ~\E k \in 1..Len(suspended[g].seh) : TRUE
  BY <1>1, PlaceFacts
<1>3. PICK s \in States : s = "Completed" /\ state' = [state EXCEPT ![g] = s]
  BY <1>1 DEF States
<1>4. /\ state' = [state EXCEPT ![g] = s]
      /\ s = "Completed" \/ (s = "Executing" /\ Uses \cap {"deep", "delegate"} # {})
  BY <1>3
<1>5. suspended' = [suspended EXCEPT ![g] = NoFrame]
  BY <1>1
<1>6. /\ state' \in [Gen -> States]
      /\ suspended' \in [Gen -> SuspendedFrame \cup {NoFrame}]
      /\ \A h \in Gen : PlaceMoved(h)
  BY <1>2, <1>4, <1>5, EndsAside
<1> QED
  BY <1>1, <1>6, AsideStep

LEMMA HaltStep ==
    ASSUME GenInv, Halt
    PROVE  StepKeeps
<1>1. Len(frames) = 1 /\ Reset
  BY DEF Halt, Depth
<1>2. resumes = <<>>
  <2>1. SUFFICES ASSUME resumes # <<>>, NEW r, r = Last(resumes) PROVE FALSE
    OBVIOUS
  <2>2. r.frame_depth \in Nat /\ r.frame_depth >= 1 /\ r.frame_depth < Len(frames)
    BY <2>1, LastFacts
  <2> QED
    BY <2>2, <1>1
<1> QED
  BY <1>1, <1>2, ResetStep
\* A generator is created: its prologue runs on a frame of its own.
LEMMA CreateStep ==
    ASSUME GenInv, NEW g \in Gen, NEW c \in 0..1, Create(g, c)
    PROVE  StepKeeps
<1> DEFINE F == [gen |-> g, at |-> "prologue", closure_depth |-> Len(closures),
                 seh_depth |-> Len(seh)]
           r == Saved(g, Len(closures), TRUE)
           ms == [i \in 1..c |-> g]
           none == <<>>
<1>1. /\ ~error /\ Len(frames) < MaxFrames /\ state[g] = "none"
      /\ state' = [state EXCEPT ![g] = "SuspendedStart"]
      /\ cells' = [cells EXCEPT ![g] = c]
      /\ frames' = Append(frames, F) /\ closures' = closures \o ms
      /\ resumes' = Append(resumes, r) /\ prologue' = TRUE
      /\ UNCHANGED <<suspended, seh, delegates, error, limits>>
  BY DEF Create, CodeRuns, Running, Depth
<1>2. /\ frames \in Seq(Frame) /\ closures \in Seq(Owner) /\ seh \in Seq(Record)
      /\ Len(frames) \in Nat /\ Len(frames) >= 1 /\ Len(closures) \in Nat
      /\ Len(seh) \in Nat /\ Len(delegates) \in Nat /\ delegates \in Seq(Gen)
      /\ Layered(frames, closures, seh)
  BY TopFacts
<1>3. ~Active(g, resumes) /\ suspended[g] = NoFrame
  BY <1>1, PlaceFacts
<1>4. g \in Owner /\ c \in Nat
  BY GeneratorsAssumption DEF Gen, Owner
<1>5. ms \in Seq(Owner) /\ Len(ms) = c /\ \A k \in 1..Len(ms) : ms[k] = g
  BY <1>4, FewFacts
<1>6. /\ F \in Frame /\ F.gen = g /\ F.at = "prologue"
      /\ F.closure_depth = Len(closures) /\ F.seh_depth = Len(seh)
  BY <1>2, <1>4 DEF Frame, At
<1>7. /\ r \in Resume /\ r.gen = g /\ r.frame_depth = Len(frames)
      /\ r.closure = Len(closures) /\ r.seh = Len(seh)
      /\ r.delegate = Len(delegates) /\ r.closure_depth = Len(closures)
      /\ r.prologue = TRUE /\ r.flag = prologue
  <2>1. prologue \in BOOLEAN
    BY Unmoved
  <2> QED
    BY <2>1, <1>2 DEF Saved, Depth, Resume
<1> HIDE DEF F, r, ms
<1>8. /\ seh \o none = seh /\ none \in Seq(Record) /\ Rising(none)
      /\ Len(none) = 0 /\ none = <<>> /\ none \in Seq(Gen)
      /\ delegates \o none = delegates
  BY <1>2 DEF Rising
<1> HIDE DEF none
<1>9. Layered(frames', closures', seh')
  <2>1. \A k \in 1..Len(ms) : ms[k] = F.gen
    BY <1>5, <1>6
  <2>2. \A k \in 1..Len(none) : FALSE
    BY <1>8
  <2>3. Layered(Append(frames, F), closures \o ms, seh \o none)
    BY <1>2, <1>5, <1>6, <1>8, <2>1, <2>2, LayersPush
  <2> QED
    BY <1>1, <1>8, <2>3
<1>10. /\ closures' \in Seq(Owner) /\ Len(closures') = Len(closures) + c
       /\ Keeps(closures', closures, Len(closures))
       /\ \A k \in 1..Len(closures') : k > Len(closures) => closures'[k] = g
  <2>1. /\ closures' \in Seq(Owner) /\ Len(closures') = Len(closures) + Len(ms)
        /\ \A k \in 1..Len(closures) : closures'[k] = closures[k]
        /\ \A k \in 1..Len(ms) : closures'[Len(closures) + k] = ms[k]
    BY <1>1, <1>2, <1>5, JoinFacts
  <2>2. Len(closures) <= Len(closures') /\ Len(closures) <= Len(closures)
    BY <1>2, <1>4, <1>5, <2>1
  <2>3. Keeps(closures', closures, Len(closures))
    BY <2>1, <2>2 DEF Keeps
  <2>4. ASSUME NEW k \in 1..Len(closures'), k > Len(closures)
        PROVE  closures'[k] = g
    <3>1. /\ k - Len(closures) \in 1..Len(ms)
          /\ k = Len(closures) + (k - Len(closures))
      BY <1>2, <1>4, <1>5, <2>1, <2>4
    <3> QED
      BY <1>5, <2>1, <3>1
  <2> QED
    BY <1>5, <2>1, <2>3, <2>4
<1>11. Keeps(seh', seh, Len(seh))
  BY <1>1, <1>2 DEF Keeps
<1>12. suspended' = [suspended EXCEPT ![g] = NoFrame]
  <2>1. suspended \in [Gen -> SuspendedFrame \cup {NoFrame}]
    BY Unmoved
  <2> QED
    BY <1>1, <1>3, <2>1
<1>13. /\ cells' \in [Gen -> Nat] /\ cells'[g] = c
       /\ \A h \in Gen : h # g => cells'[h] = cells[h]
  <2>1. cells \in [Gen -> Nat]
    BY Unmoved
  <2> QED
    BY <1>1, <1>4, <2>1
<1>14. limits.tries = 0 => seh' = <<>>
  BY <1>1, Unmoved
<1>15. PICK s \in States : s = "SuspendedStart" /\ state' = [state EXCEPT ![g] = s]
  BY <1>1 DEF States
<1>16. Pushes(g, F, r, s, none)
  <2>1. Len(closures') - Len(closures) <= cells'[g]
    BY <1>2, <1>4, <1>10, <1>13
  <2>2. r.closure <= r.closure_depth
    BY <1>2, <1>7
  <2>3. delegates' = delegates \o none /\ \A k \in 1..Len(none) : none[k] = g
    BY <1>1, <1>8
  <2> QED
    BY <1>1, <1>2, <1>6, <1>7, <1>9, <1>10, <1>11, <1>12, <1>13, <1>14, <1>15,
       <2>1, <2>2, <2>3 DEF Pushes
<1> QED
  BY <1>1, <1>3, <1>6, <1>7, <1>8, <1>16, PushStep

\* The frame a generator has parked, lifted onto the stacks.
Lifted(g, F) ==
    /\ F \in Frame /\ F.gen = g /\ F.at # "prologue"
    /\ F.closure_depth = Len(closures) /\ F.seh_depth = Len(seh)

LEMMA LiftedFacts ==
    ASSUME GenInv, Sheltered, NEW g \in Gen, Parked(g), Fit(g), NEW F, Lifted(g, F)
    PROVE  /\ Closures(g) \in Seq(Owner) /\ Seh(g) \in Seq(Record)
           /\ Layered(Append(frames, F), Closures(g), Seh(g))
           /\ Len(Closures(g)) = Len(closures) + Len(suspended[g].closure_maps)
           /\ Len(suspended[g].closure_maps) \in Nat
           /\ Len(suspended[g].closure_maps) <= cells[g]
           /\ Keeps(Closures(g), closures, Len(closures))
           /\ \A k \in 1..Len(Closures(g)) :
                k > Len(closures) => Closures(g)[k] = g
           /\ Len(Seh(g)) = Len(seh) + Len(suspended[g].seh)
           /\ Len(suspended[g].seh) \in Nat
           /\ Keeps(Seh(g), seh, Len(seh))
           /\ \A k \in 1..Len(suspended[g].seh) :
                /\ Seh(g)[Len(seh) + k] = suspended[g].seh[k]
                /\ suspended[g].seh[k].saved_frame_depth = Len(frames) + 1
           /\ limits.tries = 0 => Seh(g) = <<>>
<1> DEFINE ms == suspended[g].closure_maps
           rs == suspended[g].seh
<1>1. /\ frames \in Seq(Frame) /\ closures \in Seq(Owner) /\ seh \in Seq(Record)
      /\ Len(frames) \in Nat /\ Len(frames) >= 1 /\ Len(closures) \in Nat
      /\ Len(seh) \in Nat /\ Layered(frames, closures, seh) /\ Depth = Len(frames)
  BY TopFacts
<1>2. ParkedFits(g) /\ suspended[g] \in SuspendedFrame
  BY PlaceFacts
<1>3. ms \in Seq(Owner) /\ rs \in Seq(Record) /\ Len(ms) \in Nat /\ Len(rs) \in Nat
  <2>1. ms \in Seq(Owner) /\ rs \in Seq(Record)
    BY <1>2 DEF SuspendedFrame
  <2> QED
    BY <2>1
<1>4. /\ \A k \in 1..Len(ms) : ms[k] = g
      /\ \A k \in 1..Len(rs) : rs[k].owner = g
      /\ limits.tries = 0 => rs = <<>>
      /\ Len(ms) <= cells[g]
  BY <1>2 DEF ParkedFits
<1>15. Rising(rs)
  BY <1>2 DEF ParkedFits
<1>5. \A k \in 1..Len(rs) :
          /\ rs[k].saved_frame_depth = Len(frames) + 1
          /\ Len(closures) <= rs[k].saved_closure_depth
          /\ rs[k].saved_closure_depth <= Len(closures) + Len(ms)
  <2>1. DOMAIN rs = 1..Len(rs)
    BY <1>3
  <2>2. \A i \in DOMAIN rs :
            /\ rs[i].saved_frame_depth = Depth + 1
            /\ rs[i].saved_closure_depth \in Len(closures)
                  ..(Len(closures) + Len(ms))
    BY DEF Fit, Sheltered
  <2>3. \A k \in 1..Len(rs) :
            rs[k].saved_closure_depth \in Len(closures)..(Len(closures) + Len(ms))
    BY <2>1, <2>2
  <2>4. ASSUME NEW k \in 1..Len(rs), NEW c, c = rs[k].saved_closure_depth
        PROVE  Len(closures) <= c /\ c <= Len(closures) + Len(ms)
    <3>1. c \in Len(closures)..(Len(closures) + Len(ms))
      BY <2>3, <2>4
    <3> HIDE DEF ms, rs
    <3> QED
      BY <3>1, <1>1, <1>3
  <2> QED
    BY <2>1, <2>2, <2>4, <1>1
<1> HIDE DEF ms, rs
<1>6. Closures(g) = closures \o ms /\ Seh(g) = seh \o rs
  BY DEF Closures, Seh, ms, rs
<1>7. /\ Closures(g) \in Seq(Owner) /\ Len(Closures(g)) = Len(closures) + Len(ms)
      /\ \A k \in 1..Len(closures) : Closures(g)[k] = closures[k]
      /\ \A k \in 1..Len(ms) : Closures(g)[Len(closures) + k] = ms[k]
  BY <1>1, <1>3, <1>6, JoinFacts
<1>8. /\ Seh(g) \in Seq(Record) /\ Len(Seh(g)) = Len(seh) + Len(rs)
      /\ \A k \in 1..Len(seh) : Seh(g)[k] = seh[k]
      /\ \A k \in 1..Len(rs) : Seh(g)[Len(seh) + k] = rs[k]
  BY <1>1, <1>3, <1>6, JoinFacts
<1>9. Layered(Append(frames, F), Closures(g), Seh(g))
  <2>1. /\ F \in Frame /\ F.closure_depth = Len(closures) /\ F.seh_depth = Len(seh)
        /\ rs # <<>> => F.at # "prologue"
        /\ \A k \in 1..Len(ms) : ms[k] = F.gen
        /\ \A k \in 1..Len(rs) : rs[k].owner = F.gen
    BY <1>4 DEF Lifted
  <2>2. Layered(Append(frames, F), closures \o ms, seh \o rs)
    BY <1>1, <1>3, <1>15, <1>5, <2>1, LayersPush
  <2> QED
    BY <1>6, <2>2
<1>10. Keeps(Closures(g), closures, Len(closures)) /\ Keeps(Seh(g), seh, Len(seh))
  BY <1>1, <1>3, <1>7, <1>8 DEF Keeps
<1>11. ASSUME NEW k \in 1..Len(Closures(g)), k > Len(closures)
       PROVE  Closures(g)[k] = g
  <2>1. k - Len(closures) \in 1..Len(ms) /\ k = Len(closures) + (k - Len(closures))
    BY <1>1, <1>3, <1>7, <1>11
  <2> QED
    BY <1>4, <1>7, <2>1
<1>12. limits.tries = 0 => Seh(g) = <<>>
  <2>1. SUFFICES ASSUME limits.tries = 0 PROVE Seh(g) = <<>>
    OBVIOUS
  <2>2. Len(seh) = 0 /\ Len(rs) = 0
    BY <2>1, <1>4, Unmoved
  <2>3. Len(Seh(g)) = 0
    BY <2>2, <1>8
  <2> QED
    BY <2>3, <1>8
<1>13. /\ Len(Closures(g)) = Len(closures) + Len(suspended[g].closure_maps)
       /\ Len(suspended[g].closure_maps) \in Nat
       /\ Len(suspended[g].closure_maps) <= cells[g]
  BY <1>3, <1>4, <1>7 DEF ms
<1>14. /\ Len(Seh(g)) = Len(seh) + Len(suspended[g].seh)
       /\ Len(suspended[g].seh) \in Nat
       /\ \A k \in 1..Len(suspended[g].seh) :
            /\ Seh(g)[Len(seh) + k] = suspended[g].seh[k]
            /\ suspended[g].seh[k].saved_frame_depth = Len(frames) + 1
  BY <1>3, <1>5, <1>8 DEF rs
<1> QED
  BY <1>7, <1>8, <1>9, <1>10, <1>11, <1>12, <1>13, <1>14
\* A resumption the call depth cap refuses (the use "deep").
LEMMA InstallRefused ==
    ASSUME GenInv, ~error, NEW g \in Gen, Parked(g), Fit(g),
           ~(Len(frames) < MaxFrames), NEW at, NEW dels \in Seq(Gen), NEW cd,
           Install(g, at, dels, cd)
    PROVE  StepKeeps
<1>1. /\ frames \in Seq(Frame) /\ closures \in Seq(Owner) /\ seh \in Seq(Record)
      /\ delegates \in Seq(Gen) /\ resumes \in Seq(Resume)
      /\ Len(frames) \in Nat /\ Len(closures) \in Nat /\ Len(seh) \in Nat
      /\ Len(delegates) \in Nat /\ Layered(frames, closures, seh)
      /\ InvokeBoundary < Len(frames) /\ Depth = Len(frames)
      /\ ResumesInv(frames, delegates, resumes)
  BY TopFacts
<1>2. "deep" \in Uses
  BY <1>1 DEF Fit
<1>3. /\ state' = [state EXCEPT ![g] = "Executing"]
      /\ suspended' = [suspended EXCEPT ![g] = NoFrame]
      /\ delegates' = delegates \o dels /\ error' = TRUE
      /\ UNCHANGED <<cells, frames, closures, seh, resumes, prologue, limits>>
  BY <1>1 DEF Install
<1>4. /\ delegates' \in Seq(Gen) /\ Len(delegates') \in Nat
      /\ Len(delegates) <= Len(delegates')
      /\ \A i \in 1..Len(delegates) : delegates'[i] = delegates[i]
  <2>1. /\ delegates' \in Seq(Gen) /\ Len(dels) \in Nat
        /\ Len(delegates') = Len(delegates) + Len(dels)
        /\ \A i \in 1..Len(delegates) : delegates'[i] = delegates[i]
    BY <1>1, <1>3, JoinFacts
  <2> QED
    BY <1>1, <2>1
<1>5. LastKept
  BY <1>1, <1>3, <1>4, GrownKept
<1>6. DelegatesInv(delegates', resumes', error')
  <2>1. \A i \in 1..Len(resumes) : resumes[i].delegate <= Len(delegates)
    BY <1>1 DEF ResumesInv, ResumptionFits
  <2>2. DelegatesInv(delegates \o dels, resumes, TRUE)
    BY <1>1, <1>2, <2>1, Unmoved, DelegatesRefused
  <2> QED
    BY <1>3, <2>2
<1>7. PICK s \in States : s = "Executing" /\ state' = [state EXCEPT ![g] = s]
  BY <1>3 DEF States
<1>8. /\ state' = [state EXCEPT ![g] = s]
      /\ s = "Completed" \/ (s = "Executing" /\ Uses \cap {"deep", "delegate"} # {})
      /\ suspended' = [suspended EXCEPT ![g] = NoFrame]
  BY <1>2, <1>3, <1>7
<1>9. Careful /\ Parked(g) =>
          \A k \in 1..Len(suspended[g].seh) : MayGo(suspended[g].seh[k])
  BY <1>2, PlaceFacts DEF Careful
<1>10. /\ state' \in [Gen -> States]
       /\ suspended' \in [Gen -> SuspendedFrame \cup {NoFrame}]
       /\ \A h \in Gen : PlaceMoved(h)
  BY <1>8, <1>9, EndsAside
<1>11. CellsKept
  BY <1>3, Unmoved DEF CellsKept
<1> QED
  BY <1>1, <1>3, <1>4, <1>5, <1>6, <1>10, <1>11, Unmoved, InnerStep

\* A body is on the stacks again.
LEMMA InstallDone ==
    ASSUME GenInv, Sheltered, ~error, NEW g \in Gen, Parked(g), Fit(g),
           Len(frames) < MaxFrames, NEW at \in {"body", "exit", "raise"},
           NEW dels \in Seq(Gen), \A k \in 1..Len(dels) : dels[k] = g,
           NEW cd \in Nat, Len(closures) <= cd, Install(g, at, dels, cd)
    PROVE  StepKeeps
<1> DEFINE F == [gen |-> g, at |-> at, closure_depth |-> Len(closures),
                 seh_depth |-> Len(seh)]
           r == Saved(g, cd, FALSE)
<1>1. /\ frames \in Seq(Frame) /\ closures \in Seq(Owner) /\ seh \in Seq(Record)
      /\ Len(frames) \in Nat /\ Len(closures) \in Nat /\ Len(seh) \in Nat
      /\ Len(delegates) \in Nat /\ Depth = Len(frames)
  BY TopFacts
<1>2. /\ state' = [state EXCEPT ![g] = "Executing"]
      /\ suspended' = [suspended EXCEPT ![g] = NoFrame]
      /\ delegates' = delegates \o dels
      /\ frames' = Append(frames, F) /\ closures' = Closures(g) /\ seh' = Seh(g)
      /\ resumes' = Append(resumes, r)
      /\ UNCHANGED <<cells, prologue, error, limits>>
  BY <1>1 DEF Install, Frames
<1>3. g \in Owner /\ prologue \in BOOLEAN
  BY GeneratorsAssumption, Unmoved DEF Gen, Owner
<1>4. Lifted(g, F) /\ F \in Frame
  BY <1>1, <1>3 DEF Lifted, Frame, At
<1>5. /\ r \in Resume /\ r.gen = g /\ r.frame_depth = Len(frames)
      /\ r.closure = Len(closures) /\ r.seh = Len(seh)
      /\ r.delegate = Len(delegates) /\ r.closure <= r.closure_depth
      /\ r.prologue = FALSE /\ r.flag = prologue
  BY <1>1, <1>3 DEF Saved, Resume
<1> HIDE DEF F, r
<1>6. ~Active(g, resumes)
  BY PlaceFacts
<1>7. /\ closures' \in Seq(Owner) /\ seh' \in Seq(Record)
      /\ Layered(frames', closures', seh')
      /\ Keeps(closures', closures, Len(closures)) /\ Keeps(seh', seh, Len(seh))
      /\ \A k \in 1..Len(closures') : k > Len(closures) => closures'[k] = g
      /\ limits.tries = 0 => seh' = <<>>
      /\ Len(closures') - Len(closures) <= cells[g]
  <2>2. /\ Closures(g) \in Seq(Owner) /\ Seh(g) \in Seq(Record)
        /\ Layered(Append(frames, F), Closures(g), Seh(g))
        /\ Keeps(Closures(g), closures, Len(closures))
        /\ Keeps(Seh(g), seh, Len(seh))
        /\ \A k \in 1..Len(Closures(g)) : k > Len(closures) => Closures(g)[k] = g
        /\ limits.tries = 0 => Seh(g) = <<>>
    BY <1>4, LiftedFacts
  <2>3. /\ Len(Closures(g)) = Len(closures) + Len(suspended[g].closure_maps)
        /\ Len(suspended[g].closure_maps) \in Nat
        /\ Len(suspended[g].closure_maps) <= cells[g]
    BY <1>4, LiftedFacts
  <2>4. Len(Closures(g)) - Len(closures) <= cells[g]
    BY <1>1, <2>3
  <2> QED
    BY <1>2, <2>2, <2>4
<1>8. PICK s \in States : s = "Executing" /\ state' = [state EXCEPT ![g] = s]
  BY <1>2 DEF States
<1>9. Pushes(g, F, r, s, dels)
  <2>1. /\ F.gen = g /\ F.closure_depth = Len(closures) /\ F.seh_depth = Len(seh)
        /\ F.at # "prologue"
    BY <1>4 DEF Lifted
  <2>2. /\ cells' \in [Gen -> Nat] /\ cells' = cells
        /\ prologue' = prologue /\ limits' = limits /\ error' = error
    BY <1>2, Unmoved
  <2> QED
    BY <1>2, <1>3, <1>5, <1>7, <1>8, <2>1, <2>2 DEF Pushes
<1> QED
  BY <1>4, <1>5, <1>6, <1>9, PushStep

LEMMA InstallStep ==
    ASSUME GenInv, Sheltered, ~error, NEW g \in Gen, Parked(g), Fit(g),
           NEW at \in {"body", "exit", "raise"},
           NEW dels \in Seq(Gen), \A k \in 1..Len(dels) : dels[k] = g,
           NEW cd \in Nat, Len(closures) <= cd, Install(g, at, dels, cd)
    PROVE  StepKeeps
<1>1. CASE Len(frames) < MaxFrames
  BY <1>1, InstallDone
<1>2. CASE ~(Len(frames) < MaxFrames)
  BY <1>2, InstallRefused
<1> QED
  BY <1>1, <1>2

\* The delegates and the environment of what is parked.
LEMMA ParkedParts ==
    ASSUME GenInv, NEW g \in Gen, Parked(g)
    PROVE  /\ suspended[g].at = "body"
           /\ suspended[g].delegates \in Seq(Gen)
           /\ \A k \in 1..Len(suspended[g].delegates) :
                  suspended[g].delegates[k] = g
           /\ Len(Closures(g)) \in Nat /\ Len(closures) <= Len(Closures(g))
           /\ Len(closures) \in Nat
<1> DEFINE ms == suspended[g].closure_maps
           ds == suspended[g].delegates
<1>1. /\ suspended[g].at = "body" /\ \A k \in 1..Len(ds) : ds[k] = g
      /\ suspended[g] \in SuspendedFrame
  BY PlaceFacts DEF ParkedFits
<1>2. ms \in Seq(Owner) /\ ds \in Seq(Owner)
  BY <1>1 DEF SuspendedFrame
<1> HIDE DEF ms, ds
<1>3. ds \in Seq(Gen)
  <2>1. ds \in [1..Len(ds) -> Gen] /\ Len(ds) \in Nat
    BY <1>1, <1>2
  <2> QED
    BY <2>1
<1>4. Closures(g) = closures \o ms
  BY DEF Closures, ms
<1>5. /\ Len(Closures(g)) = Len(closures) + Len(ms)
      /\ Len(closures) \in Nat /\ Len(ms) \in Nat
  BY <1>2, <1>4, TopFacts, JoinFacts
<1>6. Len(Closures(g)) \in Nat /\ Len(closures) <= Len(Closures(g))
  BY <1>5
<1>7. /\ suspended[g].at = "body" /\ suspended[g].delegates = ds
  BY <1>1 DEF ds
<1> QED
  BY <1>1, <1>3, <1>5, <1>6, <1>7

LEMMA NextStartStep ==
    ASSUME GenInv, Sheltered, NEW g \in Gen, NextStart(g)
    PROVE  StepKeeps
<1>1. /\ ~error /\ Fit(g) /\ state[g] = "SuspendedStart" /\ Known(g)
      /\ Install(g, suspended[g].at, suspended[g].delegates, Len(closures))
  BY DEF NextStart, CodeRuns, Running
<1>2. Parked(g)
  BY <1>1, PlaceFacts
<1>3. PICK at \in {"body", "exit", "raise"} : at = suspended[g].at
  BY <1>2, ParkedParts
<1>4. PICK cd \in Nat : cd = Len(closures) /\ Len(closures) <= cd
  BY <1>2, ParkedParts
<1>5. Install(g, at, suspended[g].delegates, cd)
  BY <1>1, <1>3, <1>4
<1> QED
  BY <1>1, <1>2, <1>4, <1>5, ParkedParts, InstallStep

LEMMA NextYieldStep ==
    ASSUME GenInv, Sheltered, NEW g \in Gen, NextYield(g)
    PROVE  StepKeeps
<1>1. /\ ~error /\ Fit(g) /\ state[g] = "SuspendedYield"
      /\ Install(g, suspended[g].at, suspended[g].delegates, Len(Closures(g)))
  BY DEF NextYield, CodeRuns, Running
<1>2. Parked(g)
  BY <1>1, PlaceFacts
<1>3. PICK at \in {"body", "exit", "raise"} : at = suspended[g].at
  BY <1>2, ParkedParts
<1>4. Install(g, at, suspended[g].delegates, Len(Closures(g)))
  BY <1>1, <1>3
<1> QED
  BY <1>1, <1>2, <1>4, ParkedParts, InstallStep

LEMMA GenReturnStep ==
    ASSUME GenInv, Sheltered, NEW g \in Gen, GenReturn(g)
    PROVE  StepKeeps
<1>1. ~error /\ Fit(g) /\ state[g] = "SuspendedYield"
  BY DEF GenReturn, CodeRuns, Running
<1>2. PICK at \in {"body", "exit", "raise"} :
          Install(g, at, <<>>, Len(Closures(g)))
  BY DEF GenReturn
<1>3. Parked(g)
  BY <1>1, PlaceFacts
<1>4. <<>> \in Seq(Gen) /\ \A k \in 1..Len(<<>>) : (<<>>)[k] = g
  OBVIOUS
<1> QED
  BY <1>1, <1>2, <1>3, <1>4, ParkedParts, InstallStep
(* gen.throw.  The stacks handle_throw works on are those of the body.     *)

\* What a parked record loses when its body ends here.
LEMMA ThrownAtParked ==
    ASSUME GenInv, Sheltered, NEW g \in Gen, Parked(g), Fit(g),
           NEW F \in Frame, Lifted(g, F), NEW b \in Nat, b < Len(frames),
           NEW d, d = Dispatch(Append(frames, F), Closures(g), Seh(g), b)
    PROVE  \E n, c, m \in Nat :
              Thrown(Append(frames, F), Closures(g), Seh(g), b, d, n, c, m)
<1>1. frames \in Seq(Frame) /\ Len(frames) \in Nat
  BY TopFacts
<1>2. Append(frames, F) \in Seq(Frame) /\ b < Len(Append(frames, F))
  BY <1>1, AppendFacts
<1>3. /\ Closures(g) \in Seq(Owner) /\ Seh(g) \in Seq(Record)
      /\ Layered(Append(frames, F), Closures(g), Seh(g))
  BY LiftedFacts
<1> QED
  BY <1>2, <1>3, DispatchCuts

\* The body takes the exception.
LEMMA ThrowTakenStep ==
    ASSUME GenInv, Sheltered, ~error, NEW g \in Gen, Parked(g), Fit(g),
           Len(frames) < MaxFrames, NEW F \in Frame, Lifted(g, F),
           NEW b \in Nat, NEW d, NEW n \in Nat, NEW c \in Nat, NEW m \in Nat,
           Thrown(Append(frames, F), Closures(g), Seh(g), b, d, n, c, m),
           d.taken, n = Len(frames) + 1,
           state' = [state EXCEPT ![g] = "Executing"],
           suspended' = [suspended EXCEPT ![g] = NoFrame],
           frames' = d.frames, closures' = d.closures, seh' = d.seh,
           delegates' = delegates \o suspended[g].delegates,
           resumes' = Append(resumes, Saved(g, Last(d.frames).closure_depth, FALSE)),
           cells' = [cells EXCEPT ![g] = @ - (Len(Closures(g)) - Len(d.closures))],
           UNCHANGED <<prologue, error, limits>>
    PROVE  StepKeeps
<1> DEFINE fr == Append(frames, F)
           cl == Closures(g)
           recs == Seh(g)
           r == Saved(g, Len(closures), FALSE)
<1>1. /\ frames \in Seq(Frame) /\ closures \in Seq(Owner) /\ seh \in Seq(Record)
      /\ Len(frames) \in Nat /\ Len(closures) \in Nat /\ Len(seh) \in Nat
      /\ Len(delegates) \in Nat /\ Depth = Len(frames)
  BY TopFacts
<1>2. /\ fr \in Seq(Frame) /\ Len(fr) = Len(frames) + 1 /\ fr[Len(frames) + 1] = F
      /\ \A i \in 1..Len(frames) : fr[i] = frames[i]
  BY <1>1, AppendFacts
<1>3. /\ F.gen = g /\ F.at # "prologue"
      /\ F.closure_depth = Len(closures) /\ F.seh_depth = Len(seh)
  BY DEF Lifted
<1>4. /\ cl \in Seq(Owner) /\ recs \in Seq(Record) /\ Layered(fr, cl, recs)
      /\ Keeps(cl, closures, Len(closures)) /\ Keeps(recs, seh, Len(seh))
      /\ \A k \in 1..Len(cl) : k > Len(closures) => cl[k] = g
      /\ limits.tries = 0 => recs = <<>>
  BY LiftedFacts
<1>5. PICK k0 \in Nat : Len(cl) = Len(closures) + k0 /\ k0 <= cells[g]
  BY LiftedFacts
<1>6. /\ Thrown(fr, cl, recs, b, d, n, c, m)
      /\ r = Saved(g, Len(closures), FALSE)
  OBVIOUS
<1>7. /\ r \in Resume /\ r.gen = g /\ r.frame_depth = Len(frames)
      /\ r.closure = Len(closures) /\ r.seh = Len(seh)
      /\ r.delegate = Len(delegates) /\ r.closure_depth = Len(closures)
      /\ r.prologue = FALSE /\ r.flag = prologue
  <2>1. prologue \in BOOLEAN
    BY Unmoved
  <2> QED
    BY <2>1, <1>1 DEF Saved, Resume
<1> HIDE DEF fr, cl, recs, r
<1>8. /\ CutPoint(fr, cl, recs, n, c, m)
      /\ d.frames \in Seq(Frame) /\ d.closures \in Seq(Owner)
      /\ d.seh \in Seq(Record) /\ Cut(d.closures, cl, c)
      /\ Len(d.frames) = n /\ Len(d.seh) = m
      /\ SameFrames(SubSeq(fr, 1, n), d.frames) /\ d.frames[n].at = "body"
      /\ \A i \in 1..(n - 1) : d.frames[i] = fr[i]
      /\ \A k \in 1..m : k <= fr[n].seh_depth => d.seh[k] = recs[k]
      /\ recs # <<>>
  BY <1>6 DEF Thrown
<1>9. PICK G \in Frame : G = d.frames[n]
  <2>1. n \in 1..Len(d.frames)
    BY <1>1, <1>8
  <2> QED
    BY <2>1, <1>8
<1>10. /\ G.gen = g /\ G.at = "body"
       /\ G.closure_depth = Len(closures) /\ G.seh_depth = Len(seh)
  <2>1. n \in 0..Len(fr) /\ n \in 1..n
    BY <1>1, <1>2
  <2>2. Len(SubSeq(fr, 1, n)) = n /\ SubSeq(fr, 1, n)[n] = fr[n]
    BY <2>1, <1>2, CutFacts
  <2>3. /\ d.frames[n].gen = fr[n].gen
        /\ d.frames[n].closure_depth = fr[n].closure_depth
        /\ d.frames[n].seh_depth = fr[n].seh_depth
    BY <2>1, <2>2, <1>8 DEF SameFrames
  <2> QED
    BY <2>3, <1>2, <1>3, <1>8, <1>9
<1>11. frames' = Append(frames, G)
  <2> DEFINE gs == Append(frames, G)
  <2>1. /\ gs \in Seq(Frame) /\ Len(gs) = Len(frames) + 1
        /\ gs[Len(frames) + 1] = G /\ \A i \in 1..Len(frames) : gs[i] = frames[i]
    BY <1>1, AppendFacts
  <2> HIDE DEF gs
  <2>2. \A i \in 1..Len(frames) : frames'[i] = frames[i]
    BY <1>1, <1>2, <1>8
  <2>3. frames' \in Seq(Frame) /\ Len(frames') = Len(gs)
    BY <1>8, <2>1
  <2>4. ASSUME NEW i \in 1..Len(gs) PROVE frames'[i] = gs[i]
    <3>1. i \in 1..Len(frames) \/ i = n
      BY <1>1, <2>1
    <3> QED
      BY <3>1, <2>1, <2>2, <1>9
  <2>5. frames' = gs
    BY <2>1, <2>3, <2>4
  <2> QED
    BY <2>5 DEF gs
<1>12. Last(d.frames).closure_depth = Len(closures)
  <2>1. d.frames # <<>>
    BY <1>1, <1>8
  <2>2. Last(d.frames) = d.frames[n]
    BY <2>1, <1>8, LastIs
  <2> QED
    BY <2>2, <1>9, <1>10
<1>13. resumes' = Append(resumes, r)
  BY <1>12 DEF r
<1>14. fr[n].closure_depth = Len(closures) /\ fr[n].seh_depth = Len(seh)
  BY <1>2, <1>3
<1>15. Len(closures) <= c /\ c <= Len(cl) /\ Len(seh) <= m
  BY <1>8, <1>14 DEF CutPoint
<1>16. /\ Len(closures') = c /\ closures' \in Seq(Owner)
       /\ Keeps(closures', closures, Len(closures))
       /\ \A k \in 1..Len(closures') : k > Len(closures) => closures'[k] = g
  <2>1. Len(closures') = c /\ \A k \in 1..c : closures'[k] = cl[k]
    BY <1>8 DEF Cut
  <2>2. \A k \in 1..Len(closures) : cl[k] = closures[k]
    BY <1>4 DEF Keeps
  <2>3. \A k \in 1..Len(closures) : k \in 1..c
    BY <1>1, <1>15
  <2>4. Keeps(closures', closures, Len(closures))
    BY <2>1, <2>2, <2>3, <1>1, <1>15 DEF Keeps
  <2>5. \A k \in 1..c : k \in 1..Len(cl)
    BY <1>1, <1>5, <1>15
  <2> QED
    BY <2>1, <2>4, <2>5, <1>4, <1>8
<1>17. seh' \in Seq(Record) /\ Keeps(seh', seh, Len(seh))
  <2>1. \A k \in 1..Len(seh) : k \in 1..m /\ k <= fr[n].seh_depth
    BY <1>1, <1>14, <1>15
  <2>2. \A k \in 1..Len(seh) : recs[k] = seh[k]
    BY <1>4 DEF Keeps
  <2> QED
    BY <2>1, <2>2, <1>1, <1>8, <1>15 DEF Keeps
<1>18. Layered(frames', closures', seh')
  BY <1>2, <1>4, <1>6, ThrownLayered
<1>19. /\ cells' \in [Gen -> Nat] /\ \A h \in Gen : h # g => cells'[h] = cells[h]
       /\ Len(closures') - Len(closures) <= cells'[g]
  <2>1. cells \in [Gen -> Nat]
    BY Unmoved
  <2>2. PICK v : v = cells[g] - (Len(cl) - Len(d.closures))
    OBVIOUS
  <2>3. cells' = [cells EXCEPT ![g] = v]
    BY <2>1, <2>2 DEF cl
  <2>4. Len(d.closures) = c
    BY <1>16
  <2>5. v \in Nat /\ c - Len(closures) <= v
    <3>1. PICK x \in Nat : x = cells[g]
      BY <2>1
    <3>2. PICK y \in Nat : y = Len(closures)
      BY <1>1
    <3>3. v = x - ((y + k0) - c)
      BY <3>1, <3>2, <2>2, <2>4, <1>5
    <3>4. k0 <= x /\ y <= c /\ c <= y + k0
      BY <3>1, <3>2, <1>5, <1>15
    <3>5. v \in Nat /\ c - y <= v
      BY <3>3, <3>4
    <3> QED
      BY <3>2, <3>5
  <2> QED
    BY <2>1, <2>3, <2>5, <1>16
<1>20. limits.tries = 0 => seh' = <<>>
  BY <1>4, <1>8
<1>21. PICK s \in States : s = "Executing" /\ state' = [state EXCEPT ![g] = s]
  BY DEF States
<1>22. PICK ds \in Seq(Gen) : /\ delegates' = delegates \o ds
                              /\ \A k \in 1..Len(ds) : ds[k] = g
  BY ParkedParts
<1>23. Pushes(g, G, r, s, ds)
  <2>1. prologue' \in BOOLEAN /\ prologue' = prologue /\ error' = error
    BY Unmoved
  <2>2. r.closure <= r.closure_depth
    BY <1>1, <1>7
  <2> QED
    BY <1>7, <1>10, <1>11, <1>13, <1>16, <1>17, <1>18, <1>19, <1>20, <1>21, <1>22,
       <2>1, <2>2 DEF Pushes
<1>24. ~Active(g, resumes)
  BY PlaceFacts
<1> QED
  BY <1>7, <1>23, <1>24, PushStep
\* The callers' stacks, from a cut of the body's that takes its frame.
LEMMA CutBelowParked ==
    ASSUME GenInv, Sheltered, NEW g \in Gen, Parked(g), Fit(g),
           NEW F \in Frame, Lifted(g, F), NEW n \in Nat, NEW c \in Nat, NEW m \in Nat,
           CutPoint(Append(frames, F), Closures(g), Seh(g), n, c, m),
           n <= Len(frames)
    PROVE  /\ CutPoint(frames, closures, seh, n, c, m)
           /\ \A i \in 1..n : Append(frames, F)[i] = frames[i]
           /\ \A i \in 1..c : Closures(g)[i] = closures[i]
           /\ \A i \in 1..m : Seh(g)[i] = seh[i]
<1> DEFINE fr == Append(frames, F)
           cl == Closures(g)
           recs == Seh(g)
<1>1. /\ frames \in Seq(Frame) /\ closures \in Seq(Owner) /\ seh \in Seq(Record)
      /\ Len(frames) \in Nat /\ Len(closures) \in Nat /\ Len(seh) \in Nat
  BY TopFacts
<1>2. /\ Len(fr) = Len(frames) + 1 /\ fr[Len(frames) + 1] = F
      /\ \A i \in 1..Len(frames) : fr[i] = frames[i]
  BY <1>1, AppendFacts
<1>3. F.closure_depth = Len(closures) /\ F.seh_depth = Len(seh)
  BY DEF Lifted
<1>4. Keeps(cl, closures, Len(closures)) /\ Keeps(recs, seh, Len(seh))
  BY LiftedFacts
<1>5. CutPoint(fr, cl, recs, n, c, m)
  OBVIOUS
<1> HIDE DEF fr, cl, recs
<1>6. Len(frames) + 1 \in 1..Len(fr) /\ Len(frames) + 1 > n
  BY <1>1, <1>2
<1>7. c <= Len(closures) /\ m <= Len(seh)
  BY <1>2, <1>3, <1>5, <1>6 DEF CutPoint
<1>8. \A i \in 1..n : i \in 1..Len(frames)
  BY <1>1
<1>9. \A i \in 1..c : i \in 1..Len(closures) /\ cl[i] = closures[i]
  BY <1>1, <1>4, <1>7 DEF Keeps
<1>10. \A i \in 1..m : i \in 1..Len(seh) /\ recs[i] = seh[i]
  BY <1>1, <1>4, <1>7 DEF Keeps
<1>11. CutPoint(frames, closures, seh, n, c, m)
  <2>1. n \in 1..Len(frames) /\ c \in 0..Len(closures) /\ m \in 0..Len(seh)
    BY <1>1, <1>5, <1>7 DEF CutPoint
  <2>2. fr[n] = frames[n] /\ n \in 1..Len(frames)
    BY <2>1, <1>2
  <2>3. frames[n].closure_depth <= c /\ frames[n].seh_depth <= m
    BY <2>2, <1>5 DEF CutPoint
  <2>4. ASSUME NEW j \in 1..Len(frames), j > n
        PROVE  c <= frames[j].closure_depth /\ m <= frames[j].seh_depth
    <3>1. j \in 1..Len(fr) /\ fr[j] = frames[j]
      BY <1>1, <1>2
    <3> QED
      BY <2>4, <3>1, <1>5 DEF CutPoint
  <2>5. \A k \in 1..m : seh[k].saved_closure_depth <= c
    BY <1>5, <1>10 DEF CutPoint
  <2> QED
    BY <2>1, <2>3, <2>4, <2>5 DEF CutPoint
<1>12. \A i \in 1..n : fr[i] = frames[i]
  BY <1>2, <1>8
<1> QED
  BY <1>9, <1>10, <1>11, <1>12 DEF fr, cl, recs

\* A handler of the callers takes it, or they are left for the exception.
LEMMA ThrowBelowStep ==
    ASSUME GenInv, Sheltered, ~error, NEW g \in Gen, Parked(g), Fit(g),
           NEW F \in Frame, Lifted(g, F),
           NEW d, NEW n \in Nat, NEW c \in Nat, NEW m \in Nat,
           Thrown(Append(frames, F), Closures(g), Seh(g), InvokeBoundary, d, n, c, m),
           n <= Len(frames), Complete(g),
           frames' = d.frames, closures' = d.closures, seh' = d.seh,
           error' = ~d.taken,
           UNCHANGED <<cells, delegates, resumes, prologue, limits>>
    PROVE  StepKeeps
<1> DEFINE fr == Append(frames, F)
           cl == Closures(g)
           recs == Seh(g)
<1>1. /\ frames \in Seq(Frame) /\ closures \in Seq(Owner) /\ seh \in Seq(Record)
      /\ delegates \in Seq(Gen) /\ resumes \in Seq(Resume)
      /\ Len(frames) \in Nat /\ Len(closures) \in Nat /\ Len(seh) \in Nat
      /\ Len(delegates) \in Nat /\ Depth = Len(frames)
      /\ InvokeBoundary \in Nat /\ ResumesInv(frames, delegates, resumes)
  BY TopFacts
<1>2. fr \in Seq(Frame)
  BY <1>1, AppendFacts
<1>3. /\ cl \in Seq(Owner) /\ recs \in Seq(Record) /\ Layered(fr, cl, recs)
      /\ limits.tries = 0 => recs = <<>>
  BY LiftedFacts
<1>4. /\ Len(suspended[g].seh) \in Nat /\ Len(recs) = Len(seh) + Len(suspended[g].seh)
      /\ \A k \in 1..Len(suspended[g].seh) :
            /\ recs[Len(seh) + k] = suspended[g].seh[k]
            /\ suspended[g].seh[k].saved_frame_depth = Len(frames) + 1
  BY LiftedFacts
<1>5. Thrown(fr, cl, recs, InvokeBoundary, d, n, c, m)
  OBVIOUS
<1>6. /\ CutPoint(frames, closures, seh, n, c, m)
      /\ \A i \in 1..n : fr[i] = frames[i]
      /\ \A i \in 1..c : cl[i] = closures[i]
      /\ \A i \in 1..m : recs[i] = seh[i]
  BY CutBelowParked DEF Thrown
<1> HIDE DEF fr, cl, recs
<1>7. /\ n > InvokeBoundary /\ d.taken \in BOOLEAN
      /\ d.frames \in Seq(Frame) /\ d.closures \in Seq(Owner)
      /\ d.seh \in Seq(Record) /\ Cut(d.closures, cl, c)
      /\ Len(d.frames) = n /\ Len(d.seh) = m
      /\ \A k \in 1..Len(recs) :
            recs[k].saved_frame_depth > (IF d.taken THEN n ELSE InvokeBoundary)
                => recs[k].mode # "try"
  BY <1>5 DEF Thrown
<1>8. n \in 1..Len(frames) /\ c <= Len(closures) /\ m <= Len(seh)
  BY <1>6 DEF CutPoint
<1>9. Layered(frames', closures', seh')
  BY <1>1, <1>2, <1>3, <1>5, ThrownLayered
<1>10. FramesKept(fr, d.frames, n)
  BY <1>1, <1>2, <1>3, <1>5, ThrownFrames
<1>11. ASSUME NEW f \in 1..n
       PROVE  /\ FrameKept(frames, frames', f)
              /\ f < n => frames'[f] = frames[f]
  <2>1. /\ FrameKept(fr, d.frames, f) /\ f \in 1..Len(fr)
        /\ f < n => d.frames[f] = fr[f]
    BY <1>10 DEF FramesKept
  <2>2. fr[f] = frames[f] /\ f <= Len(frames)
    BY <1>6, <1>8
  <2> QED
    BY <2>1, <2>2, <1>1 DEF FrameKept
<1>12. Cut(closures', closures, c)
  BY <1>6, <1>7, <1>8 DEF Cut
<1>13. LastKept
  <2> SUFFICES ASSUME resumes # <<>>, NEW r, r = Last(resumes)
               PROVE  /\ Keeps(frames', frames, r.frame_depth)
                      /\ Keeps(closures', closures, r.closure)
                      /\ Keeps(seh', seh, r.seh)
                      /\ Keeps(delegates', delegates, r.delegate)
    BY DEF LastKept
  <2>1. /\ r.frame_depth \in Nat /\ r.closure \in Nat /\ r.seh \in Nat
        /\ r.delegate \in Nat /\ r.delegate <= Len(delegates)
    BY LastFacts
  <2>2. /\ r.frame_depth <= n - 1 /\ r.closure <= c /\ r.seh <= m
        /\ r.seh <= frames[n].seh_depth
    BY <1>6, <1>7, AtLeastLast
  <2>3. Keeps(frames', frames, r.frame_depth)
    <3>1. \A i \in 1..r.frame_depth : i \in 1..n /\ i < n
      BY <2>1, <2>2
    <3>2. \A i \in 1..r.frame_depth : frames'[i] = frames[i]
      BY <3>1, <1>11
    <3>3. Len(frames') = n /\ r.frame_depth <= n /\ r.frame_depth <= Len(frames)
      BY <2>1, <2>2, <1>1, <1>7, <1>8
    <3> QED
      BY <3>2, <3>3 DEF Keeps
  <2>4. Keeps(closures', closures, r.closure)
    <3>1. Cut(closures', closures, c) /\ c \in Nat /\ Len(closures') = c
      BY <1>12 DEF Cut
    <3>2. \A i \in 1..r.closure : i \in 1..c
      BY <2>1, <2>2
    <3>3. \A i \in 1..r.closure : closures'[i] = closures[i]
      BY <3>1, <3>2 DEF Cut
    <3>4. r.closure <= Len(closures) /\ r.closure <= Len(closures')
      BY <2>1, <2>2, <3>1, <1>1, <1>8
    <3> QED
      BY <3>3, <3>4 DEF Keeps
  <2>5. \A k \in 1..m : k <= frames[n].seh_depth => d.seh[k] = recs[k]
    <3>1. n \in 1..n
      BY <1>8
    <3>2. fr[n] = frames[n]
      BY <3>1, <1>6
    <3> QED
      BY <3>2, <1>5 DEF Thrown, Cut
  <2>6. Keeps(seh', seh, r.seh)
    <3>1. ASSUME NEW k \in 1..r.seh PROVE seh'[k] = seh[k]
      <4>1. k \in 1..m
        BY <2>1, <2>2
      <4>2. frames[n].seh_depth \in Nat
        BY <1>1, <1>8, StackTypes
      <4>3. k <= frames[n].seh_depth
        BY <2>1, <2>2, <4>2
      <4> QED
        BY <4>1, <4>3, <2>5, <1>6
    <3> QED
      BY <3>1, <2>1, <2>2, <1>1, <1>7, <1>8 DEF Keeps
  <2>7. Keeps(delegates', delegates, r.delegate)
    BY <2>1, <1>1 DEF Keeps
  <2> QED
    BY <2>3, <2>4, <2>6, <2>7
<1>14. limits.tries = 0 => seh' = <<>>
  <2>1. SUFFICES ASSUME limits.tries = 0 PROVE seh' = <<>>
    OBVIOUS
  <2>2. Len(seh) = 0
    BY <2>1, Unmoved
  <2>3. Len(d.seh) = 0
    BY <2>2, <1>7, <1>8
  <2> QED
    BY <2>3, <1>7
<1>15. CellsKept
  <2>1. ASSUME NEW h \in Gen, Active(h, resumes)
        PROVE  Cardinality(CellsOf(h, closures')) <= cells[h]
    <3>1. Cardinality(CellsOf(h, closures)) <= cells[h]
      BY <2>1, Unmoved
    <3>2. Cardinality(CellsOf(h, closures')) <= Cardinality(CellsOf(h, closures))
      BY <1>1, <1>7, <1>12, CellsCut
    <3>3. /\ Cardinality(CellsOf(h, closures)) \in Nat
          /\ Cardinality(CellsOf(h, closures')) \in Nat
      BY <1>1, <1>7, CellsFinite
    <3>4. cells[h] \in Nat
      BY Unmoved
    <3> QED
      BY <3>1, <3>2, <3>3, <3>4
  <2> QED
    BY <2>1, Unmoved DEF CellsKept
<1>16. PICK s \in States : s = "Completed" /\ state' = [state EXCEPT ![g] = s]
  BY DEF Complete, States
<1>17. /\ state' = [state EXCEPT ![g] = s]
       /\ s = "Completed" \/ (s = "Executing" /\ Uses \cap {"deep", "delegate"} # {})
       /\ suspended' = [suspended EXCEPT ![g] = NoFrame]
  BY <1>16 DEF Complete
<1>18. ASSUME NEW k \in 1..Len(suspended[g].seh) PROVE MayGo(suspended[g].seh[k])
  <2>1. PICK i : i = Len(seh) + k
    OBVIOUS
  <2>2. i \in 1..Len(recs)
    <3>1. Len(seh) \in Nat /\ Len(suspended[g].seh) \in Nat
      BY <1>1, <1>4
    <3>2. Len(recs) = Len(seh) + Len(suspended[g].seh)
      BY <1>4
    <3> QED
      BY ONLY <3>1, <3>2, <2>1, k \in 1..Len(suspended[g].seh)
  <2>3. recs[i] = suspended[g].seh[k] /\ recs[i].saved_frame_depth = Len(frames) + 1
    BY <2>1, <1>4
  <2>4. recs[i].saved_frame_depth > (IF d.taken THEN n ELSE InvokeBoundary)
    BY <2>3, <1>1, <1>7, <1>8
  <2> QED
    BY <2>2, <2>3, <2>4, <1>7 DEF MayGo
<1>19. /\ state' \in [Gen -> States]
       /\ suspended' \in [Gen -> SuspendedFrame \cup {NoFrame}]
       /\ \A h \in Gen : PlaceMoved(h)
  BY <1>17, <1>18, EndsAside
<1>20. Len(frames') \in 1..MaxFrames
  <2>1. MaxFrames \in Nat /\ Len(frames) <= MaxFrames
    BY Unmoved
  <2> QED
    BY <2>1, <1>1, <1>7, <1>8
<1>21. DelegatesInv(delegates', resumes', error')
  BY <1>1, Unmoved, DelegatesKept
<1>22. /\ error' \in BOOLEAN /\ SameResumes(resumes, resumes')
       /\ delegates' \in Seq(Gen) /\ resumes' \in Seq(Resume)
       /\ frames' \in Seq(Frame) /\ closures' \in Seq(Owner) /\ seh' \in Seq(Record)
       /\ InvokeBoundary < Len(frames')
  BY <1>1, <1>7, <1>8, Unmoved
<1>23. \A f \in 1..Len(frames') : FrameKept(frames, frames', f)
  BY <1>7, <1>11
<1> QED
  BY <1>9, <1>13, <1>14, <1>15, <1>19, <1>20, <1>21, <1>22, <1>23, InnerStep
\* Nobody takes it up to the resumption that runs the caller.
LEMMA ThrowUncaughtStep ==
    ASSUME GenInv, Sheltered, ~error, NEW g \in Gen, Parked(g), Fit(g),
           NEW F \in Frame, Lifted(g, F),
           NEW d, NEW n \in Nat, NEW c \in Nat, NEW m \in Nat,
           Thrown(Append(frames, F), Closures(g), Seh(g), InvokeBoundary, d, n, c, m),
           d.taken = FALSE, n = Len(frames) + 1, Complete(g),
           frames' = Truncate(d.frames, Len(frames)),
           closures' = Truncate(d.closures, Len(closures)),
           seh' = Truncate(d.seh, Len(seh)),
           error' = TRUE, UNCHANGED <<cells, delegates, resumes, prologue, limits>>
    PROVE  StepKeeps
<1> DEFINE fr == Append(frames, F)
           cl == Closures(g)
           recs == Seh(g)
<1>1. /\ frames \in Seq(Frame) /\ closures \in Seq(Owner) /\ seh \in Seq(Record)
      /\ Len(frames) \in Nat /\ Len(closures) \in Nat /\ Len(seh) \in Nat
      /\ InvokeBoundary \in Nat /\ InvokeBoundary < Len(frames)
  BY TopFacts
<1>2. /\ fr \in Seq(Frame) /\ Len(fr) = Len(frames) + 1 /\ fr[Len(frames) + 1] = F
      /\ \A i \in 1..Len(frames) : fr[i] = frames[i]
  BY <1>1, AppendFacts
<1>3. /\ cl \in Seq(Owner) /\ recs \in Seq(Record)
      /\ Keeps(cl, closures, Len(closures)) /\ Keeps(recs, seh, Len(seh))
  BY LiftedFacts
<1>4. /\ Len(suspended[g].seh) \in Nat /\ Len(recs) = Len(seh) + Len(suspended[g].seh)
      /\ \A k \in 1..Len(suspended[g].seh) :
            /\ recs[Len(seh) + k] = suspended[g].seh[k]
            /\ suspended[g].seh[k].saved_frame_depth = Len(frames) + 1
  BY LiftedFacts
<1>5. Thrown(fr, cl, recs, InvokeBoundary, d, n, c, m)
  OBVIOUS
<1>6. F.closure_depth = Len(closures) /\ F.seh_depth = Len(seh)
  BY DEF Lifted
<1> HIDE DEF fr, cl, recs
<1>7. /\ CutPoint(fr, cl, recs, n, c, m)
      /\ d.frames \in Seq(Frame) /\ d.closures \in Seq(Owner)
      /\ d.seh \in Seq(Record) /\ Cut(d.closures, cl, c)
      /\ Cut(d.frames, fr, n) /\ Cut(d.seh, recs, m)
      /\ \A k \in 1..Len(recs) :
            recs[k].saved_frame_depth > InvokeBoundary => recs[k].mode # "try"
  BY <1>5 DEF Thrown
<1>8. Len(closures) <= c /\ Len(seh) <= m
  BY <1>2, <1>6, <1>7 DEF CutPoint
<1>9. frames' = frames
  <2>1. frames' \in Seq(Frame) /\ Cut(frames', fr, Len(frames))
    <3>1. Len(frames) <= n
      BY <1>1
    <3> QED
      BY <3>1, <1>1, <1>2, <1>7, TruncateOfCut
  <2>2. Len(frames') = Len(frames) /\ \A i \in 1..Len(frames) : frames'[i] = frames[i]
    BY <2>1, <1>2 DEF Cut
  <2> QED
    BY <2>1, <2>2, <1>1
<1>10. closures' = closures
  <2>1. closures' \in Seq(Owner) /\ Cut(closures', cl, Len(closures))
    BY <1>1, <1>3, <1>7, <1>8, TruncateOfCut
  <2>2. /\ Len(closures') = Len(closures)
        /\ \A i \in 1..Len(closures) : closures'[i] = closures[i]
    BY <2>1, <1>3 DEF Cut, Keeps
  <2> QED
    BY <2>1, <2>2, <1>1
<1>11. seh' = seh
  <2>1. seh' \in Seq(Record) /\ Cut(seh', recs, Len(seh))
    BY <1>1, <1>3, <1>7, <1>8, TruncateOfCut
  <2>2. Len(seh') = Len(seh) /\ \A i \in 1..Len(seh) : seh'[i] = seh[i]
    BY <2>1, <1>3 DEF Cut, Keeps
  <2> QED
    BY <2>1, <2>2, <1>1
<1>12. PICK s \in States : s = "Completed" /\ state' = [state EXCEPT ![g] = s]
  BY DEF Complete, States
<1>13. /\ state' = [state EXCEPT ![g] = s]
       /\ s = "Completed" \/ (s = "Executing" /\ Uses \cap {"deep", "delegate"} # {})
       /\ suspended' = [suspended EXCEPT ![g] = NoFrame]
  BY <1>12 DEF Complete
<1>14. ASSUME NEW k \in 1..Len(suspended[g].seh) PROVE MayGo(suspended[g].seh[k])
  <2>1. PICK i : i = Len(seh) + k
    OBVIOUS
  <2>2. i \in 1..Len(recs)
    <3>1. Len(seh) \in Nat /\ Len(suspended[g].seh) \in Nat
      BY <1>1, <1>4
    <3>2. Len(recs) = Len(seh) + Len(suspended[g].seh)
      BY <1>4
    <3> QED
      BY ONLY <3>1, <3>2, <2>1, k \in 1..Len(suspended[g].seh)
  <2>3. recs[i] = suspended[g].seh[k] /\ recs[i].saved_frame_depth = Len(frames) + 1
    BY <2>1, <1>4
  <2>4. recs[i].saved_frame_depth > InvokeBoundary
    BY <2>3, <1>1
  <2> QED
    BY <2>2, <2>3, <2>4, <1>7 DEF MayGo
<1>15. /\ state' \in [Gen -> States]
       /\ suspended' \in [Gen -> SuspendedFrame \cup {NoFrame}]
       /\ \A h \in Gen : PlaceMoved(h)
  BY <1>13, <1>14, EndsAside
<1>16. UNCHANGED <<cells, stackVars, resumes, prologue, limits>>
  BY <1>9, <1>10, <1>11 DEF stackVars
<1> QED
  BY <1>15, <1>16, AsideStep

LEMMA GenThrowStep ==
    ASSUME GenInv, Sheltered, NEW g \in Gen, GenThrow(g)
    PROVE  StepKeeps
<1>1. ~error /\ Fit(g) /\ state[g] = "SuspendedYield"
  BY DEF GenThrow, CodeRuns, Running
<1>2. Parked(g)
  BY <1>1, PlaceFacts
<1>3. /\ frames \in Seq(Frame) /\ closures \in Seq(Owner) /\ seh \in Seq(Record)
      /\ Len(frames) \in Nat /\ Len(closures) \in Nat /\ Len(seh) \in Nat
      /\ Depth = Len(frames) /\ InvokeBoundary \in Nat
      /\ InvokeBoundary < Len(frames)
  BY TopFacts
<1>4. MaxFrames \in Nat /\ Len(frames) <= MaxFrames
  BY Unmoved
<1>5. CASE Len(frames) = MaxFrames
  <2>1. Install(g, "body", suspended[g].delegates, 0)
    BY <1>3, <1>5 DEF GenThrow
  <2>2. ~(Len(frames) < MaxFrames)
    BY <1>3, <1>5
  <2> QED
    BY <2>1, <2>2, <1>1, <1>2, ParkedParts, InstallRefused
<1>6. CASE Len(frames) # MaxFrames
  <2>1. PICK F : F = [gen |-> g, at |-> "body", closure_depth |-> Len(closures),
                      seh_depth |-> Len(seh)]
    OBVIOUS
  <2>2. F \in Frame /\ Lifted(g, F) /\ Frames(g, "body") = Append(frames, F)
    <3>1. g \in Owner
      BY GeneratorsAssumption DEF Gen, Owner
    <3> QED
      BY <2>1, <3>1, <1>3 DEF Lifted, Frame, At, Frames
  <2>3. PICK b : b = InvokeBoundary
    OBVIOUS
  <2>4. PICK d : d = Dispatch(Append(frames, F), Closures(g), Seh(g), b)
    OBVIOUS
  <2>5. /\ d = Dispatch(Frames(g, "body"), Closures(g), Seh(g), InvokeBoundary)
        /\ b \in Nat /\ b < Len(frames)
    BY <2>2, <2>3, <2>4, <1>3
  <2>6. PICK n \in Nat, c \in Nat, m \in Nat :
            Thrown(Append(frames, F), Closures(g), Seh(g), b, d, n, c, m)
    BY <2>2, <2>4, <2>5, <1>1, <1>2, ThrownAtParked
  <2>7. /\ Len(d.frames) = n /\ d.taken \in BOOLEAN
        /\ d.frames \in Seq(Frame) /\ d.closures \in Seq(Owner)
        /\ d.seh \in Seq(Record) /\ Len(d.closures) = c /\ Len(d.seh) = m
        /\ CutPoint(Append(frames, F), Closures(g), Seh(g), n, c, m)
    BY <2>6 DEF Thrown, Cut
  <2>8. IF d.taken /\ Len(d.frames) > Depth
        THEN /\ state' = [state EXCEPT ![g] = "Executing"]
             /\ suspended' = [suspended EXCEPT ![g] = NoFrame]
             /\ frames' = d.frames /\ closures' = d.closures
             /\ seh' = d.seh
             /\ delegates' = delegates \o suspended[g].delegates
             /\ resumes' = Append(resumes,
                     Saved(g, Last(d.frames).closure_depth, FALSE))
             /\ cells' = [cells EXCEPT ![g] =
                     @ - (Len(Closures(g)) - Len(d.closures))]
             /\ UNCHANGED <<prologue, error, limits>>
        ELSE /\ Complete(g)
             /\ frames' = Truncate(d.frames, Depth)
             /\ closures' = Truncate(d.closures, Len(closures))
             /\ seh' = Truncate(d.seh, Len(seh))
             /\ error' = ~d.taken
             /\ UNCHANGED <<cells, delegates, resumes, prologue, limits>>
    BY <2>5, <1>3, <1>6 DEF GenThrow
  <2>9. n <= Len(frames) + 1
    <3>1. Len(Append(frames, F)) = Len(frames) + 1
      BY <2>2, <1>3, AppendFacts
    <3> QED
      BY <2>7, <3>1 DEF CutPoint
  <2>10. CASE d.taken /\ n > Len(frames)
    <3>1. n = Len(frames) + 1 /\ Len(frames) < MaxFrames
      BY <2>9, <2>10, <1>3, <1>4, <1>6
    <3> QED
      BY <3>1, <2>2, <2>5, <2>6, <2>7, <2>8, <2>10, <1>1, <1>2, <1>3,
         ThrowTakenStep
  <2>11. CASE ~d.taken /\ n > Len(frames)
    <3>1. n = Len(frames) + 1
      BY <2>9, <2>11, <1>3
    <3>2. Thrown(Append(frames, F), Closures(g), Seh(g), InvokeBoundary, d, n, c, m)
      BY <2>3, <2>6
    <3> QED
      BY <3>1, <3>2, <2>2, <2>7, <2>8, <2>11, <1>1, <1>2, <1>3, ThrowUncaughtStep
  <2>12. CASE n <= Len(frames)
    <3>1. Thrown(Append(frames, F), Closures(g), Seh(g), InvokeBoundary, d, n, c, m)
      BY <2>3, <2>6
    <3>2. CutPoint(frames, closures, seh, n, c, m)
      BY <2>2, <2>7, <2>12, <1>1, <1>2, CutBelowParked
    <3>3. c <= Len(closures) /\ m <= Len(seh)
      BY <3>2 DEF CutPoint
    <3>4. Truncate(d.frames, Depth) = d.frames
      BY <2>7, <2>12, <1>3, TruncateCuts
    <3>5. Truncate(d.closures, Len(closures)) = d.closures
      BY <3>3, <2>7, <1>3, TruncateCuts
    <3>6. Truncate(d.seh, Len(seh)) = d.seh
      BY <3>3, <2>7, <1>3, TruncateCuts
    <3>7. ~(d.taken /\ Len(d.frames) > Depth)
      BY <2>7, <2>12, <1>3
    <3> QED
      BY <3>1, <3>4, <3>5, <3>6, <3>7, <2>2, <2>8, <2>12, <1>1, <1>2,
         ThrowBelowStep
  <2> QED
    BY <2>7, <2>10, <2>11, <2>12, <1>3
<1> QED
  BY <1>5, <1>6
-----------------------------------------------------------------------------
(* The theorems.                                                           *)

LEMMA InitInv ==
    ASSUME Init
    PROVE  GenInv
<1> DEFINE F == [gen |-> 0, at |-> "body", closure_depth |-> 0, seh_depth |-> 0]
<1>1. /\ state = [g \in Gen |-> "none"] /\ suspended = [g \in Gen |-> NoFrame]
      /\ cells = [g \in Gen |-> 0] /\ frames = <<F>>
      /\ closures = <<>> /\ seh = <<>> /\ delegates = <<>> /\ resumes = <<>>
      /\ prologue = FALSE /\ error = FALSE /\ limits \in Setups
  BY DEF Init
<1>2. MaxFrames \in Nat /\ MaxFrames >= 1
  BY <1>1, GeneratorsAssumption DEF MaxFrames
<1>3. F \in Frame /\ F.gen = 0 /\ F.at = "body" /\ F.closure_depth = 0
      /\ F.seh_depth = 0
  BY GeneratorsAssumption DEF Frame, At, Owner
<1> HIDE DEF F
<1>4. /\ frames \in Seq(Frame) /\ Len(frames) = 1 /\ frames[1] = F
      /\ \A f \in 1..1 : frames[f] = F
  BY <1>1, <1>3
<1>5. /\ closures \in Seq(Owner) /\ seh \in Seq(Record)
      /\ delegates \in Seq(Gen) /\ resumes \in Seq(Resume)
      /\ Len(closures) = 0 /\ Len(seh) = 0 /\ Len(delegates) = 0
      /\ Len(resumes) = 0
  BY <1>1
<1>6. GenTypes
  <2>1. Len(frames) \in 1..MaxFrames
    BY <1>2, <1>4
  <2>2. /\ state \in [Gen -> States] /\ cells \in [Gen -> Nat]
        /\ suspended \in [Gen -> SuspendedFrame \cup {NoFrame}]
    BY <1>1 DEF States
  <2> QED
    BY <2>1, <2>2, <1>1, <1>4, <1>5 DEF GenTypes
<1>7. Layered(frames, closures, seh)
  <2>1. Watermarks(frames, closures, seh)
    BY <1>3, <1>4, <1>5 DEF Watermarks
  <2>2. ~\E k \in 1..0 : TRUE
    OBVIOUS
  <2> QED
    BY <2>1, <2>2, <1>5 DEF Layered, CellsOwned, Rising
<1>8. ResumesInv(frames, delegates, resumes)
  <2>1. ~\E k \in 1..0 : TRUE
    OBVIOUS
  <2> QED
    BY <2>1, <1>3, <1>4, <1>5 DEF ResumesInv
<1>9. ASSUME NEW h \in Gen PROVE PlaceFits(h)
  <2>1. state[h] = "none" /\ suspended[h] = NoFrame
    BY <1>1
  <2>2. ~Active(h, resumes)
    BY <1>5 DEF Active
  <2>3. ~Parked(h)
    BY <2>1 DEF Parked
  <2> QED
    BY <2>1, <2>2, <2>3 DEF PlaceFits
<1>10. DelegatesInv(delegates, resumes, error)
  BY <1>5 DEF DelegatesInv
<1> QED
  BY <1>1, <1>5, <1>6, <1>7, <1>8, <1>9, <1>10 DEF GenInv

LEMMA StutterStep ==
    ASSUME GenInv, UNCHANGED vars
    PROVE  StepKeeps
<1>1. UNCHANGED <<state, suspended, cells, limits, frames, closures, seh,
                  delegates, resumes, prologue, error>>
  BY DEF vars
<1>2. /\ frames \in Seq(Frame) /\ closures \in Seq(Owner) /\ seh \in Seq(Record)
      /\ Layered(frames, closures, seh) /\ InvokeBoundary < Len(frames)
  BY TopFacts
<1>3. LastKept
  BY <1>1, Unmoved DEF LastKept
<1> QED
  BY <1>1, <1>2, <1>3, Unmoved, QuietStep

\* Every step keeps the invariant, the stacks of the resumer, and handlers.
LEMMA NextStep ==
    ASSUME GenInv, Sheltered, [Next]_vars
    PROVE  StepKeeps
<1>1. CASE \E c \in 0..1 : Call(c)
  BY <1>1, CallStep
<1>2. CASE MakeCell
  BY <1>2, CellStep
<1>3. CASE EndTry
  BY <1>3, EndTryStep
<1>4. CASE DelegateOpen
  BY <1>4, OpenStep
<1>5. CASE DelegateClose
  BY <1>5, CloseStep
<1>6. CASE \E fin \in BOOLEAN : Try(fin)
  BY <1>6, TryStep
<1>7. CASE Return
  BY <1>7, ReturnStep
<1>8. CASE PrologueEnd
  BY <1>8, PrologueEndStep
<1>9. CASE Yield
  BY <1>9, YieldStep
<1>10. CASE Throw
  BY <1>10, ThrowStep
<1>11. CASE FinallyEnd
  BY <1>11, FinallyEndStep
<1>12. CASE Halt
  BY <1>12, HaltStep
<1>13. ASSUME NEW g \in Gen,
              \/ \E c \in 0..1 : Create(g, c)
              \/ NextStart(g) \/ NextYield(g) \/ NextExecuting(g)
              \/ GenReturn(g) \/ GenThrow(g) \/ GenThrowDelegate(g)
              \/ Abrupt(g)
       PROVE  StepKeeps
  <2>1. CASE \E c \in 0..1 : Create(g, c)
    BY <2>1, CreateStep
  <2>2. CASE NextStart(g)
    BY <2>2, NextStartStep
  <2>3. CASE NextYield(g)
    BY <2>3, NextYieldStep
  <2>4. CASE NextExecuting(g)
    BY <2>4, NextExecutingStep
  <2>5. CASE GenReturn(g)
    BY <2>5, GenReturnStep
  <2>6. CASE GenThrow(g)
    BY <2>6, GenThrowStep
  <2>7. CASE GenThrowDelegate(g)
    BY <2>7, GenThrowDelegateStep
  <2>8. CASE Abrupt(g)
    BY <2>8, AbruptStep
  <2> QED
    BY <1>13, <2>1, <2>2, <2>3, <2>4, <2>5, <2>6, <2>7, <2>8
<1>14. CASE UNCHANGED vars
  BY <1>14, StutterStep
<1> QED
  BY <1>1, <1>2, <1>3, <1>4, <1>5, <1>6, <1>7, <1>8, <1>9, <1>10, <1>11, <1>12,
     <1>13, <1>14 DEF Next

\* Programs that resume a body only where the depths its records noted are still
\* right, and have no try to catch that a resumption was refused: each of the
\* two breaks what is proved here, as TLC shows.
ShelteredSetups ==
    \A setup \in Setups : /\ "moved" \notin setup.uses
                          /\ "deep" \in setup.uses => setup.tries = 0

\* ... and whose delegates do not fail over an open try.
CarefulSetups ==
    \A setup \in Setups : "delegate" \in setup.uses => setup.tries = 0

LEMMA SetupFacts ==
    ASSUME GenInv
    PROVE  /\ ShelteredSetups => Sheltered
           /\ ShelteredSetups /\ CarefulSetups => Careful
<1>1. limits \in Setups
  BY Unmoved
<1>2. ShelteredSetups => Sheltered
  BY <1>1 DEF ShelteredSetups, Sheltered, Uses
<1>3. ASSUME ShelteredSetups, CarefulSetups PROVE Careful
  <2>1. limits.tries # 0 => "deep" \notin Uses /\ "delegate" \notin Uses
    BY <1>1, <1>3 DEF ShelteredSetups, CarefulSetups, Uses
  <2> QED
    BY <2>1 DEF Careful
<1> QED
  BY <1>2, <1>3

\* In every state of every execution the stacks are layered by frames, every
\* resumption sits on what it saved, and every generator is where its state
\* says, as GenInv has it.
THEOREM GeneratorInvariance ==
    ASSUME ShelteredSetups
    PROVE  Spec => []GenInv
<1>1. Init => GenInv
  BY InitInv
<1>2. GenInv /\ [Next]_vars => GenInv'
  BY NextStep, SetupFacts DEF StepKeeps
<1> QED BY <1>1, <1>2, PTL DEF Spec

\* The state is of its types: calls and resumptions stay below the call depth
\* cap and no frame's watermark is above its stack.
THEOREM GeneratorTypes ==
    ASSUME ShelteredSetups
    PROVE  Spec => []TypeOK
<1>1. ASSUME GenInv PROVE TypeOK
  <2>1. /\ frames \in Seq(Frame) /\ Layered(frames, closures, seh)
    BY <1>1, TopFacts
  <2>2. DOMAIN frames = 1..Len(frames)
    BY <2>1
  <2>3. \A i \in DOMAIN frames : /\ frames[i].closure_depth <= Len(closures)
                                 /\ frames[i].seh_depth <= Len(seh)
    BY <2>1, <2>2 DEF Layered, Watermarks
  <2>4. \A g \in Gen : Parked(g) => suspended[g] \in SuspendedFrame
    BY <1>1, PlaceFacts
  <2> QED
    BY <1>1, <2>3, <2>4 DEF GenInv, GenTypes, TypeOK
<1>2. GenInv => TypeOK
  BY <1>1
<1> QED BY <1>2, GeneratorInvariance, PTL

\* A body on the stack is one a resumption runs.
LEMMA FrameOfActive ==
    ASSUME GenInv, NEW g \in Gen
    PROVE  /\ DOMAIN frames = 1..Len(frames)
           /\ \A e, f \in Activations(g) : e = f
           /\ Activations(g) # {} <=> Active(g, resumes)
           /\ \A k \in 1..Len(seh) : seh[k].owner = g => Active(g, resumes)
<1>1. /\ frames \in Seq(Frame) /\ ResumesInv(frames, delegates, resumes)
      /\ Len(frames) \in Nat /\ Layered(frames, closures, seh)
      /\ Len(resumes) \in Nat
  BY TopFacts, ResumeTypes
<1>2. DOMAIN frames = 1..Len(frames)
  BY <1>1
<1>3. g # 0
  BY GeneratorsAssumption DEF Gen
<1>4. ASSUME NEW f \in 1..Len(frames), frames[f].gen = g
      PROVE  \E i \in 1..Len(resumes) :
                resumes[i].frame_depth + 1 = f /\ resumes[i].gen = g
  <2>1. PICK i \in 1..Len(resumes) : resumes[i].frame_depth + 1 = f
    BY <1>1, <1>3, <1>4 DEF ResumesInv
  <2>2. resumes[i].gen = frames[f].gen
    BY <1>1, <2>1 DEF ResumesInv, ResumptionFits
  <2> QED
    BY <1>4, <2>1, <2>2
<1>5. ASSUME NEW e \in Activations(g), NEW f \in Activations(g) PROVE e = f
  <2>1. PICK i \in 1..Len(resumes) :
            resumes[i].frame_depth + 1 = e /\ resumes[i].gen = g
    BY <1>2, <1>4 DEF Activations
  <2>2. PICK j \in 1..Len(resumes) :
            resumes[j].frame_depth + 1 = f /\ resumes[j].gen = g
    BY <1>2, <1>4 DEF Activations
  <2>3. ~(i < j) /\ ~(j < i)
    BY <2>1, <2>2, <1>1 DEF ResumesInv
  <2>4. i = j
    BY <2>3, <1>1
  <2> QED
    BY <2>1, <2>2, <2>4
<1>6. Activations(g) # {} => Active(g, resumes)
  BY <1>2, <1>4 DEF Activations, Active
<1>7. ASSUME Active(g, resumes) PROVE Activations(g) # {}
  <2>1. PICK i \in 1..Len(resumes) : resumes[i].gen = g
    BY <1>7 DEF Active
  <2>2. PICK f : f = resumes[i].frame_depth + 1
    OBVIOUS
  <2>3. resumes[i].frame_depth \in 1..(Len(frames) - 1) /\ frames[f].gen = g
    BY <2>1, <2>2, <1>1 DEF ResumesInv, ResumptionFits
  <2>4. f \in 1..Len(frames)
    BY <2>2, <2>3, <1>1
  <2> QED
    BY <2>3, <2>4, <1>2 DEF Activations
<1>8. ASSUME NEW k \in 1..Len(seh), seh[k].owner = g PROVE Active(g, resumes)
  <2>1. PICK f \in 1..Len(frames) : frames[f].gen = g
    BY <1>1, <1>8 DEF Layered, RecordFits
  <2> QED
    BY <2>1, <1>4 DEF Active
<1> QED
  BY <1>2, <1>5, <1>6, <1>7, <1>8
LEMMA OneActivation ==
    ASSUME GenInv
    PROVE  SoleActivation
<1> SUFFICES ASSUME NEW g \in Gen
             PROVE  Cardinality(Activations(g)) + (IF Parked(g) THEN 1 ELSE 0) <= 1
  BY DEF SoleActivation
<1>1. CASE Activations(g) = {}
  <2>1. Cardinality(Activations(g)) = 0
    BY <1>1, FS_EmptySet
  <2> QED
    BY <2>1
<1>2. CASE Activations(g) # {}
  <2>1. PICK e : e \in Activations(g)
    BY <1>2
  <2>2. Activations(g) = {e}
    BY <2>1, FrameOfActive
  <2>3. Cardinality(Activations(g)) = 1
    BY <2>2, FS_Singleton
  <2>4. ~Parked(g)
    BY <1>2, FrameOfActive, PlaceFacts
  <2> QED
    BY <2>3, <2>4
<1> QED
  BY <1>1, <1>2

LEMMA StatesMatch ==
    ASSUME GenInv
    PROVE  StateMatchesFrame
<1>1. ASSUME NEW g \in Gen
      PROVE  /\ Parked(g) => state[g] \in {"SuspendedStart", "SuspendedYield"}
             /\ state[g] = "SuspendedYield" => Parked(g)
             /\ state[g] = "SuspendedStart" /\ Known(g) => Parked(g)
             /\ state[g] = "Executing" /\ Uses \cap {"deep", "delegate"} = {} =>
                   Activations(g) # {}
  <2>1. PlaceFits(g)
    BY DEF GenInv
  <2>2. state[g] = "Executing" /\ Uses \cap {"deep", "delegate"} = {} =>
            Activations(g) # {}
    BY <2>1, FrameOfActive DEF PlaceFits
  <2> QED
    BY <2>2, PlaceFacts
<1>2. ASSUME NEW i \in DOMAIN resumes, resumes[i].prologue
      PROVE  frames[resumes[i].frame_depth + 1].at = "prologue"
  <2>1. resumes \in Seq(Resume) /\ ResumesInv(frames, delegates, resumes)
    BY TopFacts
  <2>2. i \in 1..Len(resumes)
    BY <2>1
  <2> QED
    BY <1>2, <2>1, <2>2 DEF ResumesInv, ResumptionFits
<1> QED
  BY <1>1, <1>2 DEF StateMatchesFrame

\* Between its watermark and that of the next frame, a frame's own.
LEMMA Between ==
    ASSUME GenInv, NEW i \in 1..Len(frames), NEW k \in Nat
    PROVE  /\ /\ frames[i].closure_depth < k
              /\ k <= IF i = Len(frames) THEN Len(closures)
                      ELSE frames[i + 1].closure_depth
              => closures[k] = frames[i].gen
           /\ /\ frames[i].seh_depth < k
              /\ k <= IF i = Len(frames) THEN Len(seh) ELSE frames[i + 1].seh_depth
              => seh[k].owner = frames[i].gen
<1>1. /\ frames \in Seq(Frame) /\ closures \in Seq(Owner) /\ seh \in Seq(Record)
      /\ Len(frames) \in Nat /\ Len(closures) \in Nat /\ Len(seh) \in Nat
      /\ Layered(frames, closures, seh)
  BY TopFacts
<1>2. \A j \in 1..Len(frames) : /\ frames[j].closure_depth \in Nat
                                /\ frames[j].seh_depth \in Nat
                                /\ frames[j].closure_depth <= Len(closures)
                                /\ frames[j].seh_depth <= Len(seh)
  BY <1>1, StackTypes DEF Layered, Watermarks
<1>3. \A e, f \in 1..Len(frames) : e <= f =>
          /\ frames[e].closure_depth <= frames[f].closure_depth
          /\ frames[e].seh_depth <= frames[f].seh_depth
  BY <1>1 DEF Layered, Watermarks
<1>4. i # Len(frames) => i + 1 \in 1..Len(frames)
  BY <1>1
<1>5. ASSUME NEW f \in 1..Len(frames), f > i
      PROVE  i # Len(frames) /\ i + 1 <= f
  BY <1>1, <1>5
<1>6. ASSUME frames[i].closure_depth < k,
             k <= IF i = Len(frames) THEN Len(closures)
                  ELSE frames[i + 1].closure_depth
      PROVE  closures[k] = frames[i].gen
  <2>1. k \in 1..Len(closures)
    BY <1>1, <1>2, <1>4, <1>6
  <2>2. PICK f \in 1..Len(frames) :
            /\ frames[f].closure_depth < k /\ closures[k] = frames[f].gen
            /\ \A j \in 1..Len(frames) : j > f => k <= frames[j].closure_depth
    BY <1>1, <2>1 DEF Layered, CellsOwned
  <2>3. ~(i > f)
    BY <1>2, <1>6, <2>2
  <2>4. ~(f > i)
    <3>1. SUFFICES ASSUME f > i PROVE FALSE
      OBVIOUS
    <3>2. k <= frames[i + 1].closure_depth /\ i + 1 \in 1..Len(frames) /\ i + 1 <= f
      BY <3>1, <1>4, <1>5, <1>6
    <3>3. frames[i + 1].closure_depth <= frames[f].closure_depth
      BY <3>2, <1>3
    <3> QED
      BY <3>2, <3>3, <2>2, <1>2
  <2>5. f = i
    BY <2>3, <2>4
  <2> QED
    BY <2>2, <2>5
<1>7. ASSUME frames[i].seh_depth < k,
             k <= IF i = Len(frames) THEN Len(seh) ELSE frames[i + 1].seh_depth
      PROVE  seh[k].owner = frames[i].gen
  <2>1. k \in 1..Len(seh)
    BY <1>1, <1>2, <1>4, <1>7
  <2>2. PICK f \in 1..Len(frames) :
            /\ frames[f].seh_depth < k /\ seh[k].owner = frames[f].gen
            /\ \A j \in 1..Len(frames) : j > f => k <= frames[j].seh_depth
    BY <1>1, <2>1 DEF Layered, RecordFits
  <2>3. ~(i > f)
    BY <1>2, <1>7, <2>2
  <2>4. ~(f > i)
    <3>1. SUFFICES ASSUME f > i PROVE FALSE
      OBVIOUS
    <3>2. k <= frames[i + 1].seh_depth /\ i + 1 \in 1..Len(frames) /\ i + 1 <= f
      BY <3>1, <1>4, <1>5, <1>7
    <3>3. frames[i + 1].seh_depth <= frames[f].seh_depth
      BY <3>2, <1>3
    <3> QED
      BY <3>2, <3>3, <2>2, <1>2
  <2>5. f = i
    BY <2>3, <2>4
  <2> QED
    BY <2>2, <2>5
<1> QED
  BY <1>6, <1>7

LEMMA OwnStateOnly ==
    ASSUME GenInv
    PROVE  FrameOwnsItsState
<1> DEFINE ClosureTop(i) == IF i = Depth THEN Len(closures)
                            ELSE frames[i + 1].closure_depth
           SehTop(i) == IF i = Depth THEN Len(seh) ELSE frames[i + 1].seh_depth
<1>1. /\ frames \in Seq(Frame) /\ closures \in Seq(Owner) /\ seh \in Seq(Record)
      /\ Len(frames) \in Nat /\ Len(closures) \in Nat /\ Len(seh) \in Nat
      /\ Depth = Len(frames)
  BY TopFacts
<1>2. \A j \in 1..Len(frames) : /\ frames[j].closure_depth \in Nat
                                /\ frames[j].seh_depth \in Nat
  BY <1>1, StackTypes
<1>3. ASSUME NEW i \in DOMAIN frames
      PROVE  /\ \A k \in (frames[i].closure_depth + 1)..ClosureTop(i) :
                    closures[k] = frames[i].gen
             /\ \A k \in (frames[i].seh_depth + 1)..SehTop(i) :
                    seh[k].owner = frames[i].gen
  <2>1. i \in 1..Len(frames)
    BY <1>1
  <2>2. /\ frames[i].closure_depth \in Nat /\ frames[i].seh_depth \in Nat
        /\ i # Len(frames) => i + 1 \in 1..Len(frames)
    BY <1>1, <1>2, <2>1
  <2>3. ASSUME NEW k \in (frames[i].closure_depth + 1)..ClosureTop(i)
        PROVE  closures[k] = frames[i].gen
    <3>1. /\ k \in Nat /\ frames[i].closure_depth < k
          /\ k <= IF i = Len(frames) THEN Len(closures)
                  ELSE frames[i + 1].closure_depth
      BY <1>1, <1>2, <2>2, <2>3
    <3> QED
      BY <3>1, <2>1, Between
  <2>4. ASSUME NEW k \in (frames[i].seh_depth + 1)..SehTop(i)
        PROVE  seh[k].owner = frames[i].gen
    <3>1. /\ k \in Nat /\ frames[i].seh_depth < k
          /\ k <= IF i = Len(frames) THEN Len(seh) ELSE frames[i + 1].seh_depth
      BY <1>1, <1>2, <2>2, <2>4
    <3> QED
      BY <3>1, <2>1, Between
  <2> QED
    BY <2>3, <2>4
<1>4. ASSUME NEW g \in Gen, Parked(g)
      PROVE  /\ Range(suspended[g].closure_maps) \subseteq {g}
             /\ Range(suspended[g].delegates) \subseteq {g}
             /\ \A rec \in Range(suspended[g].seh) : rec.owner = g
  <2>1. ParkedFits(g) /\ suspended[g] \in SuspendedFrame
    BY <1>4, PlaceFacts
  <2>2. /\ suspended[g].closure_maps \in Seq(Owner)
        /\ suspended[g].delegates \in Seq(Owner)
        /\ suspended[g].seh \in Seq(Record)
    BY <2>1 DEF SuspendedFrame
  <2>3. /\ DOMAIN suspended[g].closure_maps = 1..Len(suspended[g].closure_maps)
        /\ DOMAIN suspended[g].delegates = 1..Len(suspended[g].delegates)
        /\ DOMAIN suspended[g].seh = 1..Len(suspended[g].seh)
    BY <2>2
  <2> QED
    BY <2>1, <2>3 DEF Range, ParkedFits
<1> QED
  BY <1>3, <1>4 DEF FrameOwnsItsState

\* However generators resume, re-enter and fail, a body is in one place at most,
\* that place is the one its state says, and nothing of another frame is parked
\* or restored with it.
THEOREM GeneratorsSound ==
    ASSUME ShelteredSetups
    PROVE  Spec => []GeneratorInv
<1>1. GenInv => GeneratorInv
  BY OneActivation, StatesMatch, OwnStateOnly DEF GeneratorInv
<1> QED BY <1>1, GeneratorInvariance, PTL

LEMMA KeepsIsKept ==
    ASSUME NEW S, NEW s \in Seq(S), NEW t \in Seq(S), NEW n \in Nat, Keeps(t, s, n)
    PROVE  Len(t) >= n /\ SubSeq(t, 1, n) = SubSeq(s, 1, n)
<1>1. Len(s) \in Nat /\ Len(t) \in Nat /\ n <= Len(s) /\ n <= Len(t)
  BY DEF Keeps
<1>2. n \in 0..Len(s) /\ n \in 0..Len(t)
  BY <1>1
<1> DEFINE p == SubSeq(t, 1, n)
           q == SubSeq(s, 1, n)
<1>3. /\ p \in Seq(S) /\ Len(p) = n /\ \A i \in 1..n : p[i] = t[i]
      /\ q \in Seq(S) /\ Len(q) = n /\ \A i \in 1..n : q[i] = s[i]
  BY <1>2, CutFacts
<1> HIDE DEF p, q
<1>4. \A i \in 1..n : p[i] = q[i]
  BY <1>3 DEF Keeps
<1>5. p = q
  BY <1>3, <1>4
<1> QED
  BY <1>1, <1>5 DEF p, q

LEMMA StepRestores ==
    ASSUME GenInv, StepKeeps
    PROVE  RestoresResumer
<1> SUFFICES ASSUME resumes # <<>> PROVE RestoresResumer
  BY DEF RestoresResumer
<1>1. PICK r : r = Last(resumes)
  OBVIOUS
<1>2. /\ Keeps(frames', frames, r.frame_depth)
      /\ Keeps(closures', closures, r.closure)
      /\ Keeps(seh', seh, r.seh)
      /\ Keeps(delegates', delegates, r.delegate)
      /\ Len(resumes') < Len(resumes) =>
            /\ Len(frames') = r.frame_depth /\ Len(closures') = r.closure
            /\ Len(seh') = r.seh /\ Len(delegates') = r.delegate
  BY <1>1 DEF StepKeeps, StacksKept
<1>3. /\ frames \in Seq(Frame) /\ closures \in Seq(Owner)
      /\ seh \in Seq(Record) /\ delegates \in Seq(Gen)
  BY TopFacts
<1>4. /\ frames' \in Seq(Frame) /\ closures' \in Seq(Owner)
      /\ seh' \in Seq(Record) /\ delegates' \in Seq(Gen)
  BY DEF StepKeeps, GenInv, GenTypes
<1>5. /\ r.frame_depth \in Nat /\ r.closure \in Nat /\ r.seh \in Nat
      /\ r.delegate \in Nat
  BY <1>1, LastFacts
<1>6. /\ Len(frames') >= r.frame_depth
      /\ SubSeq(frames', 1, r.frame_depth) = SubSeq(frames, 1, r.frame_depth)
  BY <1>2, <1>3, <1>4, <1>5, KeepsIsKept
<1>7. /\ Len(closures') >= r.closure
      /\ SubSeq(closures', 1, r.closure) = SubSeq(closures, 1, r.closure)
  BY <1>2, <1>3, <1>4, <1>5, KeepsIsKept
<1>8. /\ Len(seh') >= r.seh /\ SubSeq(seh', 1, r.seh) = SubSeq(seh, 1, r.seh)
  BY <1>2, <1>3, <1>4, <1>5, KeepsIsKept
<1>9. /\ Len(delegates') >= r.delegate
      /\ SubSeq(delegates', 1, r.delegate) = SubSeq(delegates, 1, r.delegate)
  BY <1>2, <1>3, <1>4, <1>5, KeepsIsKept
<1> QED
  BY <1>1, <1>2, <1>6, <1>7, <1>8, <1>9 DEF RestoresResumer

\* Nothing a resumed body does, nested resumptions and exceptions included,
\* touches what its resumer has on the shared stacks, and the end of the
\* resumption leaves exactly that.
THEOREM ResumersRestored ==
    ASSUME ShelteredSetups
    PROVE  Spec => ResumerRestored
<1>1. GenInv /\ [Next]_vars => [RestoresResumer]_vars
  BY NextStep, SetupFacts, StepRestores
<1> QED BY <1>1, GeneratorInvariance, PTL DEF Spec, ResumerRestored

LEMMA StepHonours ==
    ASSUME GenInv, StepKeeps, Careful
    PROVE  HonoursHandlers
<1> SUFFICES ASSUME NEW g \in Gen, Live(g), ~Live(g)', state'[g] # "none",
                    NEW rec \in {e \in Range(seh) : e.owner = g}
                        \cup IF Parked(g) THEN Range(suspended[g].seh) ELSE {}
             PROVE  rec.mode = "try" => ~error' /\ ~rec.finally
  BY DEF HonoursHandlers
<1>1. ~Parked(g)' /\ ~Active(g, resumes)'
  <2>1. GenInv'
    BY DEF StepKeeps
  <2>2. (Activations(g) # {} <=> Active(g, resumes))'
    BY <2>1, FrameOfActive, PTL
  <2> QED
    BY <2>2 DEF Live
<1>2. seh \in Seq(Record) /\ DOMAIN seh = 1..Len(seh)
  BY TopFacts
<1>3. CASE Parked(g)
  <2>1. ~Active(g, resumes) /\ suspended[g] \in SuspendedFrame
    BY <1>3, PlaceFacts
  <2>2. ~(rec \in Range(seh) /\ rec.owner = g)
    BY <2>1, <1>2, FrameOfActive DEF Range
  <2>3. rec \in Range(suspended[g].seh)
    BY <2>2, <1>3
  <2>4. DOMAIN suspended[g].seh = 1..Len(suspended[g].seh)
    BY <2>1 DEF SuspendedFrame
  <2>5. PICK k \in 1..Len(suspended[g].seh) : rec = suspended[g].seh[k]
    BY <2>3, <2>4 DEF Range
  <2>6. MayGo(rec)
    BY <1>1, <1>3, <2>5 DEF StepKeeps, Honoured
  <2> QED
    BY <2>6 DEF MayGo
<1>4. CASE ~Parked(g)
  <2>1. Active(g, resumes)
    BY <1>4, FrameOfActive DEF Live
  <2>2. PICK k \in 1..Len(seh) : rec = seh[k] /\ seh[k].owner = g
    BY <1>2, <1>4 DEF Range
  <2>3. MayGo(rec)
    BY <1>1, <2>1, <2>2 DEF StepKeeps, Honoured
  <2> QED
    BY <2>3 DEF MayGo
<1> QED
  BY <1>3, <1>4

\* A body is never dropped over its handlers: it ends by an exception only when
\* no try of it was open, and otherwise only when no finally was.
THEOREM HandlersKept ==
    ASSUME ShelteredSetups, CarefulSetups
    PROVE  Spec => HandlersHonoured
<1>1. GenInv /\ [Next]_vars => [HonoursHandlers]_vars
  BY NextStep, SetupFacts, StepHonours DEF StepKeeps
<1> QED BY <1>1, GeneratorInvariance, PTL DEF Spec, HandlersHonoured
=============================================================================
