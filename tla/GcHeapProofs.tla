---------------------------- MODULE GcHeapProofs ----------------------------
(***************************************************************************)
(* Machine-checked proofs about GcHeap, for every number of slots and      *)
(* every value of the other constants: first that the collector reclaims   *)
(* nothing too early; then the rest of its contract, that it reclaims      *)
(* everything else, counts it right and leaves the heap below the          *)
(* threshold, and that GcHeap implements JsHeap, the heap without a        *)
(* collector.                                                              *)
(***************************************************************************)
EXTENDS GcHeap, SequenceTheorems, FiniteSetTheorems, TLAPS

\* The bounds and constants of GcHeap, as the provers need them.
LEMMA SlotFacts == Slot \subseteq Nat /\ NoSlot \notin Slot /\ MaxSlots \in Nat
BY SlotAssumption DEF Slot

\* A sound set holds everything the program can get at.
LEMMA AccessibleInSound ==
    ASSUME NEW X \in SUBSET Slot, Sound(X)
    PROVE  Accessible \subseteq X
BY DEF Sound, Accessible, Reach

\* What remains of a sequence when its last element is popped.
LEMMA FrontFacts ==
    ASSUME NEW S, NEW q \in Seq(S), Len(q) > 0
    PROVE  LET f == SubSeq(q, 1, Len(q) - 1)
           IN  /\ f \in Seq(S)
               /\ Len(f) = Len(q) - 1
               /\ \A i \in 1..(Len(q) - 1) : f[i] = q[i]
<1>1. Len(q) \in Nat /\ \A i \in 1..(Len(q) - 1) : q[i] \in S
  OBVIOUS
<1>2. /\ SubSeq(q, 1, Len(q) - 1) \in Seq(S)
      /\ Len(SubSeq(q, 1, Len(q) - 1))
            = IF 1 <= Len(q) - 1 THEN Len(q) - 1 - 1 + 1 ELSE 0
      /\ \A i \in 1..(Len(q) - 1 - 1 + 1) :
            SubSeq(q, 1, Len(q) - 1)[i] = q[1 + i - 1]
  BY <1>1, SubSeqProperties
<1>3. Len(q) - 1 - 1 + 1 = Len(q) - 1
  BY <1>1
<1> QED BY <1>1, <1>2, <1>3

-----------------------------------------------------------------------------
(* Type correctness.                                                       *)

LEMMA TypeInit == Init => TypeOK
<1> SUFFICES ASSUME Init PROVE TypeOK
  OBVIOUS
<1>1. 0 \in 0..MaxSlots /\ 1 \in 1..(MaxSlots + 1)
  BY SlotAssumption
<1>2. <<>> \in Seq(Slot)
  OBVIOUS
<1>3. MinThreshold \in Nat
  BY GcAssumption
<1> QED BY <1>1, <1>2, <1>3 DEF Init, TypeOK, Phases

LEMMA TypeProgram == ASSUME TypeOK, Program PROVE TypeOK'
<1> USE SlotAssumption, GcAssumption DEF Idle, heapVars, gcVars, graphVars
<1>1. CASE Alloc
  <2> DEFINE n == Len(free)
             reuse == n > 0 /\ borrow[free[n]] = "no"
             s == IF reuse THEN free[n] ELSE created + 1
  <2>1. n \in Nat /\ (n > 0 => free[n] \in Slot)
    BY DEF TypeOK
  <2>2. s \in Slot /\ (reuse \/ s = created + 1)
    BY <1>1 DEF Alloc
  <2>3. created' \in 0..MaxSlots
    BY <1>1, <2>2 DEF Alloc, TypeOK, Slot
  <2>4. free' \in Seq(Slot)
    BY <1>1, <2>1 DEF Alloc, TypeOK
  <2>5. /\ state' = [state EXCEPT ![s] = "Unmarked"]
        /\ refs' = [refs EXCEPT ![s] = {}]
        /\ entries' = [entries EXCEPT ![s] = {}]
        /\ roots' = roots \cup {s}
    BY <1>1 DEF Alloc
  <2>6. bytes' \in Nat
    BY <1>1 DEF Alloc, TypeOK
  <2> QED BY <1>1, <2>2, <2>3, <2>4, <2>5, <2>6 DEF Alloc, TypeOK
<1>2. ASSUME NEW s \in Slot, Root(s) \/ Unroot(s) \/ Release(s)
      PROVE  TypeOK'
  BY <1>2 DEF Root, Unroot, Release, TypeOK
<1>3. ASSUME NEW s \in Slot, Hold(s) PROVE TypeOK'
  <2>1. held' \in Seq(Slot) BY <1>3 DEF Hold, TypeOK
  <2> QED BY <1>3, <2>1 DEF Hold, TypeOK
<1>4. ASSUME NEW s \in Slot, NEW t \in Slot, Link(s, t) \/ Unlink(s, t)
      PROVE  TypeOK'
  BY <1>4 DEF Link, Unlink, TypeOK
<1>5. ASSUME NEW s \in Slot, NEW t \in Slot, WeakDelete(s, t) PROVE TypeOK'
  <2>1. entries' \in [Slot -> SUBSET Entry]
    BY <1>5 DEF WeakDelete, TypeOK
  <2> QED BY <1>5, <2>1 DEF WeakDelete, TypeOK
<1>6. ASSUME NEW s \in Slot, NEW k \in Slot, NEW v \in Slot \cup {NoSlot},
             WeakSet(s, k, v)
      PROVE  TypeOK'
  <2>1. <<k, v>> \in Entry BY DEF Entry
  <2>2. entries' \in [Slot -> SUBSET Entry]
    BY <1>6, <2>1 DEF WeakSet, TypeOK
  <2> QED BY <1>6, <2>2 DEF WeakSet, TypeOK
<1>7. ASSUME NEW s \in Slot, NEW mode \in {"shared", "mut"}, Borrow(s, mode)
      PROVE  TypeOK'
  BY <1>7 DEF Borrow, TypeOK
<1>8. ASSUME NEW keep \in BOOLEAN, Return(keep) PROVE TypeOK'
  <2>1. held' \in Seq(Slot) /\ held[Len(held)] \in Slot
    BY <1>8 DEF Return, TypeOK
  <2> QED BY <1>8, <2>1 DEF Return, TypeOK
<1> QED BY <1>1, <1>2, <1>3, <1>4, <1>5, <1>6, <1>7, <1>8 DEF Program

\* One turn of a worklist loop, and a round given up, keep the types.
LEMMA TypePop ==
    ASSUME TypeOK, NEW s \in queue, NEW noted \in BOOLEAN, Pop(s, noted)
    PROVE  TypeOK'
<1> USE SlotAssumption, GcAssumption DEF heapVars, graphVars
<1>1. s \in Slot /\ queue \in SUBSET Slot /\ refs[s] \in SUBSET Slot
  BY DEF TypeOK
<1>2. CASE state[s] = "Marked"
  BY <1>1, <1>2 DEF Pop, TypeOK
<1>3. CASE state[s] # "Marked" /\ borrow[s] = "mut"
  <2> DEFINE st == [state EXCEPT ![s] = "Marked"]
  <2>1. Abandon(st) /\ queue' = queue \ {s}
    BY <1>3 DEF Pop
  <2>2. ResetMarks(st) \in [Slot -> {"Free", "Unmarked", "Marked"}]
    BY <1>1 DEF ResetMarks, TypeOK
  <2>3. NextThreshold(bytes) \in Nat /\ 1 \in 1..(MaxSlots + 1)
    BY DEF NextThreshold, TypeOK
  <2> QED BY <2>1, <2>2, <2>3 DEF Abandon, TypeOK, Phases
<1>4. CASE state[s] # "Marked" /\ borrow[s] # "mut"
  BY <1>1, <1>4 DEF Pop, TypeOK
<1> QED BY <1>2, <1>3, <1>4

LEMMA TypeScanStep == ASSUME TypeOK, ScanStep PROVE TypeOK'
<1> USE SlotAssumption, GcAssumption DEF heapVars, graphVars
<1> DEFINE alive == {s \in Slot : state[s] = "Marked"}
<1>1. pos \in Slot /\ pos + 1 \in 1..(MaxSlots + 1)
  BY DEF ScanStep, TypeOK, Slot
<1>2. CASE state[pos] # "Marked"
  BY <1>1, <1>2 DEF ScanStep, TypeOK
<1>3. CASE state[pos] = "Marked" /\ borrow[pos] # "no"
  <2>1. Abandon(state) /\ queue' = queue
    BY <1>3 DEF ScanStep
  <2>2. ResetMarks(state) \in [Slot -> {"Free", "Unmarked", "Marked"}]
    BY DEF ResetMarks, TypeOK
  <2>3. NextThreshold(bytes) \in Nat /\ 1 \in 1..(MaxSlots + 1)
    BY DEF NextThreshold, TypeOK
  <2> QED BY <2>1, <2>2, <2>3 DEF Abandon, TypeOK, Phases
<1>4. CASE state[pos] = "Marked" /\ borrow[pos] = "no"
  <2>1. /\ queue' = queue \cup ValuesOfAliveKeys(entries[pos], alive)
        /\ entries' = [entries EXCEPT ![pos] = RetainAliveKeys(@, alive)]
    BY <1>4 DEF ScanStep
  <2>2. entries[pos] \in SUBSET Entry
    BY <1>1 DEF TypeOK
  <2>3. ValuesOfAliveKeys(entries[pos], alive) \in SUBSET Slot
    BY <2>2 DEF ValuesOfAliveKeys, Entry
  <2>4. RetainAliveKeys(entries[pos], alive) \in SUBSET Entry
    BY <2>2 DEF RetainAliveKeys
  <2> QED BY <1>1, <1>4, <2>1, <2>3, <2>4 DEF ScanStep, TypeOK
<1> QED BY <1>2, <1>3, <1>4

LEMMA TypeSweepStep == ASSUME TypeOK, SweepStep PROVE TypeOK'
<1>1. PICK s \in doomed :
         /\ doomed' = doomed \ {s}
         /\ IF borrow[s] # "no"
            THEN UNCHANGED <<state, free, bytes, refs, entries>>
            ELSE /\ state' = [state EXCEPT ![s] = "Free"]
                 /\ free' = Append(free, s)
                 /\ bytes' = Decrement(bytes)
                 /\ refs' = [refs EXCEPT ![s] = {}]
                 /\ entries' = [entries EXCEPT ![s] = {}]
  BY DEF SweepStep
<1>2. s \in Slot
  BY DEF TypeOK
<1>3. CASE borrow[s] # "no"
  BY <1>1, <1>3 DEF SweepStep, TypeOK
<1>4. CASE borrow[s] = "no"
  <2>1. bytes' \in Nat
    BY <1>1, <1>4 DEF Decrement, TypeOK
  <2>2. free \in Seq(Slot) /\ free' = Append(free, s)
    BY <1>1, <1>4 DEF TypeOK
  <2>3. free' \in Seq(Slot)
    BY <1>2, <2>2
  <2> QED BY <1>1, <1>2, <1>4, <2>1, <2>3 DEF SweepStep, TypeOK
<1> QED BY <1>3, <1>4

LEMMA TypeCollector ==
    ASSUME TypeOK, StartCollect \/ Collect
    PROVE  TypeOK'
<1> USE SlotAssumption, GcAssumption DEF heapVars, graphVars
<1>1. CASE StartCollect
  BY <1>1 DEF StartCollect, TypeOK, Phases
<1>2. CASE MarkStep
  <2>1. progress \in BOOLEAN
    BY DEF TypeOK
  <2> QED BY <1>2, <2>1, TypePop DEF MarkStep
<1>3. CASE DrainStep
  BY <1>3, TypePop DEF DrainStep
<1>4. CASE MarkDone \/ DrainAgain
  <2>1. 1 \in 1..(MaxSlots + 1)
    OBVIOUS
  <2> QED BY <1>4, <2>1 DEF MarkDone, DrainAgain, StartScan, TypeOK, Phases
<1>5. CASE ScanDone
  BY <1>5 DEF ScanDone, TypeOK, Phases
<1>6. CASE StartSweep
  <2>1. ResetMarks(state) \in [Slot -> {"Free", "Unmarked", "Marked"}]
    BY DEF ResetMarks, TypeOK
  <2>2. 1..created \subseteq Slot /\ 1 \in 1..(MaxSlots + 1)
    BY DEF TypeOK, Slot
  <2> QED BY <1>6, <2>1, <2>2 DEF StartSweep, TypeOK, Phases
<1>7. CASE FinishSweep
  <2>1. NextThreshold(bytes) \in Nat
    BY DEF NextThreshold, TypeOK
  <2> QED BY <1>7, <2>1 DEF FinishSweep, TypeOK, Phases
<1> QED
  BY <1>1, <1>2, <1>3, <1>4, <1>5, <1>6, <1>7, TypeScanStep, TypeSweepStep
  DEF Collect

LEMMA TypeNext == ASSUME TypeOK, [Next]_vars PROVE TypeOK'
<1>1. CASE UNCHANGED vars
  BY <1>1 DEF vars, heapVars, graphVars, gcVars, TypeOK
<1> QED BY <1>1, TypeProgram, TypeCollector DEF Next

\* Every reachable state has the declared types.
THEOREM TypeCorrect == Spec => []TypeOK
<1>1. Init => TypeOK
  BY TypeInit
<1>2. TypeOK /\ [Next]_vars => TypeOK'
  BY TypeNext
<1> QED BY <1>1, <1>2, PTL DEF Spec

-----------------------------------------------------------------------------
(* The inductive invariant: the program's steps.                           *)

LEMMA InvInit == Init => CoreInv
<1> SUFFICES ASSUME Init PROVE CoreInv
  OBVIOUS
<1>1. TypeOK
  BY TypeInit
<1>2. SlotInv
  BY DEF Init, SlotInv, Marked
<1>3. FreeInv
  BY DEF Init, FreeInv, Slot
<1>4. Sound({}) /\ Contained({})
  BY DEF Init, Sound, Contained, Holders, EphemeronClosed, StrongClosed, Tracing
<1>5. MarkInv /\ ScanInv
  BY DEF Init, MarkInv, ScanInv, Tracing
<1> QED BY <1>1, <1>2, <1>3, <1>4, <1>5 DEF CoreInv, GraphInv

\* Handing out a slot.  That no weak entry names it is what keeps the sound
\* set closed.
LEMMA InvAlloc == ASSUME CoreInv, Alloc PROVE CoreInv'
<1> USE DEF Idle, heapVars, gcVars, graphVars
<1> DEFINE n == Len(free)
           reuse == n > 0 /\ borrow[free[n]] = "no"
           s == IF reuse THEN free[n] ELSE created + 1
<1>1. TypeOK /\ SlotInv /\ FreeInv /\ GraphInv
  BY DEF CoreInv
<1>2. TypeOK'
  BY <1>1, TypeProgram DEF Program
<1>3. /\ s \in Slot
      /\ free' = IF reuse THEN SubSeq(free, 1, n - 1) ELSE free
      /\ created' = IF reuse THEN created ELSE created + 1
      /\ state' = [state EXCEPT ![s] = "Unmarked"]
      /\ refs' = [refs EXCEPT ![s] = {}]
      /\ entries' = [entries EXCEPT ![s] = {}]
      /\ roots' = roots \cup {s}
      /\ phase = "idle" /\ phase' = "idle" /\ doomed' = doomed
      /\ borrow' = borrow /\ held' = held
  BY DEF Alloc
<1>4. n \in Nat /\ created \in Nat /\ Slot \subseteq Nat
  BY <1>1, SlotFacts DEF TypeOK
<1>5. state[s] = "Free" /\ s <= created' /\ created <= created'
  BY <1>1, <1>3, <1>4 DEF FreeInv, SlotInv
<1>6. SlotInv'
  <2>1. Marked' = {}
    BY <1>1, <1>3 DEF SlotInv, Marked, TypeOK
  <2>2. doomed' = {}
    BY <1>1, <1>3 DEF SlotInv
  <2>3. \A t \in Slot : t > created' => state'[t] = "Free"
    BY <1>1, <1>3, <1>4, <1>5 DEF SlotInv, TypeOK
  <2>4. \A t \in Slot : state'[t] = "Free" => borrow'[t] = "no"
    BY <1>1, <1>3 DEF SlotInv, TypeOK
  <2> QED BY <1>3, <2>1, <2>2, <2>3, <2>4 DEF SlotInv
<1>7. FreeInv'
  <2>1. CASE reuse
    <3>1. /\ free' = SubSeq(free, 1, n - 1) /\ s = free[n] /\ n > 0
          /\ created' = created
      BY <1>3, <2>1
    <3>2. Len(free') = n - 1 /\ \A i \in 1..(n - 1) : free'[i] = free[i]
      <4>1. free \in Seq(Slot)
        BY <1>1 DEF TypeOK
      <4> QED BY <3>1, <4>1, FrontFacts
    <3>3. \A i \in 1..(n - 1) : free[i] # s
      BY <1>1, <1>4, <3>1 DEF FreeInv
    <3>4. \A i \in 1..(n - 1) : free[i] \in Slot
      BY <1>1, <1>4 DEF TypeOK
    <3>5. \A i \in 1..(n - 1) :
             free'[i] <= created' /\ state'[free'[i]] = "Free"
      BY <1>1, <1>3, <1>4, <3>1, <3>2, <3>3, <3>4 DEF FreeInv, TypeOK
    <3>6. \A i, j \in 1..(n - 1) : free'[i] = free'[j] => i = j
      BY <1>1, <1>4, <3>2 DEF FreeInv
    <3>7. ASSUME NEW t \in Slot, t <= created', state'[t] = "Free"
          PROVE  \E i \in 1..(n - 1) : free'[i] = t
      <4>1. t # s /\ state[t] = "Free"
        BY <1>1, <1>3, <3>7 DEF TypeOK
      <4>2. PICK i \in 1..n : free[i] = t
        BY <1>1, <3>1, <3>7, <4>1 DEF FreeInv
      <4>3. i # n
        BY <3>1, <4>1, <4>2
      <4> QED BY <1>4, <3>2, <4>2, <4>3
    <3> QED BY <3>2, <3>5, <3>6, <3>7 DEF FreeInv
  <2>2. CASE ~reuse
    <3>1. free' = free /\ s = created + 1 /\ created' = created + 1
      BY <1>3, <2>2
    <3>2. \A i \in 1..n : free[i] \in Slot /\ free[i] <= created /\ free[i] # s
      BY <1>1, <1>4, <3>1 DEF FreeInv, TypeOK
    <3>3. \A i \in 1..n : free'[i] <= created' /\ state'[free'[i]] = "Free"
      <4> SUFFICES ASSUME NEW i \in 1..n
                   PROVE  free[i] <= created + 1 /\ state'[free[i]] = "Free"
        BY <3>1
      <4>1. state[free[i]] = "Free"
        BY <1>1 DEF FreeInv
      <4>2. state'[free[i]] = "Free"
        BY <1>1, <1>3, <3>2, <4>1 DEF TypeOK
      <4>3. free[i] \in Nat /\ free[i] <= created
        BY <1>4, <3>2
      <4> QED BY <1>4, <4>2, <4>3
    <3>4. ASSUME NEW t \in Slot, t <= created', state'[t] = "Free"
          PROVE  \E i \in 1..n : free'[i] = t
      <4>1. t # s /\ state[t] = "Free"
        BY <1>1, <1>3, <3>4 DEF TypeOK
      <4>2. t <= created
        BY <1>4, <3>1, <3>4, <4>1
      <4> QED BY <1>1, <3>1, <4>1, <4>2 DEF FreeInv
    <3> QED BY <1>1, <3>1, <3>3, <3>4 DEF FreeInv
  <2> QED BY <2>1, <2>2
<1>8. GraphInv'
  <2>1. PICK X \in SUBSET Slot : Sound(X) /\ Contained(X)
    BY <1>1 DEF GraphInv
  <2>2. s \notin X /\ \A t \in X : \A e \in entries[t] : e[1] # s /\ e[2] # s
    BY <1>3, <1>5, <2>1, SlotFacts DEF Sound
  <2>y. PICK Y \in SUBSET Slot : Y = X \cup {s}
    BY <1>3
  <2>3. \A t \in X : refs'[t] = refs[t] /\ entries'[t] = entries[t]
    BY <1>1, <1>3, <2>2 DEF TypeOK
  <2>4. refs'[s] = {} /\ entries'[s] = {}
    BY <1>1, <1>3 DEF TypeOK
  <2>5. Holders' \subseteq Y
    BY <2>y, <1>3, <2>1 DEF Sound, Holders
  <2>6. EphemeronClosed(refs', entries', Y)
    <3>1. StrongClosed(refs', Y)
      BY <2>y, <2>1, <2>3, <2>4 DEF Sound, EphemeronClosed, StrongClosed
    <3>2. \A t \in Y : \A e \in entries'[t] :
             (e[1] \in Y /\ e[2] # NoSlot) => e[2] \in Y
      BY <2>y, <2>1, <2>2, <2>3, <2>4 DEF Sound, EphemeronClosed
    <3> QED BY <2>y, <3>1, <3>2 DEF EphemeronClosed
  <2>7. \A t \in Slot : state[t] # "Free" => state'[t] # "Free"
    BY <2>y, <1>1, <1>3 DEF TypeOK
  <2>8. \A t \in Y : state'[t] # "Free"
    BY <2>y, <1>1, <1>3, <2>1, <2>7 DEF Sound, TypeOK
  <2>9. \A t \in Y : \A e \in entries'[t] :
           state'[e[1]] # "Free" /\ (e[2] # NoSlot => state'[e[2]] # "Free")
    <3> SUFFICES ASSUME NEW t \in X, NEW e \in entries[t]
                 PROVE  /\ state'[e[1]] # "Free"
                        /\ e[2] # NoSlot => state'[e[2]] # "Free"
      BY <2>y, <2>3, <2>4
    <3>1. e[1] \in Slot /\ e[2] \in Slot \cup {NoSlot}
      BY <2>y, <1>1 DEF TypeOK, Entry
    <3>2. state[e[1]] # "Free" /\ (e[2] # NoSlot => state[e[2]] # "Free")
      BY <2>y, <2>1 DEF Sound
    <3> QED BY <2>y, <2>7, <3>1, <3>2
  <2>10. Contained(Y)'
    BY <1>1, <1>3 DEF SlotInv, Contained, Tracing
  <2>11. Sound(Y)'
    BY <2>5, <2>6, <2>8, <2>9 DEF Sound
  <2> QED BY <2>10, <2>11 DEF GraphInv
<1>9. MarkInv' /\ ScanInv'
  BY <1>3 DEF MarkInv, ScanInv, Tracing
<1> QED BY <1>2, <1>6, <1>7, <1>8, <1>9 DEF CoreInv

\* Everything else the program does stays within a sound set.
LEMMA InvProgram == ASSUME CoreInv, Program PROVE CoreInv'
<1> USE DEF Idle, heapVars, gcVars, graphVars
<1>1. TypeOK /\ SlotInv /\ FreeInv /\ GraphInv /\ TypeOK'
  BY TypeProgram DEF CoreInv
<1>2. PICK X \in SUBSET Slot : Sound(X) /\ Contained(X)
  BY <1>1 DEF GraphInv
<1>3. Accessible \subseteq X
  BY <1>2, AccessibleInSound
<1>4. CASE Alloc
  BY <1>4, InvAlloc
\* What the remaining actions have in common.
<1>5. ASSUME UNCHANGED <<heapVars, gcVars>>, phase = "idle",
             \A s \in Slot : state[s] = "Free" => borrow'[s] = "no",
             Holders' \subseteq X, EphemeronClosed(refs', entries', X),
             \A s \in X : \A e \in entries'[s] :
                state[e[1]] # "Free" /\ (e[2] # NoSlot => state[e[2]] # "Free")
      PROVE  CoreInv'
  <2>1. SlotInv'
    BY <1>1, <1>5 DEF SlotInv, Marked
  <2>2. FreeInv'
    BY <1>1, <1>5 DEF FreeInv
  <2>3. Sound(X)'
    BY <1>2, <1>5 DEF Sound
  <2>4. Contained(X)'
    BY <1>1, <1>5 DEF Contained, Tracing, SlotInv
  <2>5. MarkInv' /\ ScanInv'
    BY <1>5 DEF MarkInv, ScanInv, Tracing
  <2> QED BY <1>1, <2>1, <2>2, <2>3, <2>4, <2>5 DEF CoreInv, GraphInv
<1>6. ASSUME NEW s \in Slot, Root(s) \/ Unroot(s) PROVE CoreInv'
  <2>1. Holders' \subseteq X
    BY <1>2, <1>3, <1>6 DEF Root, Unroot, Holders, Sound
  <2> QED BY <1>1, <1>2, <1>5, <1>6, <2>1 DEF Root, Unroot, Sound, SlotInv
<1>7. ASSUME NEW s \in Slot, NEW mode \in {"shared", "mut"},
             Borrow(s, mode) \/ Release(s)
      PROVE  CoreInv'
  <2>1. \A t \in Slot : state[t] = "Free" => borrow'[t] = "no"
    BY <1>1, <1>7 DEF Borrow, Release, SlotInv, TypeOK
  <2>2. Holders' \subseteq X
    BY <1>2, <1>7 DEF Borrow, Release, Holders, Sound
  <2> QED BY <1>2, <1>5, <1>7, <2>1, <2>2 DEF Borrow, Release, Sound
<1>8. ASSUME NEW s \in Slot, Hold(s) PROVE CoreInv'
  <2>1. held' = Append(held, s) /\ roots' = roots /\ s \in X
    BY <1>3, <1>8 DEF Hold
  <2>2. \A i \in DOMAIN held' :
           (i \in DOMAIN held /\ held'[i] = held[i]) \/ held'[i] = s
    BY <1>1, <2>1, AppendProperties DEF TypeOK
  <2>3. Holders' \subseteq X
    BY <1>2, <2>1, <2>2 DEF Holders, Sound
  <2> QED BY <1>1, <1>2, <1>5, <1>8, <2>3 DEF Hold, Sound, SlotInv
<1>9. ASSUME NEW keep \in BOOLEAN, Return(keep) PROVE CoreInv'
  <2>1. /\ held \in Seq(Slot) /\ Len(held) > 0
        /\ held' = SubSeq(held, 1, Len(held) - 1)
        /\ roots' \subseteq roots \cup {held[Len(held)]}
    BY <1>1, <1>9 DEF Return, TypeOK
  <2>2. \A i \in DOMAIN held' : i \in DOMAIN held /\ held'[i] = held[i]
    BY <2>1, FrontFacts
  <2>3. Len(held) \in DOMAIN held
    BY <2>1
  <2>4. Holders' \subseteq X
    BY <1>2, <2>1, <2>2, <2>3 DEF Holders, Sound
  <2> QED BY <1>1, <1>2, <1>5, <1>9, <2>4 DEF Return, Sound, SlotInv
<1>10. ASSUME NEW s \in Slot, NEW t \in Slot, Link(s, t) \/ Unlink(s, t)
       PROVE  CoreInv'
  <2>1. StrongClosed(refs', X)
    BY <1>1, <1>2, <1>3, <1>10
    DEF Link, Unlink, Sound, EphemeronClosed, StrongClosed, TypeOK
  <2>2. EphemeronClosed(refs', entries', X)
    BY <1>2, <1>10, <2>1 DEF Link, Unlink, Sound, EphemeronClosed
  <2>3. Holders' \subseteq X
    BY <1>2, <1>10 DEF Link, Unlink, Holders, Sound
  <2> QED BY <1>1, <1>2, <1>5, <1>10, <2>2, <2>3 DEF Link, Unlink, Sound, SlotInv
<1>11. ASSUME NEW s \in Slot, NEW t \in Slot, WeakDelete(s, t) PROVE CoreInv'
  <2>1. \A r \in Slot : entries'[r] \subseteq entries[r]
    BY <1>1, <1>11 DEF WeakDelete, TypeOK
  <2>2. EphemeronClosed(refs', entries', X)
    BY <1>2, <1>11, <2>1 DEF WeakDelete, Sound, EphemeronClosed
  <2>3. Holders' \subseteq X
    BY <1>2, <1>11 DEF WeakDelete, Holders, Sound
  <2> QED BY <1>1, <1>2, <1>5, <1>11, <2>1, <2>2, <2>3 DEF WeakDelete, Sound, SlotInv
<1>12. ASSUME NEW s \in Slot, NEW k \in Slot, NEW v \in Slot \cup {NoSlot},
              WeakSet(s, k, v)
       PROVE  CoreInv'
  <2>1. \A r \in Slot : entries'[r] \subseteq entries[r] \cup {<<k, v>>}
    BY <1>1, <1>12 DEF WeakSet, TypeOK
  <2>2. k \in X /\ (v # NoSlot => v \in X)
    BY <1>3, <1>12 DEF WeakSet
  <2>3. EphemeronClosed(refs', entries', X)
    BY <1>2, <1>12, <2>1, <2>2 DEF WeakSet, Sound, EphemeronClosed
  <2>4. Holders' \subseteq X
    BY <1>2, <1>12 DEF WeakSet, Holders, Sound
  <2>5. \A r \in X : \A e \in entries'[r] :
           state[e[1]] # "Free" /\ (e[2] # NoSlot => state[e[2]] # "Free")
    BY <1>2, <2>1, <2>2 DEF Sound
  <2> QED BY <1>1, <1>5, <1>12, <2>3, <2>4, <2>5 DEF WeakSet, SlotInv
<1> QED
  BY <1>4, <1>6, <1>7, <1>8, <1>9, <1>10, <1>11, <1>12 DEF Program

-----------------------------------------------------------------------------
(* The inductive invariant: the collector's steps.                         *)

LEMMA InvStartCollect == ASSUME CoreInv, StartCollect PROVE CoreInv'
<1> USE DEF StartCollect, Idle, heapVars, graphVars
<1>1. TypeOK /\ SlotInv /\ FreeInv /\ GraphInv /\ TypeOK'
  BY TypeCollector DEF CoreInv
<1>2. PICK X \in SUBSET Slot : Sound(X) /\ Contained(X)
  BY <1>1 DEF GraphInv
<1>3. Marked' = {} /\ doomed' = {}
  BY <1>1 DEF SlotInv, Marked
<1>4. SlotInv' /\ FreeInv'
  BY <1>1, <1>3 DEF SlotInv, FreeInv, Marked
<1>5. Sound(X)' /\ Contained(X)'
  BY <1>1, <1>2, <1>3 DEF Sound, Contained, Holders, Tracing
<1>6. MarkInv' /\ ScanInv'
  BY <1>1, <1>3 DEF MarkInv, ScanInv, Tracing
<1> QED BY <1>1, <1>4, <1>5, <1>6 DEF CoreInv, GraphInv

\* A round that is given up while it traces leaves the heap as it was.
LEMMA InvAbandon ==
    ASSUME CoreInv, TypeOK', Tracing, NEW st,
           \/ st = state
           \/ \E s \in queue : st = [state EXCEPT ![s] = "Marked"],
           Abandon(st)
    PROVE  CoreInv'
<1> USE DEF Abandon, graphVars
<1>1. TypeOK /\ SlotInv /\ FreeInv /\ GraphInv
  BY DEF CoreInv
<1>2. PICK X \in SUBSET Slot : Sound(X) /\ Contained(X)
  BY <1>1 DEF GraphInv
<1>3. doomed = {} /\ doomed' = {} /\ phase' = "idle"
  BY <1>1 DEF SlotInv, Tracing
<1>4. \A s \in Slot : state'[s] = "Free" <=> state[s] = "Free"
  <2>1. \A s \in queue : state[s] # "Free"
    BY <1>2 DEF Contained, Sound, Tracing
  <2> QED BY <1>1, <2>1 DEF ResetMarks, TypeOK
<1>5. \A s \in Slot : state'[s] # "Marked"
  BY DEF ResetMarks
<1>6. SlotInv'
  BY <1>1, <1>3, <1>4, <1>5 DEF SlotInv, Marked
<1>7. FreeInv'
  <2>1. \A i \in 1..Len(free) : free[i] \in Slot
    BY <1>1 DEF TypeOK
  <2> QED BY <1>1, <1>4, <2>1 DEF FreeInv
<1>8. Sound(X)'
  <2>1. \A s \in X : \A e \in entries[s] : e[1] \in Slot /\ e[2] \in Slot \cup {NoSlot}
    BY <1>1 DEF TypeOK, Entry
  <2>2. Holders' \subseteq X /\ EphemeronClosed(refs', entries', X)
    BY <1>2 DEF Sound, Holders
  <2>3. \A s \in X : state'[s] # "Free"
    BY <1>2, <1>4 DEF Sound
  <2>4. \A s \in X : \A e \in entries[s] :
           state'[e[1]] # "Free" /\ (e[2] # NoSlot => state'[e[2]] # "Free")
    BY <1>2, <1>4, <2>1 DEF Sound
  <2> QED BY <2>2, <2>3, <2>4 DEF Sound
<1>9. Contained(X)' /\ MarkInv' /\ ScanInv'
  BY <1>3 DEF Contained, MarkInv, ScanInv, Tracing
<1> QED BY <1>6, <1>7, <1>8, <1>9 DEF CoreInv, GraphInv

\* Popping a slot greys its references before it is forgotten.
LEMMA InvPop ==
    ASSUME CoreInv, phase = "mark" \/ phase = "drain", NEW s \in queue,
           NEW noted \in BOOLEAN, phase = "drain" => noted = TRUE,
           Pop(s, noted)
    PROVE  CoreInv'
<1> USE DEF heapVars, graphVars
<1>1. TypeOK /\ SlotInv /\ FreeInv /\ GraphInv /\ MarkInv /\ ScanInv
  BY DEF CoreInv
<1>2. TypeOK' /\ Tracing /\ s \in Slot
  BY <1>1, TypePop DEF TypeOK, Tracing
<1>3. PICK X \in SUBSET Slot : Sound(X) /\ Contained(X)
  BY <1>1 DEF GraphInv
<1>4. CASE state[s] = "Marked"
  <2>1. /\ queue' = queue \ {s}
        /\ UNCHANGED <<heapVars, graphVars, phase, pos, progress, doomed>>
    BY <1>4 DEF Pop
  <2>2. Marked' = Marked /\ s \in Marked
    BY <1>2, <1>4, <2>1 DEF Marked
  <2>3. SlotInv' /\ FreeInv'
    BY <1>1, <2>1, <2>2 DEF SlotInv, FreeInv
  <2>4. Sound(X)' /\ Contained(X)'
    BY <1>3, <2>1, <2>2 DEF Sound, Contained, Holders, Tracing
  <2>5. MarkInv'
    BY <1>1, <2>1, <2>2 DEF MarkInv, Tracing
  <2>6. ScanInv'
    BY <1>1, <2>1, <2>2 DEF ScanInv
  <2> QED BY <1>2, <2>3, <2>4, <2>5, <2>6 DEF CoreInv, GraphInv
<1>5. CASE state[s] # "Marked" /\ borrow[s] = "mut"
  <2>1. Abandon([state EXCEPT ![s] = "Marked"])
    BY <1>5 DEF Pop
  <2> QED BY <1>2, <2>1, InvAbandon
<1>6. CASE state[s] # "Marked" /\ borrow[s] # "mut"
  <2>1. /\ state' = [state EXCEPT ![s] = "Marked"]
        /\ queue' = (queue \ {s}) \cup refs[s]
        /\ progress' = noted
        /\ UNCHANGED <<created, free, bytes, threshold, graphVars,
                       phase, pos, doomed>>
    BY <1>6 DEF Pop
  <2>2. Marked' = Marked \cup {s}
    BY <1>1, <1>2, <2>1 DEF Marked, TypeOK
  <2>3. s \in X /\ refs[s] \subseteq X
    BY <1>2, <1>3 DEF Contained, Sound, EphemeronClosed, StrongClosed
  <2>4. state[s] # "Free" /\ doomed = {} /\ doomed' = {}
    BY <1>1, <1>2, <1>3, <2>1, <2>3 DEF Sound, SlotInv, Tracing
  <2>5. \A t \in Slot : state'[t] = "Free" <=> state[t] = "Free"
    BY <1>1, <1>2, <2>1, <2>4 DEF TypeOK
  <2>6. SlotInv'
    BY <1>1, <1>2, <2>1, <2>4, <2>5 DEF SlotInv, Tracing
  <2>7. FreeInv'
    <3>1. \A i \in 1..Len(free) : free[i] \in Slot
      BY <1>1 DEF TypeOK
    <3> QED BY <1>1, <2>1, <2>5, <3>1 DEF FreeInv
  <2>8. Sound(X)'
    <3>1. \A t \in X : \A e \in entries[t] : e[1] \in Slot /\ e[2] \in Slot \cup {NoSlot}
      BY <1>1 DEF TypeOK, Entry
    <3>2. Holders' \subseteq X /\ EphemeronClosed(refs', entries', X)
      BY <1>3, <2>1 DEF Sound, Holders
    <3>3. \A t \in X : state'[t] # "Free"
      BY <1>3, <2>5 DEF Sound
    <3>4. \A t \in X : \A e \in entries'[t] :
             state'[e[1]] # "Free" /\ (e[2] # NoSlot => state'[e[2]] # "Free")
      BY <1>3, <2>1, <2>5, <3>1 DEF Sound
    <3> QED BY <3>2, <3>3, <3>4 DEF Sound
  <2>9. Contained(X)'
    BY <1>2, <1>3, <2>1, <2>2, <2>3, <2>4 DEF Contained, Tracing
  <2>10. MarkInv'
    BY <1>1, <1>2, <2>1, <2>2 DEF MarkInv, Tracing
  <2>11. ScanInv'
    BY <1>1, <2>1 DEF ScanInv
  <2> QED BY <1>2, <2>6, <2>7, <2>8, <2>9, <2>10, <2>11 DEF CoreInv, GraphInv
<1> QED BY <1>4, <1>5, <1>6

LEMMA InvStartScan ==
    ASSUME CoreInv, phase = "mark" \/ phase = "drain", queue = {}, StartScan
    PROVE  CoreInv'
<1> USE DEF StartScan, heapVars, graphVars
<1>1. TypeOK /\ SlotInv /\ FreeInv /\ GraphInv /\ MarkInv
  BY DEF CoreInv
<1>2. TypeOK'
  <2>1. 1 \in 1..(MaxSlots + 1)
    BY SlotAssumption
  <2> QED BY <1>1, <2>1 DEF TypeOK, Phases
<1>3. PICK X \in SUBSET Slot : Sound(X) /\ Contained(X)
  BY <1>1 DEF GraphInv
<1>4. SlotInv' /\ FreeInv'
  BY <1>1 DEF SlotInv, FreeInv, Marked
<1>5. Sound(X)' /\ Contained(X)'
  BY <1>3 DEF Sound, Contained, Holders, Tracing, Marked
<1>6. MarkInv'
  BY <1>1 DEF MarkInv, Tracing, Marked
<1>7. ScanInv'
  <2>1. roots \subseteq Marked /\ \A s \in Marked : refs[s] \subseteq Marked
    BY <1>1 DEF MarkInv, Tracing
  <2>2. Marked' = Marked
    BY DEF Marked
  <2>3. \A s \in Slot : ~(s < 1)
    BY DEF Slot
  <2> QED BY <2>1, <2>2, <2>3 DEF ScanInv, StrongClosed, Marked
<1> QED BY <1>2, <1>4, <1>5, <1>6, <1>7 DEF CoreInv, GraphInv

\* A scanned container keeps exactly the entries whose keys are Marked, and
\* their values are on the worklist.
LEMMA InvScanStep == ASSUME CoreInv, ScanStep PROVE CoreInv'
<1> USE DEF heapVars, graphVars
<1>1. TypeOK /\ SlotInv /\ FreeInv /\ GraphInv /\ MarkInv /\ ScanInv
  BY DEF CoreInv
<1>2. TypeOK' /\ Tracing /\ phase = "ephemeron" /\ pos \in Slot
  <2>1. phase = "ephemeron" /\ pos <= created
    BY DEF ScanStep
  <2>2. pos \in Slot
    BY <1>1, <2>1, SlotAssumption DEF TypeOK, Slot
  <2> QED BY <1>1, <2>1, <2>2, TypeScanStep DEF Tracing
<1>3. PICK X \in SUBSET Slot : Sound(X) /\ Contained(X)
  BY <1>1 DEF GraphInv
<1>4. CASE state[pos] # "Marked"
  <2>1. /\ pos' = pos + 1
        /\ UNCHANGED <<heapVars, graphVars, phase, queue, progress, doomed>>
    BY <1>4 DEF ScanStep
  <2>2. Marked' = Marked /\ pos \notin Marked
    BY <1>4, <2>1 DEF Marked
  <2>3. SlotInv' /\ FreeInv'
    BY <1>1, <2>1, <2>2 DEF SlotInv, FreeInv
  <2>4. Sound(X)' /\ Contained(X)'
    BY <1>3, <2>1, <2>2 DEF Sound, Contained, Holders, Tracing
  <2>5. MarkInv'
    BY <1>1, <2>1, <2>2 DEF MarkInv, Tracing
  <2>6. \A s \in Marked : s < pos + 1 => s < pos
    BY <1>2, <2>2, SlotFacts DEF Marked
  <2>7. ScanInv'
    BY <1>1, <1>2, <2>1, <2>2, <2>6 DEF ScanInv
  <2> QED BY <1>2, <2>3, <2>4, <2>5, <2>7 DEF CoreInv, GraphInv
<1>5. CASE state[pos] = "Marked" /\ borrow[pos] # "no"
  <2>1. Abandon(state)
    BY <1>5 DEF ScanStep
  <2> QED BY <1>2, <2>1, InvAbandon
<1>6. CASE state[pos] = "Marked" /\ borrow[pos] = "no"
  <2>1. /\ queue' = queue \cup ValuesOfAliveKeys(entries[pos], Marked)
        /\ entries' = [entries EXCEPT ![pos] = RetainAliveKeys(@, Marked)]
        /\ pos' = pos + 1
        /\ UNCHANGED <<heapVars, refs, roots, held, borrow, phase, progress, doomed>>
    BY <1>6 DEF ScanStep, Marked
  <2>2. Marked' = Marked /\ pos \in Marked
    BY <1>2, <1>6, <2>1 DEF Marked
  <2>3. \A s \in Slot : entries'[s] \subseteq entries[s]
    BY <1>1, <1>2, <2>1 DEF RetainAliveKeys, TypeOK
  <2>4. entries'[pos] = {e \in entries[pos] : e[1] \in Marked}
    BY <1>1, <1>2, <2>1 DEF RetainAliveKeys, TypeOK
  <2>5. \A e \in entries[pos] :
           (e[1] \in Marked /\ e[2] # NoSlot) => e[2] \in queue'
    BY <2>1 DEF ValuesOfAliveKeys
  <2>6. queue' \subseteq X
    <3>1. Marked \subseteq X /\ queue \subseteq X
      BY <1>2, <1>3 DEF Contained
    <3>2. ValuesOfAliveKeys(entries[pos], Marked) \subseteq X
      BY <1>3, <2>2, <3>1 DEF ValuesOfAliveKeys, Sound, EphemeronClosed
    <3> QED BY <2>1, <3>1, <3>2
  <2>7. SlotInv' /\ FreeInv'
    BY <1>1, <2>1, <2>2 DEF SlotInv, FreeInv
  <2>8. Sound(X)'
    <3>1. Holders' \subseteq X
      BY <1>3, <2>1 DEF Sound, Holders
    <3>2. EphemeronClosed(refs', entries', X)
      BY <1>3, <2>1, <2>3 DEF Sound, EphemeronClosed
    <3>3. \A s \in X : state'[s] # "Free"
      BY <1>3, <2>1 DEF Sound
    <3>4. \A s \in X : \A e \in entries'[s] :
             state'[e[1]] # "Free" /\ (e[2] # NoSlot => state'[e[2]] # "Free")
      BY <1>3, <2>1, <2>3 DEF Sound
    <3> QED BY <3>1, <3>2, <3>3, <3>4 DEF Sound
  <2>9. Contained(X)'
    BY <1>2, <1>3, <2>1, <2>2, <2>3, <2>6 DEF Contained, Tracing
  <2>10. MarkInv'
    BY <1>1, <2>1, <2>2 DEF MarkInv, Tracing
  <2>11. ScanInv'
    <3>1. \A s \in Marked : s < pos + 1 => s < pos \/ s = pos
      BY <1>2, SlotFacts DEF Marked
    <3>2. \A s \in Marked : s < pos + 1 =>
             \A e \in entries'[s] :
                e[1] \in Marked /\ (e[2] # NoSlot => e[2] \in Marked \cup queue')
      <4> SUFFICES ASSUME NEW s \in Marked, s < pos + 1, NEW e \in entries'[s]
                   PROVE  e[1] \in Marked /\ (e[2] # NoSlot => e[2] \in Marked \cup queue')
        OBVIOUS
      <4>1. CASE s = pos
        BY <2>4, <2>5, <4>1
      <4>2. CASE s < pos
        <5>1. e \in entries[s] /\ queue \subseteq queue'
          BY <2>1, <2>3 DEF Marked
        <5> QED BY <1>1, <1>2, <4>2, <5>1 DEF ScanInv
      <4> QED BY <3>1, <4>1, <4>2
    <3> QED BY <1>1, <1>2, <2>1, <2>2, <3>2 DEF ScanInv
  <2> QED BY <1>2, <2>7, <2>8, <2>9, <2>10, <2>11 DEF CoreInv, GraphInv
<1> QED BY <1>4, <1>5, <1>6

LEMMA InvScanDone == ASSUME CoreInv, ScanDone PROVE CoreInv'
<1> USE DEF ScanDone, heapVars, graphVars
<1>1. TypeOK' /\ TypeOK /\ SlotInv /\ FreeInv /\ GraphInv /\ MarkInv /\ ScanInv
  BY TypeCollector DEF CoreInv, Collect
<1>2. PICK X \in SUBSET Slot : Sound(X) /\ Contained(X)
  BY <1>1 DEF GraphInv
<1>3. SlotInv' /\ FreeInv'
  BY <1>1 DEF SlotInv, FreeInv, Marked
<1>4. Sound(X)' /\ Contained(X)'
  BY <1>2 DEF Sound, Contained, Holders, Tracing, Marked
<1>5. MarkInv' /\ ScanInv'
  BY <1>1 DEF MarkInv, ScanInv, Tracing, Marked
<1> QED BY <1>1, <1>3, <1>4, <1>5 DEF CoreInv, GraphInv

\* At the fixpoint the Marked slots themselves are a sound set, and it is the
\* one the sweep must respect.
LEMMA InvStartSweep == ASSUME CoreInv, StartSweep PROVE CoreInv'
<1> USE DEF StartSweep, heapVars, graphVars
<1>1. TypeOK' /\ TypeOK /\ SlotInv /\ FreeInv /\ MarkInv /\ ScanInv
  BY TypeCollector DEF CoreInv, Collect
<1>2. \A s \in Slot : /\ state'[s] = "Free" <=> state[s] = "Free"
                     /\ state'[s] # "Marked"
  BY <1>1 DEF ResetMarks, TypeOK
<1>3. PICK X \in SUBSET Slot : X = Marked
  BY DEF Marked
<1>4. \A s \in X : state[s] = "Marked" /\ state'[s] # "Free" /\ s < pos /\ s \in Slot
  <2> SUFFICES ASSUME NEW s \in X
               PROVE  state[s] = "Marked" /\ state'[s] # "Free" /\ s < pos
    OBVIOUS
  <2>1. state[s] = "Marked" /\ state'[s] # "Free"
    BY <1>2, <1>3 DEF Marked
  <2>2. s \in Nat /\ created \in Nat /\ pos \in Nat /\ pos > created
    BY <1>1, SlotFacts DEF ScanInv, TypeOK
  <2>3. s <= created
    BY <1>1, <2>1, <2>2 DEF SlotInv
  <2> QED BY <2>1, <2>2, <2>3
<1>5. \A s \in X : \A e \in entries[s] : e[1] \in X /\ (e[2] # NoSlot => e[2] \in X)
  BY <1>1, <1>3, <1>4 DEF ScanInv
<1>6. \A s \in X : s \notin doomed'
  BY <1>4
<1>7. NoSlot \notin doomed'
  BY <1>1, SlotFacts DEF TypeOK
<1>8. Sound(X)'
  <2>1. Holders' \subseteq X
    BY <1>1, <1>3 DEF MarkInv, Tracing, Holders
  <2>2. EphemeronClosed(refs', entries', X)
    BY <1>1, <1>3, <1>5 DEF MarkInv, Tracing, EphemeronClosed, StrongClosed
  <2> QED BY <1>4, <1>5, <2>1, <2>2 DEF Sound
<1>9. Contained(X)'
  BY <1>5, <1>6, <1>7 DEF Contained, Tracing
<1>10. SlotInv'
  <2>1. \A s \in doomed' : s <= created /\ state'[s] = "Unmarked"
    <3> SUFFICES ASSUME NEW s \in doomed' PROVE s <= created /\ state'[s] = "Unmarked"
      OBVIOUS
    <3>1. s \in Slot /\ s \in 1..created /\ state[s] = "Unmarked"
      BY <1>1 DEF TypeOK
    <3> QED BY <1>1, <3>1 DEF ResetMarks, TypeOK
  <2> QED BY <1>1, <1>2, <2>1 DEF SlotInv, Marked
<1>11. FreeInv'
  <2>1. \A i \in 1..Len(free) : free[i] \in Slot
    BY <1>1 DEF TypeOK
  <2> QED BY <1>1, <1>2, <2>1 DEF FreeInv
<1>12. MarkInv' /\ ScanInv'
  BY DEF MarkInv, ScanInv, Tracing
<1> QED BY <1>1, <1>8, <1>9, <1>10, <1>11, <1>12 DEF CoreInv, GraphInv

\* Reclaiming a doomed slot touches nothing in the sound set.
LEMMA InvSweepStep == ASSUME CoreInv, SweepStep PROVE CoreInv'
<1>1. TypeOK' /\ TypeOK /\ SlotInv /\ FreeInv /\ GraphInv /\ phase = "sweep"
  BY TypeCollector DEF CoreInv, Collect, SweepStep
<1>2. PICK X \in SUBSET Slot : Sound(X) /\ Contained(X)
  BY <1>1 DEF GraphInv
<1>3. PICK s \in doomed :
         /\ doomed' = doomed \ {s}
         /\ IF borrow[s] # "no"
            THEN UNCHANGED <<state, free, bytes, refs, entries>>
            ELSE /\ state' = [state EXCEPT ![s] = "Free"]
                 /\ free' = Append(free, s)
                 /\ bytes' = Decrement(bytes)
                 /\ refs' = [refs EXCEPT ![s] = {}]
                 /\ entries' = [entries EXCEPT ![s] = {}]
  BY DEF SweepStep
<1>4. UNCHANGED <<created, threshold, roots, held, borrow, phase, queue, pos, progress>>
  BY DEF SweepStep
<1>5. s \in Slot /\ s <= created /\ state[s] = "Unmarked" /\ s \notin X
  BY <1>1, <1>2 DEF SlotInv, Contained, TypeOK
<1>6. MarkInv' /\ ScanInv'
  BY <1>1, <1>4 DEF MarkInv, ScanInv, Tracing
<1>7. CASE borrow[s] # "no"
  <2>1. UNCHANGED <<state, free, bytes, refs, entries>>
    BY <1>3, <1>7
  <2>2. SlotInv' /\ FreeInv'
    BY <1>1, <1>3, <1>4, <2>1 DEF SlotInv, FreeInv, Marked
  <2>3. Sound(X)' /\ Contained(X)'
    BY <1>1, <1>2, <1>3, <1>4, <2>1 DEF Sound, Contained, Holders, Tracing
  <2> QED BY <1>1, <1>6, <2>2, <2>3 DEF CoreInv, GraphInv
<1>8. CASE borrow[s] = "no"
  <2>1. /\ state' = [state EXCEPT ![s] = "Free"]
        /\ free' = Append(free, s)
        /\ refs' = [refs EXCEPT ![s] = {}]
        /\ entries' = [entries EXCEPT ![s] = {}]
    BY <1>3, <1>8
  <2>2. \A t \in Slot : t # s => state'[t] = state[t]
    BY <1>1, <2>1 DEF TypeOK
  <2>3. state'[s] = "Free"
    BY <1>1, <1>5, <2>1 DEF TypeOK
  <2>4. SlotInv'
    <3>1. Marked' = {}
      BY <1>1, <2>2, <2>3 DEF SlotInv, Marked
    <3>2. \A t \in doomed' : t <= created /\ state'[t] = "Unmarked"
      BY <1>1, <1>3, <2>2 DEF SlotInv, TypeOK
    <3>3. \A t \in Slot : t > created => state'[t] = "Free"
      BY <1>1, <2>2, <2>3 DEF SlotInv
    <3>4. \A t \in Slot : state'[t] = "Free" => borrow[t] = "no"
      BY <1>1, <1>8, <2>2 DEF SlotInv
    <3> QED BY <1>1, <1>4, <3>1, <3>2, <3>3, <3>4 DEF SlotInv
  <2>5. FreeInv'
    <3>1. free \in Seq(Slot) /\ Len(free) \in Nat /\ \A i \in 1..Len(free) : free[i] \in Slot
      BY <1>1 DEF TypeOK
    <3>2. /\ Len(free') = Len(free) + 1
          /\ \A i \in 1..Len(free) : free'[i] = free[i]
          /\ free'[Len(free) + 1] = s
      BY <1>5, <2>1, <3>1, AppendProperties
    <3>3. \A i \in 1..Len(free) : free[i] # s
      BY <1>1, <1>5 DEF FreeInv
    <3>4. \A i \in 1..(Len(free) + 1) : i \in 1..Len(free) \/ i = Len(free) + 1
      BY <3>1
    <3>5. \A i \in 1..Len(free') : free'[i] <= created /\ state'[free'[i]] = "Free"
      <4> SUFFICES ASSUME NEW i \in 1..(Len(free) + 1)
                   PROVE  free'[i] <= created /\ state'[free'[i]] = "Free"
        BY <3>2
      <4>1. CASE i = Len(free) + 1
        BY <1>5, <2>3, <3>2, <4>1
      <4>2. CASE i \in 1..Len(free)
        BY <1>1, <2>2, <3>1, <3>2, <3>3, <4>2 DEF FreeInv
      <4> QED BY <3>4, <4>1, <4>2
    <3>6. \A i, j \in 1..Len(free') : free'[i] = free'[j] => i = j
      BY <1>1, <3>2, <3>3, <3>4 DEF FreeInv
    <3>7. ASSUME NEW t \in Slot, t <= created, state'[t] = "Free"
          PROVE  \E i \in 1..Len(free') : free'[i] = t
      <4>1. CASE t = s
        BY <3>1, <3>2, <4>1
      <4>2. CASE t # s
        <5>1. PICK i \in 1..Len(free) : free[i] = t
          BY <1>1, <2>2, <3>7, <4>2 DEF FreeInv
        <5>2. i \in 1..Len(free') /\ free'[i] = t
          BY <3>1, <3>2, <5>1
        <5> QED BY <5>2
      <4> QED BY <4>1, <4>2
    <3> QED BY <1>4, <3>5, <3>6, <3>7 DEF FreeInv
  <2>6. \A t \in X : state'[t] = state[t] /\ refs'[t] = refs[t] /\ entries'[t] = entries[t]
    BY <1>1, <1>5, <2>1, <2>2 DEF TypeOK
  <2>7. Sound(X)'
    <3>1. Holders' \subseteq X
      BY <1>2, <1>4 DEF Sound, Holders
    <3>2. EphemeronClosed(refs', entries', X)
      BY <1>2, <2>6 DEF Sound, EphemeronClosed, StrongClosed
    <3>3. \A t \in X : \A e \in entries[t] :
             /\ e[1] \in Slot /\ e[2] \in Slot \cup {NoSlot}
             /\ e[1] # s /\ e[2] # s
      BY <1>1, <1>2 DEF Contained, TypeOK, Entry
    <3>4. \A t \in X : \A e \in entries'[t] :
             state'[e[1]] # "Free" /\ (e[2] # NoSlot => state'[e[2]] # "Free")
      BY <1>2, <2>2, <2>6, <3>3 DEF Sound
    <3> QED BY <1>2, <2>6, <3>1, <3>2, <3>4 DEF Sound
  <2>8. Contained(X)'
    BY <1>1, <1>2, <1>3, <1>4, <2>6 DEF Contained, Tracing
  <2> QED BY <1>1, <1>6, <2>4, <2>5, <2>7, <2>8 DEF CoreInv, GraphInv
<1> QED BY <1>7, <1>8

LEMMA InvFinishSweep == ASSUME CoreInv, FinishSweep PROVE CoreInv'
<1> USE DEF FinishSweep, graphVars
<1>1. TypeOK' /\ TypeOK /\ SlotInv /\ FreeInv /\ GraphInv
  BY TypeCollector DEF CoreInv, Collect
<1>2. PICK X \in SUBSET Slot : Sound(X) /\ Contained(X)
  BY <1>1 DEF GraphInv
<1>3. SlotInv' /\ FreeInv'
  BY <1>1 DEF SlotInv, FreeInv, Marked
<1>4. Sound(X)' /\ Contained(X)'
  BY <1>2 DEF Sound, Contained, Holders, Tracing
<1>5. MarkInv' /\ ScanInv'
  BY DEF MarkInv, ScanInv, Tracing
<1> QED BY <1>1, <1>3, <1>4, <1>5 DEF CoreInv, GraphInv

LEMMA InvNext == ASSUME CoreInv, [Next]_vars PROVE CoreInv'
<1>1. CASE UNCHANGED vars
  <2> USE <1>1 DEF vars, heapVars, graphVars, gcVars
  <2>1. TypeOK' /\ FreeInv'
    BY TypeNext DEF CoreInv, FreeInv
  <2>2. SlotInv' /\ MarkInv' /\ ScanInv'
    BY DEF CoreInv, SlotInv, MarkInv, ScanInv, Marked, Tracing
  <2>3. PICK X \in SUBSET Slot : Sound(X) /\ Contained(X)
    BY DEF CoreInv, GraphInv
  <2>4. Sound(X)' /\ Contained(X)'
    BY <2>3 DEF Sound, Contained, Holders, Marked, Tracing
  <2> QED BY <2>1, <2>2, <2>4 DEF CoreInv, GraphInv
<1>2. CASE Program
  BY <1>2, InvProgram
<1>3. CASE StartCollect
  BY <1>3, InvStartCollect
<1>4. CASE MarkStep
  <2>1. progress \in BOOLEAN
    BY DEF CoreInv, TypeOK
  <2> QED BY <1>4, <2>1, InvPop DEF MarkStep
<1>5. CASE DrainStep
  BY <1>5, InvPop DEF DrainStep
<1>6. CASE MarkDone \/ DrainAgain
  BY <1>6, InvStartScan DEF MarkDone, DrainAgain
<1>7. CASE ScanStep \/ ScanDone
  BY <1>7, InvScanStep, InvScanDone
<1>8. CASE StartSweep \/ SweepStep \/ FinishSweep
  BY <1>8, InvStartSweep, InvSweepStep, InvFinishSweep
<1> QED
  BY <1>1, <1>2, <1>3, <1>4, <1>5, <1>6, <1>7, <1>8 DEF Next, Collect

-----------------------------------------------------------------------------
(* The safety theorems.                                                    *)

THEOREM Invariance == Spec => []CoreInv
<1>1. Init => CoreInv
  BY InvInit
<1>2. CoreInv /\ [Next]_vars => CoreInv'
  BY InvNext
<1> QED BY <1>1, <1>2, PTL DEF Spec

\* No handle the program can get at ever points at a reclaimed slot.
THEOREM NoUseAfterFree == Spec => []NoDangling
<1>1. CoreInv => NoDangling
  BY AccessibleInSound DEF CoreInv, GraphInv, NoDangling, Sound
<1> QED BY <1>1, Invariance, PTL

\* The free list is exactly the set of reclaimed slots, each listed once.
THEOREM FreeListCorrect == Spec => []FreeListExact
<1>1. ASSUME CoreInv PROVE FreeListExact
  <2>1. TypeOK /\ SlotInv /\ FreeInv
    BY <1>1 DEF CoreInv
  <2>2. DOMAIN free = 1..Len(free) /\ \A i \in 1..Len(free) : free[i] \in Slot
    BY <2>1 DEF TypeOK
  <2>3. 1..created \subseteq Slot
    BY <2>1, SlotAssumption DEF TypeOK, Slot
  <2>4. \A s \in 1..created : s <= created
    OBVIOUS
  <2>5. \A i \in 1..Len(free) : free[i] \in 1..created /\ borrow[free[i]] = "no"
    BY <2>1, <2>2 DEF FreeInv, SlotInv, TypeOK, Slot
  <2> QED BY <2>1, <2>2, <2>3, <2>4, <2>5 DEF FreeListExact, FreeInv
<1> QED BY <1>1, Invariance, PTL

\* No weak container in use has an entry for a reclaimed key or value.
THEOREM WeakKeysFresh == Spec => []NoStaleWeakKey
<1>1. CoreInv => NoStaleWeakKey
  BY AccessibleInSound DEF CoreInv, GraphInv, NoStaleWeakKey, Sound
<1> QED BY <1>1, Invariance, PTL

\* Marks never outlive a round.
THEOREM MarksAreReset == Spec => []MarksReset
<1>1. CoreInv => MarksReset
  BY DEF CoreInv, SlotInv, MarksReset, Marked
<1> QED BY <1>1, Invariance, PTL

\* No handle of any kind names a reclaimed slot, in any state of any collection.
THEOREM HandlesFresh == Spec => []NoStaleHandle
<1>1. NoDangling /\ NoStaleWeakKey => NoStaleHandle
  BY DEF NoStaleHandle
<1> QED BY <1>1, NoUseAfterFree, WeakKeysFresh, PTL

\* Every collection, also one that was given up, leaves the free list exact and
\* no slot marked.
THEOREM RoundsComplete == Spec => []NothingLeftBehind
<1>1. FreeListExact /\ MarksReset => NothingLeftBehind
  BY DEF NothingLeftBehind
<1> QED BY <1>1, FreeListCorrect, MarksAreReset, PTL

-----------------------------------------------------------------------------
(* The rest of the contract.                                               *)

Occupied == {s \in 1..created : state[s] # "Free"}

-----------------------------------------------------------------------------
(* Reachability.                                                           *)

\* What can be reached from a set is itself closed under references and weak
\* entries, and it is the least such set.
LEMMA ReachClosed ==
    ASSUME NEW base \in SUBSET Slot,
           NEW rf \in [Slot -> SUBSET Slot], NEW en \in [Slot -> SUBSET Entry]
    PROVE  /\ Reach(base, rf, en) \in SUBSET Slot
           /\ base \subseteq Reach(base, rf, en)
           /\ EphemeronClosed(rf, en, Reach(base, rf, en))
           /\ \A C \in SUBSET Slot :
                 (base \subseteq C /\ EphemeronClosed(rf, en, C))
                    => Reach(base, rf, en) \subseteq C
<1> DEFINE A == Reach(base, rf, en)
<1>1. A \in SUBSET Slot /\ base \subseteq A
  BY DEF Reach
<1>2. \A C \in SUBSET Slot :
         (base \subseteq C /\ EphemeronClosed(rf, en, C)) => A \subseteq C
  BY DEF Reach
<1>3. ASSUME NEW s \in A, NEW t \in rf[s] PROVE t \in A
  <2>1. s \in Slot /\ t \in Slot
    BY <1>1
  <2>2. ASSUME NEW C \in SUBSET Slot, base \subseteq C, EphemeronClosed(rf, en, C)
        PROVE  t \in C
    BY <1>2, <2>2 DEF EphemeronClosed, StrongClosed
  <2> QED BY <2>1, <2>2 DEF Reach
<1>4. ASSUME NEW s \in A, NEW e \in en[s], e[1] \in A, e[2] # NoSlot
      PROVE  e[2] \in A
  <2>1. s \in Slot /\ e[2] \in Slot
    BY <1>1, <1>4 DEF Entry
  <2>2. ASSUME NEW C \in SUBSET Slot, base \subseteq C, EphemeronClosed(rf, en, C)
        PROVE  e[2] \in C
    BY <1>2, <1>4, <2>2 DEF EphemeronClosed
  <2> QED BY <2>1, <2>2 DEF Reach
<1> QED BY <1>1, <1>2, <1>3, <1>4 DEF EphemeronClosed, StrongClosed

\* In particular what the program can get at.
LEMMA AccessibleClosed ==
    ASSUME TypeOK
    PROVE  /\ Accessible \in SUBSET Slot
           /\ Holders \subseteq Accessible
           /\ EphemeronClosed(refs, entries, Accessible)
           /\ \A C \in SUBSET Slot :
                 (Holders \subseteq C /\ EphemeronClosed(refs, entries, C))
                    => Accessible \subseteq C
<1>1. Holders \in SUBSET Slot
  BY DEF Holders, TypeOK
<1> QED BY <1>1, ReachClosed DEF TypeOK, Accessible

-----------------------------------------------------------------------------
(* Heap::bytes.                                                            *)

LEMMA OccupiedFinite == ASSUME TypeOK PROVE IsFiniteSet(Occupied)
<1>1. IsFiniteSet(1..created)
  BY FS_Interval DEF TypeOK
<1>2. Occupied \in SUBSET (1..created)
  BY DEF Occupied
<1> QED BY <1>1, <1>2, FS_Subset

LEMMA BytesAlloc == ASSUME CoreInv, BytesExact, Alloc PROVE BytesExact'
<1> DEFINE n == Len(free)
           reuse == n > 0 /\ borrow[free[n]] = "no"
           s == IF reuse THEN free[n] ELSE created + 1
<1>1. TypeOK /\ SlotInv /\ FreeInv
  BY DEF CoreInv
<1>2. /\ s \in Slot
      /\ created' = IF reuse THEN created ELSE created + 1
      /\ state' = [state EXCEPT ![s] = "Unmarked"]
      /\ bytes' = bytes + 1
  BY DEF Alloc
<1>3. n \in Nat /\ created \in Nat /\ Slot \subseteq Nat
  BY <1>1, SlotFacts DEF TypeOK
<1>4. state[s] = "Free" /\ s \in 1..created'
  BY <1>1, <1>2, <1>3 DEF FreeInv, SlotInv, Slot
<1>5. 1..created \subseteq Slot
  BY <1>1, SlotAssumption DEF TypeOK, Slot
<1>6. \A t \in 1..created' : t \in 1..created \/ t = s
  BY <1>2, <1>3
<1>7. created <= created' /\ created' \in Nat
  BY <1>2, <1>3
<1>8. Occupied' = Occupied \cup {s} /\ s \notin Occupied
  BY <1>1, <1>2, <1>3, <1>4, <1>5, <1>6, <1>7 DEF Occupied, TypeOK
<1>9. Cardinality(Occupied \cup {s}) = Cardinality(Occupied) + 1
  BY <1>1, <1>8, OccupiedFinite, FS_AddElement
<1> QED BY <1>2, <1>8, <1>9 DEF BytesExact, Occupied

\* A step that leaves the same slots Free leaves the count right.
LEMMA BytesSame ==
    ASSUME TypeOK, BytesExact, created' = created, bytes' = bytes,
           \A s \in Slot : state'[s] = "Free" <=> state[s] = "Free"
    PROVE  BytesExact'
<1>1. 1..created \subseteq Slot
  BY SlotAssumption DEF TypeOK, Slot
<1>2. Occupied' = Occupied
  BY <1>1 DEF Occupied
<1> QED BY <1>2 DEF BytesExact, Occupied

LEMMA BytesSweep == ASSUME CoreInv, BytesExact, SweepStep PROVE BytesExact'
<1>1. TypeOK /\ SlotInv
  BY DEF CoreInv
<1>2. PICK s \in doomed :
         IF borrow[s] # "no"
         THEN UNCHANGED <<state, bytes>>
         ELSE state' = [state EXCEPT ![s] = "Free"] /\ bytes' = Decrement(bytes)
  BY DEF SweepStep
<1>3. created' = created
  BY DEF SweepStep
<1>4. s \in Slot /\ s <= created /\ state[s] = "Unmarked" /\ s \in 1..created
  BY <1>1 DEF SlotInv, TypeOK, Slot
<1>5. CASE borrow[s] # "no"
  BY <1>1, <1>2, <1>3, <1>5, BytesSame
<1>6. CASE borrow[s] = "no"
  <2>1. state' = [state EXCEPT ![s] = "Free"] /\ bytes' = Decrement(bytes)
    BY <1>2, <1>6
  <2>2. 1..created \subseteq Slot
    BY <1>1, SlotAssumption DEF TypeOK, Slot
  <2>3. Occupied' = Occupied \ {s} /\ s \in Occupied
    BY <1>1, <1>3, <1>4, <2>1, <2>2 DEF Occupied, TypeOK
  <2>4. Cardinality(Occupied \ {s}) = Cardinality(Occupied) - 1
    BY <1>1, <2>3, OccupiedFinite, FS_RemoveElement
  <2>5. Cardinality(Occupied) \in Nat /\ Cardinality(Occupied) # 0
    BY <1>1, <2>3, OccupiedFinite, FS_CardinalityType, FS_EmptySet
  <2> QED BY <2>1, <2>3, <2>4, <2>5 DEF BytesExact, Occupied, Decrement
<1> QED BY <1>5, <1>6

\* A turn of a worklist loop frees nothing.
LEMMA PopFreesNothing ==
    ASSUME CoreInv, phase = "mark" \/ phase = "drain", NEW s \in queue,
           NEW noted \in BOOLEAN, Pop(s, noted)
    PROVE  /\ UNCHANGED <<created, bytes, refs, entries, roots, held, borrow>>
           /\ \A t \in Slot : state'[t] = "Free" <=> state[t] = "Free"
<1>1. TypeOK /\ GraphInv /\ s \in Slot
  BY DEF CoreInv, TypeOK
<1>2. PICK X \in SUBSET Slot : Sound(X) /\ Contained(X)
  BY <1>1 DEF GraphInv
<1>3. state[s] # "Free"
  BY <1>2 DEF Sound, Contained, Tracing
<1>4. UNCHANGED <<created, bytes, refs, entries, roots, held, borrow>>
  BY DEF Pop, Abandon, graphVars, heapVars
<1>5. \A t \in Slot : state'[t] = "Free" <=> state[t] = "Free"
  BY <1>1, <1>3 DEF Pop, Abandon, ResetMarks, TypeOK, heapVars
<1> QED BY <1>4, <1>5

LEMMA BytesNext == ASSUME CoreInv, BytesExact, [Next]_vars PROVE BytesExact'
<1> USE DEF heapVars, graphVars
<1>1. TypeOK
  BY DEF CoreInv
<1>2. CASE UNCHANGED vars
  BY <1>1, <1>2, BytesSame DEF vars
<1>3. CASE Program
  <2>1. CASE Alloc
    BY <2>1, BytesAlloc
  <2>2. CASE ~Alloc
    <3>1. UNCHANGED heapVars
      BY <1>3, <2>2
      DEF Program, Root, Unroot, Release, Hold, Link, Unlink, WeakDelete,
          WeakSet, Borrow, Return
    <3> QED BY <1>1, <3>1, BytesSame
  <2> QED BY <2>1, <2>2
<1>4. CASE StartCollect
  BY <1>1, <1>4, BytesSame DEF StartCollect
<1>5. CASE MarkStep \/ DrainStep
  BY <1>1, <1>5, BytesSame, PopFreesNothing DEF MarkStep, DrainStep, TypeOK
<1>6. CASE MarkDone \/ DrainAgain
  BY <1>1, <1>6, BytesSame DEF MarkDone, DrainAgain, StartScan
<1>7. CASE ScanStep
  <2>1. /\ created' = created /\ bytes' = bytes
        /\ state' = state \/ state' = ResetMarks(state)
    BY <1>7 DEF ScanStep, Abandon
  <2>2. \A t \in Slot : state'[t] = "Free" <=> state[t] = "Free"
    BY <1>1, <2>1 DEF ResetMarks, TypeOK
  <2> QED BY <1>1, <2>1, <2>2, BytesSame
<1>8. CASE ScanDone
  BY <1>1, <1>8, BytesSame DEF ScanDone
<1>9. CASE StartSweep
  <2>1. \A t \in Slot : state'[t] = "Free" <=> state[t] = "Free"
    BY <1>1, <1>9 DEF StartSweep, ResetMarks, TypeOK
  <2> QED BY <1>1, <1>9, <2>1, BytesSame DEF StartSweep
<1>10. CASE FinishSweep
  BY <1>1, <1>10, BytesSame DEF FinishSweep
<1> QED
  BY <1>2, <1>3, <1>4, <1>5, <1>6, <1>7, <1>8, <1>9, <1>10, BytesSweep
  DEF Next, Collect

-----------------------------------------------------------------------------
(* Marks.                                                                  *)

\* A round that begins has only the roots to trace.
LEMMA TraceStart == ASSUME CoreInv, StartCollect PROVE TraceInv'
<1>1. Marked' = {} /\ queue' = roots' /\ phase' = "mark"
  BY DEF CoreInv, SlotInv, StartCollect, Idle, heapVars, graphVars, Marked
<1>2. \A C \in SUBSET Slot : Owed(C)' => roots' \subseteq C
  BY DEF Owed, Holders
<1> QED BY <1>1, <1>2 DEF TraceInv

\* Popping a slot asks more of the sets that count, and adds its references.
LEMMA TracePop ==
    ASSUME CoreInv, TraceInv, phase = "mark" \/ phase = "drain",
           NEW s \in queue, NEW noted \in BOOLEAN, Pop(s, noted)
    PROVE  TraceInv'
<1> USE DEF heapVars, graphVars
<1>1. TypeOK /\ Tracing /\ s \in Slot
  BY DEF CoreInv, TypeOK, Tracing
<1>2. CASE state[s] # "Marked" /\ borrow[s] = "mut"
  <2>1. phase' = "idle"
    BY <1>2 DEF Pop, Abandon
  <2> QED BY <2>1 DEF TraceInv, Tracing
<1>3. CASE state[s] = "Marked"
  <2>1. /\ queue' = queue \ {s}
        /\ UNCHANGED <<heapVars, graphVars, phase, pos, progress, doomed>>
    BY <1>3 DEF Pop
  <2>2. Marked' = Marked /\ phase' # "sweep"
    BY <2>1 DEF Marked
  <2>3. \A C \in SUBSET Slot : Owed(C)' => Owed(C)
    BY <2>1, <2>2 DEF Owed, Holders
  <2> QED BY <1>1, <2>1, <2>2, <2>3 DEF TraceInv
<1>4. CASE state[s] # "Marked" /\ borrow[s] # "mut"
  <2>1. /\ state' = [state EXCEPT ![s] = "Marked"]
        /\ queue' = (queue \ {s}) \cup refs[s]
        /\ UNCHANGED <<graphVars, phase>>
    BY <1>4 DEF Pop
  <2>2. Marked' = Marked \cup {s} /\ phase' # "sweep"
    BY <1>1, <2>1 DEF Marked, TypeOK
  <2>3. \A C \in SUBSET Slot : Owed(C)' => Owed(C)
    BY <2>1, <2>2 DEF Owed, Holders
  <2>4. \A C \in SUBSET Slot : Owed(C) => refs[s] \subseteq C
    BY <1>1 DEF TraceInv, Owed, StrongClosed
  <2> QED BY <1>1, <2>1, <2>2, <2>3, <2>4 DEF TraceInv
<1> QED BY <1>2, <1>3, <1>4

\* The entries a scan drops have keys that are not marked.
LEMMA TraceScan == ASSUME CoreInv, TraceInv, ScanStep PROVE TraceInv'
<1> USE DEF heapVars, graphVars
<1>1. TypeOK /\ Tracing /\ phase = "ephemeron" /\ pos \in Slot
  BY SlotAssumption DEF CoreInv, TypeOK, Tracing, ScanStep, Slot
<1>2. CASE state[pos] # "Marked"
  <2>1. UNCHANGED <<heapVars, graphVars, phase, queue>>
    BY <1>2 DEF ScanStep
  <2>2. Marked' = Marked
    BY <2>1 DEF Marked
  <2>3. \A C \in SUBSET Slot : Owed(C)' => Owed(C)
    BY <2>1, <2>2 DEF Owed, Holders
  <2> QED BY <1>1, <2>1, <2>2, <2>3 DEF TraceInv
<1>3. CASE state[pos] = "Marked" /\ borrow[pos] # "no"
  <2>1. phase' = "idle"
    BY <1>3 DEF ScanStep, Abandon
  <2> QED BY <2>1 DEF TraceInv, Tracing
<1>4. CASE state[pos] = "Marked" /\ borrow[pos] = "no"
  <2>1. /\ queue' = queue \cup ValuesOfAliveKeys(entries[pos], Marked)
        /\ entries' = [entries EXCEPT ![pos] = RetainAliveKeys(@, Marked)]
        /\ UNCHANGED <<heapVars, refs, roots, held, phase>>
    BY <1>4 DEF ScanStep, Marked
  <2>2. Marked' = Marked /\ pos \in Marked
    BY <1>1, <1>4, <2>1 DEF Marked
  <2>3. \A s \in Slot : \A e \in entries[s] : e[1] \in Marked => e \in entries'[s]
    BY <1>1, <2>1 DEF RetainAliveKeys, TypeOK
  <2>4. \A C \in SUBSET Slot : Owed(C)' => Owed(C)
    BY <2>1, <2>2, <2>3 DEF Owed, Holders
  <2>5. ASSUME NEW C \in SUBSET Slot, Owed(C)
        PROVE  ValuesOfAliveKeys(entries[pos], Marked) \subseteq C
    <3>1. Marked \subseteq C
      BY <1>1, <2>5 DEF TraceInv
    <3> QED BY <2>2, <2>5, <3>1 DEF Owed, ValuesOfAliveKeys
  <2> QED BY <1>1, <2>1, <2>2, <2>4, <2>5 DEF TraceInv
<1> QED BY <1>2, <1>3, <1>4

\* At the fixpoint every marked slot is one the program can get at.
LEMMA TraceSweepStart == ASSUME CoreInv, TraceInv, StartSweep PROVE TraceInv'
<1> USE DEF StartSweep, graphVars
<1>1. TypeOK /\ Tracing
  BY DEF CoreInv, Tracing
<1>2. Owed(Accessible) /\ Accessible \in SUBSET Slot
  BY <1>1, AccessibleClosed DEF Owed, EphemeronClosed
<1>3. Marked \subseteq Accessible
  BY <1>1, <1>2 DEF TraceInv
<1>4. Accessible' = Accessible
  BY DEF Accessible, Holders
<1>5. ASSUME NEW s \in Slot, s <= created
      PROVE  s \in doomed' \cup Accessible \/ state'[s] = "Free"
  <2>1. s \in 1..created
    BY <1>1, <1>5 DEF TypeOK, Slot
  <2>2. CASE state[s] = "Unmarked"
    BY <2>1, <2>2
  <2>3. CASE state[s] = "Marked"
    BY <1>3, <2>3 DEF Marked
  <2>4. CASE state[s] = "Free"
    BY <2>4 DEF ResetMarks
  <2> QED BY <1>1, <2>2, <2>3, <2>4 DEF TypeOK
<1> QED BY <1>4, <1>5 DEF TraceInv, Tracing

\* Reclaiming a slot takes nothing else out of the program's reach.
LEMMA TraceSweepStep == ASSUME CoreInv, TraceInv, SweepStep PROVE TraceInv'
<1>1. TypeOK /\ TypeOK' /\ SlotInv /\ GraphInv /\ phase = "sweep"
  BY TypeCollector DEF CoreInv, Collect, SweepStep
<1>2. PICK s \in doomed :
         /\ doomed' = doomed \ {s}
         /\ IF borrow[s] # "no"
            THEN UNCHANGED <<state, refs, entries>>
            ELSE /\ state' = [state EXCEPT ![s] = "Free"]
                 /\ refs' = [refs EXCEPT ![s] = {}]
                 /\ entries' = [entries EXCEPT ![s] = {}]
  BY DEF SweepStep
<1>3. UNCHANGED <<created, roots, held, borrow, phase>>
  BY DEF SweepStep
<1>4. PICK X \in SUBSET Slot : Sound(X) /\ Contained(X)
  BY <1>1 DEF GraphInv
<1>5. s \in Slot /\ s \notin Accessible
  BY <1>1, <1>4, AccessibleInSound DEF Contained, TypeOK
<1>6. \A t \in Slot : t # s => refs'[t] = refs[t] /\ entries'[t] = entries[t]
  BY <1>1, <1>2 DEF TypeOK
<1>7. PICK C \in SUBSET Slot : C = Accessible \cap Accessible'
  BY <1>1, AccessibleClosed
<1>8. Holders' = Holders
  BY <1>3 DEF Holders
<1>9. Holders \subseteq C /\ EphemeronClosed(refs, entries, C)
  <2>1. /\ Accessible \in SUBSET Slot /\ Holders \subseteq Accessible
        /\ EphemeronClosed(refs, entries, Accessible)
    BY <1>1, AccessibleClosed
  <2>2. /\ Holders \subseteq Accessible'
        /\ EphemeronClosed(refs', entries', Accessible')
    <3>1. Holders' \in SUBSET Slot
      BY <1>1 DEF Holders, TypeOK
    <3> QED BY <1>1, <1>8, <3>1, ReachClosed DEF TypeOK, Accessible
  <2>3. \A t \in C : t \in Slot /\ t # s
    BY <1>5, <1>7
  <2>4. StrongClosed(refs, C)
    BY <1>6, <1>7, <2>1, <2>2, <2>3 DEF EphemeronClosed, StrongClosed
  <2>5. \A t \in C : \A e \in entries[t] :
           (e[1] \in C /\ e[2] # NoSlot) => e[2] \in C
    BY <1>6, <1>7, <2>1, <2>2, <2>3 DEF EphemeronClosed
  <2> QED BY <1>7, <2>1, <2>2, <2>4, <2>5 DEF EphemeronClosed
<1>10. Accessible \subseteq Accessible'
  BY <1>1, <1>7, <1>9, AccessibleClosed
<1>11. ASSUME NEW t \in Slot, t <= created
       PROVE  t \in doomed' \cup Accessible' \/ state'[t] = "Free" \/ borrow[t] # "no"
  <2>1. CASE t = s
    BY <1>1, <1>2, <1>5, <2>1 DEF TypeOK
  <2>2. CASE t # s
    BY <1>1, <1>2, <1>5, <1>10, <1>11, <2>2 DEF TraceInv, TypeOK
  <2> QED BY <2>1, <2>2
<1> QED BY <1>1, <1>3, <1>11 DEF TraceInv, Tracing

LEMMA TraceNext == ASSUME CoreInv, TraceInv, [Next]_vars PROVE TraceInv'
<1> USE DEF heapVars, graphVars, gcVars
<1>1. TypeOK
  BY DEF CoreInv
<1>2. CASE UNCHANGED vars
  <2>1. /\ Tracing' = Tracing /\ Marked' = Marked /\ Accessible' = Accessible
        /\ \A C \in SUBSET Slot : Owed(C)' = Owed(C)
    BY <1>2 DEF vars, Tracing, Marked, Accessible, Holders, Owed
  <2> QED BY <1>2, <2>1 DEF TraceInv, vars
<1>3. CASE Program
  <2>1. phase' = "idle"
    BY <1>3 DEF Program, Alloc, Root, Unroot, Release, Hold, Link, Unlink,
                WeakDelete, WeakSet, Borrow, Return, Idle
  <2> QED BY <2>1 DEF TraceInv, Tracing
<1>4. CASE StartCollect
  BY <1>4, TraceStart
<1>5. CASE MarkStep \/ DrainStep
  BY <1>1, <1>5, TracePop DEF MarkStep, DrainStep, TypeOK
<1>6. CASE MarkDone \/ DrainAgain \/ ScanDone
  <2>1. /\ Tracing /\ Marked' = Marked /\ queue' = queue /\ phase' # "sweep"
        /\ \A C \in SUBSET Slot : Owed(C)' => Owed(C)
    BY <1>6 DEF MarkDone, DrainAgain, StartScan, ScanDone, Tracing, Marked,
                Holders, Owed
  <2> QED BY <2>1 DEF TraceInv
<1>7. CASE FinishSweep
  BY <1>7 DEF FinishSweep, TraceInv, Tracing
<1> QED
  BY <1>2, <1>3, <1>4, <1>5, <1>6, <1>7, TraceScan, TraceSweepStart,
     TraceSweepStep
  DEF Next, Collect

-----------------------------------------------------------------------------
(* The theorems.                                                           *)

\* The whole inductive invariant holds of every run of the heap.
THEOREM FullInvariance == Spec => []GcInv
<1>1. Init => GcInv
  <2> SUFFICES ASSUME Init PROVE GcInv
    OBVIOUS
  <2>1. CoreInv
    BY InvInit
  <2>2. Occupied = {}
    BY DEF Init, Occupied
  <2>3. BytesExact
    BY <2>2, FS_EmptySet DEF Init, BytesExact, Occupied
  <2>4. TraceInv
    BY DEF Init, TraceInv, Tracing
  <2> QED BY <2>1, <2>3, <2>4 DEF GcInv
<1>2. GcInv /\ [Next]_vars => GcInv'
  BY InvNext, BytesNext, TraceNext DEF GcInv
<1> QED BY <1>1, <1>2, PTL DEF Spec

\* Heap::bytes counts the occupied slots: also when a sweep passes a borrowed
\* slot over, and when a round is given up.
THEOREM BytesCorrect == Spec => []BytesExact
<1>1. GcInv => BytesExact
  BY DEF GcInv
<1> QED BY <1>1, FullInvariance, PTL

\* A round that ends in sweep() has reclaimed every slot the program cannot
\* reach, cycles through weak containers included, but for the borrowed ones.
THEOREM NothingLeaks == Spec => Precise
<1>1. ASSUME GcInv, [Next]_vars
      PROVE  [FinishSweep => \A s \in (1..created) \ Accessible :
                                state[s] = "Free" \/ borrow[s] # "no"]_vars
  <2> SUFFICES ASSUME FinishSweep, NEW s \in (1..created) \ Accessible
               PROVE  state[s] = "Free" \/ borrow[s] # "no"
    OBVIOUS
  <2>1. s \in Slot /\ s <= created
    BY <1>1, SlotAssumption DEF GcInv, CoreInv, TypeOK, Slot
  <2> QED BY <1>1, <2>1 DEF FinishSweep, GcInv, TraceInv
<1> QED BY <1>1, FullInvariance, PTL DEF Spec, Precise

\* After a round, finished or given up, the heap is below its threshold.
THEOREM NoImmediateRetry == Spec => NoBusyCollect
<1>1. \A b \in Nat : b < NextThreshold(b)
  BY GcAssumption DEF NextThreshold
<1>2. ASSUME TypeOK, [Next]_vars, phase # "idle", phase' = "idle"
      PROVE  bytes' < threshold'
  <2>1. phase' # phase
    BY <1>2
  <2>2. threshold' = NextThreshold(bytes) /\ bytes' = bytes
    BY <1>2, <2>1
    DEF Next, Program, Alloc, Root, Unroot, Release, Hold, Link, Unlink,
        WeakDelete, WeakSet, Borrow, Return, Idle, StartCollect, Collect,
        MarkStep, MarkDone, ScanStep, ScanDone, DrainStep, DrainAgain, Pop,
        Abandon, StartScan, StartSweep, SweepStep, FinishSweep, vars, gcVars
  <2> QED BY <1>1, <1>2, <2>2 DEF TypeOK
<1>3. TypeOK /\ [Next]_vars =>
         [(phase # "idle" /\ phase' = "idle") => (bytes' < threshold')]_vars
  BY <1>2
<1> QED BY <1>3, TypeCorrect, PTL DEF Spec, NoBusyCollect

-----------------------------------------------------------------------------
(* Refinement: every step of the collected heap is a step, or no step at    *)
(* all, of the heap without a collector.                                    *)

Objs == {s \in Slot : state[s] # "Free"}

\* JsHeap's own copies of the operators of HeapGraph mean the same.
LEMMA SameGraph ==
    /\ Abstract!Slot = Slot
    /\ Abstract!Holders = Holders
    /\ Abstract!Accessible = Accessible
    /\ Abstract!StrongReach(Holders, refs) = StrongReach(Holders, refs)
BY DEF Abstract!Slot, Slot, Abstract!Holders, Holders, Abstract!Accessible,
       Accessible, Abstract!Reach, Reach, Abstract!EphemeronClosed,
       EphemeronClosed, Abstract!StrongClosed, StrongClosed,
       Abstract!StrongReach, StrongReach

LEMMA InitRefines == Init => Abstract!Init
BY SameGraph DEF Init, Abstract!Init

LEMMA ProgramRefines ==
    ASSUME CoreInv, Program
    PROVE  [Abstract!Next]_(Abstract!vars)
<1> USE SameGraph DEF Idle, heapVars, gcVars
<1>1. TypeOK /\ SlotInv /\ FreeInv
  BY DEF CoreInv
<1>2. CASE Alloc
  <2> DEFINE n == Len(free)
             reuse == n > 0 /\ borrow[free[n]] = "no"
  <2>1. PICK s \in Slot :
           /\ s = IF reuse THEN free[n] ELSE created + 1
           /\ state' = [state EXCEPT ![s] = "Unmarked"]
           /\ refs' = [refs EXCEPT ![s] = {}]
           /\ entries' = [entries EXCEPT ![s] = {}]
           /\ roots' = roots \cup {s} /\ held' = held
    BY <1>2 DEF Alloc
  <2>2. n \in Nat /\ created \in Nat /\ Slot \subseteq Nat
    BY <1>1, SlotFacts DEF TypeOK
  <2>3. state[s] = "Free"
    BY <1>1, <2>1, <2>2 DEF FreeInv, SlotInv
  <2>4. Objs' = Objs \cup {s} /\ s \notin Objs
    BY <1>1, <2>1, <2>3 DEF Objs, TypeOK
  <2>5. Abstract!New(s)
    BY <2>1, <2>4 DEF Abstract!New, Objs
  <2> QED BY <2>5 DEF Abstract!Next
<1>3. ASSUME NEW s \in Slot, Root(s) PROVE Abstract!Next
  <2>1. Abstract!Root(s)
    BY <1>3 DEF Root, Abstract!Root
  <2> QED BY <2>1 DEF Abstract!Next
<1>4. ASSUME NEW s \in Slot, Unroot(s) PROVE Abstract!Next
  <2>1. Abstract!Unroot(s)
    BY <1>4 DEF Unroot, Abstract!Unroot
  <2> QED BY <2>1 DEF Abstract!Next
<1>5. ASSUME NEW s \in Slot, Hold(s) PROVE Abstract!Next
  <2>1. Abstract!Hold(s)
    BY <1>5 DEF Hold, Abstract!Hold
  <2> QED BY <2>1 DEF Abstract!Next
<1>6. ASSUME NEW keep \in BOOLEAN, Return(keep) PROVE Abstract!Next
  <2>1. Abstract!Return(keep)
    BY <1>6 DEF Return, Abstract!Return
  <2> QED BY <2>1 DEF Abstract!Next
<1>7. ASSUME NEW s \in Slot, NEW t \in Slot, Link(s, t) PROVE Abstract!Next
  <2>1. Abstract!Link(s, t)
    BY <1>7 DEF Link, Writable, Abstract!Link
  <2> QED BY <2>1 DEF Abstract!Next
<1>8. ASSUME NEW s \in Slot, NEW t \in Slot, Unlink(s, t) PROVE Abstract!Next
  <2>1. Abstract!Unlink(s, t)
    BY <1>8 DEF Unlink, Writable, Abstract!Unlink
  <2> QED BY <2>1 DEF Abstract!Next
<1>9. ASSUME NEW s \in Slot, NEW k \in Slot, WeakDelete(s, k) PROVE Abstract!Next
  <2>1. Abstract!Delete(s, k)
    BY <1>9 DEF WeakDelete, Writable, Abstract!Delete
  <2> QED BY <2>1 DEF Abstract!Next
<1>10. ASSUME NEW s \in Slot, NEW k \in Slot, NEW v \in Slot \cup {NoSlot},
              WeakSet(s, k, v)
       PROVE  Abstract!Next
  <2>1. Abstract!Put(s, k, v)
    BY <1>10 DEF WeakSet, Writable, Abstract!Put
  <2> QED BY <2>1 DEF Abstract!Next
<1>11. ASSUME NEW s \in Slot, NEW mode \in {"shared", "mut"},
              Borrow(s, mode) \/ Release(s)
       PROVE  UNCHANGED Abstract!vars
  BY <1>11 DEF Borrow, Release, Abstract!vars
<1> QED
  BY <1>2, <1>3, <1>4, <1>5, <1>6, <1>7, <1>8, <1>9, <1>10, <1>11 DEF Program

\* The collector's bookkeeping is invisible ...
LEMMA SameObjs ==
    ASSUME UNCHANGED <<refs, entries, roots, held>>,
           \A s \in Slot : state'[s] = "Free" <=> state[s] = "Free"
    PROVE  UNCHANGED Abstract!vars
BY SameGraph DEF Abstract!vars

LEMMA PopRefines ==
    ASSUME CoreInv, phase = "mark" \/ phase = "drain", NEW s \in queue,
           NEW noted \in BOOLEAN, Pop(s, noted)
    PROVE  UNCHANGED Abstract!vars
<1>1. TypeOK /\ GraphInv /\ s \in Slot
  BY DEF CoreInv, TypeOK
<1>2. PICK X \in SUBSET Slot : Sound(X) /\ Contained(X)
  BY <1>1 DEF GraphInv
<1>3. state[s] # "Free"
  BY <1>2 DEF Sound, Contained, Tracing
<1>4. UNCHANGED <<refs, entries, roots, held>>
  BY DEF Pop, Abandon, graphVars, heapVars
<1>5. \A t \in Slot : state'[t] = "Free" <=> state[t] = "Free"
  BY <1>1, <1>3 DEF Pop, Abandon, ResetMarks, TypeOK, heapVars
<1> QED BY <1>4, <1>5, SameObjs

\* ... a weak container forgets only entries whose keys no chain of strong
\* references holds, because those chains are Marked when the scan begins ...
LEMMA ScanRefines ==
    ASSUME CoreInv, ScanStep
    PROVE  [Abstract!Next]_(Abstract!vars)
<1>1. TypeOK /\ MarkInv /\ ScanInv /\ phase = "ephemeron"
  BY DEF CoreInv, ScanStep
<1>2. pos \in Slot
  BY <1>1, SlotAssumption DEF ScanStep, TypeOK, Slot
<1>3. CASE state[pos] # "Marked"
  BY <1>3, SameObjs DEF ScanStep, heapVars, graphVars
<1>4. CASE state[pos] = "Marked" /\ borrow[pos] # "no"
  <2>1. Abandon(state)
    BY <1>4 DEF ScanStep
  <2>2. \A t \in Slot : state'[t] = "Free" <=> state[t] = "Free"
    BY <1>1, <2>1 DEF Abandon, ResetMarks, TypeOK
  <2> QED BY <2>1, <2>2, SameObjs DEF Abandon, graphVars
<1>5. CASE state[pos] = "Marked" /\ borrow[pos] = "no"
  <2>1. /\ entries' = [entries EXCEPT ![pos] = RetainAliveKeys(entries[pos], Marked)]
        /\ state' = state /\ UNCHANGED <<refs, roots, held>>
    BY <1>5 DEF ScanStep, Marked, heapVars
  <2>2. Holders = roots
    BY <1>1 DEF MarkInv, Tracing, Holders
  <2>3. StrongReach(Holders, refs) \subseteq Marked
    <3>1. Marked \in SUBSET Slot
      BY DEF Marked
    <3> QED BY <1>1, <2>2, <3>1 DEF ScanInv, StrongReach
  <2>4. \A e \in entries[pos] \ RetainAliveKeys(entries[pos], Marked) :
           e[1] \notin StrongReach(Holders, refs)
    BY <2>3 DEF RetainAliveKeys
  <2>5. RetainAliveKeys(entries[pos], Marked) \in SUBSET entries[pos]
    BY DEF RetainAliveKeys
  <2>6. Abstract!Forget(pos)
    BY <2>1, <2>4, <2>5, SameGraph DEF Abstract!Forget
  <2> QED BY <1>2, <2>6, SameGraph DEF Abstract!Next
<1> QED BY <1>3, <1>4, <1>5

\* ... and the sweep reclaims only what the program cannot reach.
LEMMA SweepRefines ==
    ASSUME CoreInv, SweepStep
    PROVE  [Abstract!Next]_(Abstract!vars)
<1>1. TypeOK /\ SlotInv /\ GraphInv
  BY DEF CoreInv
<1>2. PICK s \in doomed :
         IF borrow[s] # "no"
         THEN UNCHANGED <<state, free, bytes, refs, entries>>
         ELSE /\ state' = [state EXCEPT ![s] = "Free"]
              /\ refs' = [refs EXCEPT ![s] = {}]
              /\ entries' = [entries EXCEPT ![s] = {}]
  BY DEF SweepStep
<1>3. UNCHANGED <<roots, held>>
  BY DEF SweepStep
<1>4. PICK X \in SUBSET Slot : Sound(X) /\ Contained(X)
  BY <1>1 DEF GraphInv
<1>5. s \in Slot /\ state[s] # "Free" /\ s \notin Accessible
  BY <1>1, <1>4, AccessibleInSound DEF SlotInv, Contained, TypeOK
<1>6. CASE borrow[s] # "no"
  BY <1>2, <1>3, <1>6, SameObjs
<1>7. CASE borrow[s] = "no"
  <2>1. Objs' = Objs \ {s} /\ s \in Objs
    BY <1>1, <1>2, <1>5, <1>7 DEF Objs, TypeOK
  <2>2. Abstract!Reclaim(s)
    BY <1>2, <1>3, <1>5, <1>7, <2>1, SameGraph DEF Abstract!Reclaim, Objs
  <2> QED BY <1>5, <2>2, SameGraph DEF Abstract!Next
<1> QED BY <1>6, <1>7

LEMMA NextRefines ==
    ASSUME CoreInv, [Next]_vars
    PROVE  [Abstract!Next]_(Abstract!vars)
<1> USE DEF heapVars, graphVars
<1>1. TypeOK
  BY DEF CoreInv
<1>2. CASE UNCHANGED vars
  BY <1>2, SameObjs DEF vars
<1>3. CASE Program
  BY <1>3, ProgramRefines
<1>4. CASE StartCollect
  BY <1>4, SameObjs DEF StartCollect
<1>5. CASE MarkStep \/ DrainStep
  BY <1>1, <1>5, PopRefines DEF MarkStep, DrainStep, TypeOK
<1>6. CASE MarkDone \/ DrainAgain
  BY <1>6, SameObjs DEF MarkDone, DrainAgain, StartScan
<1>7. CASE ScanDone
  BY <1>7, SameObjs DEF ScanDone
<1>8. CASE StartSweep
  <2>1. \A t \in Slot : state'[t] = "Free" <=> state[t] = "Free"
    BY <1>1, <1>8 DEF StartSweep, ResetMarks, TypeOK
  <2> QED BY <1>8, <2>1, SameObjs DEF StartSweep
<1>9. CASE FinishSweep
  BY <1>9, SameObjs DEF FinishSweep
<1> QED
  BY <1>2, <1>3, <1>4, <1>5, <1>6, <1>7, <1>8, <1>9, ScanRefines, SweepRefines
  DEF Next, Collect

\* The collector is invisible: the heap it manages behaves like one that never
\* runs out and loses only what the program cannot reach, and weak entries
\* whose keys nothing but weak containers hold.
THEOREM Refinement == Spec => ImplementsJsHeap
<1>1. Init => Abstract!Init
  BY InitRefines
<1>2. CoreInv /\ [Next]_vars => [Abstract!Next]_(Abstract!vars)
  BY NextRefines
<1> QED BY <1>1, <1>2, Invariance, PTL DEF Spec, ImplementsJsHeap, Abstract!Spec
=============================================================================
