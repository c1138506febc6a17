------------------------------- MODULE GcHeap -------------------------------
(***************************************************************************)
(* The mark-sweep heap of src/src/vm/gc.rs, driven from the safe point of  *)
(* src/src/vm/exec.rs.                                                     *)
(*                                                                         *)
(* The program (Alloc ... Return) and the collector (StartCollect ...      *)
(* FinishSweep) share the heap and alternate: the collector runs to        *)
(* completion inside one call of Heap::collect, so the program's actions   *)
(* need phase = "idle".  The collector is cut into steps, one worklist pop *)
(* or one scanned slot each, because its phases depend on each other's     *)
(* order.                                                                  *)
(*                                                                         *)
(* Abstracted: what an object holds besides references; the order in which *)
(* the worklist is popped (a Vec in the code, a set here: a slot that was  *)
(* pushed twice is skipped the second time because it is Marked).          *)
(***************************************************************************)
EXTENDS HeapGraph, Sequences, FiniteSets

CONSTANTS
    Stress,         \* Heap::stress, collect at every safe point
    MinThreshold,   \* MIN_THRESHOLD, in slots
    MaxLinks,       \* bound: strong references plus weak entries of the heap
    MaxHeld,        \* bound: nested native calls
    MaxBorrows      \* bound: slots with an outstanding RefCell guard

ASSUME GcAssumption ==
    /\ Stress \in BOOLEAN
    /\ MinThreshold \in Nat \ {0} /\ MaxLinks \in Nat
    /\ MaxHeld \in Nat /\ MaxBorrows \in Nat

VARIABLES
    created,    \* slots carved out of the chunks so far: 1..created
    state,      \* Slot::state
    free,       \* Heap::free, popped at the end
    refs,       \* see HeapGraph
    entries,
    borrow,     \* the RefCell of each slot: no guard, Ref or RefMut alive
    roots,      \* what Trace for VM pushes
    held,       \* Rust locals of the native calls in flight, one handle each;
                \* its length is that of VM::invoke_boundaries
    bytes,      \* Heap::bytes, in slots
    threshold,  \* Heap::threshold, in slots
    phase,      \* where Heap::collect is
    queue,      \* Heap::mark_queue
    pos,        \* the slot the scan of mark_ephemerons is at
    progress,   \* its local of that name
    doomed      \* what is left of sweep's local of that name

heapVars == <<created, state, free, bytes, threshold>>
graphVars == <<refs, entries, roots, held, borrow>>
gcVars == <<phase, queue, pos, progress, doomed>>
vars == <<heapVars, graphVars, gcVars>>

Phases == {"idle", "mark", "ephemeron", "drain", "sweep"}

TypeOK ==
    /\ created \in 0..MaxSlots
    /\ state \in [Slot -> {"Free", "Unmarked", "Marked"}]
    /\ free \in Seq(Slot)
    /\ refs \in [Slot -> SUBSET Slot]
    /\ entries \in [Slot -> SUBSET Entry]
    /\ borrow \in [Slot -> {"no", "shared", "mut"}]
    /\ roots \in SUBSET Slot
    /\ held \in Seq(Slot)
    /\ bytes \in Nat /\ threshold \in Nat
    /\ phase \in Phases
    /\ queue \in SUBSET Slot
    /\ pos \in 1..(MaxSlots + 1)
    /\ progress \in BOOLEAN
    /\ doomed \in SUBSET Slot

Init ==
    /\ created = 0
    /\ state = [s \in Slot |-> "Free"]
    /\ free = <<>>
    /\ refs = [s \in Slot |-> {}]
    /\ entries = [s \in Slot |-> {}]
    /\ borrow = [s \in Slot |-> "no"]
    /\ roots = {} /\ held = <<>>
    /\ bytes = 0 /\ threshold = MinThreshold
    /\ phase = "idle" /\ queue = {} /\ pos = 1
    /\ progress = FALSE /\ doomed = {}

-----------------------------------------------------------------------------
(* The program.                                                            *)

Holders == roots \cup {held[i] : i \in DOMAIN held}
Accessible == Reach(Holders, refs, entries)

Links ==
    Cardinality(UNION {{s} \X refs[s] : s \in Slot})
    + Cardinality(UNION {{s} \X entries[s] : s \in Slot})

\* The program runs only between collections, on objects it can get at; to
\* change an object it needs the only guard on it.
Idle == phase = "idle"
Writable(s) == s \in Accessible /\ borrow[s] = "no"

\* Mutant: a reused slot stays on the free list.
AllocKeepsFree ==
    /\ Idle
    /\ LET n == Len(free)
           reuse == n > 0 /\ borrow[free[n]] = "no"
           s == IF reuse THEN free[n] ELSE created + 1
       IN  /\ s \in Slot
           /\ created' = IF reuse THEN created ELSE created + 1
           /\ state' = [state EXCEPT ![s] = "Unmarked"]
           /\ refs' = [refs EXCEPT ![s] = {}]
           /\ entries' = [entries EXCEPT ![s] = {}]
           /\ roots' = roots \cup {s}
    /\ bytes' = bytes + 1
    /\ UNCHANGED <<free, threshold, held, borrow, gcVars>>

\* Heap::alloc.  The new handle is in the VM's state before the next safe
\* point.  A slot of the free list that is still borrowed is put back and a
\* new slot is carved out instead.
Alloc ==
    /\ Idle
    /\ LET n == Len(free)
           reuse == n > 0 /\ borrow[free[n]] = "no"
           s == IF reuse THEN free[n] ELSE created + 1
       IN  /\ s \in Slot
           /\ free' = IF reuse THEN SubSeq(free, 1, n - 1) ELSE free
           /\ created' = IF reuse THEN created ELSE created + 1
           /\ state' = [state EXCEPT ![s] = "Unmarked"]
           /\ refs' = [refs EXCEPT ![s] = {}]
           /\ entries' = [entries EXCEPT ![s] = {}]
           /\ roots' = roots \cup {s}
    /\ bytes' = bytes + 1
    /\ UNCHANGED <<threshold, held, borrow, gcVars>>

Root(s) ==
    /\ Idle
    /\ s \in Accessible \ roots
    /\ roots' = roots \cup {s}
    /\ UNCHANGED <<heapVars, refs, entries, held, borrow, gcVars>>

Unroot(s) ==
    /\ Idle
    /\ s \in roots
    /\ roots' = roots \ {s}
    /\ UNCHANGED <<heapVars, refs, entries, held, borrow, gcVars>>

Link(s, t) ==
    /\ Idle
    /\ Links < MaxLinks
    /\ Writable(s) /\ t \in Accessible \ refs[s]
    /\ refs' = [refs EXCEPT ![s] = @ \cup {t}]
    /\ UNCHANGED <<heapVars, entries, roots, held, borrow, gcVars>>

Unlink(s, t) ==
    /\ Idle
    /\ Writable(s) /\ t \in refs[s]
    /\ refs' = [refs EXCEPT ![s] = @ \ {t}]
    /\ UNCHANGED <<heapVars, entries, roots, held, borrow, gcVars>>

\* WeakMapObject::set, WeakSetObject::add (v = NoSlot)
WeakSet(s, k, v) ==
    /\ Idle
    /\ Links < MaxLinks
    /\ Writable(s) /\ k \in Accessible /\ v \in Accessible \cup {NoSlot}
    /\ entries' = [entries EXCEPT ![s] = {e \in @ : e[1] # k} \cup {<<k, v>>}]
    /\ UNCHANGED <<heapVars, refs, roots, held, borrow, gcVars>>

\* WeakMapObject::delete, WeakSetObject::delete
WeakDelete(s, k) ==
    /\ Idle
    /\ Writable(s) /\ k \in Accessible
    /\ entries' = [entries EXCEPT ![s] = {e \in @ : e[1] # k}]
    /\ UNCHANGED <<heapVars, refs, roots, held, borrow, gcVars>>

\* Gc::borrow and Gc::borrow_mut: a guard that outlives the instruction, so
\* that a collection meets it.  live_slot refuses a Free slot.
Borrow(s, mode) ==
    /\ Idle
    /\ Cardinality({t \in Slot : borrow[t] # "no"}) < MaxBorrows
    /\ s \in Accessible /\ state[s] # "Free" /\ borrow[s] = "no"
    /\ borrow' = [borrow EXCEPT ![s] = mode]
    /\ UNCHANGED <<heapVars, refs, entries, roots, held, gcVars>>

Release(s) ==
    /\ Idle
    /\ borrow[s] # "no"
    /\ borrow' = [borrow EXCEPT ![s] = "no"]
    /\ UNCHANGED <<heapVars, refs, entries, roots, held, gcVars>>

\* with_invoke_boundary: a native keeps a handle in a Rust local, where the
\* collector cannot see it, and calls back into bytecode ...
Hold(s) ==
    /\ Idle
    /\ Len(held) < MaxHeld
    /\ s \in Accessible
    /\ held' = Append(held, s)
    /\ UNCHANGED <<heapVars, refs, entries, roots, borrow, gcVars>>

\* ... and returns, handing it to the VM's state or dropping it.
Return(keep) ==
    /\ Idle
    /\ held # <<>>
    /\ held' = SubSeq(held, 1, Len(held) - 1)
    /\ roots' = IF keep THEN roots \cup {held[Len(held)]} ELSE roots
    /\ UNCHANGED <<heapVars, refs, entries, borrow, gcVars>>

Program ==
    \/ Alloc
    \/ \E s \in Slot : Root(s) \/ Unroot(s) \/ Release(s) \/ Hold(s)
    \/ \E s, t \in Slot : Link(s, t) \/ Unlink(s, t) \/ WeakDelete(s, t)
    \/ \E s, k \in Slot, v \in Slot \cup {NoSlot} : WeakSet(s, k, v)
    \/ \E s \in Slot, mode \in {"shared", "mut"} : Borrow(s, mode)
    \/ \E keep \in BOOLEAN : Return(keep)

-----------------------------------------------------------------------------
(* The collector.                                                          *)

ResetMarks(st) ==
    [s \in Slot |-> IF st[s] = "Marked" THEN "Unmarked" ELSE st[s]]

NextThreshold(b) ==
    IF b * 2 > MinThreshold THEN b * 2 ELSE MinThreshold

Decrement(b) == IF b = 0 THEN 0 ELSE b - 1

\* Heap::should_collect
ShouldCollect == Stress \/ bytes >= threshold

\* Mutant: the safe point does not ask whether a native call is in flight.
StartCollectUngated ==
    /\ Idle
    /\ ShouldCollect
    /\ phase' = "mark"
    /\ queue' = roots
    /\ UNCHANGED <<heapVars, graphVars, pos, progress, doomed>>

\* The safe point of VM::step, and the head of Heap::mark: the worklist of an
\* abandoned round is cleared before the roots go in.
StartCollect ==
    /\ Idle
    /\ held = <<>> /\ ShouldCollect
    /\ phase' = "mark"
    /\ queue' = roots
    /\ UNCHANGED <<heapVars, graphVars, pos, progress, doomed>>

\* Mutants: the marks of the abandoned round stay; the threshold stays.
AbandonKeepsMarks(st) ==
    /\ state' = st
    /\ threshold' = NextThreshold(bytes)
    /\ phase' = "idle" /\ pos' = 1 /\ progress' = FALSE
    /\ UNCHANGED <<created, free, bytes, graphVars, doomed>>

AbandonKeepsThreshold(st) ==
    /\ state' = ResetMarks(st)
    /\ phase' = "idle" /\ pos' = 1 /\ progress' = FALSE
    /\ UNCHANGED <<created, free, bytes, threshold, graphVars, doomed>>

\* A guard is in the way: Heap::collect gives this round up (INV-5).
Abandon(st) ==
    /\ state' = ResetMarks(st)
    /\ threshold' = NextThreshold(bytes)
    /\ phase' = "idle" /\ pos' = 1 /\ progress' = FALSE
    /\ UNCHANGED <<created, free, bytes, graphVars, doomed>>

\* One turn of a worklist loop: pop s and trace it unless that was done.
\* noted is what the loop makes of its progress flag when it marks a slot.
Pop(s, noted) ==
    LET st == [state EXCEPT ![s] = "Marked"]
    IN  IF state[s] = "Marked"
        THEN /\ queue' = queue \ {s}
             /\ UNCHANGED <<heapVars, graphVars, phase, pos, progress, doomed>>
        ELSE IF borrow[s] = "mut"
        THEN queue' = queue \ {s} /\ Abandon(st)
        ELSE /\ state' = st
             /\ queue' = (queue \ {s}) \cup refs[s]
             /\ progress' = noted
             /\ UNCHANGED <<created, free, bytes, threshold, graphVars,
                            phase, pos, doomed>>

\* Mutant: the scan begins one slot early.
StartScanEarly ==
    /\ phase' = "ephemeron" /\ pos' = 0 /\ progress' = FALSE
    /\ UNCHANGED <<heapVars, graphVars, queue, doomed>>

StartScan ==
    /\ phase' = "ephemeron" /\ pos' = 1 /\ progress' = FALSE
    /\ UNCHANGED <<heapVars, graphVars, queue, doomed>>

\* The loop of Heap::mark
MarkStep == phase = "mark" /\ \E s \in queue : Pop(s, progress)
MarkDone == phase = "mark" /\ queue = {} /\ StartScan

\* The inner loops of mark_ephemerons, one slot a step: a Marked container
\* hands over the values of the keys alive so far and drops the other entries
\* (weak_ephemeron_step).  Any guard on a Marked slot is in the way here.
ScanStep ==
    /\ phase = "ephemeron" /\ pos <= created
    /\ LET alive == {s \in Slot : state[s] = "Marked"}
       IN  IF state[pos] # "Marked"
           THEN /\ pos' = pos + 1
                /\ UNCHANGED <<heapVars, graphVars, phase, queue, progress, doomed>>
           ELSE IF borrow[pos] # "no"
           THEN Abandon(state) /\ UNCHANGED queue
           ELSE /\ queue' = queue \cup ValuesOfAliveKeys(entries[pos], alive)
                /\ entries' = [entries EXCEPT ![pos] = RetainAliveKeys(@, alive)]
                /\ pos' = pos + 1
                /\ UNCHANGED <<heapVars, refs, roots, held, borrow, phase,
                               progress, doomed>>

ScanDone ==
    /\ phase = "ephemeron" /\ pos > created
    /\ phase' = "drain"
    /\ UNCHANGED <<heapVars, graphVars, queue, pos, progress, doomed>>

\* Mutant: popping a slot that is Marked already counts as progress.
DrainStepAlways ==
    phase = "drain" /\ \E s \in queue :
        IF state[s] = "Marked"
        THEN /\ queue' = queue \ {s} /\ progress' = TRUE
             /\ UNCHANGED <<heapVars, graphVars, phase, pos, doomed>>
        ELSE Pop(s, TRUE)

DrainStep == phase = "drain" /\ \E s \in queue : Pop(s, TRUE)

\* A value was marked: its consequences need another pass.
DrainAgain == phase = "drain" /\ queue = {} /\ progress /\ StartScan

\* Mutant: one pass over the weak containers is taken to be enough.
StartSweepOnePass ==
    /\ phase = "drain" /\ queue = {}
    /\ phase' = "sweep" /\ pos' = 1
    /\ doomed' = {s \in 1..created : state[s] = "Unmarked"}
    /\ state' = ResetMarks(state)
    /\ UNCHANGED <<created, free, bytes, threshold, graphVars, queue, progress>>

\* The fixpoint is reached: the first loop of Heap::sweep.
StartSweep ==
    /\ phase = "drain" /\ queue = {} /\ ~progress
    /\ phase' = "sweep" /\ pos' = 1
    /\ doomed' = {s \in 1..created : state[s] = "Unmarked"}
    /\ state' = ResetMarks(state)
    /\ UNCHANGED <<created, free, bytes, threshold, graphVars, queue, progress>>

\* Mutant: a borrowed slot that is passed over is charged as freed.
SweepStepCharges ==
    /\ phase = "sweep"
    /\ \E s \in doomed :
          /\ \A t \in doomed : s <= t
          /\ doomed' = doomed \ {s}
          /\ bytes' = Decrement(bytes)
          /\ IF borrow[s] # "no"
             THEN UNCHANGED <<state, free, refs, entries>>
             ELSE /\ state' = [state EXCEPT ![s] = "Free"]
                  /\ free' = Append(free, s)
                  /\ refs' = [refs EXCEPT ![s] = {}]
                  /\ entries' = [entries EXCEPT ![s] = {}]
    /\ UNCHANGED <<created, threshold, roots, held, borrow,
                   phase, queue, pos, progress>>

\* The second loop of Heap::sweep.  (The code subtracts the freed bytes after
\* the loop, saturating at zero; nothing reads them in between.)
SweepStep ==
    /\ phase = "sweep"
    /\ \E s \in doomed :
          /\ \A t \in doomed : s <= t
          /\ doomed' = doomed \ {s}
          /\ IF borrow[s] # "no"
             THEN UNCHANGED <<state, free, bytes, refs, entries>>
             ELSE /\ state' = [state EXCEPT ![s] = "Free"]
                  /\ free' = Append(free, s)
                  /\ bytes' = Decrement(bytes)
                  /\ refs' = [refs EXCEPT ![s] = {}]
                  /\ entries' = [entries EXCEPT ![s] = {}]
    /\ UNCHANGED <<created, threshold, roots, held, borrow,
                   phase, queue, pos, progress>>

FinishSweep ==
    /\ phase = "sweep" /\ doomed = {}
    /\ threshold' = NextThreshold(bytes)
    /\ phase' = "idle"
    /\ UNCHANGED <<created, state, free, bytes, graphVars, queue, pos, progress, doomed>>

\* What Heap::collect does once it has been called.
Collect ==
    \/ MarkStep \/ MarkDone
    \/ ScanStep \/ ScanDone \/ DrainStep \/ DrainAgain
    \/ StartSweep \/ SweepStep \/ FinishSweep

Next == Program \/ StartCollect \/ Collect

\* A call of Heap::collect that has begun runs on; nothing obliges the program
\* to reach another safe point.
Spec == Init /\ [][Next]_vars /\ WF_vars(Collect)

-----------------------------------------------------------------------------
(* Properties.                                                             *)

\* The contract the unsafe dereference in Gc::live_slot relies on: no handle
\* the program can get at, through strong references, through a weak entry
\* whose key it has, or in the Rust local of a native call, points at a slot
\* the collector has reclaimed.
NoDangling == \A s \in Accessible : state[s] # "Free"

\* The free list holds every reclaimed slot exactly once, and none that still
\* has a guard: a slot listed twice would be handed out as two objects.
FreeListExact ==
    /\ \A s \in 1..created :
          state[s] = "Free" <=> \E i \in DOMAIN free : free[i] = s
    /\ \A i, j \in DOMAIN free : free[i] = free[j] => i = j
    /\ \A i \in DOMAIN free : free[i] \in 1..created /\ borrow[free[i]] = "no"

\* A weak container the program can get at has no entry for a reclaimed key,
\* which the next object made in that slot would answer to.
NoStaleWeakKey ==
    phase = "idle" =>
       \A s \in Accessible : \A e \in entries[s] :
          state[e[1]] # "Free" /\ (e[2] # NoSlot => state[e[2]] # "Free")

\* No handle, strong, weak or native, names a reclaimed slot.
NoStaleHandle == NoDangling /\ NoStaleWeakKey

\* Between collections no slot is Marked: mark() would skip it, and sweep()
\* would take what only it refers to.  An abandoned round is no exception.
MarksReset == phase = "idle" => \A s \in Slot : state[s] # "Marked"

\* What a collection, finished or given up, may not leave behind: a slot that
\* is lost or listed twice, or a mark the next round would trust.
NothingLeftBehind == FreeListExact /\ MarksReset

\* Heap::bytes counts the occupied slots, so that the threshold means something.
BytesExact == bytes = Cardinality({s \in 1..created : state[s] # "Free"})

\* A round that reaches the end of sweep() leaves no garbage: everything the
\* program cannot reach is reclaimed, cycles, dead ephemerons and their values
\* included, but for the slots that are borrowed right then.
Precise ==
    [][FinishSweep => \A s \in (1..created) \ Accessible :
                         state[s] = "Free" \/ borrow[s] # "no"]_vars

\* A round leaves the heap below the threshold, whether it ended in sweep() or
\* was given up: the next safe point does not walk into the same guard again.
NoBusyCollect ==
    [][(phase # "idle" /\ phase' = "idle") => (bytes' < threshold')]_vars

\* Heap::collect returns: the ephemeron passes reach their fixpoint.
CollectReturns == (phase # "idle") ~> (phase = "idle")

\* The heap behaves as if there were no collector (JsHeap).
Abstract == INSTANCE JsHeap WITH objs <- {s \in Slot : state[s] # "Free"}
ImplementsJsHeap == Abstract!Spec

\* "A key that is alive keeps its entry": the comment on mark_ephemerons, with
\* its demand to iterate to a fixpoint, and the test
\* weak_map_keeps_the_value_when_its_key_is_alive.
LiveKeyKeepsEntry ==
    [][phase # "idle" =>
          \A s \in Accessible : \A e \in entries[s] :
             e[1] \in Accessible => e \in entries'[s]]_vars

-----------------------------------------------------------------------------
(* The inductive invariant behind the safety properties and the refinement  *)
(* (proved in GcHeapProofs).                                                *)

Marked == {s \in Slot : state[s] = "Marked"}
Tracing == phase \in {"mark", "ephemeron", "drain"}

\* Slots not carved out yet, and reclaimed ones, are out of everyone's reach.
SlotInv ==
    /\ \A s \in Slot : s > created => state[s] = "Free"
    /\ \A s \in Slot : state[s] = "Free" => borrow[s] = "no"
    /\ (phase \in {"idle", "sweep"}) => Marked = {}
    /\ \A s \in doomed : s <= created /\ state[s] = "Unmarked"
    /\ phase # "sweep" => doomed = {}

FreeInv ==
    /\ \A i \in 1..Len(free) : free[i] <= created /\ state[free[i]] = "Free"
    /\ \A i, j \in 1..Len(free) : free[i] = free[j] => i = j
    /\ \A s \in Slot : (s <= created /\ state[s] = "Free")
                           => \E i \in 1..Len(free) : free[i] = s

\* X holds what the program holds, is closed, is occupied, and its weak
\* entries name occupied slots only: without the last conjunct a slot that is
\* handed out again could complete an entry left behind for its predecessor.
Sound(X) ==
    /\ Holders \subseteq X
    /\ EphemeronClosed(refs, entries, X)
    /\ \A s \in X : state[s] # "Free"
    /\ \A s \in X : \A e \in entries[s] :
          state[e[1]] # "Free" /\ (e[2] # NoSlot => state[e[2]] # "Free")

\* ... and the collector never leaves X, nor frees anything X refers to.
Contained(X) ==
    /\ Tracing => queue \cup Marked \subseteq X
    /\ \A s \in X : s \notin doomed
    /\ \A s \in X : \A e \in entries[s] : e[1] \notin doomed /\ e[2] \notin doomed

GraphInv == \E X \in SUBSET Slot : Sound(X) /\ Contained(X)

\* The tricolour invariant of the worklist.
MarkInv ==
    Tracing =>
       /\ held = <<>>
       /\ roots \subseteq Marked \cup queue
       /\ \A s \in Marked : refs[s] \subseteq Marked \cup queue

\* Between two drains the strong references are closed already, and as long
\* as no slot was marked since the scan began the scanned containers are done.
ScanInv ==
    /\ phase = "ephemeron" =>
          /\ ~progress
          /\ roots \subseteq Marked
          /\ StrongClosed(refs, Marked)
    /\ phase = "drain" => pos > created
    /\ (phase \in {"ephemeron", "drain"} /\ ~progress) =>
          \A s \in Marked : s < pos =>
             \A e \in entries[s] :
                e[1] \in Marked /\ (e[2] # NoSlot => e[2] \in Marked \cup queue)

\* What these parts prove alone: nothing is reclaimed too early or twice.
CoreInv == TypeOK /\ SlotInv /\ FreeInv /\ GraphInv /\ MarkInv /\ ScanInv

\* What a round that has marked the slots of Marked may be made to keep: an
\* entry counts only when its key was marked before the scan came by, so that
\* the entries that a scan drops make no difference.
Owed(C) ==
    /\ Holders \subseteq C
    /\ StrongClosed(refs, C)
    /\ \A s \in C : \A e \in entries[s] :
          (e[1] \in C \cap Marked /\ e[2] # NoSlot) => e[2] \in C

\* No slot is marked without need; what the sweep has passed is reclaimed,
\* borrowed or in use.
TraceInv ==
    /\ Tracing =>
          \A C \in SUBSET Slot : Owed(C) => Marked \cup queue \subseteq C
    /\ phase = "sweep" =>
          \A s \in Slot : s <= created =>
             s \in doomed \cup Accessible \/ state[s] = "Free" \/ borrow[s] # "no"

GcInv == CoreInv /\ BytesExact /\ TraceInv
=============================================================================
