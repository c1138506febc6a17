----------------------------- MODULE HeapGraph -----------------------------
(***************************************************************************)
(* The object graph of the collected heap, as the collector's Trace        *)
(* implementations and its ephemeron phase see it (src/src/vm/gc.rs and    *)
(* src/src/vm/object.rs).                                                  *)
(*                                                                         *)
(* A heap is three things: the slots, the strong references refs[s] that   *)
(* tracing the object in slot s pushes on the worklist, and the weak       *)
(* entries entries[s] of the object in s, pairs <<key, value>>.  Only a    *)
(* WeakMap or a WeakSet has entries; the value of a WeakSet entry, and a   *)
(* WeakMap value that is a primitive, is NoSlot.                           *)
(***************************************************************************)
EXTENDS Naturals

CONSTANTS
    MaxSlots,   \* bound: how many slots the heap may ever carve out of chunks
    NoSlot      \* the "value" of an entry that refers to no object

\* Slots are numbered in the order alloc() carves them out of the chunks,
\* which is the order sweep() and mark_ephemerons() scan them in.
Slot == 1..MaxSlots

ASSUME SlotAssumption == MaxSlots \in Nat \ {0} /\ NoSlot \notin Slot

Entry == Slot \X (Slot \cup {NoSlot})

-----------------------------------------------------------------------------
\* A set of slots that tracing adds nothing to: Trace for Object does not
\* trace the entries of a weak container.
StrongClosed(refs, C) == \A s \in C : refs[s] \subseteq C

\* ... and that no weak entry adds anything to: an entry of a container in C
\* keeps its value alive when its key is in C (ES6 23.3: an ephemeron).
EphemeronClosed(refs, entries, C) ==
    /\ StrongClosed(refs, C)
    /\ \A s \in C : \A e \in entries[s] :
          (e[1] \in C /\ e[2] # NoSlot) => e[2] \in C

\* Everything reachable from base without going through a weak container.
StrongReach(base, refs) ==
    {s \in Slot : \A C \in SUBSET Slot :
                     (base \subseteq C /\ StrongClosed(refs, C)) => s \in C}

\* Everything a program that holds base can ever get at.
Reach(base, refs, entries) ==
    {s \in Slot : \A C \in SUBSET Slot :
                     (base \subseteq C /\ EphemeronClosed(refs, entries, C))
                        => s \in C}

\* Mutants: the values of all entries are kept alive; no entry is dropped.
ValuesOfAllKeys(es, alive) == {e[2] : e \in {e \in es : e[2] # NoSlot}}
RetainAllKeys(es, alive) == es

\* The values the container with entries es keeps alive when the slots in
\* alive are the live ones (MapObject::values_of_alive_keys) ...
ValuesOfAliveKeys(es, alive) ==
    {e[2] : e \in {e \in es : e[1] \in alive /\ e[2] # NoSlot}}

\* ... and the entries it keeps (MapObject::retain_alive_keys and
\* SetObject::retain_alive: the others become tombstones).
RetainAliveKeys(es, alive) == {e \in es : e[1] \in alive}
=============================================================================
