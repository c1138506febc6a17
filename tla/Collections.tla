----------------------------- MODULE Collections -----------------------------
(***************************************************************************)
(* The storage of Map and Set (MapObject and SetObject in vm/object.rs): a  *)
(* vector of slots in insertion order, where a deleted entry leaves a       *)
(* tombstone so that a walk that holds a position does not lose its place.  *)
(* A Set is a Map whose entries have no value.                              *)
(***************************************************************************)
EXTENDS Integers, Sequences, FiniteSets, SequencesExt

CONSTANTS Tombstone, Zero, NegativeZero

Entry(key, value) == [key |-> key, value |-> value]
NotFound == 0

\* SameValueZero: the two zeros are one key, stored as +0.
MapKey(key) == IF key = NegativeZero THEN Zero ELSE key

IsLive(slot) == slot # Tombstone

\* The live slots, in order.
Live(slots) ==
    LET upTo[n \in 0..Len(slots)] ==
            IF n = 0 THEN <<>>
            ELSE IF IsLive(slots[n]) THEN Append(upTo[n - 1], slots[n]) ELSE upTo[n - 1]
    IN  upTo[Len(slots)]
Size(slots) == Len(Live(slots))
KeysOf(slots) == [i \in 1..Size(slots) |-> Live(slots)[i].key]

\* A mutant: the key is looked up as given.
IndexAsGiven(slots, key) == SelectInSeq(slots, LAMBDA slot : IsLive(slot) /\ slot.key = key)

IndexOf(slots, key) ==
    SelectInSeq(slots, LAMBDA slot : IsLive(slot) /\ slot.key = MapKey(key))
Has(slots, key) == IndexOf(slots, key) # NotFound

\* A known key keeps its place, a new one goes to the end.
MapSet(slots, key, value) ==
    IF Has(slots, key) THEN [slots EXCEPT ![IndexOf(slots, key)] = Entry(MapKey(key), value)]
                       ELSE Append(slots, Entry(MapKey(key), value))

NoValue == "noValue"
SetAdd(slots, key) ==
    IF Has(slots, key) THEN slots ELSE Append(slots, Entry(MapKey(key), NoValue))

\* A mutant: the entries after the deleted one move up.
DeleteSplicing(slots, key) ==
    IF Has(slots, key) THEN RemoveAt(slots, IndexOf(slots, key)) ELSE slots

Delete(slots, key) ==
    IF Has(slots, key) THEN [slots EXCEPT ![IndexOf(slots, key)] = Tombstone] ELSE slots

Cleared == <<>>

\* The place of the first live entry after the first idx slots.
EntryFrom(slots, idx) == SelectInSubSeq(slots, idx + 1, Len(slots), IsLive)

-----------------------------------------------------------------------------
(* A walk: a Map or Set iterator (vm/iterator.rs), or the local position of *)
(* a forEach.  It is live: it looks at the collection at each step.  Once   *)
(* it has run off the end it stays there.                                   *)

NewWalk(c) == [of |-> c, idx |-> 0, done |-> FALSE]

\* native_next: the place of the entry a step yields, and the walk after it.
StepAt(slots, walk) == IF walk.done THEN NotFound ELSE EntryFrom(slots, walk.idx)
Stepped(slots, walk) ==
    IF StepAt(slots, walk) = NotFound THEN [walk EXCEPT !.done = TRUE]
                                      ELSE [walk EXCEPT !.idx = StepAt(slots, walk)]
=============================================================================
