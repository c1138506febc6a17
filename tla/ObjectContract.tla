---------------------------- MODULE ObjectContract ----------------------------
(***************************************************************************)
(* What every object promises its users, whatever its representation: the   *)
(* essential invariants of the object model.  What was non-configurable,    *)
(* read-only or non-extensible once stays so, prototype chains end, and the *)
(* keys of an object are listed in the order they were created in.          *)
(*                                                                         *)
(* An object is its extensibility, its prototype, its own properties (a     *)
(* function from keys to descriptors) and its string keys as created.       *)
(***************************************************************************)
EXTENDS Integers, Sequences, FiniteSets

CONSTANT NoPrototype
VARIABLE objs   \* the objects there are, and what each is

\* d is what may have become of a property that was c.
MayBecome(c, d) ==
    \/ c.configurable
    \/ /\ ~d.configurable
       /\ d.enumerable = c.enumerable
       /\ d.getter = c.getter /\ d.setter = c.setter
       /\ d.writable => c.writable
       /\ ~c.writable => d.value = c.value

Created(old, new) ==
    LET kept == SelectSeq(old.created, LAMBDA k : k \in DOMAIN new.properties)
    IN  /\ Len(kept) <= Len(new.created)
        /\ SubSeq(new.created, 1, Len(kept)) = kept

Allowed(old, new) ==
    /\ \A k \in DOMAIN old.properties :
          IF k \in DOMAIN new.properties
          THEN MayBecome(old.properties[k], new.properties[k])
          ELSE old.properties[k].configurable
    /\ ~old.extensible =>
          /\ ~new.extensible
          /\ new.prototype = old.prototype
          /\ DOMAIN new.properties \subseteq DOMAIN old.properties
    /\ Created(old, new)

\* No object is reached by going up from it: each chain ends within as many
\* steps as there are objects.
ChainsEnd(world) ==
    LET above(o) == IF o = NoPrototype THEN o ELSE world[o].prototype
        up[o \in DOMAIN world, n \in 0..Cardinality(DOMAIN world)] ==
            IF n = 0 THEN o ELSE above(up[o, n - 1])
    IN  \A o \in DOMAIN world : up[o, Cardinality(DOMAIN world)] = NoPrototype

Init == ChainsEnd(objs)

\* An operation changes one object, or none.
Next ==
    \/ objs' = objs
    \/ /\ DOMAIN objs' = DOMAIN objs
       /\ \E o \in DOMAIN objs :
             /\ \A p \in DOMAIN objs \ {o} : objs'[p] = objs[p]
             /\ Allowed(objs[o], objs'[o])
       /\ ChainsEnd(objs')

Spec == Init /\ [][Next]_objs
=============================================================================
