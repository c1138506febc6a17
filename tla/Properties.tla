------------------------------ MODULE Properties ------------------------------
(***************************************************************************)
(* Property keys, descriptors and property tables: the data the object     *)
(* model is built from (vm/property.rs, the head of vm/object.rs, and      *)
(* apply_property_descriptor of builtins/object.rs).                       *)
(*                                                                         *)
(* Operators only; OrdinaryObjects and ArrayObjects build the two          *)
(* representations from them.                                              *)
(***************************************************************************)
EXTENDS Integers, Sequences, FiniteSets, TLC

CONSTANTS
    Indices,   \* the array indices, ascending: index i is the key Indices[i+1]
    Names      \* the other string keys

ASSUME KeyAssumption ==
    /\ \A m, n \in DOMAIN Indices : m # n => Indices[m] # Indices[n]
    /\ {Indices[n] : n \in DOMAIN Indices} \cap Names = {}

IndexKeys == {Indices[n] : n \in DOMAIN Indices}

\* The number an index key spells, and the key of a number.
IndexOf(k) == (CHOOSE n \in DOMAIN Indices : Indices[n] = k) - 1
IndexKey(i) == Indices[i + 1]

-----------------------------------------------------------------------------
(* Descriptors.  An absent getter or setter (None) is not the same as one   *)
(* that is present and undefined: only the former leaves data data.         *)

None == "none"
Undefined == "undefined"

DataDescriptor(v) ==
    [value |-> v, writable |-> TRUE, enumerable |-> TRUE, configurable |-> TRUE,
     getter |-> None, setter |-> None]

IsAccessor(d) == d.getter # None \/ d.setter # None
IsData(d) == ~IsAccessor(d)

\* Has every attribute an assignment would give it.
IsDefault(d) == IsData(d) /\ d.writable /\ d.enumerable /\ d.configurable

\* The halves of an accessor that can be called.
InvokedGetter(d) == d.getter \notin {None, Undefined}
InvokedSetter(d) == d.setter \notin {None, Undefined}

\* May desc replace the existing property current?
ValidRedefinition(current, desc) ==
    \/ current.configurable
    \/ /\ ~desc.configurable
       /\ desc.enumerable = current.enumerable
       /\ IF IsAccessor(desc)
          THEN /\ IsAccessor(current)
               /\ \A half \in {"getter", "setter"} :
                     desc[half] # None => desc[half] = current[half]
          ELSE /\ IsData(current)
               /\ current.writable \/ (desc.value = current.value /\ ~desc.writable)

\* A partial descriptor is a record of the fields it mentions.
Mentions(partial, fields) == fields \cap DOMAIN partial # {}

MixesKinds(partial) ==
    /\ Mentions(partial, {"getter", "setter"})
    /\ Mentions(partial, {"value", "writable"})

\* The full descriptor of a partial one over the existing property, a set with
\* at most one member: what is not mentioned is kept, or FALSE when it is new.
Completed(partial, existing) ==
    LET keep(field, default) ==
            IF field \in DOMAIN partial THEN partial[field]
            ELSE IF existing = {} THEN default
            ELSE (CHOOSE d \in existing : TRUE)[field]
        accessor == \/ Mentions(partial, {"getter", "setter"})
                    \/ /\ \E d \in existing : IsAccessor(d)
                       /\ ~Mentions(partial, {"value", "writable"})
    IN  [value |-> IF accessor THEN Undefined ELSE keep("value", Undefined),
         writable |-> ~accessor /\ keep("writable", FALSE),
         enumerable |-> keep("enumerable", FALSE),
         configurable |-> keep("configurable", FALSE),
         getter |-> IF accessor THEN keep("getter", None) ELSE None,
         setter |-> IF accessor THEN keep("setter", None) ELSE None]

\* What Object.freeze (readonly) and Object.seal make of a property.
Hardened(d, readonly) ==
    [d EXCEPT !.configurable = FALSE,
              !.writable = @ /\ ~(readonly /\ IsData(d))]

-----------------------------------------------------------------------------
\* The function f, and g where f says nothing.
Overlaid(f, g) == [x \in DOMAIN f \cup DOMAIN g |-> IF x \in DOMAIN f THEN f[x] ELSE g[x]]

(* PropertyTable: a map with the order in which its keys were created.      *)

EmptyTable == [values |-> <<>>, order |-> <<>>]

TableHas(t, k) == k \in DOMAIN t.values
TableGet(t, k) == IF TableHas(t, k) THEN {t.values[k]} ELSE {}

TableInsert(t, k, d) ==
    [values |-> Overlaid([x \in {k} |-> d], t.values),
     order |-> IF TableHas(t, k) THEN t.order ELSE Append(t.order, k)]

TableRemove(t, ks) ==
    [values |-> [k \in DOMAIN t.values \ ks |-> t.values[k]],
     order |-> SelectSeq(t.order, LAMBDA k : k \notin ks)]

TableHarden(t, readonly) ==
    [t EXCEPT !.values = [k \in DOMAIN @ |-> Hardened(@[k], readonly)]]

TableOK(t) ==
    /\ DOMAIN t.values = {t.order[n] : n \in DOMAIN t.order}
    /\ Len(t.order) = Cardinality(DOMAIN t.values)

\* OrdinaryOwnPropertyKeys: indices ascending, the rest as created.
EsKeyOrder(created) ==
    LET present(k) == k \in {created[n] : n \in DOMAIN created}
    IN  SelectSeq(Indices, present) \o SelectSeq(created, LAMBDA k : k \notin IndexKeys)

-----------------------------------------------------------------------------
(* ObjectHeader.                                                            *)

NoObject == "no object"

Header(proto) ==
    [proto |-> proto, extensible |-> TRUE, frozen |-> FALSE, sealed |-> FALSE]

SetPrototype(r, proto) == IF r.frozen THEN r ELSE [r EXCEPT !.proto = proto]

PreventExtensions(r) == [r EXCEPT !.extensible = FALSE]

FreezeHeader(r) == [r EXCEPT !.frozen = TRUE, !.sealed = TRUE, !.extensible = FALSE]

SealHeader(r) == [r EXCEPT !.sealed = TRUE, !.extensible = FALSE]

\* What an operation on a representation answers: the outcome and the result.
Answer(outcome, r) == [outcome |-> outcome, rep |-> r]
=============================================================================
