---------------------------- MODULE OrdinaryObjects ----------------------------
(***************************************************************************)
(* OrdinaryObject (vm/object.rs) over vm/shape.rs: the fast representation  *)
(* keeps values in slots laid out by a shape, with full descriptors beside  *)
(* them (attrs) for the properties that are not default ones; the first     *)
(* deletion moves everything into a dictionary for good.                    *)
(*                                                                         *)
(* A shape is the sequence of its keys: the transition table shares shapes  *)
(* between objects, and two shapes with the same keys in the same order are *)
(* the same shape.                                                          *)
(***************************************************************************)
EXTENDS Properties

NewOrdinary(proto) ==
    [kind |-> "ordinary", shape |-> <<>>, slots |-> <<>>, attrs |-> EmptyTable,
     inDict |-> FALSE, dict |-> EmptyTable] @@ Header(proto)

\* The slots whose shape key is k: none or one.
SlotOf(r, k) == {n \in DOMAIN r.shape : r.shape[n] = k}

\* property_get
OrdinaryGet(r, k) ==
    IF r.inDict THEN TableGet(r.dict, k)
    ELSE IF TableHas(r.attrs, k) THEN TableGet(r.attrs, k)
    ELSE {DataDescriptor(r.slots[n]) : n \in SlotOf(r, k)}

\* has_property
OrdinaryHas(r, k) ==
    IF r.inDict THEN TableHas(r.dict, k) ELSE TableHas(r.attrs, k) \/ SlotOf(r, k) # {}

\* own_keys
OrdinaryKeys(r) == EsKeyOrder(IF r.inDict THEN r.dict.order ELSE r.shape)

\* to_dict
ToDict(r) ==
    IF r.inDict THEN r
    ELSE LET desc(k) == CHOOSE d \in OrdinaryGet(r, k) : TRUE
             keys == {r.shape[n] : n \in DOMAIN r.shape}
         IN  [r EXCEPT !.inDict = TRUE,
                       !.dict = [values |-> [k \in keys |-> desc(k)], order |-> r.shape],
                       !.shape = <<>>, !.slots = <<>>, !.attrs = EmptyTable]

\* ensure_slot: a new key moves the object to the next shape.
EnsureSlot(r, k) ==
    IF SlotOf(r, k) # {} THEN r
    ELSE [r EXCEPT !.shape = Append(@, k), !.slots = Append(@, Undefined)]

FillSlot(r, k, v) == [r EXCEPT !.slots = [n \in DOMAIN @ |-> IF r.shape[n] = k THEN v ELSE @[n]]]

\* The apply half of define_property on the fast representation.
Install(r, k, d) ==
    LET placed == FillSlot(EnsureSlot(r, k), k, d.value)
    IN  IF IsDefault(d)
        THEN [placed EXCEPT !.attrs = TableRemove(@, {k})]
        ELSE [placed EXCEPT !.attrs = TableInsert(@, k, d)]

\* define_property
OrdinaryDefine(r, k, d) ==
    LET current == OrdinaryGet(r, k)
    IN  IF \/ current = {} /\ ~r.extensible
           \/ \E c \in current : ~ValidRedefinition(c, d)
        THEN Answer("throw", r)
        ELSE Answer("true",
                    IF r.inDict THEN [r EXCEPT !.dict = TableInsert(@, k, d)]
                    ELSE Install(r, k, d))

\* property_set.  In the dictionary the property becomes a default one.
OrdinarySet(r, k, v) ==
    LET current == OrdinaryGet(r, k)
    IN  IF \/ r.frozen
           \/ \E d \in current : ~d.writable
           \/ current = {} /\ ~r.extensible
        THEN Answer("throw", r)
        ELSE Answer("true",
               IF r.inDict
               THEN [r EXCEPT !.dict = TableInsert(@, k, DataDescriptor(v))]
               ELSE LET placed == FillSlot(EnsureSlot(r, k), k, v)
                    IN  IF TableHas(r.attrs, k)
                        THEN [placed EXCEPT !.attrs.values[k].value = v]
                        ELSE placed)

\* property_delete
OrdinaryDelete(r, k) ==
    IF r.frozen \/ r.sealed THEN Answer("false", r)
    ELSE LET t == ToDict(r)
         IN  IF \E d \in TableGet(t.dict, k) : ~d.configurable
             THEN Answer("false", t)
             ELSE Answer(IF TableHas(t.dict, k) THEN "true" ELSE "false",
                         [t EXCEPT !.dict = TableRemove(@, {k})])

\* Mutant: only the properties that have descriptors already are hardened.
HardenAttrsOnly(r, readonly) ==
    IF r.inDict THEN [r EXCEPT !.dict = TableHarden(@, readonly)]
    ELSE [r EXCEPT !.attrs = TableHarden(@, readonly)]

\* freeze_or_seal_own_properties
HardenOrdinary(r, readonly) ==
    IF r.inDict THEN [r EXCEPT !.dict = TableHarden(@, readonly)]
    ELSE LET hard(k) == Hardened(CHOOSE d \in OrdinaryGet(r, k) : TRUE, readonly)
             late == SelectSeq(OrdinaryKeys(r), LAMBDA k : ~TableHas(r.attrs, k))
         IN  [r EXCEPT !.attrs =
                  [values |-> [k \in {r.shape[n] : n \in DOMAIN r.shape} |-> hard(k)],
                   order |-> @.order \o late]]

OrdinaryFreeze(r) == HardenOrdinary(FreezeHeader(r), TRUE)
OrdinarySeal(r) == HardenOrdinary(SealHeader(r), FALSE)

OrdinaryOK(r) ==
    /\ Len(r.slots) = Len(r.shape)
    /\ \A n \in DOMAIN r.shape : SlotOf(r, r.shape[n]) = {n}
    /\ TableOK(r.attrs) /\ TableOK(r.dict)
    /\ \A k \in DOMAIN r.attrs.values : SlotOf(r, k) # {} /\ ~IsDefault(r.attrs.values[k])
    /\ r.inDict => r.shape = <<>>
    /\ ~r.inDict => r.dict = EmptyTable
=============================================================================
