----------------------------- MODULE ArrayObjects -----------------------------
(***************************************************************************)
(* ArrayObject (vm/object.rs) and the array methods that work on its dense  *)
(* store (builtins/array.rs).  Elements are dense; an index with other than *)
(* default attributes has a descriptor in properties as well; an index in   *)
(* holes has no value in the dense store.                                   *)
(***************************************************************************)
EXTENDS Properties

CONSTANT MaxDenseElements   \* MAX_DENSE_ELEMENTS, and the greatest length

ASSUME DenseAssumption == MaxDenseElements \in 0..(Len(Indices) - 1)

NewArray(proto, elements) ==
    Overlaid([kind |-> "array", elements |-> elements, properties |-> EmptyTable,
              holes |-> {}, lengthWritable |-> TRUE], Header(proto))

Length(r) == Len(r.elements)

\* Element i of the dense store.
Dense(r, i) == r.elements[i + 1]

\* The dense store cut or filled up to n elements.
Resized(elements, n) ==
    [m \in 1..n |-> IF m <= Len(elements) THEN elements[m] ELSE Undefined]

LengthDescriptor(r) ==
    [DataDescriptor(IndexKey(Length(r))) EXCEPT
        !.writable = r.lengthWritable, !.enumerable = FALSE, !.configurable = FALSE]

\* property_get
ArrayGet(r, k) ==
    IF k = "length" THEN {LengthDescriptor(r)}
    ELSE IF TableHas(r.properties, k) \/ k \notin IndexKeys THEN TableGet(r.properties, k)
    ELSE IF IndexOf(k) \in r.holes \/ IndexOf(k) >= Length(r) THEN {}
    ELSE {DataDescriptor(Dense(r, IndexOf(k)))}

\* has_property
ArrayHas(r, k) ==
    \/ k = "length"
    \/ TableHas(r.properties, k)
    \/ k \in IndexKeys /\ IndexOf(k) < Length(r) /\ IndexOf(k) \notin r.holes

\* own_keys: dense elements, length, then the table.
ArrayKeys(r) ==
    SelectSeq(SubSeq(Indices, 1, Length(r)),
              LAMBDA k : IndexOf(k) \notin r.holes /\ ~TableHas(r.properties, k))
        \o <<"length">> \o EsKeyOrder(r.properties.order)

\* The keys of the table that are indices in the set is.
TableIndices(r, is) == {k \in DOMAIN r.properties.values \cap IndexKeys : IndexOf(k) \in is}

\* Mutant: what the table says of the indices that go is kept.
ResizeKeepsTable(r, n) ==
    [fit |-> TRUE,
     rep |-> [r EXCEPT !.elements = Resized(@, n), !.holes = @ \cap 0..(n - 1)]]

\* resize_length: stops above the first index from the top that must stay.
ResizeLength(r, n) ==
    LET stuck == {i \in n..(Length(r) - 1) :
                    \/ r.frozen \/ r.sealed
                    \/ \E d \in TableGet(r.properties, IndexKey(i)) : ~d.configurable}
        clamped == IF stuck = {} THEN n
                   ELSE 1 + CHOOSE i \in stuck : \A j \in stuck : j <= i
    IN  [fit |-> clamped = n,
         rep |-> [r EXCEPT !.elements = Resized(@, clamped),
                           !.holes = IF n >= Length(r) THEN @ ELSE @ \cap 0..(clamped - 1),
                           !.properties =
                                IF n >= Length(r) THEN @
                                ELSE TableRemove(@, TableIndices(r, clamped..Len(Indices)))]]

\* A value as a new length: none when it is no length (a RangeError).
AsLength(v) ==
    IF v \in IndexKeys /\ IndexOf(v) <= MaxDenseElements THEN {IndexOf(v)} ELSE {}

\* The dense store made long enough for index i, and its value there.
Placed(r, i, v) ==
    [r EXCEPT !.elements =
        [Resized(@, IF i >= Len(@) THEN i + 1 ELSE Len(@)) EXCEPT ![i + 1] = v]]

-----------------------------------------------------------------------------
SetLength(r, v) ==
    LET resized == ResizeLength(r, CHOOSE n \in AsLength(v) : TRUE)
    IN  IF ~r.lengthWritable \/ AsLength(v) = {} THEN Answer("throw", r)
        ELSE Answer(IF resized.fit THEN "true" ELSE "throw", resized.rep)

\* Mutant: an element with a descriptor changes in the descriptor alone.
SetDescriptorOnly(r, k, v) ==
    LET i == IndexOf(k)
    IN  IF TableHas(r.properties, k)
        THEN IF ~r.properties.values[k].writable THEN Answer("throw", r)
             ELSE Answer("true", [r EXCEPT !.properties.values[k].value = v])
        ELSE IF i >= MaxDenseElements \/ (i >= Length(r) /\ ~r.lengthWritable)
        THEN Answer("throw", r)
        ELSE Answer("true", [Placed(r, i, v) EXCEPT !.holes = @ \ {i}])

SetElement(r, k, v) ==
    LET i == IndexOf(k)
    IN  IF TableHas(r.properties, k)
        THEN IF ~r.properties.values[k].writable THEN Answer("throw", r)
             ELSE Answer("true", [r EXCEPT
                    !.properties.values[k].value = v,
                    !.elements = [n \in DOMAIN @ |-> IF n = i + 1 THEN v ELSE @[n]]])
        ELSE IF i >= MaxDenseElements \/ (i >= Length(r) /\ ~r.lengthWritable)
        THEN Answer("throw", r)
        ELSE Answer("true", [Placed(r, i, v) EXCEPT !.holes = @ \ {i}])

SetOther(r, k, v) ==
    IF \/ \E d \in TableGet(r.properties, k) : ~d.writable
       \/ ~TableHas(r.properties, k) /\ ~r.extensible
    THEN Answer("throw", r)
    ELSE Answer("true", [r EXCEPT !.properties = TableInsert(@, k, DataDescriptor(v))])

\* property_set
ArraySet(r, k, v) ==
    IF r.frozen THEN Answer("throw", r)
    ELSE IF k = "length" THEN SetLength(r, v)
    ELSE IF k \in IndexKeys THEN SetElement(r, k, v)
    ELSE SetOther(r, k, v)

-----------------------------------------------------------------------------
DefineLength(r, d) ==
    LET n == CHOOSE m \in AsLength(d.value) : TRUE
        resized == ResizeLength([r EXCEPT !.lengthWritable = d.writable], n)
    IN  IF \/ IsAccessor(d) \/ d.configurable \/ AsLength(d.value) = {}
           \/ ~r.lengthWritable /\ n # Length(r)
        THEN Answer("throw", r)
        ELSE Answer(IF resized.fit THEN "true" ELSE "throw", resized.rep)

DefineElement(r, k, d) ==
    LET i == IndexOf(k)
        placed == Placed(r, i, IF IsAccessor(d) THEN Undefined ELSE d.value)
    IN  IF \/ i >= MaxDenseElements
           \/ \E c \in ArrayGet(r, k) : ~ValidRedefinition(c, d)
           \/ /\ ArrayGet(r, k) = {}
              /\ ~r.extensible \/ (i >= Length(r) /\ ~r.lengthWritable)
        THEN Answer("throw", r)
        ELSE Answer("true",
               IF IsDefault(d)
               THEN [placed EXCEPT !.properties = TableRemove(@, {k}), !.holes = @ \ {i}]
               ELSE [placed EXCEPT !.properties = TableInsert(@, k, d),
                                   !.holes = IF IsAccessor(d) THEN @ \cup {i} ELSE @])

DefineOther(r, k, d) ==
    IF \/ \E c \in ArrayGet(r, k) : ~ValidRedefinition(c, d)
       \/ ArrayGet(r, k) = {} /\ ~r.extensible
    THEN Answer("throw", r)
    ELSE Answer("true", [r EXCEPT !.properties = TableInsert(@, k, d)])

\* define_property
ArrayDefine(r, k, d) ==
    IF r.frozen THEN Answer("throw", r)
    ELSE IF k = "length" THEN DefineLength(r, d)
    ELSE IF k \in IndexKeys THEN DefineElement(r, k, d)
    ELSE DefineOther(r, k, d)

\* property_delete
ArrayDelete(r, k) ==
    IF \/ r.frozen \/ r.sealed \/ k = "length"
       \/ \E d \in TableGet(r.properties, k) : ~d.configurable
    THEN Answer("false", r)
    ELSE LET removed == [r EXCEPT !.properties = TableRemove(@, {k})]
         IN  IF k \in IndexKeys /\ IndexOf(k) < Length(r)
             THEN Answer("true", [removed EXCEPT !.elements[IndexOf(k) + 1] = Undefined,
                                                 !.holes = @ \cup {IndexOf(k)}])
             ELSE Answer(IF TableHas(r.properties, k) THEN "true" ELSE "false", removed)

\* The dense elements that have no descriptor of their own yet get one.
HardenArray(r, readonly) ==
    LET hard(k) == Hardened(CHOOSE d \in ArrayGet(r, k) : TRUE, readonly)
        plain == SelectSeq(ArrayKeys(r), LAMBDA k : k # "length" /\ ~TableHas(r.properties, k))
    IN  [r EXCEPT !.properties =
            [values |-> [k \in DOMAIN @.values \cup {plain[n] : n \in DOMAIN plain} |-> hard(k)],
             order |-> @.order \o plain]]

ArrayFreeze(r) == [HardenArray(FreezeHeader(r), TRUE) EXCEPT !.lengthWritable = FALSE]
ArraySeal(r) == HardenArray(SealHeader(r), FALSE)

-----------------------------------------------------------------------------
(* The methods on the dense store.                                          *)

\* drop_index_property_entries
DropIndexEntries(r) ==
    [r EXCEPT !.holes = {}, !.properties = TableRemove(@, IndexKeys)]

\* length_is_writable, which push, pop, shift and unshift ask for.
LengthIsWritable(r) == r.lengthWritable /\ ~r.frozen

WithElements(r, elements) == [r EXCEPT !.elements = elements]

ArrayPush(r, v) == WithElements(r, Append(r.elements, v))

ArrayPop(r) == WithElements(r, IF r.elements = <<>> THEN <<>> ELSE SubSeq(r.elements, 1, Length(r) - 1))
ArrayShift(r) == IF r.elements = <<>> THEN r ELSE DropIndexEntries(WithElements(r, Tail(r.elements)))
ArrayUnshift(r, v) == DropIndexEntries(WithElements(r, <<v>> \o r.elements))

\* splice: count elements from start on are replaced by items.
ArraySplice(r, start, count, items) ==
    DropIndexEntries(WithElements(r, SubSeq(r.elements, 1, start) \o items
                                        \o SubSeq(r.elements, start + count + 1, Length(r))))

\* replace_elements, for sort: some order of what [[Get]] answered, absent
\* elements as undefined.
ArraySort(r, orders) ==
    LET read(i) == IF \E d \in ArrayGet(r, IndexKey(i)) : IsData(d)
                   THEN (CHOOSE d \in ArrayGet(r, IndexKey(i)) : TRUE).value ELSE Undefined
    IN  {DropIndexEntries(WithElements(r, [n \in 1..Length(r) |-> read(p[n] - 1)])) :
            p \in {q \in orders : DOMAIN q = 1..Length(r)}}

ArrayOK(r) ==
    /\ Length(r) <= MaxDenseElements
    /\ TableOK(r.properties)
    /\ "length" \notin DOMAIN r.properties.values
    /\ r.holes \subseteq 0..(Length(r) - 1)
    /\ TableIndices(r, Length(r)..Len(Indices)) = {}
    /\ \A k \in DOMAIN r.properties.values \cap IndexKeys :
          IsAccessor(r.properties.values[k]) => IndexOf(k) \in r.holes
=============================================================================
