------------------------------ MODULE ArrayLikes ------------------------------
(***************************************************************************)
(* The generic halves of the array methods (builtins/array.rs): they work   *)
(* on any object with a length and index properties, and touch only the     *)
(* indices that exist, since the length may be anything up to 2^53 - 1.     *)
(*                                                                         *)
(* An array-like here is an extensible ordinary object with plain data      *)
(* properties: its length, and the values of the indices it has.            *)
(***************************************************************************)
EXTENDS Properties

LikeUndefined == "undefined"

ArrayLike(length, content) == [kind |-> "like", length |-> length, content |-> content]

\* own_index_keys_below, as a set.
OwnIndicesBelow(a, limit) == {i \in DOMAIN a.content : i < limit}

\* generic_get: the object's own property only.
GenericGet(a, i) == IF i \in DOMAIN a.content THEN a.content[i] ELSE LikeUndefined

GenericSet(a, i, v) == [a EXCEPT !.content = Overlaid([k \in {i} |-> v], @)]
GenericDelete(a, is) == [a EXCEPT !.content = [i \in DOMAIN @ \ is |-> @[i]]]
GenericSetLength(a, n) == [a EXCEPT !.length = n]

\* A row of values written from index i on.
GenericSetAll(a, i, values) ==
    [a EXCEPT !.content = Overlaid([m \in i..(i + Len(values) - 1) |-> values[m - i + 1]], @)]

\* Mutant: what the window leaves behind where nothing moved in stays.
WindowKeepsRest(a, from, to, delta, len) ==
    LET moved == {k \in OwnIndicesBelow(a, len) : from <= k /\ k < to}
    IN  IF to <= from \/ delta = 0 THEN a
        ELSE [a EXCEPT !.content =
                Overlaid([k \in {m + delta : m \in moved} |-> a.content[k - delta]], @)]

\* generic_window_move: the indices of [from, to) move by delta; those of the
\* window's destination that get nothing are deleted first.
WindowMove(a, from, to, delta, len) ==
    LET moved == {k \in OwnIndicesBelow(a, len) : from <= k /\ k < to}
        destinations == {k + delta : k \in moved}
        vacated == {k \in OwnIndicesBelow(a, len) :
                      from + delta <= k /\ k < to + delta /\ k \notin destinations}
    IN  IF to <= from \/ delta = 0 THEN a
        ELSE [a EXCEPT !.content = Overlaid([k \in destinations |-> @[k - delta]],
                                            [k \in DOMAIN @ \ vacated |-> @[k]])]

\* generic_delete_range
DeleteRange(a, from, to, len) ==
    GenericDelete(a, {k \in OwnIndicesBelow(a, len) : from <= k /\ k < to})

-----------------------------------------------------------------------------
LikePush(a, v) == GenericSetLength(GenericSet(a, a.length, v), a.length + 1)

LikePop(a) ==
    IF a.length = 0 THEN a
    ELSE GenericSetLength(GenericDelete(a, {a.length - 1}), a.length - 1)

LikeShift(a) ==
    IF a.length = 0 THEN a
    ELSE GenericSetLength(
            DeleteRange(WindowMove(a, 1, a.length, -1, a.length), a.length - 1, a.length, a.length),
            a.length - 1)

LikeUnshift(a, items) ==
    LET n == Len(items)
        moved == WindowMove(a, 0, a.length, n, a.length)
    IN  GenericSetLength(IF n = 0 THEN a ELSE GenericSetAll(moved, 0, items), a.length + n)

\* splice once its start and count are known.
LikeSplice(a, start, count, items) ==
    LET n == Len(items)
        newLength == a.length - count + n
        moved == WindowMove(a, start + count, a.length, n - count, a.length)
        cut == IF n < count THEN DeleteRange(moved, newLength, a.length, a.length) ELSE moved
    IN  GenericSetLength(GenericSetAll(cut, start, items), newLength)

\* fill and copyWithin once their bounds are known.
LikeFill(a, v, start, end) == GenericSetAll(a, start, [n \in 1..(end - start) |-> v])

LikeCopyWithin(a, to, from, count) ==
    GenericSetAll(a, to, [n \in 1..count |-> GenericGet(a, from + n - 1)])
=============================================================================
