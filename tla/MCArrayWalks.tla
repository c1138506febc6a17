----------------------------- MODULE MCArrayWalks -----------------------------
(***************************************************************************)
(* The worlds TLC explores: receivers, the methods called on them, and what *)
(* the script may do meanwhile.                                             *)
(***************************************************************************)
EXTENDS ArrayWalks

IndexSeq == <<"0", "1", "2", "3">>
ArgInts == {-1, 0, 1, 2}
NumberInts == {-3, 1, 9}

Call(method, then, args) == [method |-> method, then |-> then, args |-> args]
Entries(then, args) == Call("entries", then, args)

Callbacks ==
    {"forEach", "map", "filter", "some", "every", "find", "findIndex", "findLast", "findLastIndex",
     "reduce", "reduceRight", "reduceFrom"}

Walking ==
    {Call(method, "none", <<>>) : method \in Callbacks}
        \cup {Call("indexOf", "none", <<n>>) : n \in {-1, 1}}
        \cup {Call("lastIndexOf", "none", <<n>>) : n \in {-1, 1, 5}}

Dense3 == NewArray(NoObject, <<"v", "u", "w">>)
Holed3 == [NewArray(NoObject, <<"v", "undefined", "u">>) EXCEPT !.holes = {1}]

World0 ==
    [receivers |-> {}, inherited |-> <<>>, calls |-> {}, ops |-> {}, values |-> {},
     buffers |-> <<>>, views |-> [s \in Slots |-> NoView], budget |-> 0, rank |-> <<>>]

\* Arrays that change while a method walks them.
Arrays ==
    [World0 EXCEPT
        !.receivers = {Dense3, Holed3}, !.calls = Walking, !.values = {"u"}, !.budget = 2,
        !.ops = {"assign", "delete", "getter", "length", "push", "pop", "shift", "unshift", "splice"}]

\* Array-likes, with an index that the prototype has.
Likes ==
    [World0 EXCEPT
        !.receivers = {ArrayLike(3, 0 :> "v" @@ 2 :> "u"), ArrayLike(3, 0 :> "v" @@ 1 :> "u"),
                       ArrayLike(0, <<>>)},
        !.inherited = 1 :> "w", !.calls = Walking, !.values = {"u"}, !.budget = 2,
        !.ops = {"assign", "delete", "length", "push", "pop", "shift", "unshift", "splice",
                 "fill", "copyWithin"}]

\* Methods that read the entries first.
Reads ==
    [World0 EXCEPT
        !.receivers = {Dense3, Holed3, ArrayLike(3, 0 :> "v" @@ 2 :> "u")},
        !.calls = {Entries("toReversed", <<>>), Entries("reverse", <<>>)}
                    \cup {Entries("with", <<n>>) : n \in {-4, -1, 0, 3}}
                    \cup {Entries(then, <<n>>) : then \in {"includes", "at"}, n \in {-1, 0, 2}}
                    \cup {Entries(then, <<m, n>>) : then \in {"slice", "toSpliced"},
                                                    m \in {-2, 1}, n \in {Absent, -1, 2}},
        !.values = {"u"}, !.budget = 2, !.ops = {"getter", "delete", "length", "assign"}]

Sorts ==
    {Entries(then, args) : then \in Sorting, args \in {<<>>, <<"comparator">>, <<"uncallable">>}}

\* Sorting; u and v compare equal.
Ordered ==
    [World0 EXCEPT
        !.receivers = {NewArray(NoObject, <<a, b, "w">>) : a, b \in {"u", "v"}}
                        \cup {Holed3, ArrayLike(2, 1 :> "u")},
        !.calls = Sorts, !.values = {"u"}, !.budget = 1, !.ops = {"getter", "delete", "length", "assign"},
        !.rank = "u" :> 1 @@ "v" :> 1 @@ "w" :> 0 @@ "g" :> 2 @@ "undefined" :> 3]

Typed(slot) == [kind |-> "typed", slot |-> slot]

\* Typed arrays, whose buffer another view changes meanwhile.
Numeric ==
    [World0 EXCEPT
        !.receivers = {Typed("s"), Typed("t")},
        !.buffers = <<<<3, 1, 2, 0, 1>>>>,
        !.views = [s |-> View("Int8", 1, 0, 5), t |-> View("Uint16", 1, 2, 1)],
        !.calls = Sorts \cup {Call(method, "none", <<>>) : method \in Callbacks}
                    \cup {Entries("toReversed", <<>>), Entries("with", <<0>>)},
        !.budget = 1, !.ops = {"store"},
        !.rank = [n \in -16..16 |-> n \div 2]]

\* Views of one buffer and of another, and everything they can do.
Views ==
    [World0 EXCEPT
        !.receivers = {ArrayLike(0, <<>>)},
        !.buffers = <<<<1, 2, 3, 0>>>>,
        !.views = [s |-> View("Int8", 1, 0, 3), t |-> View("Uint16", 1, 2, 1)],
        !.budget = 2, !.ops = {"views"}]

Worlds ==
    [arrays |-> Arrays, likes |-> Likes, reads |-> Reads, ordered |-> Ordered,
     numeric |-> Numeric, views |-> Views]

\* An array-like changed by nothing but the methods that move its elements.
Windows ==
    [Likes EXCEPT !.calls = {}, !.budget = 1, !.ops = {"shift", "unshift", "splice"}]

WindowWorlds == [windows |-> Windows]
=============================================================================
