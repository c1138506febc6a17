------------------------------ MODULE ArrayWalks ------------------------------
(***************************************************************************)
(* The methods of Array.prototype and of the typed arrays that call the     *)
(* script back (vm/builtins_dispatch.rs): callbacks, comparators, getters   *)
(* of elements and of constructor.  Between two calls of the machine the    *)
(* script may do to the receiver what the other methods of ArrayObjects,    *)
(* ArrayLikes and TypedViews do.                                            *)
(*                                                                         *)
(* One method runs at a time: all it keeps is local to the native function, *)
(* so a method called from a callback is one more change of the receiver.   *)
(***************************************************************************)
EXTENDS ArrayObjects, ArrayLikes, TypedViews

CONSTANTS
    Setup,    \* the worlds to explore: receivers, methods, changes of the script
    Needle,   \* what indexOf looks for, and what with and toSpliced put in
    Getter,   \* stands for the value of an element that has a getter
    Got       \* what such a getter returns

\* A row of values of any kind.
IsRow(s) == Len(s) \in Nat /\ s = [n \in 1..Len(s) |-> s[n]]

\* An index with a descriptor has an accessor, and no value in the dense store.
Coherent(r) ==
    /\ IsRow(r.elements) /\ Length(r) <= MaxDenseElements
    /\ \A k \in DOMAIN r.properties.values \cap IndexKeys :
          IsAccessor(r.properties.values[k]) /\ IndexOf(k) \in r.holes

IsArrayObject(r) ==
    /\ DOMAIN r = DOMAIN NewArray(NoObject, <<>>)
    /\ DOMAIN r.properties = DOMAIN EmptyTable
    /\ Coherent(r)

IsArrayLike(r) ==
    /\ r = ArrayLike(r.length, r.content) /\ r.length \in Nat
    /\ r.content = [i \in DOMAIN r.content |-> r.content[i]] /\ DOMAIN r.content \subseteq Nat

\* The elements of typed arrays.
ElementNumbers == UNION {Lowest(kind)..Highest(kind) : kind \in Kinds \cup {"DataView"}}

\* A typed array's own reverse calls nothing back: see ReverseView.
IsTypedIn(world, r) ==
    /\ r = [kind |-> "typed", slot |-> r.slot] /\ r.slot \in Slots
    /\ world.views[r.slot].kind \in Kinds
    /\ \A v \in ElementNumbers : world.rank[v] \in Int
    /\ \A call \in world.calls : call.then # "reverse"

IsReceiver(world, r) ==
    CASE r.kind = "array" -> IsArrayObject(r)
      [] r.kind = "like" -> IsArrayLike(r)
      [] r.kind = "typed" -> IsTypedIn(world, r)

Methods ==
    {"forEach", "map", "filter", "some", "every", "find", "findIndex", "findLast", "findLastIndex",
     "reduce", "reduceRight", "reduceFrom", "indexOf", "lastIndexOf", "entries"}

\* What a script can start from: its views lie within their buffers, and its
\* receivers are objects.
IsWorld(world) ==
    /\ world.buffers \in Seq(Seq(0..(ByteValues - 1)))
    /\ world.views \in [Slots -> [kind : Kinds \cup {"DataView", "none"},
                                 buffer : Nat, offset : Nat, length : Nat]]
    /\ \A s \in Slots :
          LET view == world.views[s]
          IN  view.kind # "none" =>
                 /\ view.buffer \in DOMAIN world.buffers
                 /\ view.offset % Width(view.kind) = 0
                 /\ Start(view, view.length) <= Len(world.buffers[view.buffer])
    /\ \A r \in world.receivers : r.kind \in {"array", "like", "typed"} /\ IsReceiver(world, r)
    /\ DOMAIN world.inherited \subseteq Nat
    /\ \A call \in world.calls :
          /\ call.method \in Methods
          /\ call.method \in {"indexOf", "lastIndexOf"} => call.args[1] \in Int

ASSUME WorldAssumption ==
    /\ IsRow(Indices) /\ "length" \notin IndexKeys
    /\ Getter \notin Int
    /\ \A w \in DOMAIN Setup : IsWorld(Setup[w])

VARIABLES
    setup,    \* the world of this behaviour
    recv,     \* the receiver: an array, an array-like, or a typed array's slot
    walk,     \* the running method
    visits,   \* history: the indices it visited
    budget    \* bound: changes the script may still make

vars == <<setup, recv, walk, visits, budget, buffers, views>>

World == Setup[setup]
Does(op) == op \in World.ops

\* An element that only has a getter.
GetterDescriptor == [DataDescriptor(Undefined) EXCEPT !.getter = "f", !.writable = FALSE]

Backward == {"findLast", "findLastIndex", "reduceRight", "lastIndexOf"}
Reducing == {"reduce", "reduceRight", "reduceFrom"}
Searching == {"indexOf", "lastIndexOf"}

\* sort() and toSorted() without a comparator order by this rank as well: it
\* stands for the strings of the values, or for the numbers they are.
Rank(v) == World.rank[v]

\* Methods of an array that ask its constructor for @@species before they walk.
Species == {"map", "filter"}

IsArray == recv.kind = "array"
IsView == recv.kind = "typed"

-----------------------------------------------------------------------------
(* Elements of the receiver.                                                *)

\* The elements of an array as [[HasProperty]] and [[Get]] see them.
ArrayContent(r) ==
    LET found(i) == CHOOSE d \in ArrayGet(r, IndexKey(i)) : TRUE
    IN  [i \in {j \in 0..(Len(Indices) - 1) : ArrayHas(r, IndexKey(j))} |->
            IF IsAccessor(found(i)) THEN Getter ELSE found(i).value]

\* internal_has_property and get_member: the prototype's come after.
Content ==
    Overlaid(IF IsArray THEN ArrayContent(recv) ELSE recv.content, World.inherited)

\* array_like_length; a typed array has its own.
LengthOf ==
    CASE IsArray -> Length(recv)
      [] IsView -> views[recv.slot].length
      [] OTHER -> recv.length

\* Mutant: any element of the dense store.
DenseAnyway(i) == IsArray /\ i < Length(recv)

\* dense_elements: the dense store is what [[Get]] would answer.
Dense1(i) == IsArray /\ recv.holes = {} /\ i < Length(recv)

\* array_live_at, one entry of array_like_entries, or of a typed array's
\* snapshot: the element i has now, none or one.
LiveAt(i) ==
    IF IsView THEN {walk.snapshot[i + 1]}
    ELSE IF Dense1(i) THEN {Dense(recv, i)}
    ELSE IF i \in DOMAIN Content THEN {Content[i]} ELSE {}

-----------------------------------------------------------------------------
(* The walk.                                                                *)

Idle ==
    [phase |-> "idle", method |-> "none", then |-> "none", len |-> 0, from |-> 0, next |-> 0,
     snapshot |-> <<>>, view |-> NoView, elem |-> Undefined, values |-> <<>>, sort |-> <<>>,
     args |-> <<>>, result |-> <<"none">>, answer |-> <<"none">>]

Finished(w, result) == [w EXCEPT !.phase = "done", !.result = result]
Abrupt(w) == Finished(w, <<"threw">>)

\* The next index of the walk.
Advanced(w) ==
    [w EXCEPT !.phase = "walking", !.next = IF w.method \in Backward THEN @ - 1 ELSE @ + 1]

\* map: the values by index, and the holes between them.
MapHoles(w) ==
    0..(w.len - 1) \ {w.values[n].index : n \in DOMAIN w.values}

\* The array map builds: every slot undefined, then the values, then the holes.
MapResult(w) ==
    LET filled(i) == IF \E n \in DOMAIN w.values : w.values[n].index = i
                     THEN w.values[CHOOSE n \in DOMAIN w.values : w.values[n].index = i].value
                     ELSE Undefined
    IN  [NewArray(NoObject, [m \in 1..w.len |-> filled(m - 1)]) EXCEPT !.holes = MapHoles(w)]

ListOf(w) == [n \in DOMAIN w.values |-> w.values[n].value]

\* What the method answers when its indices are used up.
AtEnd(w) ==
    CASE w.method = "forEach" -> <<"undefined">>
      [] w.method = "map" /\ ~IsView -> <<"elements", w.len, ArrayContent(MapResult(w))>>
      [] w.method = "entries" \/ (w.method = "map" /\ IsView) ->
            <<"elements", w.len, [i \in {w.values[n].index : n \in DOMAIN w.values} |->
                w.values[CHOOSE n \in DOMAIN w.values : w.values[n].index = i].value]>>
      [] w.method = "filter" -> <<"list", ListOf(w)>>
      [] w.method = "some" -> <<"bool", FALSE>>
      [] w.method = "every" -> <<"bool", TRUE>>
      [] w.method \in {"find", "findLast"} -> <<"undefined">>
      [] w.method \in {"findIndex", "findLastIndex", "indexOf", "lastIndexOf"} -> <<"index", -1>>
      [] w.method \in {"reduce", "reduceRight"} ->
            IF w.values = <<>> THEN <<"threw">> ELSE <<"list", ListOf(w)>>
      [] w.method = "reduceFrom" -> <<"list", ListOf(w)>>

\* Value v of index w.next is kept.
Kept(w, v) == [w EXCEPT !.values = Append(@, [index |-> w.next, value |-> v])]

\* Index w.next has value v: the callback is called, or it is done with.
Took(w, v) ==
    CASE w.method = "entries" -> Advanced(Kept(w, v))
      [] w.method \in Searching ->
            IF v = Needle THEN Finished(w, <<"index", w.next>>) ELSE Advanced(w)
      [] w.method \in {"reduce", "reduceRight"} /\ w.values = <<>> -> Advanced(Kept(w, v))
      [] OTHER -> [w EXCEPT !.phase = "callback", !.elem = v]

\* The callback answered.
Answered(w, yes) ==
    CASE w.method = "map" -> Advanced(Kept(w, IF yes THEN "yes" ELSE "no"))
      [] w.method = "filter" -> Advanced(IF yes THEN Kept(w, w.elem) ELSE w)
      [] w.method = "some" /\ yes -> Finished(w, <<"bool", TRUE>>)
      [] w.method = "every" /\ ~yes -> Finished(w, <<"bool", FALSE>>)
      [] w.method \in {"find", "findLast"} /\ yes -> Finished(w, <<"value", w.elem>>)
      [] w.method \in {"findIndex", "findLastIndex"} /\ yes -> Finished(w, <<"index", w.next>>)
      [] w.method \in Reducing -> Advanced(Kept(w, w.elem))
      [] OTHER -> Advanced(w)

Lesser(m, n) == IF m < n THEN m ELSE n

Over(w) == w.next < 0 \/ w.next >= w.len

(* The sort of a typed array merges two runs of its items at a time.        *)
Merges(w) == w.then = "sort" /\ IsView

\* Where the two runs being merged end.
Mid(s) == Lesser(s.i + s.width, Len(s.items))
End(s) == Lesser(s.i + 2 * s.width, Len(s.items))

BothRuns(s) == s.a < Mid(s) /\ s.b < End(s)

\* The comparator is running.
Comparing ==
    walk.phase = "comparing" /\ (Merges(walk) => BothRuns(walk.sort))

-----------------------------------------------------------------------------
Init ==
    /\ setup \in DOMAIN Setup
    /\ recv \in World.receivers
    /\ walk = Idle /\ visits = <<>>
    /\ budget = World.budget
    /\ buffers = World.buffers
    /\ views = World.views

Unmoved == UNCHANGED <<setup, budget>>
Untouched == UNCHANGED <<recv, buffers, views>>

\* Where a method starts.
StartOf(method, args, len) ==
    CASE method = "indexOf" -> IF args[1] < 0 THEN 0 ELSE args[1]
      [] method = "lastIndexOf" -> IF args[1] < 0 THEN -1 ELSE Lesser(args[1], len - 1)
      [] method \in Backward \ {"lastIndexOf"} -> len - 1
      [] OTHER -> 0

\* A method is called: the length is read, a typed array's elements too.
Begin(call) ==
    LET start == StartOf(call.method, call.args, LengthOf)
    IN  /\ walk.phase = "idle"
        /\ walk' = [Idle EXCEPT
              !.phase = IF IsArray /\ call.method \in Species THEN "species" ELSE "walking",
              !.method = call.method, !.then = call.then, !.args = call.args,
              !.len = LengthOf, !.from = start, !.next = start,
              !.snapshot = IF IsView THEN Elements(buffers, views[recv.slot]) ELSE @,
              !.view = IF IsView THEN views[recv.slot] ELSE @]
        /\ visits' = <<>>
        /\ Untouched /\ Unmoved

\* The getter of constructor returned: the default species.
SpeciesDone ==
    /\ walk.phase = "species"
    /\ walk' = [walk EXCEPT !.phase = "walking"]
    /\ Untouched /\ Unmoved /\ UNCHANGED visits

Visited(i, v) == Append(visits, [index |-> i, value |-> v, answer |-> "none"])

\* The index is not there now.
Skip ==
    /\ walk.phase = "walking" /\ ~Over(walk) /\ LiveAt(walk.next) = {}
    /\ walk' = Advanced(walk)
    /\ Untouched /\ Unmoved /\ UNCHANGED visits

\* It is there, with a value.
Take ==
    /\ walk.phase = "walking" /\ ~Over(walk)
    /\ \E v \in LiveAt(walk.next) \ {Getter} :
          walk' = Took(walk, v) /\ visits' = Visited(walk.next, v)
    /\ Untouched /\ Unmoved

\* It is there, with a getter.
CallGetter ==
    /\ walk.phase = "walking" /\ ~Over(walk) /\ Getter \in LiveAt(walk.next)
    /\ walk' = [walk EXCEPT !.phase = "getter"]
    /\ visits' = Visited(walk.next, Got)
    /\ Untouched /\ Unmoved

GetterReturns ==
    /\ walk.phase = "getter"
    /\ walk' = Took(walk, Got)
    /\ Untouched /\ Unmoved /\ UNCHANGED visits

CallbackReturns(yes) ==
    /\ walk.phase = "callback"
    /\ walk' = Answered(walk, yes)
    /\ visits' = [visits EXCEPT ![Len(visits)].answer = IF yes THEN "yes" ELSE "no"]
    /\ Untouched /\ Unmoved

\* What the script throws ends the method.
ScriptThrows ==
    /\ Comparing \/ walk.phase \in {"species", "getter", "callback"}
    /\ walk' = IF walk.phase = "comparing"
               THEN [walk EXCEPT !.phase = "done", !.answer = <<"threw">>]
               ELSE Abrupt(walk)
    /\ Untouched /\ Unmoved /\ UNCHANGED visits

WalkEnds ==
    /\ walk.phase = "walking" /\ Over(walk)
    /\ walk' = [walk EXCEPT !.phase = IF walk.method = "entries" THEN "entries" ELSE "done",
                            !.result = AtEnd(walk)]
    /\ Untouched /\ Unmoved /\ UNCHANGED visits

Return ==
    /\ walk.phase = "done"
    /\ walk' = Idle
    /\ visits' = <<>>
    /\ Untouched /\ Unmoved

-----------------------------------------------------------------------------
(* Methods that read the entries first, and then work on the list.          *)

Entry(w, i) == {w.values[n].value : n \in {m \in DOMAIN w.values : w.values[m].index = i}}

\* dense_entries: holes read as undefined.
DenseEntries(w) ==
    [n \in 1..w.len |-> IF Entry(w, n - 1) = {} THEN Undefined
                        ELSE CHOOSE v \in Entry(w, n - 1) : TRUE]

\* splice_start, clamped_index; and the count that goes with a start.
SpliceCount(arg, start, len) ==
    IF arg = Absent THEN len - start
    ELSE IF arg = NaN \/ arg < 0 THEN 0
    ELSE IF arg > len - start THEN len - start ELSE arg

\* with(index, value)
WithAnswer(items, index, v) ==
    LET n == IF OrZero(index) < 0 THEN Len(items) + index ELSE OrZero(index)
    IN  IF n < 0 \/ n >= Len(items) THEN <<"threw">>
        ELSE <<"list", [items EXCEPT ![n + 1] = v]>>

\* toSpliced(start, deleteCount, item)
ToSplicedAnswer(items, args) ==
    LET start == RelativeIndex(args[1], 0, Len(items))
        count == SpliceCount(args[2], start, Len(items))
    IN  <<"list", SubSeq(items, 1, start) \o <<Needle>>
                        \o SubSeq(items, start + count + 1, Len(items))>>

\* slice(start, end): holes stay holes.
SliceAnswer(w) ==
    LET start == RelativeIndex(w.args[1], 0, w.len)
        count == Span(start, RelativeIndex(w.args[2], w.len, w.len))
        there == {k \in 0..(count - 1) : Entry(w, start + k) # {}}
    IN  <<"elements", count, [k \in there |-> CHOOSE v \in Entry(w, start + k) : TRUE]>>

\* includes(value, fromIndex)
IncludesAnswer(w) ==
    <<"bool", \E i \in RelativeIndex(w.args[1], 0, w.len)..(w.len - 1) : Entry(w, i) = {Needle}>>

\* at(index): an index before the first element is taken for the first.
AtAnswer(w) ==
    LET i == RelativeIndex(w.args[1], 0, w.len)
    IN  IF i >= w.len \/ Entry(w, i) = {} THEN <<"undefined">>
        ELSE <<"value", CHOOSE v \in Entry(w, i) : TRUE>>

TakenAnswer(w) ==
    CASE w.then = "toReversed" -> <<"list", Reversed(DenseEntries(w))>>
      [] w.then = "with" -> WithAnswer(DenseEntries(w), w.args[1], Needle)
      [] w.then = "toSpliced" -> ToSplicedAnswer(DenseEntries(w), w.args)
      [] w.then = "slice" -> SliceAnswer(w)
      [] w.then = "includes" -> IncludesAnswer(w)
      [] w.then = "at" -> AtAnswer(w)

Sorting == {"sort", "toSorted"}

TakeAnswer ==
    /\ walk.phase = "entries" /\ walk.then \notin Sorting \cup {"reverse"}
    /\ walk' = [walk EXCEPT !.phase = "done", !.answer = TakenAnswer(walk)]
    /\ Untouched /\ Unmoved /\ UNCHANGED visits

\* Mutant: a hole is written as undefined.
PutUndefined(r, i, entry) ==
    LET v == IF entry = {} THEN Undefined ELSE CHOOSE x \in entry : TRUE
    IN  IF r.kind = "array" THEN ArraySet(r, IndexKey(i), v).rep ELSE GenericSet(r, i, v)

\* Index i of the receiver gets an entry of the list, or is deleted.
PutEntry(r, i, entry) ==
    IF r.kind = "array"
    THEN IF entry = {} THEN ArrayDelete(r, IndexKey(i)).rep
         ELSE ArraySet(r, IndexKey(i), CHOOSE v \in entry : TRUE).rep
    ELSE IF entry = {} THEN GenericDelete(r, {i})
         ELSE GenericSet(r, i, CHOOSE v \in entry : TRUE)

\* reverse(): pair by pair, from the entries.
ReverseReceiver ==
    LET upTo[n \in 0..(walk.len \div 2)] ==
            IF n = 0 THEN recv
            ELSE PutEntry(PutEntry(upTo[n - 1], n - 1, Entry(walk, walk.len - n)),
                          walk.len - n, Entry(walk, n - 1))
    IN  /\ walk.phase = "entries" /\ walk.then = "reverse"
        /\ \A i \in DOMAIN Content : Content[i] # Getter    \* precondition: data only
        /\ recv' = upTo[walk.len \div 2]
        /\ walk' = [walk EXCEPT !.phase = "done"]
        /\ Unmoved /\ UNCHANGED <<visits, buffers, views>>

-----------------------------------------------------------------------------
(* Sorting.  toSorted and the sort of an array insert item by item; the     *)
(* sort of a typed array merges runs bottom up.  Between two comparisons    *)
(* nothing but the items is kept, and the items are nobody else's.          *)

Swapped(items, n) == [items EXCEPT ![n] = items[n + 1], ![n + 1] = items[n]]

\* sort_by, which is stable.
SortedNow(items) ==
    LET before(m, n) == \/ Rank(items[m]) < Rank(items[n])
                        \/ Rank(items[m]) = Rank(items[n]) /\ m < n
        place(n) == 1 + Cardinality({m \in DOMAIN items : before(m, n)})
    IN  [p \in DOMAIN items |-> items[CHOOSE n \in DOMAIN items : place(n) = p]]

\* The items in order: what the method does with them.
Sorted(w, items) ==
    /\ walk' = [w EXCEPT !.phase = "done",
                         !.answer = IF w.then = "sort" THEN <<"self">> ELSE <<"list", items>>]
    /\ CASE w.then = "sort" /\ IsView -> Stores(w.view, 0, items) /\ UNCHANGED recv
         [] w.then = "sort" /\ IsArray ->
               recv' = DropIndexEntries(WithElements(recv, items)) /\ UNCHANGED viewVars
         [] OTHER -> Untouched

SortState(w) ==
    LET items == DenseEntries(w)
    IN  IF Merges(w)
        THEN [items |-> items, buf |-> items, width |-> 1, i |-> 0, a |-> 0, b |-> 1, k |-> 0]
        ELSE [items |-> items, i |-> 1, j |-> 1]

\* The first comparison, if there is one to make.
StartSort ==
    /\ walk.phase = "entries" /\ walk.then \in Sorting
    /\ IF walk.args = <<"comparator">> /\ walk.len > 1
       THEN walk' = [walk EXCEPT !.phase = "comparing", !.sort = SortState(walk)] /\ Untouched
       ELSE IF walk.args = <<"uncallable">> /\ walk.then = "sort" /\ ~IsView
       THEN walk' = [walk EXCEPT !.phase = "done", !.answer = <<"threw">>] /\ Untouched
       ELSE Sorted(walk, SortedNow(DenseEntries(walk)))
    /\ Unmoved /\ UNCHANGED visits

\* The comparator found the item before j greater, or not.
InsertionCompared(greater) ==
    LET s == walk.sort
        items == IF greater THEN Swapped(s.items, s.j) ELSE s.items
        inPlace == ~greater \/ s.j = 1
    IN  /\ walk.phase = "comparing" /\ ~Merges(walk)
        /\ greater = (Rank(s.items[s.j]) > Rank(s.items[s.j + 1]))
        /\ IF inPlace /\ s.i + 1 = Len(items) THEN Sorted(walk, items)
           ELSE /\ walk' = [walk EXCEPT !.sort =
                       IF inPlace THEN [items |-> items, i |-> s.i + 1, j |-> s.i + 1]
                       ELSE [s EXCEPT !.items = items, !.j = @ - 1]]
                /\ Untouched
        /\ Unmoved /\ UNCHANGED visits

\* The comparator found the first item of the left run greater, or not.
MergeCompared(greater) ==
    LET s == walk.sort
    IN  /\ walk.phase = "comparing" /\ Merges(walk) /\ BothRuns(s)
        /\ greater = (Rank(s.items[s.a + 1]) > Rank(s.items[s.b + 1]))
        /\ walk' = [walk EXCEPT !.sort =
              IF greater THEN [s EXCEPT !.buf[s.k + 1] = s.items[s.b + 1], !.b = @ + 1, !.k = @ + 1]
              ELSE [s EXCEPT !.buf[s.k + 1] = s.items[s.a + 1], !.a = @ + 1, !.k = @ + 1]]
        /\ Untouched /\ Unmoved /\ UNCHANGED visits

\* One run is used up: the rest of the other follows, and the next two runs,
\* of twice the width once the items are through.
MergeNext ==
    LET s == walk.sort
        rest == SubSeq(s.items, s.a + 1, Mid(s)) \o SubSeq(s.items, s.b + 1, End(s))
        buf == Overwritten(s.buf, s.k, rest)
        through == End(s) = Len(s.items)
        width == IF through THEN 2 * s.width ELSE s.width
        from == IF through THEN 0 ELSE End(s)
        next == [items |-> IF through THEN buf ELSE s.items, buf |-> IF through THEN s.items ELSE buf,
                 width |-> width, i |-> from, a |-> from, k |-> from,
                 b |-> Lesser(from + width, Len(s.items))]
    IN  /\ walk.phase = "comparing" /\ Merges(walk) /\ ~BothRuns(s)
        /\ IF width >= Len(s.items) THEN Sorted(walk, next.items)
           ELSE walk' = [walk EXCEPT !.sort = next] /\ Untouched
        /\ Unmoved /\ UNCHANGED visits

-----------------------------------------------------------------------------
(* What the script does to the receiver between calls, in a callback, a     *)
(* comparator or a getter.                                                  *)

Script == Comparing \/ walk.phase \in {"idle", "species", "getter", "callback"}

Changes(op) ==
    /\ Does(op) /\ Script /\ budget > 0
    /\ budget' = budget - 1
    /\ UNCHANGED <<setup, walk, visits>>

Becomes(r) == recv' = r /\ UNCHANGED viewVars

InRange == 0..(MaxDenseElements - 1)

AssignIndex(i, v) ==
    /\ Changes("assign") /\ ~IsView
    /\ Becomes(IF IsArray THEN ArraySet(recv, IndexKey(i), v).rep ELSE GenericSet(recv, i, v))

DeleteIndex(i) ==
    /\ Changes("delete") /\ ~IsView
    /\ Becomes(IF IsArray THEN ArrayDelete(recv, IndexKey(i)).rep ELSE GenericDelete(recv, {i}))

DefineGetter(i) ==
    /\ Changes("getter") /\ IsArray
    /\ Becomes(ArrayDefine(recv, IndexKey(i), GetterDescriptor).rep)

AssignLength(n) ==
    /\ Changes("length") /\ ~IsView
    /\ Becomes(IF IsArray THEN ArraySet(recv, "length", IndexKey(n)).rep
               ELSE GenericSetLength(recv, n))

\* The room the bounds leave for longer receivers.
Grows(n) == LengthOf + n <= MaxDenseElements

Push(v) ==
    /\ Changes("push") /\ ~IsView /\ Grows(1)
    /\ Becomes(IF IsArray THEN ArrayPush(recv, v) ELSE LikePush(recv, v))

Pop ==
    /\ Changes("pop") /\ ~IsView
    /\ Becomes(IF IsArray THEN ArrayPop(recv) ELSE LikePop(recv))

Shift ==
    /\ Changes("shift") /\ ~IsView
    /\ Becomes(IF IsArray THEN ArrayShift(recv) ELSE LikeShift(recv))

Unshift(v) ==
    /\ Changes("unshift") /\ ~IsView /\ Grows(1)
    /\ Becomes(IF IsArray THEN ArrayUnshift(recv, v) ELSE LikeUnshift(recv, <<v>>))

Splice(start, count, items) ==
    /\ Changes("splice") /\ ~IsView
    /\ start + count <= LengthOf /\ Grows(Len(items) - count)
    /\ Becomes(IF IsArray THEN ArraySplice(recv, start, count, items)
               ELSE LikeSplice(recv, start, count, items))

FillLike(v, start, end) ==
    /\ Changes("fill") /\ ~IsView /\ ~IsArray /\ end <= recv.length
    /\ Becomes(LikeFill(recv, v, start, end))

CopyWithinLike(to, from, count) ==
    /\ Changes("copyWithin") /\ ~IsView /\ ~IsArray
    /\ from + count <= recv.length /\ to + count <= recv.length
    /\ Becomes(LikeCopyWithin(recv, to, from, count))

\* One of the methods and assignments of TypedViews.
StoreElement == \E s \in Slots, i \in Args, v \in Stored : AssignElement(s, i, v)

UseViews ==
    \/ Changes("store") /\ UNCHANGED recv /\ (StoreElement \/ \E s \in Slots : ReverseView(s))
    \/ Changes("views") /\ UNCHANGED recv /\ ViewNext

ScriptChanges ==
    \/ \E i \in InRange : DeleteIndex(i) \/ DefineGetter(i) \/ \E v \in World.values : AssignIndex(i, v)
    \/ \E n \in 0..MaxDenseElements : AssignLength(n)
    \/ \E v \in World.values : Push(v) \/ Unshift(v)
    \/ Pop \/ Shift
    \/ \E start, count \in 0..MaxDenseElements, items \in {<<>>} \cup {<<v>> : v \in World.values} :
          Splice(start, count, items)
    \/ \E v \in World.values, start, end \in 0..MaxDenseElements : FillLike(v, start, end)
    \/ \E to, from, count \in 0..MaxDenseElements : CopyWithinLike(to, from, count)
    \/ UseViews

-----------------------------------------------------------------------------
MethodStep ==
    \/ \E call \in World.calls : Begin(call)
    \/ SpeciesDone \/ Skip \/ Take \/ CallGetter \/ GetterReturns
    \/ \E yes \in BOOLEAN : CallbackReturns(yes)
    \/ ScriptThrows \/ WalkEnds \/ Return
    \/ TakeAnswer \/ ReverseReceiver
    \/ StartSort \/ MergeNext
    \/ \E greater \in BOOLEAN : InsertionCompared(greater) \/ MergeCompared(greater)

Next == MethodStep \/ ScriptChanges

Spec == Init /\ [][Next]_vars

-----------------------------------------------------------------------------
TypeOK ==
    /\ ViewTypeOK
    /\ recv.kind \in {"array", "like", "typed"} /\ IsReceiver(World, recv)
    /\ walk.phase \in {"idle", "species", "walking", "getter", "callback", "entries", "comparing", "done"}
    /\ walk.phase = "comparing" => walk.then \in Sorting
    /\ Len(visits) <= walk.len

(* The callback methods, indexOf and the reading of entries do what LiveWalk *)
(* promises: which indices they visit, with which values, and what they     *)
(* answer, whatever the script did meanwhile (mod.rs:886,                   *)
(* builtins_dispatch.rs:1248).  A typed array's content is what it had when *)
(* the method was called (builtins_dispatch.rs:835).                        *)
WalkedContent ==
    IF ~IsView THEN Content
    ELSE LET elements == IF walk.phase = "idle" THEN Elements(buffers, views[recv.slot])
                         ELSE walk.snapshot
         IN  [i \in 0..(Len(elements) - 1) |-> elements[i + 1]]

AbstractStatus ==
    CASE walk.phase \in {"species", "getter", "callback"} -> "script"
      [] walk.phase \in {"entries", "comparing", "done"} -> "done"
      [] OTHER -> walk.phase

Abstract == INSTANCE LiveWalk WITH
    content <- WalkedContent, length <- LengthOf,
    walk <- [status |-> AbstractStatus, method |-> walk.method, len |-> walk.len,
             from |-> walk.from, result |-> walk.result]

ImplementsLiveWalk == Abstract!Spec

\* The entries the method read, by the visits: holes are undefined.
Read(n) ==
    IF \E m \in DOMAIN visits : visits[m].index = n - 1
    THEN visits[CHOOSE m \in DOMAIN visits : visits[m].index = n - 1].value ELSE Undefined

Was(n) == \E m \in DOMAIN visits : visits[m].index = n - 1

\* items are the entries in order, equal ones in the order they had.
InOrder(items) ==
    \E p \in Permutations(1..walk.len) :
        /\ items = [n \in 1..walk.len |-> Read(p[n])]
        /\ \A m, n \in 1..walk.len : m < n =>
              \/ Rank(items[m]) < Rank(items[n])
              \/ Rank(items[m]) = Rank(items[n]) /\ p[m] < p[n]

\* What the receiver holds at index i, none or one.
Holds(i) ==
    IF IsView THEN {Element(buffers, walk.view, i)}
    ELSE IF i \in DOMAIN Content THEN {Content[i]} ELSE {}

(* The methods that read all entries first owe what they do to these        *)
(* entries, however the script changed the receiver while they read or      *)
(* compared: sort and toSorted a stable order (builtins_dispatch.rs:1382,   *)
(* 1032), toSpliced what splice makes of a dense copy (1733), with one      *)
(* entry replaced, slice and reverse the holes as well (1960, 2009); but an *)
(* assignment past the end of an array that was cut meanwhile leaves        *)
(* undefined elements below it, not holes (object.rs:1244).                 *)
ResultsAsOwed ==
    LET then == walk.then
        list == walk.answer[2]
        dense == [n \in 1..walk.len |-> Read(n)]
    IN  walk.phase = "done" /\ walk.result # <<"threw">> /\ walk.answer # <<"threw">> =>
            /\ then = "toSorted" => InOrder(list)
            /\ then = "sort" /\ recv.kind # "like" =>
                  InOrder([n \in 1..walk.len |-> CHOOSE v \in Holds(n - 1) : TRUE])
            /\ then = "toReversed" => \A n \in 1..walk.len : list[n] = dense[walk.len + 1 - n]
            /\ then = "toSpliced" =>
                  LET start == RelativeIndex(walk.args[1], 0, walk.len)
                      count == IF walk.args[2] = Absent THEN walk.len - start
                               ELSE Lesser(walk.len - start, IF walk.args[2] < 0 THEN 0 ELSE walk.args[2])
                  IN  list = ArraySplice(NewArray(NoObject, dense), start, count, <<Needle>>).elements
            /\ then = "slice" =>
                  \A k \in 0..(list - 1) :
                      LET n == k + 1 + RelativeIndex(walk.args[1], 0, walk.len)
                      IN  IF Was(n) THEN walk.answer[3][k] = Read(n)
                          ELSE k \notin DOMAIN walk.answer[3]
            /\ then = "reverse" =>
                  \A n \in 1..walk.len :
                      LET cut == IsArray /\ budget < World.budget
                      IN  \/ 2 * n = walk.len + 1
                          \/ Holds(walk.len - n) = (IF Was(n) THEN {Read(n)} ELSE {})
                          \/ cut /\ ~Was(n) /\ Holds(walk.len - n) = {Undefined}

(* Splice as the language defines it: what the receiver owns afterwards.    *)
(* Elements move by HasProperty, Get and Set, so one it inherits moves too; *)
(* where nothing moves, what it owns stays.                                 *)
SplicedContent(a, start, count, items) ==
    LET n == Len(items)
        had == Overlaid(a.content, World.inherited)
        from(i) == i - n + count
        inserted(i) == start <= i /\ i < start + n
        moved(i) == start + n <= i /\ n # count
        stays(i) == ~inserted(i) /\ ~moved(i)
        there == {i \in 0..(a.length - count + n - 1) :
                    \/ inserted(i)
                    \/ moved(i) /\ from(i) \in DOMAIN had
                    \/ stays(i) /\ i \in DOMAIN a.content}
    IN  [i \in there |-> IF inserted(i) THEN items[i - start + 1]
                         ELSE IF moved(i) THEN had[from(i)] ELSE a.content[i]]

\* The methods of array-likes that are splices do what splice owes.
LikesSplice ==
    LET splices(start, count, items) ==
            recv' = ArrayLike(recv.length - count + Len(items),
                              SplicedContent(recv, start, count, items))
        last == recv.length - 1
    IN  /\ Shift => splices(0, Lesser(1, recv.length), <<>>)
        /\ Pop => splices(IF last < 0 THEN 0 ELSE last, Lesser(1, recv.length), <<>>)
        /\ \A v \in World.values : Push(v) => splices(recv.length, 0, <<v>>)
        /\ \A v \in World.values : Unshift(v) => splices(0, 0, <<v>>)
        /\ \A start, count \in 0..MaxDenseElements, items \in {<<>>} \cup {<<v>> : v \in World.values} :
              Splice(start, count, items) => splices(start, count, items)

Contiguous == DOMAIN recv.content \subseteq 0..(recv.length - 1)

\* Of the indices below its length the receiver inherits none it does not own.
InheritsNone ==
    \A i \in DOMAIN World.inherited : i < recv.length => i \in DOMAIN recv.content

LikesMoveAsOwed == Contiguous /\ InheritsNone => LikesSplice

(* shift, unshift and splice of an array-like move an element it inherits   *)
(* as HasProperty(from + k) would find it (builtins/array.rs:397).          *)
InheritedMove == [][recv.kind = "like" /\ recv' # recv /\ Contiguous => LikesSplice]_vars

(* Methods that move elements move those that were there before the call,   *)
(* whatever overlaps, and leave everything else alone: those of array-likes *)
(* that inherit no element (builtins/array.rs:401) and those of typed       *)
(* arrays (typedarray.rs:670, 933).                                         *)
MovesAsOwed ==
    [][ /\ buffers' # buffers \/ views' # views => ViewMovesExact
        /\ recv.kind = "like" /\ recv' # recv => LikesMoveAsOwed ]_vars
=============================================================================
