------------------------------- MODULE Iteration -------------------------------
(***************************************************************************)
(* Maps, Sets and everything that iterates (the iteration protocol and the  *)
(* methods of Map and Set in vm/mod.rs; loops, array patterns and spreads   *)
(* as compiler/lowering/mod.rs emits them).                                 *)
(*                                                                         *)
(* Whatever consumes an iterator hands control to the script at many        *)
(* places: the callback or the loop body, the adder of a constructor, the   *)
(* iterator's own next and return.  There the script may change any         *)
(* collection, step any iterator and begin other consumers.  The consumers  *)
(* under way are the stack.                                                 *)
(*                                                                         *)
(* An iterator is one of: the script's own (script), which answers as it    *)
(* likes but stays done once done; a snapshot of an array or a string       *)
(* (array); the live iterator of a Map or Set (walk).                       *)
(***************************************************************************)
EXTENDS Collections

CONSTANTS
    Setup,      \* the worlds to explore, by name; see World
    MaxSlots,   \* bound on the slots of a collection
    MaxSize,    \* what a set-like object may report as its size, at most
    Nobody

ASSUME IterationAssumption ==
    /\ MaxSlots \in Nat /\ Zero # NegativeZero
    /\ \A w \in DOMAIN Setup :
          LET world == Setup[w]
              entry == [key : world.keys \cup {Zero}, value : world.values \cup {NoValue}]
          IN  /\ world.iters \in Nat /\ world.depth \in Nat
              /\ Tombstone \notin entry
              /\ Nobody \notin [of : DOMAIN world.kind, idx : Nat, done : BOOLEAN]
              /\ Nobody \notin [of : DOMAIN world.kind, over : BOOLEAN, ahead : Seq(entry)]

VARIABLES
    setup,   \* the world of this behaviour
    slots,   \* the slots of each collection
    iters,   \* the Map and Set iterators the script holds
    stack,   \* consumers under way, innermost last
    ended    \* how the last consumer ended, right after it did

vars == <<setup, slots, iters, stack, ended>>

\* A world: kind says of each collection whether it is a map or a set, keys
\* and values are what the script puts in, iters the number of iterators it
\* holds, ops the operations and consumers it uses, uses the names of what it
\* does not avoid, depth how many consumers it nests.
World == Setup[setup]
Colls == DOMAIN World.kind
Iters == 1..World.iters
Does(op) == op \in World.ops
Maps == {c \in Colls : World.kind[c] = "map"}
Sets == Colls \ Maps

Script == [kind |-> "script"]
Array == [kind |-> "array"]
Walk(i) == [kind |-> "walk", i |-> i]

Done == "done"
Threw == "threw"

SetMethods ==
    {"union", "intersection", "difference", "symmetricDifference",
     "isSubsetOf", "isSupersetOf", "isDisjointFrom"}
Constructors == {"Map", "Set", "WeakMap", "WeakSet"}
MayRefuse == Constructors \ {"Set"}

\* A consumer: what it is (op), the iterator it steps (src) or its own walk
\* (walk), where it is (at), the collection it belongs to (c) and the other
\* set (other), the key it works on, the keys left to ask another set for
\* (todo), what it has built (got), the elements of a pattern left (left) and
\* the answer to the last step (more).  When it is over: why (cause), what
\* `return` of the iterator is (method), the calls of it and what it answered.
Consumer(op, src) ==
    [op |-> op, src |-> src, walk |-> Nobody, at |-> "step", c |-> Nobody, other |-> Nobody,
     key |-> Nobody, todo |-> <<>>, got |-> <<>>, left |-> 0, more |-> TRUE,
     cause |-> "none", method |-> "none", calls |-> 0, answer |-> "none"]

Running == stack # <<>>
Top == Last(stack)
ScriptRuns == IF Running THEN Top.at \in {"body", "next", "has", "return"} ELSE TRUE

Become(f) ==
    /\ stack' = Append(Front(stack), f)
    /\ ended' = Nobody

Begin(f) ==
    /\ Len(stack) < World.depth
    /\ stack' = Append(stack, f)
    /\ ended' = Nobody

\* The consumer is gone, and its caller gets the completion.
End(f, completion) ==
    /\ stack' = Front(stack)
    /\ ended' = [op |-> f.op, src |-> f.src, c |-> f.c, other |-> f.other, got |-> f.got,
                 cause |-> f.cause, method |-> f.method, calls |-> f.calls,
                 answer |-> f.answer, completion |-> completion]

-----------------------------------------------------------------------------
(* What the script does by itself.                                          *)

Scripted(op) == ScriptRuns /\ Does(op)
Quietly == UNCHANGED <<setup, iters, stack>> /\ ended' = Nobody

\* Whether a walk over c has left the start and is not over.
UnderWay(c) ==
    \/ \E i \in Iters : iters[i] # Nobody /\ iters[i].of = c /\ ~iters[i].done /\ iters[i].idx > 0
    \/ \E d \in DOMAIN stack :
          LET w == stack[d].walk IN w # Nobody /\ w.of = c /\ ~w.done /\ w.idx > 0

Insert ==
    /\ Scripted("insert")
    /\ \E c \in Colls, k \in World.keys, v \in World.values :
          /\ slots' = [slots EXCEPT ![c] = IF c \in Maps THEN MapSet(@, k, v) ELSE SetAdd(@, k)]
          /\ Len(slots'[c]) <= MaxSlots
    /\ Quietly

Erase ==
    /\ Scripted("erase")
    /\ \E c \in Colls, k \in World.keys : slots' = [slots EXCEPT ![c] = Delete(@, k)]
    /\ Quietly

ClearAll ==
    /\ Scripted("clear")
    /\ \E c \in Colls :
          /\ "clearUnderWalk" \in World.uses \/ ~UnderWay(c)
          /\ slots' = [slots EXCEPT ![c] = Cleared]
    /\ Quietly

GetOrInsert ==
    /\ Scripted("insert")
    /\ \E c \in Maps, k \in World.keys, v \in World.values :
          /\ ~Has(slots[c], k)
          /\ Len(slots[c]) < MaxSlots
          /\ slots' = [slots EXCEPT ![c] = MapSet(@, k, v)]
    /\ Quietly

\* entries(), keys(), values(); the iterator's next(), called by the script.
MakeWalk ==
    /\ Scripted("walk")
    /\ \E i \in Iters, c \in Colls :
          /\ iters[i] = Nobody
          /\ iters' = [iters EXCEPT ![i] = NewWalk(c)]
    /\ UNCHANGED <<setup, slots, stack>> /\ ended' = Nobody

StepWalk ==
    /\ Scripted("walk")
    /\ \E i \in Iters :
          /\ iters[i] # Nobody
          /\ iters' = [iters EXCEPT ![i] = Stepped(slots[@.of], @)]
    /\ UNCHANGED <<setup, slots, stack>> /\ ended' = Nobody

-----------------------------------------------------------------------------
(* Beginning a consumer.                                                    *)

\* The iterators a script can hand to a consumer.
Sources ==
    {src \in {Script, Array} : Does(src.kind)} \cup {Walk(i) : i \in {j \in Iters : iters[j] # Nobody}}

Own == [kind |-> "own"]
SetLike == "setLike"   \* an object of the script with size, has and keys
Unchanged == UNCHANGED <<setup, slots, iters>>

ForEach ==
    /\ Scripted("forEach")
    /\ \E c \in Colls : Begin([Consumer("forEach", Own) EXCEPT !.walk = NewWalk(c), !.c = c])
    /\ Unchanged

\* The callback of getOrInsertComputed runs when there is no such key yet.
GetOrInsertComputed ==
    /\ Scripted("computed")
    /\ \E c \in Maps, k \in World.keys :
          /\ ~Has(slots[c], k)
          /\ Begin([Consumer("computed", Own) EXCEPT !.c = c, !.key = MapKey(k), !.at = "body"])
    /\ Unchanged

ForOf ==
    /\ Scripted("forOf")
    /\ \E src \in Sources : Begin(Consumer("forOf", src))
    /\ Unchanged

\* [a, b] = source and [a, ...b] = source: left elements, then the rest if any.
ArrayPattern ==
    /\ Scripted("pattern")
    /\ \E src \in Sources, n \in 1..2 : Begin([Consumer("pattern", src) EXCEPT !.left = n])
    /\ Unchanged

\* Rest elements, spreads and TypedArray.from drain the source.
Spread ==
    /\ Scripted("spread")
    /\ \E src \in Sources : Begin(Consumer("spread", src))
    /\ Unchanged

GroupBy ==
    /\ Scripted("groupBy")
    /\ \E src \in Sources : Begin(Consumer("groupBy", src))
    /\ Unchanged

\* A constructor looks its adder up once.  The lookup may fail, which closes
\* the iterator.  A patched adder is the script's.
Constructing(op) ==
    /\ Scripted(op)
    /\ \E src \in Sources, adder \in {"builtin", "patched", "fails"} :
          LET f == Consumer(op, src) IN
          Begin(IF adder = "fails" THEN [f EXCEPT !.at = "close", !.cause = "bodyThrew"]
                                   ELSE [f EXCEPT !.key = adder])
    /\ Unchanged

ConstructMap == Constructing("Map")
ConstructSet == Constructing("Set")
ConstructWeakMap == Constructing("WeakMap")
ConstructWeakSet == Constructing("WeakSet")

\* A mutant: the wrong side when the sizes are equal.
AsksLarger(op, mine, size) ==
    CASE op \in {"union", "symmetricDifference", "isSupersetOf"} -> FALSE
      [] op = "isSubsetOf" -> TRUE
      [] op = "intersection" -> size > mine
      [] op \in {"difference", "isDisjointFrom"} -> mine <= size

AsksOther(op, mine, size) ==
    CASE op \in {"union", "symmetricDifference", "isSupersetOf"} -> FALSE
      [] op = "isSubsetOf" -> TRUE
      [] op = "intersection" -> size >= mine
      [] op \in {"difference", "isDisjointFrom"} -> mine <= size

StartsAsCopy(op) == op \in {"union", "difference", "symmetricDifference"}

SetMethod ==
    /\ \E op \in SetMethods, c \in Sets, other \in Sets \cup {SetLike} :
          /\ Scripted(op)
          /\ other = SetLike => Does("script")
          /\ \E size \in IF other = SetLike THEN {0, MaxSize} ELSE {Size(slots[other])} :
                LET mine == KeysOf(slots[c])
                    asks == AsksOther(op, Len(mine), size)
                    f == [Consumer(op, IF other = SetLike /\ ~asks THEN Script ELSE Own)
                             EXCEPT !.c = c, !.other = other]
                IN  /\ ~(op = "isSubsetOf" /\ Len(mine) > size)
                    /\ ~(op = "isSupersetOf" /\ size > Len(mine))
                    /\ Begin(IF asks
                             THEN [f EXCEPT !.at = "ask", !.todo = mine]
                             ELSE [f EXCEPT !.got = IF StartsAsCopy(op) THEN mine ELSE <<>>,
                                            !.walk = IF other = SetLike THEN Nobody ELSE NewWalk(other)])
    /\ Unchanged

-----------------------------------------------------------------------------
(* Ending one.                                                              *)

Predicates == {"isSubsetOf", "isSupersetOf", "isDisjointFrom"}

Finish(f) ==
    End(f, CASE f.cause \in {"nextThrew", "bodyThrew", "left"} -> f.cause
             [] f.cause = "stopped" /\ f.op \in Predicates -> "false"
             [] f.cause = "exhausted" /\ f.op \in Predicates -> "true"
             [] OTHER -> "normal")

Closing(f, cause) == Become([f EXCEPT !.at = "close", !.cause = cause])
Abandon(f, cause) == Finish([f EXCEPT !.cause = cause])

\* A mutant: a failure of the adder is closed over like a break.
OverAbruptNext(f) == f.cause = "nextThrew"

\* Whether the completion being closed over is a throw.
OverAbrupt(f) == f.cause \in {"nextThrew", "bodyThrew"}

\* The iterator is looked at for a `return`.  Only the script's own has one
\* that does anything; an error of the getter is taken for no method.
Close ==
    /\ Running /\ Top.at = "close"
    /\ LET f == Top IN
       IF f.src # Script THEN Finish(f)
       ELSE \/ \E m \in {"absent", "getterThrows"} : Finish([f EXCEPT !.method = m])
            \/ End([f EXCEPT !.method = "uncallable"], "typeError")
            \/ Become([f EXCEPT !.method = "callable", !.calls = @ + 1, !.at = "return"])
    /\ Unchanged

ReturnAnswers ==
    /\ Running /\ Top.at = "return"
    /\ \E a \in {"object", "primitive", "throws"} :
          LET f == [Top EXCEPT !.answer = a] IN
          CASE OverAbrupt(f) \/ a = "object" -> Finish(f)
            [] ~OverAbrupt(f) /\ a = "primitive" -> End(f, "typeError")
            [] ~OverAbrupt(f) /\ a = "throws" -> End(f, "returnThrew")
    /\ Unchanged

-----------------------------------------------------------------------------
(* Stepping the iterator.                                                   *)

Again(f) == Become([f EXCEPT !.at = "step"])

\* One element of a pattern is bound: on to the next, or it is complete, and
\* then the iterator is closed if it had more.
NextElement(f) ==
    IF f.left > 1 THEN Again([f EXCEPT !.left = @ - 1])
    ELSE IF f.more THEN Closing(f, "stopped") ELSE Abandon(f, "exhausted")

\* What a set method does with a key of the other set.
Collected(f, key) ==
    LET k == MapKey(key) IN
    CASE f.op = "union" -> IF Contains(f.got, k) THEN f.got ELSE Append(f.got, k)
      [] f.op = "intersection" ->
            IF Has(slots[f.c], k) /\ ~Contains(f.got, k) THEN Append(f.got, k) ELSE f.got
      [] f.op = "difference" -> RemoveFirst(f.got, k)
      [] f.op = "symmetricDifference" ->
            IF Contains(f.got, k) THEN RemoveFirst(f.got, k) ELSE Append(f.got, k)

Settles(f, key) ==
    \/ f.op = "isSupersetOf" /\ ~Has(slots[f.c], key)
    \/ f.op = "isDisjointFrom" /\ Has(slots[f.c], key)

\* The item of a constructor: those of entries want an object, whose getters
\* may throw, and weak collections refuse some keys; a built-in adder does its
\* work, a patched one is the script's.
TakeItem(f) ==
    \/ f.key = "patched" /\ Become([f EXCEPT !.at = "body"])
    \/ f.key = "builtin" /\ Again(f)
    \/ f.op \in MayRefuse /\ Closing(f, "bodyThrew")

Take(f, key) ==
    CASE f.op \in {"forOf", "pattern", "groupBy", "forEach"} -> Become([f EXCEPT !.at = "body"])
      [] f.op = "spread" -> Again(f)
      [] f.op \in Constructors -> TakeItem(f)
      [] f.op \in SetMethods \ Predicates -> Again([f EXCEPT !.got = Collected(f, key)])
      [] f.op \in Predicates -> IF Settles(f, key) THEN Closing(f, "stopped") ELSE Again(f)

Exhausted(f) ==
    CASE f.op = "forOf" -> Closing(f, "exhausted")
      [] f.op = "pattern" -> Become([f EXCEPT !.more = FALSE, !.at = "body"])
      [] f.src = Own -> Become([f EXCEPT !.at = "over"])
      [] OTHER -> Abandon(f, "exhausted")

Failed(f) ==
    IF f.op \in Constructors THEN Closing(f, "nextThrew") ELSE Abandon(f, "nextThrew")

Received(f, answer) ==
    CASE answer = Done -> Exhausted(f)
      [] answer = Threw -> Failed(f)
      [] OTHER -> Take(f, answer)

\* A step of a live walk: f is the consumer after it.
StepLive(walk, f) ==
    LET at == StepAt(slots[walk.of], walk) IN
    IF at = NotFound THEN Exhausted(f) ELSE Take(f, slots[walk.of][at].key)

StepOwn ==
    /\ Running /\ Top.at = "step" /\ Top.src = Own
    /\ LET w == Top.walk IN
       StepLive(w, [Top EXCEPT !.walk = Stepped(slots[w.of], w)])
    /\ Unchanged

StepIterator ==
    /\ Running /\ Top.at = "step" /\ Top.src.kind = "walk"
    /\ LET w == iters[Top.src.i] IN
       /\ StepLive(w, Top)
       /\ iters' = [iters EXCEPT ![Top.src.i] = Stepped(slots[w.of], w)]
    /\ UNCHANGED <<setup, slots>>

StepArray ==
    /\ Running /\ Top.at = "step" /\ Top.src = Array
    /\ \E a \in {Done} \cup (IF Top.more THEN World.keys ELSE {}) : Received(Top, a)
    /\ Unchanged

CallNext ==
    /\ Running /\ Top.at = "step" /\ Top.src = Script
    /\ Become([Top EXCEPT !.at = "next"])
    /\ Unchanged

NextAnswers ==
    /\ Running /\ Top.at = "next"
    /\ \E a \in {Done} \cup (IF Top.more THEN World.keys \cup {Threw} ELSE {}) : Received(Top, a)
    /\ Unchanged

Over ==
    /\ Running /\ Top.at = "over"
    /\ Abandon(Top, "exhausted")
    /\ Unchanged

-----------------------------------------------------------------------------
(* Asking the other set: a native one answers at once.                      *)

Asked(f, found) ==
    LET key == Head(f.todo)
        rest == [f EXCEPT !.todo = Tail(@), !.at = "ask"]
    IN  CASE f.op = "intersection" /\ found -> Become([rest EXCEPT !.got = Append(@, key)])
          [] f.op = "difference" /\ ~found -> Become([rest EXCEPT !.got = Append(@, key)])
          [] f.op = "isSubsetOf" /\ ~found -> Abandon(rest, "stopped")
          [] f.op = "isDisjointFrom" /\ found -> Abandon(rest, "stopped")
          [] OTHER -> Become(rest)

Ask ==
    /\ Running /\ Top.at = "ask"
    /\ CASE Top.todo = <<>> -> Abandon(Top, "exhausted")
         [] Top.todo # <<>> /\ Top.other = SetLike -> Become([Top EXCEPT !.at = "has"])
         [] Top.todo # <<>> /\ Top.other # SetLike -> Asked(Top, Has(slots[Top.other], Head(Top.todo)))
    /\ Unchanged

HasAnswers ==
    /\ Running /\ Top.at = "has"
    /\ \/ \E found \in BOOLEAN : Asked(Top, found)
       \/ Abandon(Top, "bodyThrew")
    /\ Unchanged

-----------------------------------------------------------------------------
(* The script comes back from a callback, a loop body or an adder.          *)

BodyReturns ==
    /\ Running /\ Top.at = "body"
    /\ IF Top.op = "computed"
       THEN /\ \E v \in World.values :
                  slots' = [slots EXCEPT ![Top.c] = MapSet(@, Top.key, v)]
            /\ Len(slots'[Top.c]) <= MaxSlots
            /\ Abandon(Top, "exhausted")
       ELSE /\ IF Top.op = "pattern" THEN NextElement(Top) ELSE Again(Top)
            /\ UNCHANGED slots
    /\ UNCHANGED <<setup, iters>>

BodyThrows ==
    /\ Running /\ Top.at = "body"
    /\ IF Top.op \in Constructors THEN Closing(Top, "bodyThrew") ELSE Abandon(Top, "bodyThrew")
    /\ Unchanged

\* break goes through the close block; return and a continue of an outer loop
\* do not.
BodyBreaks ==
    /\ Running /\ Top.at = "body" /\ Top.op = "forOf"
    /\ Closing(Top, "stopped")
    /\ Unchanged

BodyLeaves ==
    /\ Running /\ Top.at = "body" /\ Top.op = "forOf"
    /\ Abandon(Top, "left")
    /\ Unchanged

-----------------------------------------------------------------------------

Init ==
    /\ setup \in DOMAIN Setup
    /\ slots = [c \in Colls |-> <<>>]
    /\ iters = [i \in Iters |-> Nobody]
    /\ stack = <<>>
    /\ ended = Nobody

Begins ==
    \/ ForEach \/ GetOrInsertComputed \/ ForOf \/ ArrayPattern
    \/ Spread \/ GroupBy \/ SetMethod
    \/ ConstructMap \/ ConstructSet \/ ConstructWeakMap \/ ConstructWeakSet

Steps ==
    \/ StepOwn \/ StepIterator \/ StepArray \/ CallNext \/ NextAnswers \/ Over
    \/ Ask \/ HasAnswers
    \/ BodyReturns \/ BodyThrows \/ BodyBreaks \/ BodyLeaves
    \/ Close \/ ReturnAnswers

Next ==
    \/ Insert \/ Erase \/ ClearAll \/ GetOrInsert \/ MakeWalk \/ StepWalk
    \/ Begins \/ Steps

Spec == Init /\ [][Next]_vars

-----------------------------------------------------------------------------
(* Properties                                                               *)

\* Collections hold each key at most once and never -0; walks stay within
\* their collections unless those were cleared; what runs is well formed.
TypeOK ==
    /\ \A c \in Colls :
          /\ \A i \in DOMAIN slots[c] :
                slots[c][i] = Tombstone
                \/ /\ slots[c][i].key \in (World.keys \cup {Zero}) \ {NegativeZero}
                   /\ slots[c][i].value \in World.values \cup {NoValue}
          /\ IsInjective(KeysOf(slots[c]))
    /\ \A i \in Iters :
          iters[i] # Nobody => iters[i].of \in Colls /\ iters[i].idx \in 0..MaxSlots
    /\ \A d \in DOMAIN stack :
          /\ stack[d].at \in {"step", "next", "body", "close", "return", "ask", "has", "over"}
          /\ stack[d].calls \in 0..1
          /\ IsInjective(stack[d].got)

\* Every Map and Set, with the walks under way on it, keeps the promise of
\* ordered collections: native_next and forEach visit what they must and
\* nothing else, whatever the script changes between their steps.
AheadOf(w) ==
    [of |-> w.of, over |-> w.done,
     ahead |-> IF w.done THEN <<>> ELSE Live(SubSeq(slots[w.of], w.idx + 1, Len(slots[w.of])))]
WalkIds == {<<"iterator", i>> : i \in Iters} \cup {<<"frame", d>> : d \in 1..World.depth}
WalkOf(id) ==
    LET w == IF id[1] = "iterator" THEN iters[id[2]]
             ELSE IF id[2] \in DOMAIN stack THEN stack[id[2]].walk ELSE Nobody
    IN  IF w = Nobody THEN Nobody ELSE AheadOf(w)

Ordered == INSTANCE OrderedCollections WITH
    order <- [c \in Colls |-> Live(slots[c])],
    walks <- [id \in WalkIds |-> WalkOf(id)]

ImplementsOrdered == Ordered!Spec

\* A consumer that stops before the iterator is done closes it, once, and one
\* that ran it to its end or was failed by it does not; an exception under
\* way is the outcome whatever closing does, else closing decides.  Where this
\* engine is known to differ is listed.
Owed(e) == e.cause \in {"stopped", "bodyThrew", "left"}
Outcome(e) ==
    CASE e.cause = "nextThrew" -> {"nextThrew"}
      [] e.cause = "bodyThrew" -> {"bodyThrew"}
      [] OTHER -> IF e.method = "uncallable" \/ e.answer = "primitive" THEN {"typeError"}
                  ELSE IF e.answer = "throws" THEN {"returnThrew"}
                  ELSE {"normal", "left", "true", "false"}

Differs(e) ==
    \/ e.op = "forOf" /\ e.cause \in {"exhausted", "bodyThrew", "left"}
    \/ e.op \in {"pattern", "groupBy"} /\ e.cause = "bodyThrew"
    \/ e.op \in Constructors /\ e.cause = "nextThrew"
    \/ e.op \in Constructors /\ e.method = "uncallable"

ClosedAsOwed ==
    ended # Nobody /\ ended.src = Script /\ ~Differs(ended) =>
        /\ ended.calls = IF Owed(ended) /\ ended.method = "callable" THEN 1 ELSE 0
        /\ Owed(ended) /\ ended.op \notin {"forEach", "computed"} => ended.method # "none"
        /\ ended.completion \in Outcome(ended)

\* The set methods of two sets answer what set algebra says, in the order the
\* language prescribes, whichever side they walk.
Algebra(op, a, b) ==
    LET shared(s, t) == SelectSeq(s, LAMBDA k : Contains(t, k))
        without(s, t) == SelectSeq(s, LAMBDA k : ~Contains(t, k))
    IN  CASE op = "union" -> a \o without(b, a)
          [] op = "intersection" -> IF Len(a) <= Len(b) THEN shared(a, b) ELSE shared(b, a)
          [] op = "difference" -> without(a, b)
          [] op = "symmetricDifference" -> without(a, b) \o without(b, a)
          [] op = "isSubsetOf" -> without(a, b) = <<>>
          [] op = "isSupersetOf" -> without(b, a) = <<>>
          [] op = "isDisjointFrom" -> shared(a, b) = <<>>

SetAlgebra ==
    ended # Nobody /\ ended.op \in SetMethods /\ ended.other # SetLike =>
        LET answer == Algebra(ended.op, KeysOf(slots[ended.c]), KeysOf(slots[ended.other])) IN
        IF ended.op \in Predicates THEN ended.completion = (IF answer THEN "true" ELSE "false")
        ELSE ended.completion = "normal" /\ ended.got = answer
=============================================================================
