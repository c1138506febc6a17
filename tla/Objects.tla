-------------------------------- MODULE Objects --------------------------------
(***************************************************************************)
(* The object model of the virtual machine: ordinary objects and arrays,    *)
(* prototype chains (vm/prototype.rs, the member functions of vm/mod.rs),   *)
(* the integrity verbs and setPrototypeOf (builtins/object.rs), array       *)
(* methods (builtins/array.rs), and proxies over all of them (vm/proxy.rs). *)
(*                                                                         *)
(* An operation on an object that is no proxy takes one step.  One on a     *)
(* proxy takes several, and between them the script runs: the handler's     *)
(* getter for the trap, then the trap, may do anything to the objects       *)
(* before the result is checked.  The pending operations are the stack.     *)
(*                                                                         *)
(* A handler is an object the script may change at any time, so whether it  *)
(* has a trap, and what the trap answers, is open.  Descriptor objects      *)
(* passed to defineProperty are plain ones.                                 *)
(***************************************************************************)
EXTENDS OrdinaryObjects, ArrayObjects

CONSTANT Setup
    (* The worlds to explore, by name.  Each has the objects it begins with *)
    (* (heap), the keys, values and partial descriptors a script uses, the  *)
    (* operations it performs (ops), the precondition it respects           *)
    (* (uses: the names of what it does not avoid), and how many pending    *)
    (* operations on proxies it nests (depth).                              *)

VARIABLES
    setup,   \* the world of this behaviour
    heap,    \* the objects
    stack,   \* pending proxy operations and accessor calls, innermost last
    last     \* what the last operation on a proxy answered its caller

vars == <<setup, heap, stack, last>>

World == Setup[setup]
Keys == World.keys
Values == World.values
Does(op) == op \in World.ops
Uses(name) == name \in World.uses

NoAnswer == [op |-> "none"]

NewProxy(target) ==
    [kind |-> "proxy", target |-> target, revoked |-> FALSE, baseExtensible |-> TRUE,
     proto |-> NoObject]

IsProxy(h, o) == h[o].kind = "proxy"
Plain == {o \in DOMAIN heap : ~IsProxy(heap, o)}

-----------------------------------------------------------------------------
(* The object layer: methods of the JSObject trait, which a proxy forwards  *)
(* to its target without any trap.                                          *)

\* Where forwarding from o ends: a plain object, or a revoked proxy.
\* Proxies are nested two deep at most.
Resolved(h, o) ==
    LET forward(p) == IF IsProxy(h, p) /\ ~h[p].revoked THEN h[p].target ELSE p
    IN  forward(forward(o))

\* The plain object behind o, revoked or not.
Behind(h, o) ==
    LET target(p) == IF IsProxy(h, p) THEN h[p].target ELSE p
    IN  target(target(o))

Own(h, o, k) ==
    LET r == h[Resolved(h, o)]
    IN  CASE r.kind = "ordinary" -> OrdinaryGet(r, k)
          [] r.kind = "array" -> ArrayGet(r, k)
          [] r.kind = "proxy" -> {}

HasOwn(h, o, k) ==
    LET r == h[Resolved(h, o)]
    IN  CASE r.kind = "ordinary" -> OrdinaryHas(r, k)
          [] r.kind = "array" -> ArrayHas(r, k)
          [] r.kind = "proxy" -> FALSE

OwnKeys(h, o) ==
    LET r == h[Resolved(h, o)]
    IN  CASE r.kind = "ordinary" -> OrdinaryKeys(r)
          [] r.kind = "array" -> ArrayKeys(r)
          [] r.kind = "proxy" -> <<>>

Extensible(h, o) ==
    LET r == h[Resolved(h, o)]
    IN  IF r.kind = "proxy" THEN r.baseExtensible ELSE r.extensible

\* A revoked proxy has the prototype of its own base.
Proto(h, o) == h[Resolved(h, o)].proto

\* The outcome of a method on the object that o resolves to, and the heap.
Changed(h, o, answer) ==
    [outcome |-> answer.outcome, heap |-> [h EXCEPT ![Resolved(h, o)] = answer.rep]]

DefineOwn(h, o, k, d) ==
    LET r == h[Resolved(h, o)]
    IN  Changed(h, o, CASE r.kind = "ordinary" -> OrdinaryDefine(r, k, d)
                        [] r.kind = "array" -> ArrayDefine(r, k, d)
                        [] r.kind = "proxy" -> Answer("false", r))

SetOwn(h, o, k, v) ==
    LET r == h[Resolved(h, o)]
    IN  Changed(h, o, CASE r.kind = "ordinary" -> OrdinarySet(r, k, v)
                        [] r.kind = "array" -> ArraySet(r, k, v)
                        [] r.kind = "proxy" -> Answer("false", r))

DeleteOwn(h, o, k) ==
    LET r == h[Resolved(h, o)]
    IN  Changed(h, o, CASE r.kind = "ordinary" -> OrdinaryDelete(r, k)
                        [] r.kind = "array" -> ArrayDelete(r, k)
                        [] r.kind = "proxy" -> Answer("false", r))

\* Object.freeze, Object.seal and Object.preventExtensions.
Integrity(h, o, level) ==
    LET r == h[Resolved(h, o)]
        hardened == CASE r.kind = "proxy" -> [r EXCEPT !.baseExtensible = FALSE]
                      [] level = "prevent" /\ r.kind # "proxy" -> PreventExtensions(r)
                      [] level = "freeze" /\ r.kind = "ordinary" -> OrdinaryFreeze(r)
                      [] level = "seal" /\ r.kind = "ordinary" -> OrdinarySeal(r)
                      [] level = "freeze" /\ r.kind = "array" -> ArrayFreeze(r)
                      [] level = "seal" /\ r.kind = "array" -> ArraySeal(r)
    IN  Changed(h, o, Answer("true", hardened))

-----------------------------------------------------------------------------
(* The prototype chain.                                                     *)

\* Object o and the objects above it, nearest first.
Lineage(h, o) ==
    LET line[n \in 0..Cardinality(DOMAIN h)] ==
            IF n = 0 THEN <<o>>
            ELSE LET below == line[n - 1]
                     above == Proto(h, below[Len(below)])
                 IN  IF above = NoObject THEN below ELSE Append(below, above)
    IN  line[Cardinality(DOMAIN h)]

\* find_descriptor: the first descriptor along the chain, if any.
FindDescriptor(h, o, k) ==
    LET line == Lineage(h, o)
        holders == {n \in DOMAIN line : Own(h, line[n], k) # {}}
    IN  IF holders = {} THEN {}
        ELSE Own(h, line[CHOOSE n \in holders : \A m \in holders : n <= m], k)

\* internal_has_property
HasProperty(h, o, k) ==
    LET line == Lineage(h, o) IN \E n \in DOMAIN line : HasOwn(h, line[n], k)

\* internal_delete
Deleted(h, o, k) ==
    IF Own(h, o, k) = {} THEN [outcome |-> "true", heap |-> h] ELSE DeleteOwn(h, o, k)

WithPrototype(h, o, q) ==
    LET r == h[Resolved(h, o)]
    IN  Changed(h, o, Answer("true", IF r.kind = "proxy" THEN [r EXCEPT !.proto = q]
                                     ELSE SetPrototype(r, q)))

\* Mutant: the walk up the chain looks at the new prototype only.
ReplacedUnlessSelf(h, o, q) ==
    IF Proto(h, o) = q THEN [outcome |-> "true", heap |-> h]
    ELSE IF ~Extensible(h, o) \/ q = o THEN [outcome |-> "false", heap |-> h]
    ELSE WithPrototype(h, o, q)

\* setPrototypeOf: refused when o itself is above q.  The walk compares with o,
\* which may be a proxy, though the prototype set is that of the object behind.
Replaced(h, o, q) ==
    LET line == IF q = NoObject THEN <<>> ELSE Lineage(h, q)
    IN  IF Proto(h, o) = q THEN [outcome |-> "true", heap |-> h]
        ELSE IF ~Extensible(h, o) \/ \E n \in DOMAIN line : line[n] = o
        THEN [outcome |-> "false", heap |-> h]
        ELSE WithPrototype(h, o, q)

\* apply_property_descriptor
Applied(h, o, k, partial) ==
    LET existing == Own(h, o, k)
    IN  IF MixesKinds(partial) THEN [outcome |-> "throw", heap |-> h]
        ELSE IF DOMAIN partial = {} /\ existing # {} THEN [outcome |-> "true", heap |-> h]
        ELSE DefineOwn(h, o, k, Completed(partial, existing))

\* set_with_receiver on a plain object: the outcome "call" is a setter to run.
SetWithReceiver(h, o, k, v, receiver) ==
    LET found == FindDescriptor(h, o, k)
        create == DefineOwn(h, receiver, k, DataDescriptor(v))
        no == [outcome |-> "false", heap |-> h]
    IN  IF \E d \in found : IsAccessor(d)
        THEN IF \E d \in found : InvokedSetter(d)
             THEN [outcome |-> "call", heap |-> h] ELSE no
        ELSE IF \/ \E d \in found : ~d.writable
                \/ \E d \in found, e \in Own(h, receiver, k) : ~e.writable
                \/ create.outcome # "true"
        THEN no
        ELSE create
-----------------------------------------------------------------------------
(* Operations on plain objects.                                             *)

Init ==
    /\ setup \in DOMAIN Setup
    /\ heap = World.heap
    /\ stack = <<>>
    /\ last = NoAnswer

Depth == Len(stack)
Top == stack[Depth]
Below == SubSeq(stack, 1, Depth - 1)

\* A getter or setter is called: the script runs until it returns.
CallAccessor == [op |-> "accessor", on |-> NoObject, phase |-> "accessor"]

\* The operation changed the heap, or threw.
Done(result) ==
    /\ heap' = result.heap
    /\ last' = NoAnswer
    /\ UNCHANGED <<setup, stack>>

StartAccessor ==
    /\ Depth < World.depth
    /\ stack' = Append(stack, CallAccessor)
    /\ last' = NoAnswer
    /\ UNCHANGED <<setup, heap>>

\* An assignment resets the attributes of a property that has others: the
\* dictionary and the table of an array keep no trace of them.
ResetsAttributes(o, k) ==
    /\ \/ heap[o].kind = "ordinary" /\ heap[o].inDict
       \/ heap[o].kind = "array" /\ k \notin IndexKeys \cup {"length"}
    /\ \E d \in Own(heap, o, k) : ~IsDefault(d)

\* An element is added to an array that is not extensible.
GrowsFixed(o, k, v) ==
    /\ heap[o].kind = "array" /\ ~heap[o].extensible
    /\ \/ k \in IndexKeys /\ ~HasOwn(heap, o, k)
       \/ k = "length" /\ \E n \in AsLength(v) : n > Length(heap[o])

\* set_member: an accessor anywhere on the chain intercepts, and what is
\* inherited and read-only refuses, before the object's own property_set.
Assign(o, k, v) ==
    LET found == FindDescriptor(heap, o, k)
    IN  /\ Does("assign") /\ o \in Plain
        /\ ResetsAttributes(o, k) => Uses("dictionary assign")
        /\ GrowsFixed(o, k, v) => Uses("grow fixed")
        /\ \/ /\ \E d \in found : InvokedSetter(d)
              /\ StartAccessor
           \/ /\ \A d \in found : IsData(d) /\ d.writable
              /\ Done(SetOwn(heap, o, k, v))

\* Reflect.set, whose receiver may be another object.
ReflectSet(o, k, v, receiver) ==
    LET result == SetWithReceiver(heap, o, k, v, receiver)
    IN  /\ Does("reflect") /\ o \in Plain
        /\ IF result.outcome = "call" THEN StartAccessor ELSE Done(result)

\* get_member: a data property only answers.
Get(o, k) ==
    /\ Does("get") /\ o \in Plain
    /\ \E d \in FindDescriptor(heap, o, k) : InvokedGetter(d)
    /\ StartAccessor

Delete(o, k) == Does("delete") /\ o \in Plain /\ Done(Deleted(heap, o, k))

\* defineProperty may make a read-only length writable again.
RelaxesLength(o, k, partial) ==
    /\ heap[o].kind = "array" /\ k = "length" /\ ~heap[o].lengthWritable
    /\ "writable" \in DOMAIN partial /\ partial.writable

Define(o, k, partial) ==
    /\ Does("define") /\ o \in Plain
    /\ RelaxesLength(o, k, partial) => Uses("relaxed length")
    /\ k = "length" /\ "value" \in DOMAIN partial
          => (GrowsFixed(o, k, partial.value) => Uses("grow fixed"))
    /\ Done(Applied(heap, o, k, partial))

SetProto(o, q) == Does("setProto") /\ o \in Plain /\ Done(Replaced(heap, o, q))

Harden(o, level) == Does(level) /\ Done(Integrity(heap, o, level))

-----------------------------------------------------------------------------
(* Array methods on the dense store.  They do not look at descriptors.      *)

Overridden(r) == TableIndices(r, 0..Len(Indices)) # {}

\* The receivers the methods treat as [[Set]] and [[Delete]] would.
DenseReceiver(o) ==
    /\ heap[o].kind = "array"
    /\ ~Uses("any receiver") => heap[o].extensible /\ ~Overridden(heap[o]) /\ heap[o].holes = {}

DenseStep(o, r) == Done(Changed(heap, o, Answer("true", r)))

Push(o, v) ==
    /\ Does("push") /\ DenseReceiver(o) /\ LengthIsWritable(heap[o])
    /\ Length(heap[o]) < MaxDenseElements    \* bound
    /\ DenseStep(o, ArrayPush(heap[o], v))

Pop(o) ==
    Does("pop") /\ DenseReceiver(o) /\ LengthIsWritable(heap[o]) /\ DenseStep(o, ArrayPop(heap[o]))

Shift(o) ==
    /\ Does("shift") /\ heap[o].kind = "array" /\ LengthIsWritable(heap[o])
    /\ Uses("any receiver") \/ (heap[o].extensible /\ ~Overridden(heap[o]))
    /\ DenseStep(o, ArrayShift(heap[o]))

Unshift(o, v) ==
    /\ Does("unshift") /\ DenseReceiver(o) /\ LengthIsWritable(heap[o])
    /\ Length(heap[o]) < MaxDenseElements    \* bound
    /\ DenseStep(o, ArrayUnshift(heap[o], v))

\* splice and sort do not ask whether length is writable.
Splice(o, start, count, items) ==
    /\ Does("splice") /\ DenseReceiver(o)
    /\ Uses("any receiver") \/ LengthIsWritable(heap[o])
    /\ start <= Length(heap[o]) /\ count <= Length(heap[o]) - start
    /\ Length(heap[o]) - count + Len(items) <= MaxDenseElements    \* bound
    /\ DenseStep(o, ArraySplice(heap[o], start, count, items))

Sort(o) ==
    /\ Does("sort") /\ DenseReceiver(o)
    /\ \E r \in ArraySort(heap[o], World.orders) : DenseStep(o, r)

-----------------------------------------------------------------------------
(* Proxies.                                                                 *)

\* The caller of the innermost operation is answered.
Deliver(answer) ==
    /\ stack' = Below
    /\ last' = [op |-> Top.op, origin |-> Top.origin, key |-> Top.key,
                arg |-> Top.arg, answer |-> answer]

\* A TypeError, or whatever the script threw.
Throws == stack' = Below /\ last' = NoAnswer

Bool(b) == IF b THEN "true" ELSE "false"

\* What a reported descriptor says of the property.
Reported(descriptors) ==
    IF descriptors = {} THEN "undefined"
    ELSE IF \E d \in descriptors : d.configurable THEN "configurable" ELSE "fixed"

KeySet(h, o) == {OwnKeys(h, o)[n] : n \in DOMAIN OwnKeys(h, o)}

\* An operation of a script on proxy p: proxy_parts throws at once when it is
\* revoked, else the handler is asked for its trap.
Request(p, op, k, arg) ==
    /\ Does(op) /\ IsProxy(heap, p) /\ ~heap[p].revoked
    /\ Depth < World.depth
    /\ stack' = Append(stack, [op |-> op, origin |-> p, on |-> p, phase |-> "lookup",
                               key |-> k, arg |-> arg])
    /\ last' = NoAnswer
    /\ UNCHANGED <<setup, heap>>

\* The operation of frame f, none of whose proxies has a trap: the outcome
\* "call" is an accessor to run.  get, set, has and delete run on the plain
\* object t the lookups ended at; for the others proxy_static_trap leaves the
\* arguments of the builtin as they were, so it runs on the outermost proxy,
\* whose object layer forwards.
Performed(f, t) ==
    LET o == f.origin
        found == FindDescriptor(heap, t, f.key)
        says(answer) == [outcome |-> "true", answer |-> answer, heap |-> heap]
        answering(result) == result @@ [answer |-> result.outcome]
    IN  CASE f.op = "get" ->
                IF \E d \in found : InvokedGetter(d) THEN [says(None) EXCEPT !.outcome = "call"]
                ELSE says(IF found = {} THEN Undefined ELSE (CHOOSE d \in found : TRUE).value)
          [] f.op = "set" -> answering(SetWithReceiver(heap, t, f.key, f.arg, f.origin))
          [] f.op = "has" -> says(Bool(HasProperty(heap, t, f.key)))
          [] f.op = "delete" -> answering(Deleted(heap, t, f.key))
          [] f.op = "getOwn" -> says(Reported(Own(heap, o, f.key)))
          [] f.op = "define" -> answering(Applied(heap, o, f.key, f.arg))
          [] f.op = "isExtensible" -> says(Bool(Extensible(heap, o)))
          [] f.op = "prevent" -> answering(Integrity(heap, o, "prevent"))
          [] f.op = "getProto" -> says(Proto(heap, o))
          [] f.op = "setProto" -> answering(Replaced(heap, o, f.arg))
          [] f.op = "ownKeys" -> says(KeySet(heap, o))

\* setPrototypeOf of a proxy to an object the target is at or above: the walk
\* of Replaced does not meet the proxy.
ClosesCycle(f) ==
    /\ f.op = "setProto" /\ f.arg # NoObject
    /\ \E n \in DOMAIN Lineage(heap, f.arg) :
          Lineage(heap, f.arg)[n] = Resolved(heap, f.origin)

\* No trap: the parts are read once more; a target that is a proxy is asked for
\* its trap, any other ends the lookups.
NoTrap ==
    /\ stack # <<>> /\ Top.phase = "lookup"
    /\ UNCHANGED setup
    /\ LET p == heap[Top.on]
           t == p.target
           result == Performed(Top, t)
       IN  \/ /\ p.revoked \/ (IsProxy(heap, t) /\ heap[t].revoked)
              /\ Throws /\ UNCHANGED heap
           \/ /\ ~p.revoked /\ IsProxy(heap, t) /\ ~heap[t].revoked
              /\ stack' = Append(Below, [Top EXCEPT !.on = t])
              /\ last' = NoAnswer /\ UNCHANGED heap
           \/ /\ ~p.revoked /\ ~IsProxy(heap, t)
              /\ ClosesCycle(Top) => Uses("proxy cycle")
              /\ heap' = result.heap
              /\ IF result.outcome = "call"
                 THEN stack' = Append(Below, CallAccessor) /\ last' = NoAnswer
                 ELSE IF result.outcome = "throw" THEN Throws
                 ELSE Deliver(result.answer)

\* The handler has a trap, which is called with the target.
TrapFound ==
    /\ stack # <<>> /\ Top.phase = "lookup"
    /\ stack' = Append(Below, [Top EXCEPT !.phase = "trap"])
    /\ last' = NoAnswer
    /\ UNCHANGED <<setup, heap>>

TrapAnswers(op) ==
    CASE op = "get" -> Values \cup {Undefined}
      [] op = "getOwn" -> {Undefined, "configurable", "fixed"}
      [] op = "getProto" -> Plain \cup {NoObject}
      [] op = "ownKeys" -> SUBSET Keys
      [] OTHER -> {"true", "false"}

\* The answer of a trap is checked against the target as the trap left it.
Target(f) == heap[f.on].target
TargetOwn(f) == Own(heap, Target(f), f.key)
Kept(f) == {d \in TargetOwn(f) : IsData(d) /\ ~d.writable /\ ~d.configurable}
MustShow(f) == \E d \in TargetOwn(f) : ~d.configurable \/ ~Extensible(heap, Target(f))

\* Mutant: what a target that is not extensible has may be reported absent.
AcceptsHiding(f, a) ==
    CASE f.op = "get" -> \A d \in Kept(f) : a = d.value
      [] f.op = "set" -> \A d \in Kept(f) : f.arg = d.value
      [] f.op = "has" -> a = "false" => \A d \in TargetOwn(f) : d.configurable
      [] f.op = "delete" -> a = "true" => \A d \in TargetOwn(f) : d.configurable

\* proxy_get, proxy_set, proxy_has and proxy_delete
AcceptsAccess(f, a) ==
    CASE f.op = "get" -> \A d \in Kept(f) : a = d.value
      [] f.op = "set" -> \A d \in Kept(f) : f.arg = d.value
      [] f.op = "has" -> a = "false" => ~MustShow(f)
      [] f.op = "delete" -> a = "true" => \A d \in TargetOwn(f) : d.configurable

\* The traps about the object as a whole, and getOwnPropertyDescriptor.
AcceptsStatic(f, a) ==
    LET extensible == Extensible(heap, Target(f))
    IN  CASE f.op = "getProto" -> extensible \/ a = Proto(heap, Target(f))
          [] f.op = "setProto" -> a = "true" => (extensible \/ f.arg = Proto(heap, Target(f)))
          [] f.op = "isExtensible" -> a = Bool(extensible)
          [] f.op = "prevent" -> a = "true" => ~extensible
          [] f.op = "getOwn" ->
                IF a = Undefined THEN ~MustShow(f)
                ELSE a = "configurable" => \A d \in TargetOwn(f) : d.configurable

\* ownKeys and defineProperty
AcceptsLayout(f, a) ==
    LET extensible == Extensible(heap, Target(f))
        keys == KeySet(heap, Target(f))
        mustList(k) == ~extensible \/ \E d \in Own(heap, Target(f), k) : ~d.configurable
    IN  CASE f.op = "ownKeys" ->
                /\ \A k \in keys : mustList(k) => k \in a
                /\ ~extensible => a \subseteq keys
          [] f.op = "define" ->
                a = "true" => IF TargetOwn(f) = {} THEN extensible
                              ELSE \A d \in TargetOwn(f) : d.configurable

Accepts(f, a) ==
    IF f.op \in {"get", "set", "has", "delete"} THEN AcceptsAccess(f, a)
    ELSE IF f.op \in {"ownKeys", "define"} THEN AcceptsLayout(f, a)
    ELSE AcceptsStatic(f, a)

TrapReturns(a) ==
    /\ stack # <<>> /\ Top.phase = "trap" /\ a \in TrapAnswers(Top.op)
    /\ IF Accepts(Top, a) THEN Deliver(a) ELSE Throws
    /\ UNCHANGED <<setup, heap>>

AccessorReturns ==
    /\ stack # <<>> /\ Top.phase = "accessor"
    /\ Throws
    /\ UNCHANGED <<setup, heap>>

\* The getter for the trap, or the trap, throws.
ScriptThrows ==
    /\ stack # <<>> /\ Top.phase # "accessor"
    /\ Throws
    /\ UNCHANGED <<setup, heap>>

\* An operation on proxy p has come to a proxy behind it, whose handler is
\* asked: without a trap the builtin will run on p (see Performed).
Forwarded(p) ==
    \E n \in DOMAIN stack :
        /\ stack[n].phase = "lookup" /\ stack[n].origin = p /\ stack[n].on # p
        /\ stack[n].op \notin {"get", "set", "has", "delete"}

\* The revoke function of Proxy.revocable.
Revoke(p) ==
    /\ Does("revoke") /\ IsProxy(heap, p)
    /\ Uses("revoke inner") \/ \A q \in DOMAIN heap : ~(IsProxy(heap, q) /\ heap[q].target = p)
    /\ Uses("revoke outer") \/ ~Forwarded(p)
    /\ Done([heap |-> [heap EXCEPT ![p].revoked = TRUE]])

-----------------------------------------------------------------------------
ScriptStep ==
    \E o \in DOMAIN heap :
        \/ \E k \in Keys :
              \/ Get(o, k) \/ Delete(o, k)
              \/ \E v \in Values :
                    \/ Assign(o, k, v)
                    \/ \E receiver \in DOMAIN heap : ReflectSet(o, k, v, receiver)
              \/ \E partial \in World.partials : Define(o, k, partial)
        \/ \E q \in Plain \cup {NoObject} : SetProto(o, q)
        \/ \E level \in {"freeze", "seal", "prevent"} :
              (IsProxy(heap, o) => level # "prevent") /\ Harden(o, level)
        \/ Revoke(o)

ArrayStep ==
    \E o \in Plain :
        \/ Pop(o) \/ Shift(o) \/ Sort(o)
        \/ \E v \in Values : Push(o, v) \/ Unshift(o, v)
        \/ \E start \in 0..MaxDenseElements, count \in 0..MaxDenseElements,
              items \in {<<>>} \cup {<<v>> : v \in Values} : Splice(o, start, count, items)

ProxyStep ==
    \/ \E p \in DOMAIN heap :
          \/ \E k \in Keys :
                \/ \E op \in {"get", "has", "delete", "getOwn"} : Request(p, op, k, None)
                \/ \E v \in Values : Request(p, "set", k, v)
                \/ \E partial \in World.partials : Request(p, "define", k, partial)
          \/ \E op \in {"isExtensible", "prevent", "getProto", "ownKeys"} :
                Request(p, op, None, None)
          \/ \E q \in Plain \cup {NoObject} : Request(p, "setProto", None, q)
    \/ NoTrap \/ TrapFound \/ AccessorReturns \/ ScriptThrows
    \/ \E a \in (IF stack = <<>> \/ Top.phase # "trap" THEN {} ELSE TrapAnswers(Top.op)) :
          TrapReturns(a)

Next == ScriptStep \/ ArrayStep \/ ProxyStep

Spec == Init /\ [][Next]_vars

-----------------------------------------------------------------------------
(* Properties.                                                              *)

\* Every object is in a state its representation allows: slots match the shape,
\* descriptors kept beside slots belong to one and are not default ones, the
\* table and its order name the same keys, holes and index descriptors lie
\* below the length, an accessor element is a hole.
TypeOK ==
    /\ setup \in DOMAIN Setup
    /\ Depth <= World.depth
    /\ \A o \in DOMAIN heap :
          CASE heap[o].kind = "ordinary" -> OrdinaryOK(heap[o])
            [] heap[o].kind = "array" -> ArrayOK(heap[o])
            [] heap[o].kind = "proxy" -> heap[o].target \in DOMAIN heap

\* The three views of an object's own properties (property_get, has_property and
\* own_keys) agree, and an object whose header says frozen or sealed passes the
\* test of its descriptors (is_frozen_desc_set, is_sealed_desc_set).
ViewsAgree ==
    \A o \in Plain :
        /\ \A k \in Keys : HasOwn(heap, o, k) <=> Own(heap, o, k) # {}
        /\ \A k \in Keys : HasOwn(heap, o, k) <=> k \in KeySet(heap, o)
        /\ Len(OwnKeys(heap, o)) = Cardinality(KeySet(heap, o))
        /\ heap[o].sealed =>
              /\ ~heap[o].extensible
              /\ \A k \in KeySet(heap, o) : \A d \in Own(heap, o, k) :
                    /\ ~d.configurable
                    /\ heap[o].frozen => IsAccessor(d) \/ ~d.writable

\* dense_elements, which reads the store without looking at descriptors when
\* there is no hole, answers what [[Get]] would for each index.
FastPathAgrees ==
    \A o \in Plain :
        heap[o].kind = "array" /\ heap[o].holes = {} =>
            \A i \in 0..(Length(heap[o]) - 1) :
                \E d \in Own(heap, o, IndexKey(i)) : IsData(d) /\ d.value = Dense(heap[o], i)

\* Every way of reading an object that is no proxy gives the same answer: its
\* lookups, its key list, its header, and the store of an array read directly.
ReadsAgree == ViewsAgree /\ FastPathAgrees

\* What an operation on a proxy answers never contradicts what the object behind
\* it has promised, whatever its traps did meanwhile: a frozen value is not
\* misreported, what must show shows, and what cannot change is not said to.
AnswersAgree ==
    last # NoAnswer =>
        LET t == Behind(heap, last.origin)
            own == Own(heap, t, last.key)
            frozen == {d \in own : IsData(d) /\ ~d.writable /\ ~d.configurable}
            extensible == Extensible(heap, t)
            a == last.answer
        IN  CASE last.op = "get" -> \A d \in frozen : a = d.value
              [] last.op = "set" -> a = "true" => \A d \in frozen : last.arg = d.value
              [] last.op = "has" -> a = "false" => \A d \in own : d.configurable /\ extensible
              [] last.op = "delete" -> a = "true" => \A d \in own : d.configurable
              [] last.op = "getOwn" ->
                    /\ a = Undefined => \A d \in own : d.configurable /\ extensible
                    /\ a = "configurable" => \A d \in own : d.configurable
              [] last.op = "define" -> a = "true" => own # {} \/ extensible
              [] last.op = "isExtensible" -> a = Bool(extensible)
              [] last.op = "prevent" -> a = "true" => ~extensible
              [] last.op = "getProto" -> extensible \/ a = Proto(heap, t)
              [] last.op = "setProto" -> a = "true" => extensible \/ last.arg = Proto(heap, t)
              [] last.op = "ownKeys" ->
                    /\ \A k \in KeySet(heap, t) :
                          (\E d \in Own(heap, t, k) : ~d.configurable) => k \in a
                    /\ ~extensible => a = KeySet(heap, t)

\* The plain objects as the contract sees them.
View(r) ==
    LET keys == IF r.kind = "ordinary" THEN OrdinaryKeys(r) ELSE ArrayKeys(r)
        get(k) == IF r.kind = "ordinary" THEN OrdinaryGet(r, k) ELSE ArrayGet(r, k)
    IN  [extensible |-> r.extensible, prototype |-> r.proto,
         properties |-> [k \in {keys[n] : n \in DOMAIN keys} |-> CHOOSE d \in get(k) : TRUE],
         created |-> SelectSeq(keys, LAMBDA k : k \notin IndexKeys)]

Contract == INSTANCE ObjectContract WITH
    NoPrototype <- NoObject, objs <- [o \in Plain |-> View(heap[o])]

\* Every prototype chain ends: setPrototypeOf rejects up front what would loop
\* on every later lookup (builtins/object.rs:421).
PrototypeChainsEnd == Contract!ChainsEnd([o \in Plain |-> View(heap[o])])

\* Every operation, on either representation, through any proxy, keeps the
\* essential invariants of the objects it changes (ObjectContract).
ImplementsContract == Contract!Spec
=============================================================================
