------------------------------- MODULE MCObjects -------------------------------
(***************************************************************************)
(* The worlds TLC explores: each looks at one part of the object model with *)
(* the keys, values and operations that part needs.                         *)
(***************************************************************************)
EXTENDS Objects

IndexSeq == <<"0", "1", "2">>

\* Partial descriptors: every choice of the fields given, each absent or not.
Field(name, values) == {<<>>} \cup {name :> v : v \in values}
DataPartials(values) ==
    {a @@ b @@ c @@ d : a \in Field("value", values), b \in Field("writable", BOOLEAN),
                        c \in Field("enumerable", BOOLEAN), d \in Field("configurable", BOOLEAN)}
AccessorPartials ==
    {a @@ b @@ c @@ d : a \in Field("getter", {"f", Undefined}), b \in Field("setter", {"f"}),
                        c \in Field("enumerable", {FALSE}), d \in Field("configurable", {FALSE})}

Fixed == "configurable" :> FALSE
ReadOnly == "writable" :> FALSE

ScriptOps == {"assign", "delete", "define", "freeze", "seal", "prevent"}

\* One object, every descriptor.
Descriptors ==
    [heap |-> "t" :> NewOrdinary(NoObject), keys |-> {"a"}, values |-> {"u", "v"},
     partials |-> DataPartials({"u", "v"}) \cup AccessorPartials \cup {("value" :> "u") @@ ("getter" :> "f")},
     ops |-> ScriptOps \cup {"get", "reflect"}, uses |-> {}, depth |-> 1, orders |-> {}]

\* One object, several keys: order, the two representations.
Layout ==
    [heap |-> "t" :> NewOrdinary(NoObject), keys |-> {"0", "a", "b"}, values |-> {"u"},
     partials |-> {Fixed, ReadOnly},
     ops |-> {"assign", "delete", "define", "freeze", "seal"}, uses |-> {}, depth |-> 0, orders |-> {}]

\* Three objects that inherit from each other.
Chain ==
    [heap |-> [o \in {"t", "q", "r"} |-> NewOrdinary(NoObject)], keys |-> {"a"}, values |-> {"u"},
     partials |-> {"setter" :> "f"},
     ops |-> {"reflect", "define", "prevent", "setProto"},
     uses |-> {}, depth |-> 0, orders |-> {}]

\* An array, with lengths as values.
Elements ==
    [heap |-> "a" :> NewArray(NoObject, <<"u">>), keys |-> {"0", "1", "2", "length"},
     values |-> {"1"},
     partials |-> {ReadOnly, "writable" :> TRUE, Fixed, "setter" :> "f", "value" :> "2"},
     ops |-> ScriptOps \cup {"push", "pop", "shift", "unshift", "splice", "sort"},
     uses |-> {}, depth |-> 0, orders |-> {<<>>, <<1>>, <<2, 1>>}]

\* An array with other properties beside its elements.
Mixed ==
    [heap |-> "a" :> NewArray(NoObject, <<>>), keys |-> {"0", "length", "a", "b"},
     values |-> {"u"}, partials |-> {Fixed, ReadOnly},
     ops |-> ScriptOps, uses |-> {}, depth |-> 0, orders |-> {}]

ProxyOps ==
    {"get", "set", "has", "delete", "getOwn", "define", "isExtensible", "prevent",
     "getProto", "setProto", "ownKeys", "revoke"}

\* A proxy, whose traps do as they like to its target while an operation is
\* pending; the object q is only there to become a prototype.
Trapped ==
    [heap |-> "t" :> NewOrdinary(NoObject) @@ "q" :> PreventExtensions(NewOrdinary(NoObject))
                @@ "p" :> NewProxy("t"),
     keys |-> {"a"}, values |-> {"u"},
     partials |-> {"value" :> "u", ReadOnly @@ Fixed, ("getter" :> "f") @@ Fixed},
     ops |-> ProxyOps \cup {"freeze"}, uses |-> {}, depth |-> 1, orders |-> {}]

\* Operations on the proxy from within its own traps.
Nested ==
    [heap |-> "t" :> NewOrdinary(NoObject) @@ "p" :> NewProxy("t"),
     keys |-> {"a"}, values |-> {"u"}, partials |-> {ReadOnly @@ Fixed, ("getter" :> "f") @@ Fixed},
     ops |-> {"get", "set", "delete", "define", "prevent", "revoke"},
     uses |-> {}, depth |-> 2, orders |-> {}]

\* A proxy of a proxy of an array.
Stacked ==
    [heap |-> "t" :> NewArray(NoObject, <<"u">>) @@ "p" :> NewProxy("t") @@ "s" :> NewProxy("p"),
     keys |-> {"0", "length"}, values |-> {"v"},
     partials |-> {ReadOnly @@ Fixed, "getter" :> "f"},
     ops |-> ProxyOps, uses |-> {}, depth |-> 1, orders |-> {}]

Worlds ==
    [descriptors |-> Descriptors, layout |-> Layout, chain |-> Chain,
     elements |-> Elements, mixed |-> Mixed,
     trapped |-> Trapped, nested |-> Nested, stacked |-> Stacked]

\* A prototype for an object behind a proxy, which may be that object.
ProxyPrototypes ==
    [heap |-> [o \in {"t", "q"} |-> NewOrdinary(NoObject)] @@ "p" :> NewProxy("t")
                @@ "s" :> NewProxy("p"),
     keys |-> {}, values |-> {}, partials |-> {}, ops |-> {"setProto"},
     uses |-> {"proxy cycle"}, depth |-> 1, orders |-> {}]

PrototypeWorlds == [prototypes |-> ProxyPrototypes]
=============================================================================
