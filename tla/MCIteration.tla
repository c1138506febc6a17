------------------------------ MODULE MCIteration ------------------------------
(***************************************************************************)
(* The worlds TLC explores: each looks at one part of iteration.            *)
(***************************************************************************)
EXTENDS Iteration

\* A map, two iterators, and callbacks that change it.
Walks ==
    [kind |-> "m" :> "map", keys |-> {NegativeZero, "a", "b"}, values |-> {"x", "y"}, iters |-> 1,
     ops |-> {"insert", "erase", "clear", "walk", "forEach", "computed"}, uses |-> {}, depth |-> 2]

\* Every consumer over the script's iterators, nested.
Protocol ==
    [kind |-> "m" :> "map", keys |-> {"a"}, values |-> {"x"}, iters |-> 0,
     ops |-> {"script", "array", "forOf", "pattern", "spread", "groupBy"} \cup Constructors,
     uses |-> {}, depth |-> 2]

\* Loops over a set that change it.
Loops ==
    [kind |-> "s" :> "set", keys |-> {"a", "b"}, values |-> {"x"}, iters |-> 1,
     ops |-> {"insert", "erase", "clear", "walk", "forOf", "pattern", "Set"}, uses |-> {}, depth |-> 2]

\* Two sets, all set methods.
TwoSets ==
    [kind |-> [c \in {"s", "t"} |-> "set"], keys |-> {"a", "b"}, values |-> {"x"}, iters |-> 0,
     ops |-> SetMethods \cup {"insert", "erase"}, uses |-> {}, depth |-> 1]

\* A set and set-like objects of the script.
SetLikes ==
    [kind |-> "s" :> "set", keys |-> {"a", "b"}, values |-> {"x"}, iters |-> 0,
     ops |-> SetMethods \cup {"insert", "erase", "script"}, uses |-> {}, depth |-> 2]

Worlds == [walks |-> Walks, protocol |-> Protocol, loops |-> Loops,
           twoSets |-> TwoSets, setLikes |-> SetLikes]
=============================================================================
