---------------------------- MODULE MCGenerators ----------------------------
\* Instances of Generators for TLC; the other constants are given in the .cfg
\* files.
EXTENDS Generators

Setup(frames_, cells_, tries_, delegates_, uses_) ==
    [frames |-> frames_, cells |-> cells_, tries |-> tries_,
     delegates |-> delegates_, uses |-> uses_]

\* Generators that resume each other and delegate, up to the depth cap; and
\* generators with handlers.
Nested == {Setup(5, 2, 0, 2, {"delegate", "deep"}), Setup(3, 1, 1, 0, {})}

\* One generator that captures a binding.
Captured == {Setup(2, 1, 0, 0, {})}
=============================================================================
