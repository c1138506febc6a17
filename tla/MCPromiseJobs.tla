---------------------------- MODULE MCPromiseJobs ----------------------------
\* Instances of PromiseJobs for TLC; the other constants are given in the .cfg
\* files.
EXTENDS PromiseJobs

Setup(promises_, aggs_, elements_, uses_) ==
    [promises |-> promises_, aggs |-> aggs_, elements |-> elements_,
     uses |-> uses_]

\* Everything but aggregations; and each aggregation of two elements.
Programs ==
    {Setup(3, 0, 0, {"reject", "then", "finally", "executor", "async",
                     "thenable"}),
     Setup(5, 1, 2, {"executor", "all", "any"}),
     Setup(5, 1, 2, {"executor", "allSettled", "race"})}

Awaiting == {Setup(2, 0, 0, {"executor", "async"})}
=============================================================================
