---------------------------- MODULE PromiseCore ----------------------------
(***************************************************************************)
(* The operations on promises of src/src/vm/mod.rs that run no JavaScript: *)
(* promise_settle, promise_resolve (the resolution procedure),             *)
(* promise_then, and the per-element handlers of Promise.all, race,        *)
(* allSettled and any.                                                     *)
(*                                                                         *)
(* They are functions of a record [promises, jobs]: the promises made so   *)
(* far (their index is their id) and the microtask queue.                  *)
(***************************************************************************)
EXTENDS SequencesExt

CONSTANTS
    Plain,       \* values that are neither promises nor thenables
    Thenable,    \* objects with a callable `then`
    Undefined,
    CycleError,  \* TypeError of a promise resolved with itself
    NoAggregate  \* TypeError of an element handler that came too late

Ref(p) == [promise |-> p]
Array(id) == [array |-> id]             \* the array an aggregation fills
AggregateError(id) == [errors |-> id]   \* ... or its errors

Kinds == {"all", "race", "allSettled", "any"}

\* A handler of a reaction: absent, a JavaScript function, the pass-through of
\* finally, or the native an aggregation gives its index-th element.
Handler(kind, agg, index) == [kind |-> kind, agg |-> agg, index |-> index]
None == Handler("none", 0, 0)
Code == Handler("code", 0, 0)
Finally == Handler("finally", 0, 0)
Element(id, index) == Handler("element", id, index)

\* `source` is the promise the reaction was registered on; the code has no
\* need of it.
Reaction(source, on_fulfilled, on_rejected, target) ==
    [source |-> source, on_fulfilled |-> on_fulfilled,
     on_rejected |-> on_rejected, target |-> target]
ReactionJob(reaction, argument, fulfilled) ==
    [kind |-> "reaction", reaction |-> reaction, argument |-> argument,
     fulfilled |-> fulfilled]
ThenableJob(p, v) == [kind |-> "thenable", promise |-> p, thenable |-> v]

\* Mutant: a settled promise can be settled again.
SettleAgain(h, p, state, v) ==
    LET reactions == h.promises[p].reactions
    IN  [promises |-> [h.promises EXCEPT ![p] =
                          [state |-> state, value |-> v, reactions |-> <<>>]],
         jobs |-> h.jobs \o [i \in DOMAIN reactions |->
                      ReactionJob(reactions[i], v, state = "Fulfilled")]]

\* Mutant: the reactions of a settled promise are copied, not taken.
SettleKeepsReactions(h, p, state, v) ==
    LET reactions == h.promises[p].reactions
    IN  IF h.promises[p].state # "Pending" THEN h
        ELSE [promises |-> [h.promises EXCEPT ![p] =
                [state |-> state, value |-> v, reactions |-> reactions]],
              jobs |-> h.jobs \o [i \in DOMAIN reactions |->
                           ReactionJob(reactions[i], v, state = "Fulfilled")]]

\* promise_settle.
Settle(h, p, state, v) ==
    LET reactions == h.promises[p].reactions
    IN  IF h.promises[p].state # "Pending" THEN h
        ELSE [promises |-> [h.promises EXCEPT ![p] =
                [state |-> state, value |-> v, reactions |-> <<>>]],
              jobs |-> h.jobs \o [i \in DOMAIN reactions |->
                           ReactionJob(reactions[i], v, state = "Fulfilled")]]

New(h) == [h EXCEPT !.promises =
              Append(@, [state |-> "Pending", value |-> Undefined,
                         reactions |-> <<>>])]

\* Mutant: only a pending promise is waited for.
ReactIfPending(h, p, reaction) ==
    IF h.promises[p].state = "Pending"
    THEN [h EXCEPT !.promises[p].reactions = Append(@, reaction)]
    ELSE h

\* A reaction on p waits for its settlement, or is queued when p has one.
React(h, p, reaction) ==
    IF h.promises[p].state = "Pending"
    THEN [h EXCEPT !.promises[p].reactions = Append(@, reaction)]
    ELSE [h EXCEPT !.jobs =
             Append(@, ReactionJob(reaction, h.promises[p].value,
                                   h.promises[p].state = "Fulfilled"))]

Refs(h) == {Ref(p) : p \in DOMAIN h.promises}

\* promise_resolve.
Resolve(h, p, v) ==
    CASE v = Ref(p) -> Settle(h, p, "Rejected", CycleError)
      [] v \in Refs(h) \ {Ref(p)} ->
            React(h, v.promise, Reaction(v.promise, None, None, p))
      [] v \in Thenable -> [h EXCEPT !.jobs = Append(@, ThenableJob(p, v))]
      [] OTHER -> Settle(h, p, "Fulfilled", v)

\* promise_then; the child is the promise made last.
Then(h, p, on_fulfilled, on_rejected) ==
    React(New(h), p, Reaction(p, on_fulfilled, on_rejected,
                              Len(h.promises) + 1))

\* `value` as a promise: itself, or a new promise resolved with it.
AsPromise(h, v) ==
    IF v \in Refs(h) THEN h ELSE Resolve(New(h), Len(h.promises) + 1, v)
PromiseOf(h, v) == IF v \in Refs(h) THEN v.promise ELSE Len(h.promises) + 1

-----------------------------------------------------------------------------
(* Aggregations.  A removed one (PromiseAggregation leaves the map) is kept *)
(* with `live` FALSE; `elements` are the promises of its elements.          *)

Outcome(fulfilled, v) == [fulfilled |-> fulfilled, value |-> v]

\* The loop of promise_aggregate over the elements: each is made a promise and
\* gets its two handlers.
AddElement(acc, id, i, v) ==
    LET p == PromiseOf(acc.h, v)
    IN  [h |-> Then(AsPromise(acc.h, v), p, Element(id, i), Element(id, i)),
         promises |-> Append(acc.promises, p)]
AddElements(h, id, elements) ==
    LET after[n \in 0..Len(elements)] ==
            IF n = 0 THEN [h |-> h, promises |-> <<>>]
            ELSE AddElement(after[n - 1], id, n, elements[n])
    IN  after[Len(elements)]

\* Mutant: `all` counts the elements that answered, in whichever way, and its
\* result waits for all of them.
AnswersAllWait(agg, answer) ==
    CASE agg.kind = "race" -> TRUE
      [] agg.kind \in {"all", "allSettled"} -> agg.remaining = 1
      [] agg.kind = "any" -> answer.fulfilled \/ agg.rejections + 1 = agg.total

\* Does this answer of an element settle the result?
Answers(agg, answer) ==
    CASE agg.kind = "race" -> TRUE
      [] agg.kind = "all" -> ~answer.fulfilled \/ agg.remaining = 1
      [] agg.kind = "allSettled" -> agg.remaining = 1
      [] agg.kind = "any" -> answer.fulfilled \/ agg.rejections + 1 = agg.total

\* ... and with what?
Verdict(id, agg, answer) ==
    CASE agg.kind = "allSettled" \/ (agg.kind = "all" /\ answer.fulfilled)
            -> Outcome(TRUE, Array(id))
      [] agg.kind = "any" /\ ~answer.fulfilled
            -> Outcome(FALSE, AggregateError(id))
      [] OTHER -> answer

\* What dispatch_aggregation leaves of a live aggregation; of one it removes
\* only the values of an array are looked at again.
Noted(agg, index, answer) ==
    [agg EXCEPT
        !.values[index] = answer,
        !.rejections = IF answer.fulfilled THEN @ ELSE @ + 1,
        !.remaining = IF agg.kind \in {"all", "allSettled"} THEN @ - 1 ELSE @,
        !.live = ~Answers(agg, answer)]

-----------------------------------------------------------------------------
(* What a heap of promises and jobs is made of.                            *)

States == {"Pending", "Fulfilled", "Rejected"}
Handlers == [kind: {"none", "code", "finally", "element"}, agg: Nat, index: Nat]
Reactions == [source: Nat, on_fulfilled: Handlers, on_rejected: Handlers,
              target: Nat]
Answered(V) == [fulfilled: BOOLEAN, value: V]
PromiseRecords(V) == [state: States, value: V, reactions: Seq(Reactions)]
Jobs(V) == [kind: {"reaction"}, reaction: Reactions, argument: V,
            fulfilled: BOOLEAN]
             \cup [kind: {"thenable"}, promise: Nat, thenable: V]
Heaps(V) == [promises: Seq(PromiseRecords(V)), jobs: Seq(Jobs(V))]

Pending(h, p) == h.promises[p].state = "Pending"
JobTarget(job) == IF job.kind = "thenable" THEN job.promise
                  ELSE job.reaction.target

\* The reactions that wait, each a place <<q, i>> of the list of q.
Waits(h) == UNION {{q} \X DOMAIN h.promises[q].reactions :
                      q \in DOMAIN h.promises}
ReactionAt(h, w) == h.promises[w[1]].reactions[w[2]]
Queue(h) == {k \in DOMAIN h.jobs : h.jobs[k].kind = "reaction"}
Outstanding(h) == {ReactionAt(h, w) : w \in Waits(h)}
                    \cup {h.jobs[k].reaction : k \in Queue(h)}
=============================================================================
