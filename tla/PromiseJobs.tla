---------------------------- MODULE PromiseJobs ----------------------------
(***************************************************************************)
(* Promises, the microtask queue and await of src/src/vm: the promise part *)
(* of mod.rs, the promise methods and settling natives of                  *)
(* builtins_dispatch.rs, async calls of exec.rs.                           *)
(*                                                                         *)
(* There is no event loop.  The queue is drained when the script is over,  *)
(* and on the spot by an await whose promise is pending, with the callers  *)
(* of the async function still on the stack.  `stack` holds the JavaScript *)
(* activations the promise machinery is waiting for, and its own loops:    *)
(* only the top of it runs.                                                *)
(*                                                                         *)
(* A script does what it likes with the promises it knows.  Abstracted:    *)
(* getters named `then`, and what else JavaScript code computes.           *)
(***************************************************************************)
EXTENDS PromiseCore

CONSTANT Setups    \* the bounds of the programs: a behaviour keeps to one

Ops == {"reject", "then", "finally", "executor", "async", "thenable",
        "resolve thenable"} \cup Kinds

ASSUME PromiseJobsAssumption ==
    \A setup \in Setups :
        /\ setup.promises \in Nat         \* made in a run
        /\ setup.aggs \in Nat             \* aggregations in a run
        /\ setup.elements \in Nat         \* of one aggregation
        /\ setup.uses \subseteq Ops

VARIABLES
    promises,    \* by id: [state, value, reactions]
    jobs,        \* promise_jobs, the microtask queue
    aggs,        \* aggregations, by id
    stack,       \* activations and loops, the running one last
    settlers,    \* promises whose resolve and reject JavaScript has been given
    known,       \* promises JavaScript has been given
    abandoned,   \* promises an await gave up on (not in the code)
    limits       \* the bounds of this behaviour; fixed, not in the code

vars == <<promises, jobs, aggs, stack, settlers, known, abandoned, limits>>

MaxPromises == limits.promises
MaxAggs == limits.aggs
MaxElements == limits.elements
Uses == limits.uses     \* the operations the programs use

\* An activation of JavaScript is of the script, of a handler whose outcome
\* settles `promise`, of a finally callback (`pass` is what it passes on), of
\* the executor or the async function that makes `promise`, or of the `then`
\* of a thenable that `promise` adopts.
CodeKinds == {"script", "handler", "finally", "executor", "async", "thenable"}

Activation(kind, p, pass) == [kind |-> kind, promise |-> p, pass |-> pass]
Nothing == Outcome(TRUE, Undefined)
Await(p) == Activation("await", p, Nothing)     \* await_value at its test
Drain == Activation("drain", 0, Nothing)        \* run_promise_jobs

Promise == DOMAIN promises

Top == Last(stack)
CodeRuns == stack # <<>> /\ Top.kind \in CodeKinds
Callee(a) == Append(stack, a)
Caller == Front(stack)

H == [promises |-> promises, jobs |-> jobs]
Becomes(h) == promises' = h.promises /\ jobs' = h.jobs
Room(n) == Len(promises) + n <= MaxPromises
Arg == Plain \cup {Ref(p) : p \in known}
         \cup (IF "thenable" \in Uses THEN Thenable ELSE {})

Init ==
    /\ promises = <<>> /\ jobs = <<>> /\ aggs = <<>>
    /\ stack = <<Activation("script", 0, Nothing)>>
    /\ settlers = {} /\ known = {} /\ abandoned = {}
    /\ limits \in Setups

-----------------------------------------------------------------------------
(* What JavaScript calls.                                                  *)

NewId == Len(promises) + 1

\* Promise.resolve; a promise is answered as it is.
PromiseResolve(v) ==
    /\ Room(1) /\ v \notin Refs(H)
    /\ Becomes(Resolve(New(H), NewId, v))
    /\ known' = known \cup {NewId}
    /\ UNCHANGED <<aggs, stack, settlers, abandoned, limits>>

PromiseReject(v) ==
    /\ Room(1)
    /\ Becomes(Settle(New(H), NewId, "Rejected", v))
    /\ known' = known \cup {NewId}
    /\ UNCHANGED <<aggs, stack, settlers, abandoned, limits>>

\* then, catch and finally.
PromiseThen(p, on_fulfilled, on_rejected) ==
    /\ Room(1)
    /\ Becomes(Then(H, p, on_fulfilled, on_rejected))
    /\ known' = known \cup {NewId}
    /\ UNCHANGED <<aggs, stack, settlers, abandoned, limits>>

\* new Promise(executor): the executor gets the settling natives.
PromiseConstruct ==
    /\ Room(1)
    /\ Becomes(New(H))
    /\ stack' = Callee(Activation("executor", NewId, Nothing))
    /\ settlers' = settlers \cup {NewId}
    /\ UNCHANGED <<aggs, known, abandoned, limits>>

\* __promise_resolve__ and __promise_reject__: `resolve` fulfils, also with a
\* promise or a thenable.
CallSettler(p, state, v) ==
    /\ promises[p].state = "Pending"
    /\ "resolve thenable" \in Uses \/ v \notin Refs(H) \cup Thenable
    /\ Becomes(Settle(H, p, state, v))
    /\ UNCHANGED <<aggs, stack, settlers, known, abandoned, limits>>

\* A call of an async function: the body runs at once.
CallAsync ==
    /\ Room(1)
    /\ Becomes(New(H))
    /\ stack' = Callee(Activation("async", NewId, Nothing))
    /\ UNCHANGED <<aggs, settlers, known, abandoned, limits>>

AwaitValue(v) ==
    /\ Top.kind = "async"
    /\ Room(Len(AsPromise(H, v).promises) - Len(promises))
    /\ Becomes(AsPromise(H, v))
    /\ stack' = Callee(Await(PromiseOf(H, v)))
    /\ UNCHANGED <<aggs, settlers, known, abandoned, limits>>

\* Promise.all and its kin over the elements an iterable gave.
PromiseAggregate(kind, elements) ==
    LET result == NewId
        id == Len(aggs) + 1
        n == Len(elements)
        added == AddElements(New(H), id, elements)
        empty == CASE kind \in {"all", "allSettled"} ->
                        Settle(New(H), result, "Fulfilled", Array(id))
                   [] kind = "race" -> New(H)
                   [] kind = "any" ->
                        Settle(New(H), result, "Rejected", AggregateError(id))
    IN  /\ Len(aggs) < MaxAggs
        /\ Room(Len(added.h.promises) - Len(promises))
        /\ Becomes(IF n = 0 THEN empty ELSE added.h)
        /\ aggs' = Append(aggs,
                [kind |-> kind, result |-> result, elements |-> added.promises,
                 remaining |-> n, values |-> [i \in 1..n |-> Nothing],
                 rejections |-> 0, total |-> n, live |-> n > 0])
        /\ known' = known \cup {result}
        /\ UNCHANGED <<stack, settlers, abandoned, limits>>

\* ... or of one that threw.
AggregateThrows(v) == PromiseReject(v)

-----------------------------------------------------------------------------
(* How activations end.                                                    *)

\* Mutant: what a finally callback returns takes the place of the outcome.
ReturnFinallyOwn(v) ==
    /\ CodeRuns
    /\ LET p == Top.promise
       IN  CASE Top.kind = "script" -> UNCHANGED <<promises, jobs>>
             [] Top.kind \in {"executor", "thenable"} ->
                    UNCHANGED <<promises, jobs>>
             [] Top.kind \in {"handler", "async", "finally"} ->
                    Becomes(Resolve(H, p, v))
    /\ stack' = IF Top.kind = "script" THEN <<Drain>> ELSE Caller
    /\ known' = IF Top.kind \in {"executor", "async"}
                THEN known \cup {Top.promise} ELSE known
    /\ UNCHANGED <<aggs, settlers, abandoned, limits>>

Return(v) ==
    /\ CodeRuns
    /\ LET p == Top.promise
       IN  CASE Top.kind \in {"script", "executor", "thenable"} ->
                    UNCHANGED <<promises, jobs>>
             [] Top.kind \in {"handler", "async"} -> Becomes(Resolve(H, p, v))
             [] Top.kind = "finally" ->
                    Becomes(IF Top.pass.fulfilled
                            THEN Resolve(H, p, Top.pass.value)
                            ELSE Settle(H, p, "Rejected", Top.pass.value))
    /\ stack' = IF Top.kind = "script" THEN <<Drain>> ELSE Caller
    /\ known' = IF Top.kind \in {"executor", "async"}
                THEN known \cup {Top.promise} ELSE known
    /\ UNCHANGED <<aggs, settlers, abandoned, limits>>

\* An exception: it rejects the promise of the activation; out of the script
\* it ends the run, with the queue as it is.
Throw(v) ==
    /\ CodeRuns
    /\ IF Top.kind = "script"
       THEN UNCHANGED <<promises, jobs>>
       ELSE Becomes(Settle(H, Top.promise, "Rejected", v))
    /\ stack' = Caller
    /\ known' = IF Top.kind \in {"executor", "async"}
                THEN known \cup {Top.promise} ELSE known
    /\ UNCHANGED <<aggs, settlers, abandoned, limits>>

-----------------------------------------------------------------------------
(* run_promise_jobs and await_value.                                       *)

\* A handler of an aggregation: dispatch_aggregation, and the reaction's own
\* child, which nobody has.
RunElement(h, r, answer) ==
    LET id == r.on_fulfilled.agg
        agg == aggs[id]
        verdict == Verdict(id, agg, answer)
        settled == Settle(h, agg.result,
                          IF verdict.fulfilled THEN "Fulfilled" ELSE "Rejected",
                          verdict.value)
    IN  IF ~agg.live
        THEN /\ Becomes(Settle(h, r.target, "Rejected", NoAggregate))
             /\ UNCHANGED aggs
        ELSE /\ Becomes(Settle(IF Answers(agg, answer) THEN settled ELSE h,
                               r.target, "Fulfilled", Undefined))
             /\ aggs' = [aggs EXCEPT ![id] =
                            Noted(agg, r.on_fulfilled.index, answer)]

\* One turn of the loop.  A job without a handler, or with a native one, is
\* over at once; JavaScript is called for the others.
RunJob ==
    /\ stack # <<>> /\ Top.kind = "drain" /\ jobs # <<>>
    /\ LET h == [H EXCEPT !.jobs = Tail(@)]
           job == Head(jobs)
           r == job.reaction
           handler == IF job.fulfilled THEN r.on_fulfilled ELSE r.on_rejected
           answer == Outcome(job.fulfilled, job.argument)
       IN  IF job.kind = "thenable"
           THEN /\ Becomes(h)
                /\ stack' = Callee(Activation("thenable", job.promise, Nothing))
                /\ settlers' = settlers \cup {job.promise}
                /\ UNCHANGED aggs
           ELSE /\ UNCHANGED settlers
                /\ CASE handler.kind = "none" ->
                          /\ Becomes(Settle(h, r.target,
                                 IF job.fulfilled THEN "Fulfilled"
                                 ELSE "Rejected", job.argument))
                          /\ UNCHANGED <<aggs, stack>>
                     [] handler.kind = "element" ->
                          RunElement(h, r, answer) /\ UNCHANGED stack
                     [] handler.kind \in {"code", "finally"} ->
                          /\ Becomes(h)
                          /\ stack' = Callee(Activation(
                                IF handler.kind = "code" THEN "handler"
                                ELSE "finally", r.target,
                                IF handler.kind = "code" THEN Nothing
                                ELSE answer))
                          /\ UNCHANGED aggs
    /\ UNCHANGED <<known, abandoned, limits>>

\* The queue is empty: the await tests its promise again; the run is over
\* when it was the script's drain.
DrainDone ==
    /\ stack # <<>> /\ Top.kind = "drain" /\ jobs = <<>>
    /\ stack' = Caller
    /\ UNCHANGED <<promises, jobs, aggs, settlers, known, abandoned, limits>>

AwaitTest ==
    /\ stack # <<>> /\ Top.kind = "await"
    /\ LET pending == promises[Top.promise].state = "Pending"
       IN  /\ stack' = IF pending /\ jobs # <<>> THEN Callee(Drain) ELSE Caller
           /\ abandoned' = IF pending /\ jobs = <<>>
                           THEN abandoned \cup {Top.promise} ELSE abandoned
    /\ UNCHANGED <<promises, jobs, aggs, settlers, known, limits>>

\* VM::run of the next program, with a fresh State.
Run ==
    /\ stack = <<>>
    /\ promises' = <<>> /\ jobs' = <<>> /\ aggs' = <<>>
    /\ stack' = <<Activation("script", 0, Nothing)>>
    /\ settlers' = {} /\ known' = {} /\ abandoned' = {}
    /\ UNCHANGED limits

\* The running activation makes a call.
Program ==
    /\ CodeRuns
    /\ \/ \E v \in Arg :
             \/ PromiseResolve(v)
             \/ "reject" \in Uses /\ PromiseReject(v)
             \/ AwaitValue(v)
       \/ \E p \in known :
             \/ /\ "then" \in Uses
                /\ \E f, r \in {None, Code} : PromiseThen(p, f, r)
             \/ "finally" \in Uses /\ PromiseThen(p, Finally, Finally)
       \/ "executor" \in Uses /\ PromiseConstruct
       \/ "async" \in Uses /\ CallAsync
       \/ \E p \in settlers, v \in Arg, state \in {"Fulfilled", "Rejected"} :
             CallSettler(p, state, v)
       \/ \E kind \in Kinds \cap Uses, n \in 0..MaxElements :
             \E elements \in [1..n -> Arg] : PromiseAggregate(kind, elements)
       \/ /\ Kinds \cap Uses # {}
          /\ \E v \in Plain : AggregateThrows(v)

\* Nobody looks at what the script, an executor or a `then` returns.
Results == IF Top.kind \in {"script", "executor", "thenable"}
           THEN {Undefined} ELSE Arg \cup {Undefined}

End ==
    /\ CodeRuns
    /\ (\E v \in Results : Return(v)) \/ (\E v \in Arg : Throw(v))

Next == Program \/ End \/ RunJob \/ DrainDone \/ AwaitTest \/ Run

Spec == Init /\ [][Next]_vars

-----------------------------------------------------------------------------
(* Properties.                                                             *)

Values == Plain \cup Thenable \cup {Undefined, CycleError, NoAggregate}
            \cup {Ref(p) : p \in 1..MaxPromises}
            \cup {Array(id) : id \in 1..MaxAggs}
            \cup {AggregateError(id) : id \in 1..MaxAggs}

Activations == [kind: CodeKinds \cup {"await", "drain"}, promise: Nat,
                pass: Answered(Values)]
Aggregations == [kind: Kinds, result: Nat, elements: Seq(Nat), remaining: Nat,
                 values: Seq(Answered(Values)), rejections: Nat, total: Nat,
                 live: BOOLEAN]

\* Types; only a pending promise has reactions.
TypeOK ==
    /\ H \in Heaps(Values) /\ Len(promises) <= MaxPromises
    /\ \A p \in Promise :
          /\ promises[p].reactions # <<>> => promises[p].state = "Pending"
          /\ \A i \in DOMAIN promises[p].reactions :
                /\ promises[p].reactions[i].source = p
                /\ promises[p].reactions[i].target \in Promise \ {p}
    /\ aggs \in Seq(Aggregations) /\ Len(aggs) <= MaxAggs
    /\ stack \in Seq(Activations)
    /\ settlers \subseteq Promise /\ known \subseteq Promise
    /\ abandoned \subseteq Promise
    /\ limits \in Setups

\* However jobs nest in awaits, and whatever scripts do, a settled promise
\* keeps its outcome (promise_settle, ES 27.2.1.1).
SettledOnce ==
    [][stack # <<>> => \A p \in Promise : promises[p].state # "Pending" =>
          promises'[p] = promises[p]]_vars

\* Where the settlement of p can come from: a reaction that waits, a job, or an
\* activation whose outcome becomes p's.
Waiting(p) == {w \in Waits(H) : ReactionAt(H, w).target = p}
Queued(p) == {k \in DOMAIN jobs : JobTarget(jobs[k]) = p}
Settles(a) == a.kind \in {"handler", "finally", "async"}
Active(p) == {i \in DOMAIN stack : Settles(stack[i]) /\ stack[i].promise = p}
Sources(p) == ({"waiting"} \X Waiting(p)) \cup ({"queued"} \X Queued(p))
                \cup ({"active"} \X Active(p))

\* No derived promise is lost and none is settled twice over: unless scripts
\* or an aggregation can settle it, a promise is pending exactly as long as
\* one reaction, job or activation is on its way to settle it.
OneSource ==
    \A p \in Promise \ (settlers \cup {aggs[id].result : id \in DOMAIN aggs}) :
        Cardinality(Sources(p)) =
            IF promises[p].state = "Pending" THEN 1 ELSE 0

\* A queued reaction carries the outcome of the promise it was registered on,
\* also when it was registered after the settlement.
Carried(h) ==
    \A k \in Queue(h) :
        LET job == h.jobs[k]
            source == h.promises[job.reaction.source]
        IN  /\ job.reaction.source \in DOMAIN h.promises
            /\ source.state = IF job.fulfilled THEN "Fulfilled" ELSE "Rejected"
            /\ source.value = job.argument
JobsCarryOutcomes == Carried(H)

\* finally passes the outcome on: its promise gets the value (or adopts it) or
\* the reason, unless the callback itself threw.
FinallyPasses ==
    [][CodeRuns /\ Top.kind = "finally" /\ Len(stack') < Len(stack) =>
        LET p == Top.promise
            pass == Top.pass
        IN  \/ promises'[p].state = "Rejected"
            \/ /\ pass.fulfilled
               /\ \/ promises'[p].value = pass.value
                  \/ pass.value \in Refs(H) \cup Thenable]_vars

\* The elements of an aggregation that have not answered.
Open(h, id, agg) ==
    {i \in 1..agg.total : \E r \in Outstanding(h) : r.on_fulfilled = Element(id, i)}

\* The counters of a live aggregation are those of its open elements.
Counted(h, id, agg) ==
    /\ Pending(h, agg.result)
    /\ Open(h, id, agg) # {}
    /\ Cardinality(Open(h, id, agg)) = IF agg.kind = "any"
                                       THEN agg.total - agg.rejections
                                       ELSE agg.remaining

\* The counters of an aggregation are exact, so its result is neither settled
\* early nor pending for ever: a live one has elements that have not answered.
AggregationExact ==
    \A id \in DOMAIN aggs : aggs[id].live => Counted(H, id, aggs[id])

\* Whatever is pending is owed exactly one outcome, and the outcome on its way
\* is the right one: the three above (promise_then, promise_settle,
\* dispatch_aggregation).
PromiseInv == OneSource /\ JobsCarryOutcomes /\ AggregationExact

\* The i-th element of the aggregation had this outcome.
Had(h, agg, i, answer) ==
    LET p == h.promises[agg.elements[i]]
    IN  /\ p.value = answer.value
        /\ p.state = IF answer.fulfilled THEN "Fulfilled" ELSE "Rejected"

\* all fulfils with every value in order or rejects with a reason of an element,
\* any the other way round, race has an element's outcome, allSettled all.
Verified(h, id, agg) ==
    LET r == h.promises[agg.result]
        fulfilled == r.state = "Fulfilled"
        every(outcomes) ==
            \A i \in 1..agg.total : /\ agg.values[i].fulfilled \in outcomes
                                    /\ Had(h, agg, i, agg.values[i])
        some == \E i \in 1..agg.total :
                    Had(h, agg, i, Outcome(fulfilled, r.value))
    IN  CASE agg.kind = "all" ->
                IF fulfilled THEN r.value = Array(id) /\ every({TRUE}) ELSE some
          [] agg.kind = "any" ->
                IF fulfilled THEN some
                ELSE r.value = AggregateError(id) /\ every({FALSE})
          [] agg.kind = "race" -> some
          [] agg.kind = "allSettled" ->
                fulfilled /\ r.value = Array(id) /\ every(BOOLEAN)

\* The result of a combinator is the outcome its definition gives.
AggregationCorrect ==
    \A id \in DOMAIN aggs :
        ~Pending(H, aggs[id].result) => Verified(H, id, aggs[id])

\* "The only thing that can ever settle a promise is one of those jobs"
\* (await_value): an await that gives up on its promise is right to do so.
AbandonedStaysPending ==
    \A p \in abandoned : promises[p].state = "Pending"

\* A thenable passed to a resolving function has its `then` called
\* (PromiseJob::Thenable): no promise is fulfilled with a promise or thenable.
FulfilledWithPlain ==
    \A p \in Promise : promises[p].state = "Fulfilled" =>
        promises[p].value \notin Refs(H) \cup Thenable
-----------------------------------------------------------------------------
(* The inductive invariant of the proofs.                                  *)

\* In heap h the promises of O are owed an outcome by activations and those of
\* X are settled by natives.  Every other pending promise is owed one by the heap:
\* it is the target of one reaction or job, and there are no other targets.
IsOwed(h, O, X, p) == p \in DOMAIN h.promises \ (O \cup X) /\ Pending(h, p)
WaitTarget(h, w) == ReactionAt(h, w).target
QueueTarget(h, k) == JobTarget(h.jobs[k])

WaitsFit(h, O, X) ==
    \A w \in Waits(h) :
        /\ ReactionAt(h, w).source = w[1] /\ Pending(h, w[1])
        /\ IsOwed(h, O, X, WaitTarget(h, w)) /\ WaitTarget(h, w) # w[1]

QueueFits(h, O, X) == \A k \in DOMAIN h.jobs : IsOwed(h, O, X, QueueTarget(h, k))

OneTarget(h) ==
    /\ \A v, w \in Waits(h) : WaitTarget(h, v) = WaitTarget(h, w) => v = w
    /\ \A k, m \in DOMAIN h.jobs : QueueTarget(h, k) = QueueTarget(h, m) => k = m
    /\ \A w \in Waits(h), k \in DOMAIN h.jobs :
            WaitTarget(h, w) # QueueTarget(h, k)

Covered(h, O, X) ==
    \A p \in DOMAIN h.promises :
        IsOwed(h, O, X, p) => \/ \E w \in Waits(h) : WaitTarget(h, w) = p
                              \/ \E k \in DOMAIN h.jobs : QueueTarget(h, k) = p

Owed(h, O, X) ==
    /\ WaitsFit(h, O, X)
    /\ QueueFits(h, O, X)
    /\ OneTarget(h)
    /\ Covered(h, O, X)
    /\ Carried(h)
    /\ O \cup X \subseteq DOMAIN h.promises /\ O \cap X = {}
    /\ \A p \in O : Pending(h, p)

\* The reactions of aggregations, and those of aggregation id alone.
ElementReactions(h) ==
    {r \in Outstanding(h) :
        "element" \in {r.on_fulfilled.kind, r.on_rejected.kind}}

\* A reaction of an element is on that element, and an element has one at most.
ElementsInv(h, A) ==
    /\ \A r \in ElementReactions(h) :
          /\ r.on_fulfilled = r.on_rejected
          /\ \E id \in DOMAIN A : \E i \in 1..A[id].total :
                r.on_fulfilled = Element(id, i) /\ r.source = A[id].elements[i]
    /\ \A r, s \in ElementReactions(h) :
          r.on_fulfilled = s.on_fulfilled => r = s

\* What has answered is noted, and was not decisive.
Noticed(h, id, agg) ==
    \A i \in (1..agg.total) \ Open(h, id, agg) :
        /\ Had(h, agg, i, agg.values[i])
        /\ agg.kind = "all" => agg.values[i].fulfilled
        /\ agg.kind = "any" => ~agg.values[i].fulfilled
        /\ agg.kind # "race"

AggregationInv(h, id, agg) ==
    /\ Len(agg.elements) = agg.total /\ Len(agg.values) = agg.total
    /\ agg.result \in DOMAIN h.promises
    /\ \A i \in 1..agg.total : agg.elements[i] \in DOMAIN h.promises
    /\ IF agg.live THEN Counted(h, id, agg) /\ Noticed(h, id, agg)
       ELSE IF agg.kind = "race" /\ agg.total = 0 THEN Pending(h, agg.result)
       ELSE ~Pending(h, agg.result) /\ Verified(h, id, agg)

Owners == {stack[i].promise : i \in {k \in DOMAIN stack : Settles(stack[k])}}
AggregateResults == {aggs[id].result : id \in DOMAIN aggs}

StackInv ==
    /\ \A i, j \in DOMAIN stack :
          Settles(stack[i]) /\ Settles(stack[j])
            /\ stack[i].promise = stack[j].promise => i = j
    /\ \A i \in DOMAIN stack :
          /\ stack[i].kind \in {"executor", "thenable"} =>
                stack[i].promise \in settlers
          /\ stack[i].kind = "await" => stack[i].promise \in Promise
          /\ stack[i].kind = "script" => i = 1

AggsInv ==
    /\ ElementsInv(H, aggs)
    /\ \A id \in DOMAIN aggs : AggregationInv(H, id, aggs[id])
    /\ \A id, other \in DOMAIN aggs :
          aggs[id].result = aggs[other].result => id = other
    /\ settlers \cap AggregateResults = {}

JobsInv ==
    /\ TypeOK
    /\ StackInv
    /\ Owed(H, Owners, settlers \cup AggregateResults)
    /\ AggsInv
=============================================================================
