# A verification project for biujs

biujs is a strict-mode ES6 engine in Rust: a parser front end, lowering to an
SSA form, a code generator for a register bytecode, and a virtual machine with
its own garbage collector, generators, promises and a microtask queue. The
program is single-threaded. What makes it hard is not threads but *re-entrancy*
and *deferred effects*: builtins call bytecode that calls builtins, a generator
body is lifted off the shared stacks and put back somewhere else, a `finally`
runs between a jump and its target, a promise job runs inside an `await` of a
function that is still on the stack, and a collection starts between any two
instructions. These specifications are about exactly that.

All source paths below are relative to `src/`, the root of the repository; the
Rust crate is in `src/src/`.

## Contents

1. [Inventory of the system](#1-inventory-of-the-system)
2. [The modules](#2-the-modules)
3. [The runs](#3-the-runs)
4. [The proofs](#4-the-proofs)
5. [Where code and documentation part](#5-where-code-and-documentation-part)
6. [What is not modelled](#6-what-is-not-modelled)
7. [Plan](#7-plan)
8. [Running it](#8-running-it)

## 1. Inventory of the system

How the parts interact: source text goes through *front end*, *lowering* and
*SSA/code generation* to a `Module` of bytecode with exception tables; `VM::run`
executes it. The interpreter (`vm/exec.rs`) is one `step` function, driven by a
loop in `run` and by further Rust loops wherever a builtin calls back
(`drive_bytecode_frame`) or a generator is resumed (`run_generator_frame`). All
these loops share one `State`: frames, data stack, `seh_stack`,
`closure_var_stack`, `delegate_stack`. Before each instruction `run` reaches a
*safe point*, where the heap may collect. Jobs are drained at the end of `run`,
and inside `await`.

| component | state | operations | what is hard | what makes it correct |
|---|---|---|---|---|
| Garbage collector (`vm/gc.rs`, `vm/trace.rs`) | slots with a mark state, free list, byte count, threshold, worklist | alloc, collect = mark, ephemeron passes, sweep | handles in Rust locals it cannot see; `RefCell` guards met half way through a round; weak entries whose liveness depends on the order of passes | nothing reachable is reclaimed, garbage is, the free list is exact, a round given up leaves no trace, weak entries live exactly as long as their keys |
| Exception unwinding (`vm/exec.rs`, `vm/mod.rs`, `compiler/lowering`) | `seh_stack` records with flags and pending completions, `invoke_boundaries` | Try, EndTry, ThrowExc, Ret, DelayedJump, ResumeExc, calls | return/break/exception crossing several regions; exceptions through builtins; records of several frames on one stack | every `finally` entered once and in order, the last completion wins, a catch guards only its try, callers' records untouched |
| Generators (`vm/mod.rs`, `vm/object.rs`) | generator state, suspended frame, shares of the shared stacks, resumption records | create + parameter prologue, next, return, throw, yield, yield* | frames move between stacks; nested and re-entrant resumption; failure at the depth cap or in a delegate | a body has one activation, owns its state and nobody else's, its handlers run, the resumer finds its stacks as it left them |
| Promises and microtasks (`vm/mod.rs`, `vm/builtins_dispatch.rs`) | promises with reactions, job queue, aggregations | resolve, reject, then, finally, constructor, four combinators, await, async calls, draining | jobs run in the middle of other code; reactions before and after settlement; elements answer in any order, also too late | settled once, from one source, with the outcome of what it depends on; combinators answer exactly when determined |
| Call frames and invocation (`vm/exec.rs`, `vm/mod.rs`) | frames, watermarks, boundaries | enter, leave, call, construct, bind, apply | depth cap on every path; watermarks truncated together | balanced stacks; derived constructors see their `this` once |
| Execution guards (`vm/exec.rs`, `host`) | step counter, deadline, memory pressure | poll and give up | a guard that fires inside code that catches errors | once a guard has fired nothing of the script runs any more |
| Closures and environments (`vm/mod.rs`) | cells, `closure_var_stack`, script environment | capture, make cell, load, store | a name read before its declaration; lookup by watermark | a binding is the same cell for all that captured it |
| Iteration protocol (`vm/iterator.rs`, `vm/mod.rs`) | internal and script iterators | make, next, close | a loop left by break, return or throw; an iterator that throws while closing | closed exactly once unless it ended or threw itself |
| Map, Set, WeakMap, WeakSet (`vm/object.rs`) | entries in insertion order with tombstones | get, set, delete, clear, iterate | changes during iteration | each entry visited once, in order, none after its deletion |
| Object model (`vm/object.rs`, `property.rs`, `shape.rs`, `atom.rs`) | shapes, slots, descriptors, array elements | define, set, delete, freeze, array length | validation of descriptors, integrity levels, holes | the essential invariants of ordinary objects |
| Proxy and Reflect (`vm/proxy.rs`) | target, handler, revocation | trapped operations | traps that revoke or change the target | what a trap claims agrees with a non-extensible target |
| Typed arrays and numbers (`builtins/typedarray.rs`, `vm/value.rs`) | buffers and views | indexed access, conversions | widths, offsets, NaN and -0 | no access out of the buffer; ToInt32 and its kin |
| Interpreter, remaining instructions (`vm/exec.rs`) | registers, operand stack | arithmetic, loads, stores | — | one value in, one out |
| Bytecode and modules (`bytecode.rs`, `module`) | code, tables | encode, decode, look up regions | region lookup | decode inverts encode |
| Compiler front end (`compiler/parser.rs`, `semantic.rs`) | syntax tree, scopes | parse, early errors | — | rejects what the language rejects |
| Lowering (`compiler/lowering`) | open loops and tries | tree walk | jumps out of nested regions | one DelayedJump per exit that crosses a finally |
| SSA and code generation (`compiler/ir`, `codegen.rs`, `frame_slots.rs`) | CFG, dominance, phis, slots | build, rename, assign | exception edges | a use sees the definition that reaches it; values live together have different slots |
| Array builtins (`builtins/array.rs`, `vm/builtins_dispatch.rs`) | a walk's cursor, length and list | callbacks over a receiver, moves of windows, sorting | the receiver changes in a callback, comparator or getter | the ES6 algorithm's visits and answers |
| Other builtins, embedding, command line | — | library code | — | — |

`PROJECT.json` lists the same components with their sources and status, and the
hazards each is exposed to, at their lines.

## 2. The modules

```
HeapGraph ── JsHeap                      what the heap promises
    └────── GcHeap ── GcHeapProofs
TryProgram ── Completions                what the language says of completions
    └────── Unwinding ── MCUnwinding
                └── UnwindingProofs (with StackLemmas)
Generators ── MCGenerators
    └── GeneratorProofs (with StackLemmas)
PromiseCore ── PromiseJobs ── MCPromiseJobs
                └── PromiseProofs (with StackLemmas)
ObjectContract                           the essential invariants
Properties ── OrdinaryObjects ─┐
    └──────── ArrayObjects ────┴─ Objects ── MCObjects
OrderedCollections                       what Map and Set promise to a walk
Collections ── Iteration ── MCIteration
                └── IterationProofs (with StackLemmas)
LiveWalk                                 what a callback method promises
TypedViews ─┬─ ArrayWalks ── MCArrayWalks   (with ArrayObjects)
ArrayLikes ─┘       └── WalkProofs
TypedViews ── ViewProofs ───┘            (ViewProofs with StackLemmas)
SourceLanguage ── Lowering ──────────────────────┐   (SourceLanguage: the meaning)
FlowGraph ── SsaConstruction ────────────────────┴─ CompiledFunction ── MCCompiler
Scopes ── Closures ── MCClosures         (Scopes: what the compiler decides about names)
```

The modules compose where the components share state: `Unwinding` has the
nested loops and boundaries of builtins' calls, `Generators` the same stacks
again with bodies that move, `PromiseCore` is a library of operations for
`PromiseJobs`; `Objects` puts prototype chains, builtins and proxies on the two
representations; `CompiledFunction` chains the passes of the compiler and runs
what comes out; `Closures` runs what `Scopes` decided next to lexical environments.

### HeapGraph, JsHeap, GcHeap: the garbage collector

`HeapGraph` defines reachability with ephemerons over `refs` and `entries`: an
entry `<<key, value>>` of a weak container holds its value while container and
key are reachable. A `WeakSet` entry, or a primitive value, has `NoSlot`.

`JsHeap` is the abstract heap: a program allocates, links, drops, and calls
natives which hold handles. `Reclaim` may take away any unreachable object at any
time, `Forget` any weak entry whose key is not held by strong references.

`GcHeap` is `vm/gc.rs`. `Alloc` pops the free list (a slot with an outstanding
guard is put back, and a new one carved out); `StartCollect` is the safe point of
`exec.rs` with its boundary test and threshold; `MarkStep`, `ScanStep`,
`DrainStep`, `SweepStep` take one worklist entry or one slot each; `Abandon` is
the way out of a round that met a guard. Objects are their references: the 20
object kinds of `trace.rs` all push handles and nothing else.

| definition | code |
|---|---|
| `state`, `free`, `bytes`, `threshold`, `queue` | `Slot::state`, fields of `Heap` |
| `roots` | what `Trace for VM` pushes |
| `held` | handles in Rust locals; one native call each, so `Len(held)` is `invoke_boundaries.len()` |
| `borrow` | the `RefCell` of each slot |
| `phase`, `pos`, `progress`, `doomed` | where `Heap::collect` is, and locals of `mark_ephemerons` and `sweep` |

### TryProgram, Completions, Unwinding: exceptions

A program is one function, given by its regions (`TryProgram`): which have a
catch, which a finally, and which part of which other region each is nested in —
this is what `lower_try` can produce. A place in it is a region and a part.

`Completions` is the language's semantics: an activation is the sequence of the
regions it has open, each with the part that runs and, for a finally, the pending
completion. A completion travels outwards to the nearest catch or finally that
stops it; a finally that ends normally goes on with what is pending; an abrupt
one replaces it.

`Unwinding` is the machine: `seh_stack` records with `in_finally`,
`catch_closed`, `pending_exception`, `delayed_jump_target`, `delayed_return`;
`HandleThrow` with its boundary; `Return`, `DelayedJump`, `ResumeExc` with their
scans; `CallFromBuiltin`, `CallReturned`, `Propagate`, `Swallow` for
`drive_bytecode_frame` and its callers. An exception may be raised anywhere.
`ImplementsCompletions` maps records and places to open regions.

### Generators

The five shared stacks are modelled by who owns each entry. `Create` runs the
parameter prologue; `NextStart`, `NextYield`, `NextExecuting` are the cases of
`generator_next`; `GenReturn`, `GenThrow`, `GenThrowDelegate`, `Abrupt` those of
`generator_abrupt`; `Yield` and `PrologueEnd` park. `resumes` holds the Rust locals
of the nested `run_generator_frame` calls. `cells` counts what a body captured or
made, which only `closure_var_stack` knows in the code.

### Properties, OrdinaryObjects, ArrayObjects, Objects, ObjectContract

`Properties` has descriptors, the merge of a partial descriptor and the ordered
table. `OrdinaryObjects` is the representation by shape and slots that a deletion
turns into a dictionary for good; `ArrayObjects` the dense elements with
overriding descriptors, holes and a length. Both are records and functions on
them, one per method of the code.

`Objects` has a heap of them. Reads and assignments walk the prototype chain;
`Freeze`, `Seal`, `PreventExtensions`, `SetPrototypeOf` and the array methods are
the builtins. An operation on a proxy is a frame of `stack`: it looks the trap up
(the getter of the handler may run script), calls it (script again), and checks the
answer against the target as it is *then*. Without a trap get, set, has and delete go
on with the target; for the others `proxy_static_trap` leaves the builtin to run on the
proxy itself (`Performed`), whose object layer forwards to the target one step at a
time. Whatever the script can do it may do between lookup and check, revoking the
proxy included. `ObjectContract` is what all this
promises: what was fixed once stays fixed, prototype chains end, keys keep their
order; the refinement maps an object to its descriptors.

### Collections, Iteration, OrderedCollections

`Collections` is the vector of slots with tombstones behind Map and Set.
`Iteration` has everything that consumes an iterator: loops, array patterns,
spreads, `Map.groupBy`, the constructors, `forEach`, `getOrInsertComputed`, the set methods. A
consumer is a frame of `stack`; wherever it runs script (body, callback, adder,
`next`, `return`, the methods of a set-like object) the script may change the
collections, step iterators and begin other consumers. `OrderedCollections` is
what a walk promises: it meets every entry that is there when it arrives, once.

### TypedViews, ArrayLikes, ArrayWalks, LiveWalk

`TypedViews` is `builtins/typedarray.rs` with the buffers and views of `object.rs`: a
buffer is a sequence of bytes, of `ByteValues` values each, an element one byte or
two, signed or not. Conversions wrap or saturate as the code does; both views of a
buffer see every write. `ArrayLikes` has the generic paths of `builtins/array.rs` for
receivers that are no arrays: a length and a function of indices.

`ArrayWalks` has the methods of `builtins_dispatch.rs` that call script. A walk of
array methods asks for each index again (`Skip`, `Take`, `CallGetter`,
`CallbackReturns`); a walk of a typed array takes the list it made at the start;
`slice`, `reverse`, `with` and others read the entries first and answer after; sorting
is the insertion sort for arrays and the merge sort for typed arrays, a comparison
at a time. In every one of these places the script may do anything of
`ScriptChanges`. `LiveWalk` is what a callback method promises (`ImplementsLiveWalk`): it
asks for each index up to the length first read when it gets there. That is ES6 but
where section 5 says otherwise: `find*` skip holes, `indexOf` and `lastIndexOf` start
where the code does.

### FlowGraph, SourceLanguage, Lowering, SsaConstruction, CompiledFunction

`SourceLanguage` gives statements and expressions their meaning by the rules for
completion records; it is a reference and translates nothing. `Lowering` is
`JSASTLower`: from a body to blocks, with the loop, label and try contexts.
`FlowGraph` is the graph with dominators, frontiers and the layout order.
`SsaConstruction` has the exception edges, active regions, block parameters and
renaming, and after them code generation: the moves into parameters and the linking
of jumps and regions. `CompiledFunction` compiles a function in three steps and then runs it in
one frame, instruction by instruction; calls are questions the environment
answers with 0, 1 or an exception. Slots nobody has written hold `Junk`.

### Scopes, Closures

A program is a tree of scopes with statements that read, write, declare, make
functions and call. `Scopes` is the compile-time side: free and captured names, the
symbol table at every place, and for each use of a name whether it reaches a
register, the environment or the dead zone. The first section of `Closures`, lexical
environments, is a reference that translates nothing: a record per execution of a
scope, each with its outer one.

`Closures` runs a program. `prog` is fixed by `Init`. `store`, the `envs` of a frame,
the `env` of a function and `saw[2]` are the reference's side of the state; everything else is the code's:

| definition | code |
|---|---|
| `FreeInside`, `CapturedLocals`, `EmitClosureVars` | the free-identifier collector and captured locals of `lowering/mod.rs`, `emit_closure_vars` |
| `Tables`, `At`, `NestedFunctionSymbols` | `SymbolTable`, the hoisting and entry of scopes |
| `Reads`, `Writes`, `Declares` | `lower_identifier`, `lower_assignment`, the lowering of `let`; LoadEnv, StoreEnv, InitLexical |
| `EnvCell`, `closure_var_stack`, `cells` | `State::env_cell`, frames' ranges from `closure_depth`, `EnvCell` |
| `Captures`, `Make` | ClosureVar, MakeCell and the making of function objects |
| `Open`, `Call`, `CallName`, `Return`, `Fail` | `open_frame` with the prologue, CallEx, Ret, an exception up to the statement that called |
| `New`, `Construct`, `Super`, `SuperBuiltin` | New, `invoke_construct`, CallSuperSpread with `invoke_with_new_target` or a builtin |

The script keeps up to `MaxKept` functions and may call or construct any of them
wherever it says `call`, `new` or `construct`, or pass the statement over.

### PromiseCore, PromiseJobs

`PromiseCore` has `promise_settle`, `promise_resolve`, `promise_then` and the
element handlers of the combinators as functions of `[promises, jobs]`.
`PromiseJobs` has the activations: script, handlers, executors, async bodies,
`finally` callbacks and the `then` of a thenable are on one `stack` with the loops of
`run_promise_jobs` and `await_value`. Scripts do anything with the promises they
know. Ids are indices; values are promises, thenables or plain.

## 3. The runs

| run | question | bounds | properties |
|---|---|---|---|
| `gc_graph` | the collector against every object graph | 3 slots, 3 links, collection at any safe point | `TypeOK` `NoStaleHandle` `GcInv` `Precise` |
| `gc_native` | natives, guards, threshold, abandoned rounds | 3 slots, 1 link, 1 native, 1 guard, threshold from 1 slot | `NothingLeftBehind` `BytesExact` `ImplementsJsHeap` `NoBusyCollect` `CollectReturns` |
| `gc_weak_entries` | do live keys keep their entries? (no) | 3 slots, 2 links | `LiveKeyKeepsEntry` |
| `unwind` | do records mirror the open regions, and completions go where the language says? | programs of up to 3 nested regions; 3 frames up to two regions, 2 for three; 2 values | `TypeOK` `RecordsMatchRegions` `TakenWhereItBelongs` `NoFinallySkipped` `ImplementsCompletions` |
| `generators` | two generators in each other, failures at the cap and in delegates, what a resumption does to resumer and handlers | 2 generators; setups with up to 5 frames, 2 cells, 2 delegates, 1 try | `TypeOK` `GeneratorInv` `ResumerRestored` `HandlersHonoured` |
| `gen_environment` | does a body keep its cells? (no) | 1 generator, 2 frames, 1 cell | `EnvironmentKept` |
| `promises` | chains, adoption, finally, await, executors, the four combinators | 3 promises; 5 for an aggregation of up to 2 elements | `TypeOK` `PromiseInv` `AggregationCorrect` `SettledOnce` `FinallyPasses` |
| `objects` | do both representations keep the essential invariants, do proxies contradict the object behind them? | 8 worlds: up to 3 objects, 4 keys, every partial descriptor over 2 values; arrays of 2; proxies 2 deep, operations 2 deep | `TypeOK` `ReadsAgree` `AnswersAgree` `ImplementsContract` |
| `iteration` | do walks survive changes, are iterators closed as owed, do set methods answer set algebra? | 5 worlds: 3 slots, 2 or 3 keys, consumers 2 deep | `TypeOK` `ClosedAsOwed` `SetAlgebra` `ImplementsOrdered` |
| `compiler` | does the code do what its source means? | 662 functions, every sequence of 4 answers | `HandlersAsEmitted` `CodeMeansSource` |
| `arrays` | do methods see what the script does to the receiver meanwhile, do views stay in their buffers? | 6 worlds: 3 elements, 1 or 2 changes; 2 buffers of up to 4 or 5 bytes, 2 views | `TypeOK` `ViewsInBounds` `ResultsAsOwed` `ImplementsLiveWalk` `MovesAsOwed` |
| `closures` | do names, `this` and `new.target` mean what the chain of environments says? | 16 programs, 2 values; 5 functions kept, 4 frames, 4 calls | `NamesMeanBindings` `CellsAreBindings` |

Why the bounds are enough. *GC*: an ephemeron chain that needs a second pass takes
a container, a key that is the value of another entry, and its value: three slots
and three links; a slot is reused as soon as one is free. Natives and guards act on
single slots, so one of each, on any slot at any moment of a round, shows every
way to skip, give up or spare; the three links are then left to `gc_graph`. The
theorems of section 4 remove these bounds. *Unwinding*: three regions give a
region nested in a part of a region nested in a part of a third; three frames give
a caller with regions, a builtin's call, and a callee; two values tell an
exception or result from the one that replaces it. *Generators*: two generators can
resume each other and be made in each other's prologue; one cell, try or delegate
each is enough to be left behind, dropped or taken by another. *Promises*: three
promises make a chain or an adoption with a third to settle them; the combinators
need a result, two elements and the two children `then` makes. *Objects*: an
invariant speaks of one property of one object before and after a step, so one
object with every descriptor is enough for it; order and representation need three
keys, a cycle two objects and a third to close it through, an array one dense
index, one that overrides, one beyond. Between the lookup of a trap and the check
one interfering operation of any kind can happen, and several in a row.
*Iteration*: a walk goes wrong by one slot, so three slots and a consumer inside a
consumer show it. *Compiler*: what a clause ends in, what clauses a try has and
which clause of another one it sits in are all combined; four calls reach the
second turn of a loop. *Arrays*: a walk differs from a snapshot as soon as one
element ahead changes, two changes can make and undo a hole; three elements sort
with equal ones on either side; bytes of four values wrap and saturate like bytes of
256, a view of two-byte elements at an offset meets every rounding of a buffer of four
bytes. *Closures*: two activations of one function, each with two closures, show
whose cell a name reaches; a callee in a callee adds a range that is neither; each
program is about one way a name is bound (a parameter, a declaration before its
`let`, a binding captured through a function that does not mention it, a loop's, a
shadowed one, `arguments`, a script's, the function's own, `this` and `new.target`).

### Preconditions of the passing runs

These constants keep passing runs away from behaviour section 5 describes, so that
the rest can be checked in depth; each is a guard on what the *program* does.

* `Unwinding!AnyExit = FALSE` (`CleanExit`): of the regions a return leaves, those
  whose finally is due are the innermost; a break or continue that meets a finally
  leaves only that region.
* `Generators!Uses` (`Fit`): without `"moved"` a body is resumed at the stack
  depths its handlers were pushed at; without `"deep"` no resumption meets the
  depth cap; without `"guarded"` `gen.throw` is not called where a try of the
  caller is open; without `"delegate"` a delegate's `throw` method does not fail.
* `Objects` and `Iteration` worlds have `uses`, empty in the passing runs: the names of
  the behaviours of section 5 the script avoids. `Iteration!Differs` lists the
  completions where consumers do not close as the language asks; `ClosedAsOwed`
  holds outside that list.
* `CompiledFunction!StrayExits = FALSE`: a run stops where control leaves a block
  other than by an edge the compiler knew and the slots do not hold the variables
  (a call that throws inside a try, section 5). Of the functions with one try
  statement, 302 runs stop so and 2187 go to the end.
* `MovesAsOwed` asks of an array-like what `splice` owes only when it inherits no
  element it does not own (`InheritsNone`) and owns none at or beyond its length
  (`Contiguous`); `InheritedMove` drops the first
  and does not hold (section 5).
* `ArrayWalks` worlds say what the script may do (`ops`). `reverse` puts back what it
  read only over a receiver without accessors (`ReverseReceiver`); comparators are
  consistent with an order (`rank`), which ES6 asks of them; `constructor` is the
  default one (`SpeciesDone` is where its getter runs).
* The programs of `MCClosures` contain none of the patterns section 5 lists for
  names and constructors; `Scopes` and `Closures` follow the code for those too.
* `PromiseJobs!Uses` selects operations; without `"resolve thenable"` the resolve
  function of an executor is called with plain values only.

### Fairness

`GcHeap!Spec` assumes weak fairness of `Collect` alone: the collector runs to
completion inside one call of `Heap::collect`, on one thread, so a round that has
begun goes on. Nothing obliges the program to reach a safe point.
`CollectReturns` says that a round ends; the ephemeron loop is what could prevent
it. The other specifications have no fairness and no liveness properties: a script
may stop or loop anywhere.

Deadlock is checked everywhere but in `gc_native`, where a full heap below its
threshold is the end of the bounded model, and in `objects`, `iteration` and `arrays`, where
a script that has frozen everything, or filled every slot, has nothing left to do. In
`Closures` a finished script stays as it is (`Finished`).

## 4. The proofs

### The collector

`GcHeapProofs` proves, for every number of slots, links, guards and native calls, any threshold, in stress mode or not:

| theorem | statement |
|---|---|
| `TypeCorrect` | `Spec => []TypeOK` |
| `Invariance` | `Spec => []CoreInv` |
| `HandlesFresh` | `Spec => []NoStaleHandle`, from the next two |
| `NoUseAfterFree` | `Spec => []NoDangling` |
| `WeakKeysFresh` | `Spec => []NoStaleWeakKey` |
| `RoundsComplete` | `Spec => []NothingLeftBehind`, from the next two |
| `FreeListCorrect` | `Spec => []FreeListExact` |
| `MarksAreReset` | `Spec => []MarksReset` |
| `FullInvariance` | `Spec => []GcInv` |
| `BytesCorrect` | `Spec => []BytesExact` |
| `NothingLeaks` | `Spec => Precise`: a round that reaches the end of `sweep` leaves no garbage but what is borrowed |
| `NoImmediateRetry` | `Spec => NoBusyCollect`: a round leaves the heap below its threshold, swept or given up |
| `Refinement` | `Spec => ImplementsJsHeap` |

The assumptions are those of the constants (`SlotAssumption`, `GcAssumption`): natural
numbers, a Boolean, a `NoSlot` that is no slot, and a positive `MinThreshold` (16 MiB
in the code, gc.rs:187; with 0 an empty heap would collect at every safe point).

The argument. `NoDangling` is not inductive: in the middle of a round it must be
known why what sweep is about to take is unreachable. `CoreInv` says it in parts.
`SlotInv` and `FreeInv` relate states, free list and `doomed`. `GraphInv` says there
is a set X that holds the roots and the natives' handles, is closed under strong
references and ephemerons, is disjoint from what is free or doomed, and contains
whatever the collector has marked or queued; `Accessible`, the least closed set, is
inside X. Its last conjunct says no entry of X names a free slot: without it a
slot handed out again could complete an entry left for its predecessor. `MarkInv`
is the tricolour invariant (what a marked slot refers to is marked or queued), and
`ScanInv` says what the passes over the weak containers have established. At
`StartSweep` they give that the marked set is itself sound, so it serves as the
new X, disjoint from `doomed`. The proof has a lemma per action.

Precision is the other direction: what a round marks must be *owed*. `TraceInv`
says that everything marked or queued lies in every set that holds the round's
roots and is closed as `Owed` says, so marking adds nothing that is not reachable, and
what survives the sweep unguarded is reachable. `GcInv` is `CoreInv`, `BytesExact` and
`TraceInv`; all three are checked by `gc_graph`. `NoBusyCollect` follows from
`BytesExact` and the threshold `sweep` sets.

For the refinement, `objs` is the set of slots that are not free. A step of the
program is the same step of `JsHeap`; `SweepStep` is `Reclaim` of an unreachable slot,
`ScanStep` is `Forget`, every other collector step is a stutter. The step lemma
uses `CoreInv`, and `Accessible` does not change along stutters.

### Unwinding

`UnwindingProofs` proves, for any number of regions nested in any way, any depth of
calls and builtins, and any values:

| theorem | statement |
|---|---|
| `UnwindInvariance` | `Spec => []UnwindInv` |
| `UnwindTypes` | `Spec => [](TypeOK /\ StacksFit)` |
| `RecordsCorrect` | `Spec => []RecordsMatchRegions` |
| `FinallyGuaranteed` | `Spec => NoFinallySkipped` |
| `CaughtInPlace` | `Spec => TakenWhereItBelongs` |

All five assume `AnyExit = FALSE`, as the run does: with arbitrary exits the code
skips finally clauses and leaves records behind (section 5), so the properties are
false there and TLC shows it. The assumption is about the program that runs, not
about the machine: exceptions still come from anywhere, in any number of frames.

The argument. None of the properties is inductive. `UnwindInv` cuts `seh_stack` into
one range per frame, from its `seh_depth` (`Low`) to the next frame's (`High`).
`FramesInv` says that the range of a frame is as long as the path of regions to its pc;
`RecordsInv` that its i-th record is of the i-th region of that path, with the flags
its part calls for (`Fits`), and that a record puts off one completion at a time,
only while its finally runs (`Deferred`): without this an interrupted `ResumeExc`
could go on with the completion of somebody else. `BoundariesInv` says that a
builtin's boundary is where its callee's records begin, which is why no dispatch
reads a record below it. `StacksFit` is what they say of the three stacks together:
each record in the range of a frame that is there, one at most for a region of a frame,
no watermark or boundary above its stack. The action properties are proved in the same pass:
each step lemma concludes `UnwindInv'` and `Disciplined`, what the step does to the
records at most. `StackLemmas` has what these steps do to a sequence: the topmost
element with a property, a stack cut at it, a stack popped from it. `LeastElement`
(every nonempty set of naturals has a least one, by the set form of induction)
stands in for the induction theorem, which takes an operator.

### Promises

`PromiseProofs` proves, for any number of promises, aggregations and elements, any
values, and scripts that use every operation:

| theorem | statement |
|---|---|
| `JobsInvariance` | `Spec => []JobsInv` |
| `PromiseTypes` | `Spec => []TypeOK` |
| `PromisesOwed` | `Spec => []PromiseInv` |
| `AggregationsCorrect` | `Spec => []AggregationCorrect` |
| `OutcomesFinal` | `Spec => SettledOnce` |
| `FinallyTransparent` | `Spec => FinallyPasses` |

The only assumption is that of the constants (`PromiseJobsAssumption`: the bounds of a
program are natural numbers).

The argument. `OneSource` counts who can settle a promise; it says nothing of the
middle of a handler, which makes, settles and registers several promises in one
step. `Owed(h, O, X)` is its form for a heap *within* a step: the promises of `O` are owed an
outcome by activations, those of `X` belong to natives (settlers given to scripts,
results of aggregations), and every other pending promise is the target of exactly
one reaction or job of `h`. Each operation of `PromiseCore` then has a lemma that says
how it moves promises between the three: `New` puts one into `O`, `Settle` takes
one out, `React` and `Resolve` hand one from `O` to the heap, taking a job hands it
back. A handler of `PromiseJobs` is a chain of these, so no step lemma looks inside the
queue again. `Keeps` is carried along: pending promises outside a small set stay
pending and settled ones stay as they are, which is `SettledOnce`.

For the combinators, `ElementsInv` says that an element has at most one reaction
and that it is on that element's promise; `Counted` that the counters are those of the
elements still open, `Noticed` that every other one is noted with the outcome it had
and was not decisive. An answer removes one reaction, so the count goes down by
one; the one that brings it to zero, or decides, finds every value noted, which is
`Verified`, and `Verified` survives because outcomes do. That `AddElements` registers
every element once, for any number of them, is shown by the least element of the set
of prefixes for which it fails. TLC has checked `JobsInv` on the instances of the
run `promises`.

### Generators

`GeneratorProofs` proves, for any number of generators that create, resume, delegate to
and throw into each other, any depths, cells, tries and delegates:

| theorem | statement |
|---|---|
| `GeneratorInvariance` | `Spec => []GenInv` |
| `GeneratorTypes` | `Spec => []TypeOK` |
| `GeneratorsSound` | `Spec => []GeneratorInv` |
| `ResumersRestored` | `Spec => ResumerRestored` |
| `HandlersKept` | `Spec => HandlersHonoured` |

The constants' assumptions are `GeneratorsAssumption` (bounds are natural numbers) and
`NoFrameAssumption` (the value for "nothing parked" is no parked frame). All five theorems
assume `ShelteredSetups`, which says two things of the programs that run. A body
is resumed only where the depths its records noted are still right (no setup has
the use "moved"); and where a resumption may meet the call depth cap ("deep") there
is no try. `HandlersKept` assumes `CarefulSetups` too: no delegate's `throw` fails over an
open try. Each of the three is a place where the code does not keep what its
comments say: section 5 has the violation TLC finds without it. The run
`generators` checks setups that satisfy all three, among them one at the depth cap with
failing delegates and one with tries.

The argument. That a resumption gets its resumer's stacks back depends on what lies
under *every* frame, not only the one on top. `Layered` says it of the three
stacks together: watermarks rise with the frames (`Watermarks`), each cell is of the
topmost frame that begins below it (`CellsOwned`), each record lies within the frame it
notes and so does the depth it notes (`RecordFits`), and those depths rise (`Rising`),
which is why the several unwindings of one dispatch amount to one cut.
`ResumesInv` puts each nested resumption on the frame it runs, one per generator and
with rising depths; `DelegatesInv` gives each delegate to the innermost resumption that
begins below it, or, once a resumption was refused, to the error on its way out.
`PlaceFits` is where a generator's frame is, and what a parked frame holds (`ParkedFits`).

`LayersCut`, `LayersPush` and `LayersSame` are the moves: a cut at a height no layer crosses
(`CutPoint`), a frame put on top with its own part, a change within a frame.
`DispatchCuts` is about `handle_throw` alone: on layered stacks it is such a cut, the
record it stops at is the innermost that may take the exception, and every record it
drops was not. `gen.throw` applies it to the stacks of the caller with the parked
frame on top. Every step is then one of three kinds, each with a lemma: it pushes a
resumption (`PushStep`), ends the innermost (`PopStep`), or works above where that one
was saved (`InnerStep`). All conclude `StepKeeps`: the invariant, `StacksKept` (the resumer's
part of every stack) and `Honoured` (the records of a body that goes), from which the
two action properties follow.

### Maps, Sets and what consumes iterators

`IterationProofs` proves, for every set of worlds, any number of keys, values, slots and
iterators, and consumers nested to any depth:

| theorem | statement |
|---|---|
| `CollectionsStayOrdered` | `Spec => []TypeOK` |
| `ConsumersCloseAsOwed` | `Spec => []ClosedAsOwed` |
| `CollectionsImplementOrdered` | `Spec => ImplementsOrdered`, if `NeverClearsUnderWalk` |

`IterationAssumption` says that bounds are natural numbers, the two zeros differ, and the
values for "no walk" and "deleted" are no walk and no entry. `NeverClearsUnderWalk` is the
use `"clearUnderWalk"` of section 5: `clear` cuts the vector, and a walk that had left its
start then passes over what is put next, so without it the refinement is false.

The argument. `IInv` types collections, walks and the stack. `Coll` is where a key is held at
most once: `MapSetFacts` and `DeleteFacts` show it is kept, by what `IndexFacts` says of the
search. `Fine` says of each frame of the stack, for every `at` it can be in, which
fields it has set; a frame says nothing about the frames around it, so what script does
above it cannot disturb it. `ClosedAsOwed` speaks of `ended` alone and has no
memory: it follows because `FrameOK` keeps, from the moment a consumer stops to the step
that ends it, that its cause, the `return` that was found and the calls of it fit, and only
what may be closed is closed.

For the refinement, what lies ahead of a walk is `Onward(s, idx)`, the live slots after its
place. Script, frames and iterators step in some thirty ways; `NextShape` reduces
them to seven *shapes* of what a step does to collections and walks (`Same`, `Opened`,
`Advanced`, `Released`, `KeySet`, `KeyErased`, `Emptied`). Then only the algebra of `Onward`
is left: a key set in place or appended, or deleted, does to every `Onward` of the
collection what `OrderedCollections` does to a list of entries (`OnwardMapSet`,
`OnwardDelete`), and a step takes the first of it (`OnwardStep`). `Live` is a
recursive function, so these go by the least length at which they fail. `Inside`, that
no walk under way is beyond its collection, is the part of the invariant that
clearing under a walk would break.

### Typed arrays, and arrays that change under a method

`ViewProofs` is about `TypedViews` alone, `WalkProofs` about `ArrayWalks`, both for any number
of slots, kinds of integer elements, byte values, and (`WalkProofs`) worlds:

| theorem | statement |
|---|---|
| `ViewsStayInBounds` | `ViewSpec => [](ViewTypeOK /\ ViewsInBounds)` |
| `ReceiversStayCoherent` | `Spec => []TypeOK` |
| `ViewsStayInBoundsMeanwhile` | `Spec => []ViewsInBounds` |
| `MethodsMoveAsOwed` | `Spec => MovesAsOwed` |

`ViewAssumption` asks for an even number of byte values; `WorldAssumption` that the objects,
buffers and views a script starts from are objects, buffers and views of the code's
(`IsWorld`), which TLC evaluates for the worlds of the run.

The argument. `Sound(buffers, views)` says that buffers hold bytes and each view is aligned
and ends within its buffer; buffers never shrink, so a view checked when it is made stays
good. What a number becomes as bytes is arithmetic: `Weight` and `Bits` are spelled out for
the four widths, and `DivUnique` gives every quotient. For the walks, `WalkInv` adds the
receiver (`Receives`: index entries of an array are accessors whose place in the dense
elements is a hole), the fields of the walk in each phase (`WalkShape`), how far it is
(`Progress`: it is never past the length it read), and the two sorts (`SortShape`: cursors of
the insertion and merge sort stay on the items; `TypedShape`: items are numbers that can be
stored). Script changes any receiver between steps, but `Receives` is all a step asks of it.
`MovesAsOwed` needs little more than that: each of the moving methods is compared with
what it owes, index by index, of the values that were there before the call; for an
array-like that inherits nothing that is `OwnSpliced`, which counts own elements only
(`SplicedOwn`).

### Only model-checked

`CollectReturns` (liveness is out of the prover's reach); `ImplementsCompletions`, the
refinement of the language's completions; `ImplementsLiveWalk` and `ResultsAsOwed`, what the
callback methods visit and answer; `SetAlgebra`, whose answers are those of sequences built
by folds; and everything about objects, closures and the compiler.
`SourceLanguage`, `FlowGraph`, `Lowering` and `SsaConstruction`, whose trees and fixpoints
are `RECURSIVE` operators, and what extends them cannot be proved about with
these tools.

## 5. Where code and documentation part

Two of them are shown by runs (`findings` in `PROJECT.json` quotes the lines):

1. **A live key loses its weak entry** (`gc_weak_entries`, `gc.rs:349`). Each pass of
   `mark_ephemerons` drops the entries whose key is not marked *yet*.
2. **A body resumed at a yield loses its cells at the next** (`gen_environment`,
   `mod.rs:4079`). The top of the stack is passed where the base is meant.

Others were met on the way. The modules state what the code's comments promise;
with the constants given, TLC finds these violated as well:

| what | property | constants |
|---|---|---|
| a break out of two finally clauses runs one: `ResumeExc` jumps to the recorded target at once (exec.rs:3671; lowering/mod.rs:2038 and tests/features/control_flow.rs:637 want all of them) | `Unwinding!NoFinallySkipped` | `unwind.cfg` with `NumRegions = 2`, `Value = {v1}`, `AnyExit = TRUE` |
| `Ret` and `DelayedJump` (exec.rs:179, 1819) leave inner catches open while an outer finally runs; its exception lands in them | `Unwinding!TakenWhereItBelongs` | the same |
| the record of such an inner region stays on the stack (exec.rs:3678; the leak mod.rs:2295 of lowering names) | `Unwinding!NoRecordLeaks` | the same |
| restored records keep the depths of an earlier resumption (mod.rs:4588): a finally is passed over | `Generators!HandlersHonoured` | 1 generator, 3 frames, 1 try, `Uses = {"moved"}` |
| ... and an exception truncates the resumer's environment | `Generators!ResumerRestored` | the same with 1 cell |
| `gen.throw` dispatches under its caller's boundary (mod.rs:4259): the caller's try takes the exception inside the call | `Generators!ThrowReachesCaller` | 1 generator, 2 frames, 1 try, `Uses = {"guarded"}` |
| `next()` on a running generator completes it, its next yield revives it (mod.rs:4056) | `Generators!CompletedForever` | 1 generator, 2 frames, `Uses = {}` |
| an exception of a delegate's `throw` leaves the generator Executing without a frame (mod.rs:4230) | `Generators!StateMatchesFrame` without its exception for this use | 1 generator, 2 frames, 1 delegate, `Uses = {"delegate"}` |
| ... and the body's open tries never see it | `Generators!HandlersHonoured` | the same with 1 try |
| a resumption refused at the call depth cap leaves the body's delegates on `delegate_stack` (mod.rs:4574, the `?` after the extend of 4569); when a try around catches the error, the next yield parks them with another body | `Generators!GeneratorInv` (`FrameOwnsItsState`) | 2 generators, 3 frames, 1 try, 1 delegate, `Uses = {"deep"}` |
| `await` on an empty queue answers `undefined` although a caller on the stack can still settle the promise (mod.rs:2450; the comment at 2428 says nothing can) | `PromiseJobs!AbandonedStaysPending` | `promises.cfg` with `Setups <- Awaiting` |
| `setPrototypeOf` on a proxy without a trap goes on with the proxy (proxy.rs:397 answers `None`): the chain of the new prototype is compared with the proxy (builtins/object.rs:427) and never with the object behind it, whose prototype is then set (object.rs:3496), so `setPrototypeOf(new Proxy(t, {}), t)` makes `t` its own prototype, which the comments at builtins/object.rs:421 and proxy.rs:353 exclude | `Objects!PrototypeChainsEnd` | `objects.cfg` with `Setup <- PrototypeWorlds` (`"proxy cycle"`) |
| `shift`, `unshift` and `splice` of an array-like lose inherited elements: `generic_window_move` lists own indices (array.rs:412; 342 and 397 promise HasProperty) | `ArrayWalks!InheritedMove` | `arrays.cfg` with `Setup <- WindowWorlds` |
| `__promise_resolve__` fulfils with a thenable (builtins_dispatch.rs:56) | `PromiseJobs!FulfilledWithPlain` | 2 promises, `Uses = {"executor", "thenable", "resolve thenable"}` |

Found while the object model, iteration and the compiler were translated. Where a
model can show one, the name it has in `uses` (or the constant) is given; the
others are read off the code, which the models follow.

| what | shown by |
|---|---|
| a sealed or frozen object in dictionary form takes new properties again by assignment (`object.rs`, property_set; the comment near 463 says otherwise); so do non-index keys of arrays, Map and Set | `Objects`, `"dictionary assign"` |
| arrays grow although they are not extensible | `Objects`, `"grow fixed"` |
| `defineProperty` makes a read-only `length` writable again | `Objects`, `"relaxed length"` |
| `splice` and `sort` never ask whether the array is frozen; `shift`, `splice`, `reverse`, `sort` drop non-configurable descriptors; `push` and `pop` leave holes and descriptors of indices that moved (cf. `length_is_writable`, object.rs:892) | `Objects`, `"any receiver"` |
| the trap of an outer proxy revokes an inner one in the middle of its operation (proxy.rs:45) | `Objects`, `"revoke inner"` |
| a getter of an inner handler revokes the outer proxy before an operation like `isExtensible` or `defineProperty` has run: without a trap the builtin runs on the outer proxy (proxy.rs:397), which is revoked by then and answers for itself | `Objects`, `"revoke outer"` |
| `proxy.rs` does not check: a non-configurable or absent property reported otherwise, `deleteProperty` on a non-extensible target, `get` of an accessor without getter; it refuses every redefinition of a non-configurable property, checks `set` also when the trap answered false, and reads the parts of a descriptor twice; `Reflect.has` and `Reflect.deleteProperty` look their trap up twice. The header (proxy.rs:16) does not mention it | `Objects` |
| `own_keys` of an array lists overridden indices after `length` | `Objects` |
| `clear` cuts the vector, so a walk under way skips what is added later (object.rs:3627, 4042; iterator.rs:122 promises more) | `Iteration`, `"clearUnderWalk"` |
| `for..of` calls `return` after a normal end and not when its body throws or returns; array patterns and `groupBy` do not close when a binding or callback throws; constructors close also when `next` threw; a `return` that is no function replaces the exception being thrown (mod.rs:5054 says the opposite) | `Iteration!Differs` |
| an exception of the getter of `return` counts as no method (mod.rs:5041) | `Iteration`: `Outcome` accepts it |
| array iterators and the `this` of the set methods are snapshots; `symmetricDifference` toggles keys given twice | `Iteration` |
| a call that throws inside a try has no exception edge, so catch, finally and what follows may read versions nobody wrote (ssabuilder.rs:114; docs/ARCH-REVIEW-2026-10-24.md:292 asks for the edges) | `CompiledFunction`, `StrayExits = TRUE` |
| a throw with several handlers hands all of them the versions meant for the first; a jump into a finally has no edge from its block | `CompiledFunction`, the same |
| `x + (x = 5)` reads the slot of `x` after the assignment; `let` directly in a try or finally body has no scope of its own; the dead zone in a switch is a flag of the compiler | `Lowering` follows the code; no function of the run has them |
| writes of typed-array elements saturate (`new Uint8Array([300])[0]` is 255, -1 gives 0; the comment at object.rs:3027 says modulo) while a DataView wraps; `new Uint16Array(buffer)` takes an odd number of bytes; an explicit undefined length means 0; callback methods walk a snapshot | `TypedViews`, `ArrayWalks` |
| `new Uint16Array(typedArray)` allocates past MAX_BUFFER_BYTES: source_numbers returns before the check (typedarray.rs:467, 579; the comments at 261 and 454 want every length checked) | `TypedViews`, `ConstructCopy` |
| an assignment past the end of an array fills with `undefined`, not holes (object.rs:1244); `fill` leaves hole marks | `ArrayObjects` |
| `toSpliced()` deletes everything and `splice()` nothing (the comment at builtins_dispatch.rs:1731 calls them the same); `at` below `-length` answers element 0; `indexOf` takes a negative start for 0, `lastIndexOf` answers -1, both compare NaN equal; `find`, `findIndex` and `findLast` skip holes | `ArrayWalks` |
| `New` opens its frame without the captured cells of the constructor (exec.rs:3240), `invoke_construct` and `super()` with them | `Closures`: `new` of a class that captures |
| the own name of a function expression is a bare function: recursion loses what it captured | `Closures`: `Recursive` with a captured name |
| an arrow with a nested function that mentions `arguments` gets an uninitialised cell for it | `Closures` |
| a name declared in an inner block counts as declared in the whole function, so an outer one is not captured; a block's binding is captured by copy, or a cell of the frame with its name instead; `SymbolTable::remove` takes the innermost binding only, what is left is a register of another function | `Scopes` |
| a `let` of a block in the script that hides a name of the script is never captured, and assignments to it go to the global; a `var` or `let` of a function whose name an outer function has too, uncaptured, takes the outer one's slot | `Scopes` |
| free names inside do-while, for-of, for-in, labelled statements, parameter initialisers and the targets of member assignments are not collected | — |
| an arrow takes `this` when it is made, without a dead zone; `super()` in an arrow binds the arrow's own `this` | `Closures` |
| a second `super()` runs the parent again; a `super()` that failed inside a try leaves `this` marked as bound; a derived parent, called by `super()`, or a class by `invoke_construct`, starts with no dead zone; a derived constructor that returns an object without `super()` gets a ReferenceError | `Closures` |
| a class whose parent derives from a builtin keeps the object made in advance; arrows can be constructed | — |
| moves of a window of an array-like ignore indices at or beyond its length, and `copyWithin` writes `undefined` for holes | `ArrayLikes` |
| `sort` changes nothing of an array-like, calls the comparator with `undefined` for holes, and throws for one that is not callable where `toSorted` and typed arrays ignore it | `ArrayWalks` |

## 6. What is not modelled

* *Heap*: object kinds behind `Trace`, the inner cells it skips when they are
  borrowed (no borrow of them spans a safe point), chunk layout, `Scope` and
  `Roots` beyond what they root. *Unwinding*: tries of the top-level script, the
  constructor checks of `Ret`, the operand stack. *Generators*: values and registers
  of a suspended frame. *Promises*: accessors named `then`, iterables with effects,
  subclasses; the array a combinator fills is told apart by which elements have
  answered and how.
* *Objects*: symbols as keys, where array indices end (2^32 - 2) and how they are
  spelled, functions and the other exotic objects, descriptor objects with getters,
  `Reflect.apply` and `construct` on proxies. *Iteration*: object patterns and for-in,
  `entries`/`keys`/`values` as different iterators. *Arrays*: constructors by species of
  the script, `flat`, `flatMap`, `join`, `concat`, float and clamped elements. *Closures*: class
  members and the names of classes, patterns, parameter initialisers, `const`, bound
  functions, argument lists. *Compiler*: patterns, generators and async functions, optional chains,
  template literals, slot assignment (each version has a slot of its own, as
  `frame_slots.rs` gives it, and it is called by the version's name).
* Components with status `not_modelled` in `PROJECT.json`. Parser, early errors,
  text, dates, regular expressions and number formatting are sequential functions
  over unbounded data with good unit tests: a model would copy them. The others
  are in the plan.

## 7. Plan

1. *Done:* collector with its theorems and refinement; unwinding with its
   refinement; generators; promises; object model, proxies, and the contract they
   refine; Map, Set and iteration over the ordered collection; lowering, SSA and
   code generation against the meaning of the source; array methods over receivers
   that change; closures and constructors against lexical environments.
2. Execution guards over nested loops: once fired, nothing runs (a guard met in a
   promise job becomes a rejection today, mod.rs:2939). A model needs a clock and
   counts of instructions; the other modules would have to be poll points of it.
3. Bound functions and argument lists; apply and construct traps of proxies.
4. Proofs: *done* for the collector, the invariants of unwinding, generators and
   promises, iteration with its refinement, typed arrays and array methods
   (section 4). Next the refinements `Unwinding!ImplementsCompletions` and
   `ArrayWalks!ImplementsLiveWalk`; the invariants of `Objects`.

## 8. Running it

In this directory, with the TLA+ tools and the community modules at hand:

```
tlc -config gc_graph.cfg GcHeap         # and likewise for the other runs
tlapm GcHeapProofs.tla                  # and likewise for the other *Proofs
```

The beginning of a `.cfg`'s name tells its module: `gc_*` is `GcHeap`, `unwind*`
`MCUnwinding`, `gen*` `MCGenerators`, `promises` `MCPromiseJobs`; `objects`,
`iteration`, `compiler`, `arrays` and `closures` are `MCObjects`, `MCIteration`,
`MCCompiler`, `MCArrayWalks` and `MCClosures`. Definitions commented "Mutant:" are deliberate errors; replacing
the definition below one of them by it makes TLC refute the property named in
`PROJECT.json`, which shows that the property depends on the code it is about.
