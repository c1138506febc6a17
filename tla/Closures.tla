------------------------------- MODULE Closures -------------------------------
(***************************************************************************)
(* Functions, closures and constructors at work: the environment of the    *)
(* virtual machine (closure_var_stack, cells, script record, globals), the *)
(* frames that own ranges of it, and the this of a frame                   *)
(* (src/src/vm/exec.rs, src/src/vm/mod.rs), running what Scopes decided    *)
(* about a program, next to what the program means by the chain of its     *)
(* environments.                                                           *)
(*                                                                         *)
(* The script keeps the functions it makes, and calls or constructs any of *)
(* them.  Every such call stands in a try of its own, a super() does not.  *)
(***************************************************************************)
EXTENDS Scopes, SequencesExt

CONSTANTS
    Programs,       \* a sequence of programs (Scopes)
    Given,          \* the values that are written, and passed
    MaxKept,        \* bound: functions kept
    MaxFrames,      \* bound: frames
    MaxCalls        \* bound: calls, constructions and repeated loops

ASSUME ClosuresAssumption ==
    /\ Given \subseteq Nat /\ MaxKept \in Nat /\ MaxFrames \in Nat /\ MaxCalls \in Nat

-----------------------------------------------------------------------------
(* What a name means by the rules of the language: a chain of environment  *)
(* records, one for every execution of a scope.  This is the reference the *)
(* code is compared with; the source has no such records.                  *)
(*                                                                         *)
(* The records are a sequence of [outer, names], outer the number of the   *)
(* enclosing record, 0 at the end of it.  A binding holds Dead until its   *)
(* declaration has run; the this of a derived constructor holds it until   *)
(* super() has returned.                                                   *)

Data(n) == [data |-> n]
Undefined == Data(0)
Dead == Data(-1)
ReferenceError == [error |-> "ReferenceError"]
TypeError == [error |-> "TypeError"]
IsError(v) == DOMAIN v = {"error"}
IsObject(v) == DOMAIN v = {"object"}
IsFunction(v) == "fn" \in DOMAIN v

\* The record of the chain that binds the name, 0 when none does.
Binder(records, env, x) ==
    LET binder[e \in 0..Len(records)] ==
            IF e = 0 THEN 0
            ELSE IF x \in DOMAIN records[e].names THEN e
            ELSE binder[records[e].outer]
    IN  binder[env]

\* What a read of the name gives.
Meaning(records, env, x) ==
    LET e == Binder(records, env, x)
    IN  IF e = 0 THEN ReferenceError
        ELSE IF records[e].names[x] = Dead THEN ReferenceError
        ELSE records[e].names[x]

\* The records after the name was given a value: by an assignment, which may not
\* end a dead zone, or by the declaration.
Assigned(records, env, x, v) ==
    IF IsError(Meaning(records, env, x)) THEN records
    ELSE [records EXCEPT ![Binder(records, env, x)].names[x] = v]

Initialized(records, env, x, v) == [records EXCEPT ![Binder(records, env, x)].names[x] = v]

-----------------------------------------------------------------------------
VARIABLES
    prog,                \* the program and what the compiler decided; fixed
    frames,              \* State::frames
    closure_var_stack,   \* pairs of a name and a cell
    cells,               \* what the cells hold, Dead until initialised
    script_env,          \* the lexical bindings of the script
    globals,             \* the properties of the global object
    kept,                \* the functions kept by the program
    calls,               \* how many calls there were; names the objects too
    store,               \* the environment records; not in the code
    saw                  \* what the last statement observed, and what it
                         \* should have; the latter is not in the code

vars == <<prog, frames, closure_var_stack, cells, script_env, globals, kept, calls, store, saw>>

P == prog.source
C == prog.compiled

Junk == [data |-> -2]
Host == [host |-> TRUE]          \* a builtin constructor
Object(n) == [object |-> n]
Top == frames[Len(frames)]
Running == frames # <<>>
Scope == Last(Top.path)[1]
Index == Last(Top.path)[2]
AtEnd == Index > Len(P.body[Scope])
What == IF AtEnd THEN "end" ELSE P.body[Scope][Index][1]
Operand == P.body[Scope][Index][2]
How == C.access[Scope][Index]

\* A bare Value::Function stands for the function that captures nothing.
Same(got, owed) ==
    IF IsFunction(got) /\ IsFunction(owed)
    THEN got.fn = owed.fn /\ (owed.captured = <<>> \/ got = owed)
    ELSE got = owed

-----------------------------------------------------------------------------
(* The environment.                                                        *)

\* Mutant: the range of the caller is searched too.
EnvCellOfCallers(stack, base, x) ==
    LET at == {k \in DOMAIN stack : stack[k][1] = x}
    IN  IF at = {} THEN 0 ELSE stack[Max(at)][2]

\* The cell a name has in the range from base, 0 when it has none.
EnvCell(stack, base, x) ==
    LET at == {k \in (base + 1)..Len(stack) : stack[k][1] = x}
    IN  IF at = {} THEN 0 ELSE stack[Max(at)][2]

CellHere(x) == EnvCell(closure_var_stack, Top.base, x)
Alive(v) == IF v = Dead THEN ReferenceError ELSE v

LoadEnv(x) ==
    LET cell == CellHere(x)
    IN  IF cell # 0 THEN Alive(cells[cell])
        ELSE IF x \in DOMAIN script_env THEN Alive(script_env[x])
        ELSE IF x \in DOMAIN globals THEN globals[x]
        ELSE ReferenceError

\* The registers of another function are not to be had.
Register(owner, x) == IF <<owner, x>> \in DOMAIN Top.regs THEN Top.regs[<<owner, x>>] ELSE Junk

Load(x) ==
    CASE x = "this" -> IF Top.state = "unbound" THEN ReferenceError ELSE Top.this
      [] x = "target" -> Top.target
      [] OTHER -> CASE How = InDeadZone -> ReferenceError
                    [] How = InEnvironment -> LoadEnv(x)
                    [] OTHER -> Register(How[2], x)

\* Stores in the environment: StoreEnv, which refuses a dead binding, and
\* InitLexical, which ends the dead zone.
PutEnv(x, v) ==
    LET cell == CellHere(x)
    IN  IF cell # 0
        THEN cells' = [cells EXCEPT ![cell] = v] /\ UNCHANGED <<script_env, globals>>
        ELSE IF x \in DOMAIN script_env
        THEN script_env' = [script_env EXCEPT ![x] = v] /\ UNCHANGED <<cells, globals>>
        ELSE globals' = (x :> v) @@ globals /\ UNCHANGED <<cells, script_env>>

DeadHere(x) ==
    LET cell == CellHere(x)
    IN  IF cell # 0 THEN cells[cell] = Dead
        ELSE x \in DOMAIN script_env /\ script_env[x] = Dead

-----------------------------------------------------------------------------
(* Function objects.                                                       *)

\* Mutant: every function gets cells of its own.
CapturesCopies(g, stack, base, regs, known) ==
    LET names == SetToSeq(DOMAIN C.handed[g])
        held == SelectSeq(names, LAMBDA x : EnvCell(stack, base, x) # 0)
    IN  [cells |-> known \o [k \in DOMAIN held |-> known[EnvCell(stack, base, held[k])]],
         captured |-> [k \in DOMAIN held |-> <<held[k], Len(known) + k>>]]

\* What a function made here captures: the cell of the frame, and else a new
\* cell with a copy when one is to be taken.
Captures(g, stack, base, regs, known) ==
    LET names == SetToSeq(DOMAIN C.handed[g])
        copied == SelectSeq(names, LAMBDA x : EnvCell(stack, base, x) = 0 /\ C.handed[g][x] # 0)
        found == SelectSeq(names, LAMBDA x : EnvCell(stack, base, x) # 0)
        copy(x) == LET slot == <<C.handed[g][x], x>>
                   IN  IF slot \in DOMAIN regs THEN regs[slot] ELSE Junk
    IN  [cells |-> known \o [k \in DOMAIN copied |-> copy(copied[k])],
         captured |-> [k \in DOMAIN found |-> <<found[k], EnvCell(stack, base, found[k])>>]
                      \o [k \in DOMAIN copied |-> <<copied[k], Len(known) + k>>]]

\* An arrow takes this, new.target and the parent of its frame along.
FunctionObject(g, captured, frame, parent, env) ==
    LET arrow == P.kind[g] = "arrow"
    IN  [fn |-> g, captured |-> captured, env |-> env,
         this |-> IF arrow THEN frame.this ELSE Undefined,
         target |-> IF arrow THEN frame.target ELSE Undefined,
         parent |-> IF arrow THEN frame.func.parent ELSE parent]

Bare(f) == [fn |-> f, captured |-> <<>>, env |-> 0,
            this |-> Undefined, target |-> Undefined, parent |-> Undefined]

-----------------------------------------------------------------------------
(* The prologue of a function: cells for the captured locals, parameters,  *)
(* arguments, hoisted vars and lets, the declarations, its own name.       *)

\* The vars a binding was made for.
HoistedVars(f) ==
    LET bound == Last(C.start[f])
    IN  {x \in VarsOf(P, f) : IF x \in DOMAIN bound THEN bound[x].owner = f ELSE FALSE}

\* All hoisted declarations of a function, made one after the other.
MakeDeclarations(f, stack, base, known, frame, env) ==
    FoldSet(LAMBDA g, acc :
                LET c == Captures(g, stack, base, <<>>, acc.cells)
                IN  [cells |-> c.cells,
                     made |-> (P.self[g] :> FunctionObject(g, c.captured, frame, Undefined, env)) @@ acc.made],
            [cells |-> known, made |-> <<>>], Declarations(P, f))

\* open_frame and the prologue, for a call of callee with the value v.  Owed is
\* the function the program means by callee.
Open(callers, callee, owed, v, captured, birth) ==
    LET f == callee.fn
        base == Len(closure_var_stack)
        locals == SetToSeq(C.captured[f])
        own == [k \in DOMAIN locals |-> <<locals[k], Len(cells) + k>>]
        stack == closure_var_stack \o captured \o own
        env == Len(store) + 1
        frame == [fn |-> f, path |-> <<<<f, 1>>>>, envs |-> <<env>>, regs |-> <<>>,
                  base |-> base, func |-> callee] @@ birth
        inputs == [x \in Params(P, f) \cup Arguments(P, f) |-> Data(v)]
        lets == [x \in LetsOf(P, f) |-> Dead]
        done == MakeDeclarations(f, stack, base, cells \o [k \in DOMAIN locals |-> Dead], frame, env)
        named == [x \in SelfName(P, f) |-> Bare(f)] @@ done.made @@ inputs @@ lets
        starts == named @@ [x \in HoistedVars(f) |-> Undefined]
        mine(k) == IF locals[k - Len(cells)] \in DOMAIN starts THEN starts[locals[k - Len(cells)]] ELSE Dead
        own_this == IF P.kind[f] = "arrow" THEN <<>>
                    ELSE ("this" :> IF birth.unbound THEN Dead ELSE birth.this)
                         @@ ("target" :> birth.owed)
        self == [x \in IF P.kind[f] = "expression" THEN SelfName(P, f) ELSE {} |-> owed]
    IN  /\ frames' = Append(callers, [frame EXCEPT !.regs =
                [r \in {<<f, x>> : x \in DOMAIN starts \ C.captured[f]} |->
                    IF starts[r[2]] = Dead THEN Undefined ELSE starts[r[2]]]])
        /\ closure_var_stack' = stack
        /\ cells' = [k \in DOMAIN done.cells |->
                        IF k > Len(cells) /\ k <= Len(cells) + Len(locals) THEN mine(k)
                        ELSE done.cells[k]]
        /\ store' = Append(store, [scope |-> f, outer |-> owed.env,
                        names |-> done.made @@ inputs @@ lets
                                  @@ [x \in VarsOf(P, f) |-> Undefined] @@ self @@ own_this])

\* How a frame is born: a plain call, New, the other ways to construct, super().
PlainCall(callee, owed) ==
    [this |-> callee.this, target |-> callee.target, state |-> "none", construct |-> FALSE,
     how |-> "call", unbound |-> FALSE, owed |-> Undefined]

-----------------------------------------------------------------------------
(* Steps.                                                                  *)

Advanced == [frames EXCEPT ![Len(frames)].path[Len(Top.path)][2] = @ + 1]
WithTop(frame) == [frames EXCEPT ![Len(frames)] = frame]
Env == Last(Top.envs)
Observe(got, owed) == saw' = <<got, owed>>

\* An exception leaves the frame, and the constructors whose super() it is in,
\* for the statement that called.
Fail ==
    LET m == Max({k \in DOMAIN frames : frames[k].how # "super"})
    IN  /\ frames' = SubSeq(frames, 1, m - 1)
        /\ closure_var_stack' = SubSeq(closure_var_stack, 1, frames[m].base)

Quiet == UNCHANGED <<prog, kept, calls>>
SameEnvironment == UNCHANGED <<closure_var_stack, cells, script_env, globals, store>>

Read ==
    /\ Running /\ What = "read" /\ Quiet
    /\ Observe(Load(Operand), Meaning(store, Env, Operand))
    /\ UNCHANGED <<cells, script_env, globals, store>>
    /\ IF IsError(Load(Operand)) THEN Fail
       ELSE frames' = Advanced /\ UNCHANGED closure_var_stack

\* lower_assignment, and a var, whose value is assigned.
Write ==
    /\ Running /\ What \in {"write", "var"} /\ Quiet
    /\ \E n \in Given :
        LET x == Operand
            dead == How = InDeadZone \/ (How = InEnvironment /\ DeadHere(x))
        IN  /\ Observe(IF dead THEN ReferenceError ELSE Data(n),
                       IF IsError(Meaning(store, Env, x)) THEN ReferenceError ELSE Data(n))
            /\ store' = Assigned(store, Env, x, Data(n))
            /\ IF dead THEN Fail /\ UNCHANGED <<cells, script_env, globals>>
               ELSE /\ UNCHANGED closure_var_stack
                    /\ IF How = InEnvironment THEN frames' = Advanced /\ PutEnv(x, Data(n))
                       ELSE /\ frames' = [Advanced EXCEPT ![Len(frames)].regs =
                                    (<<How[2], x>> :> Data(n)) @@ @]
                            /\ UNCHANGED <<cells, script_env, globals>>

\* The declaration of a let ends its dead zone.
Let ==
    /\ Running /\ What = "let" /\ Quiet
    /\ \E n \in Given :
        /\ UNCHANGED <<closure_var_stack, saw>>
        /\ store' = Initialized(store, Env, Operand, Data(n))
        /\ IF How = InEnvironment THEN frames' = Advanced /\ PutEnv(Operand, Data(n))
           ELSE /\ frames' = [Advanced EXCEPT ![Len(frames)].regs =
                        (<<How[2], Operand>> :> Data(n)) @@ @]
                /\ UNCHANGED <<cells, script_env, globals>>

\* lower_block_stmt: every execution has its own bindings.
Block(frame, b, outer) ==
    /\ frames' = WithTop([frame EXCEPT
                    !.path = Append(@, <<b, 1>>), !.envs = Append(@, Len(store) + 1),
                    !.regs = [r \in {<<b, x>> : x \in LetsOf(P, b)} |-> Undefined] @@ @])
    /\ store' = Append(store, [scope |-> b, outer |-> outer, names |-> [x \in LetsOf(P, b) |-> Dead]])

EnterBlock ==
    /\ Running /\ What = "enter"
    /\ Block(Top, Operand, Env)
    /\ UNCHANGED <<prog, closure_var_stack, cells, script_env, globals, kept, calls, saw>>

LeaveBlock ==
    LET left == [Top EXCEPT !.path = Front(@), !.envs = Front(@)]
    IN  /\ Running /\ What = "end" /\ P.kind[Scope] \in Blocks
        /\ \/ /\ frames' = WithTop([left EXCEPT !.path[Len(Top.path) - 1][2] = @ + 1])
              /\ UNCHANGED <<store, calls>>
           \/ /\ P.kind[Scope] = "loop" /\ calls < MaxCalls
              /\ Block(left, Scope, Last(left.envs))
              /\ calls' = calls + 1
        /\ UNCHANGED <<prog, closure_var_stack, cells, script_env, globals, kept, saw>>

\* A function expression, an arrow or a class; the program keeps it, or not.
Make ==
    /\ Running /\ What = "make"
    /\ \E parent \in IF P.kind[Operand] # "derived" THEN {Undefined}
                     ELSE {Host} \cup {kept[k] : k \in {j \in DOMAIN kept : P.kind[kept[j].fn] \in Classes}} :
        LET made == Captures(Operand, closure_var_stack, Top.base, Top.regs, cells)
            function == FunctionObject(Operand, made.captured, Top, parent, Env)
        IN  IF Len(kept) < MaxKept
            THEN kept' = Append(kept, function) /\ cells' = made.cells
            ELSE UNCHANGED <<kept, cells>>
    /\ frames' = Advanced
    /\ UNCHANGED <<prog, closure_var_stack, script_env, globals, calls, store, saw>>

MayCall == calls < MaxCalls /\ Len(frames) < MaxFrames
Opened == calls' = calls + 1 /\ UNCHANGED <<prog, script_env, globals, kept>>

\* CallEx of a function that was kept.
Call ==
    /\ Running /\ What = "call" /\ MayCall
    /\ \E k \in DOMAIN kept, n \in Given :
        /\ P.kind[kept[k].fn] \notin Classes
        /\ Open(Advanced, kept[k], kept[k], n, kept[k].captured, PlainCall(kept[k], kept[k]))
    /\ Opened /\ UNCHANGED saw

\* CallEx of what a name holds.
CallName ==
    /\ Running /\ What = "callname" /\ MayCall
    /\ LET got == Load(Operand)
           owed == Meaning(store, Env, Operand)
       IN  /\ Observe(got, owed)
           /\ IF IsFunction(got) /\ IsFunction(owed)
              THEN \E n \in Given :
                    Open(Advanced, got, owed, n, got.captured, PlainCall(got, owed))
              ELSE Fail /\ UNCHANGED <<cells, store>>
    /\ Opened

\* The object is made before the constructor runs.
Constructing(c, n, captured, state) ==
    /\ P.kind[c.fn] \in Classes
    /\ Open(Advanced, c, c, n, captured,
            [this |-> Object(calls + 1), target |-> c, state |-> state,
             construct |-> TRUE, how |-> "new",
             unbound |-> P.kind[c.fn] = "derived", owed |-> c])

\* New opens its frame itself, without the captured cells.
New ==
    /\ Running /\ What = "new" /\ MayCall
    /\ \E k \in DOMAIN kept, n \in Given :
            Constructing(kept[k], n, <<>>,
                         IF P.kind[kept[k].fn] = "derived" THEN "unbound" ELSE "none")
    /\ Opened /\ UNCHANGED saw

\* invoke_construct: Reflect.construct, a spread argument.
Construct ==
    /\ Running /\ What = "construct" /\ MayCall
    /\ \E k \in DOMAIN kept, n \in Given : Constructing(kept[k], n, kept[k].captured, "none")
    /\ Opened /\ UNCHANGED saw

\* A statement that calls may be passed over, and is when the bounds are met.
NoCall ==
    /\ Running /\ What \in {"call", "callname", "new", "construct"}
    /\ frames' = Advanced
    /\ SameEnvironment /\ UNCHANGED <<prog, kept, calls, saw>>

-----------------------------------------------------------------------------
(* Constructors.                                                           *)

ThisRecord == Binder(store, Env, "this")

Parent == Top.func.parent

\* CallSuperSpread: the innermost frame without a this is marked first.
Marked ==
    LET unbound == {k \in DOMAIN frames : frames[k].state = "unbound"}
    IN  IF unbound = {} THEN Advanced ELSE [Advanced EXCEPT ![Max(unbound)].state = "bound"]

\* A builtin parent builds the object.
SuperBuiltin ==
    LET object == Object(calls + 1)
    IN  /\ Running /\ What = "super" /\ Parent = Host
        /\ frames' = [Marked EXCEPT ![Len(frames)].this = object]
        /\ store' = Initialized(store, Env, "this", object)
        /\ Observe(object, IF store[ThisRecord].names["this"] = Dead THEN object ELSE ReferenceError)
        /\ Opened /\ UNCHANGED <<closure_var_stack, cells>>

\* invoke_with_new_target: the parent has the this and the new.target of the child.
Super ==
    /\ Running /\ What = "super" /\ Parent # Host
    /\ \E n \in Given :
            Open(Marked, Parent, Parent, n, Parent.captured,
                 [this |-> Top.this, target |-> Top.target, construct |-> FALSE, how |-> "super",
                  state |-> "none", unbound |-> P.kind[Parent.fn] = "derived",
                  owed |-> Meaning(store, Env, "target")])
    /\ Opened /\ UNCHANGED saw

\* What a function should answer that returns the value.
Owes(v) ==
    IF Top.how = "call" \/ IsObject(v) THEN v
    ELSE IF P.kind[Top.fn] = "derived" /\ v # Undefined THEN TypeError
    ELSE Meaning(store, Top.envs[1], "this")

\* Ret.
Return ==
    LET v == IF What = "end" THEN Undefined ELSE IF Operand = "object" THEN Object(calls + 1) ELSE Data(1)
        caller == Len(frames) - 1
        popped == SubSeq(frames, 1, caller)
        owed == Owes(v)
        answer == IF Top.construct /\ ~IsObject(v)
                  THEN IF Top.state = "bound" /\ v # Undefined THEN TypeError ELSE Top.this
                  ELSE v
        this == IF IsObject(v) THEN v ELSE frames[caller].this
    IN  /\ Running /\ Len(frames) > 1
        /\ What = "return" \/ (What = "end" /\ P.kind[Scope] \notin Blocks)
        /\ calls' = calls + IF What = "end" THEN 0 ELSE 1
        /\ UNCHANGED <<prog, cells, script_env, globals, kept>>
        /\ IF Top.state = "unbound"
           THEN Fail /\ Observe(ReferenceError, owed) /\ UNCHANGED store
           ELSE /\ closure_var_stack' = SubSeq(closure_var_stack, 1, Top.base)
                /\ IF Top.how = "super"
                   THEN /\ frames' = [popped EXCEPT ![caller].this = this]
                        /\ Observe(this, owed)
                        /\ store' = Initialized(store, Last(frames[caller].envs), "this", owed)
                   ELSE frames' = popped /\ Observe(answer, owed) /\ UNCHANGED store

EndScript ==
    /\ Len(frames) = 1 /\ What = "end" /\ Scope = 1
    /\ frames' = <<>> /\ SameEnvironment
    /\ UNCHANGED <<prog, kept, calls, saw>>

Finished == ~Running /\ UNCHANGED vars

-----------------------------------------------------------------------------
ScriptFunction(f) == [Bare(f) EXCEPT !.env = 1]

\* lower_program: the vars and declarations of the script are global, its lets
\* wait in its record.
Init ==
    /\ \E k \in DOMAIN Programs :
            prog = [source |-> Programs[k], compiled |-> Compiled(Programs[k])]
    /\ frames = <<[fn |-> 1, path |-> <<<<1, 1>>>>, envs |-> <<1>>, regs |-> <<>>, base |-> 0,
                   func |-> Bare(1)] @@ PlainCall(Bare(1), Bare(1))>>
    /\ closure_var_stack = <<>> /\ cells = <<>> /\ kept = <<>> /\ calls = 0
    /\ saw = <<Undefined, Undefined>>
    /\ script_env = [x \in LetsOf(P, 1) |-> Dead]
    /\ globals = [x \in ScriptVars(P) |->
                    IF x \in DeclarationNames(P, 1)
                    THEN ScriptFunction(CHOOSE f \in Declarations(P, 1) : P.self[f] = x)
                    ELSE Undefined]
    /\ store = <<[scope |-> 1, outer |-> 0,
                  names |-> globals @@ script_env @@ [x \in {"this", "target"} |-> Undefined]]>>

Next ==
    \/ Read \/ Write \/ Let \/ EnterBlock \/ LeaveBlock \/ Make
    \/ Call \/ CallName \/ New \/ Construct \/ NoCall
    \/ SuperBuiltin \/ Super \/ Return
    \/ EndScript \/ Finished

Spec == Init /\ [][Next]_vars

-----------------------------------------------------------------------------
(* Properties.                                                             *)

\* Whatever a statement observes, in whatever order the functions of the
\* program are made, called and left by exceptions: a name, this and
\* new.target hold what the binding in sight of the statement holds, they are
\* dead when it is dead, and a constructor answers the object it bound
\* (LoadEnv, StoreEnv, LoadThis, CallSuperSpread, Ret).
NamesMeanBindings == Same(saw[1], saw[2])

\* The cells the functions hold are the bindings they were made in sight of:
\* two functions share a cell exactly when they share the binding, and it
\* holds what the binding holds (ClosureVar, MakeCell).  The binding of a
\* block is copied.
CellsAreBindings ==
    LET held == UNION {{[x |-> kept[k].captured[i][1], cell |-> kept[k].captured[i][2],
                         env |-> Binder(store, kept[k].env, kept[k].captured[i][1])] :
                            i \in DOMAIN kept[k].captured} : k \in DOMAIN kept}
        shared == {h \in held : P.kind[store[h.env].scope] \notin Blocks}
    IN  /\ \A h \in held : Same(cells[h.cell], store[h.env].names[h.x])
        /\ \A h, j \in shared : h.cell = j.cell <=> h.x = j.x /\ h.env = j.env
=============================================================================
