-------------------------- MODULE CompiledFunction --------------------------
(***************************************************************************)
(* A compiled function at work: the bytecode Codegen makes of what         *)
(* Lowering made of a body, run by the virtual machine                     *)
(* (src/src/vm/exec.rs, handle_throw of src/src/vm/mod.rs) in one frame,   *)
(* next to what the body means by the rules of the language.               *)
(*                                                                         *)
(* A slot nobody has written holds what an earlier frame left there.       *)
(* Exceptions come from throw and from calls.  Nested frames, builtins and *)
(* the watermarks of a record are the subject of Unwinding.                *)
(***************************************************************************)
EXTENDS SsaConstruction, Lowering

CONSTANTS
    Source,         \* the functions: a sequence of [variables, body]
    Answers,        \* what a call may answer, Thrown when it throws
    MaxCalls,       \* bound: calls answered in one run
    StrayExits      \* see Transfer

ASSUME CompiledFunctionAssumption ==
    /\ Answers \subseteq {0, 1, Thrown}
    /\ MaxCalls \in Nat
    /\ StrayExits \in BOOLEAN

Junk == -9
NoValue == -8
Running == <<"running", 0>>

VARIABLES
    fn,          \* which function; fixed
    phase,       \* how far it is compiled: "source", "graph", "ssa", "code"
    unit,        \* what it is compiled to so far
    pc,
    slots,       \* the frame's slots that have been written
    rv,          \* Register::Rv
    seh_stack,
    result,      \* Running, or how the run ended
    answers, said,  \* the calls so far; not in the code
    variables    \* the value last given to each variable, whatever the
                 \* version; not in the code

vars == <<fn, phase, unit, pc, slots, rv, seh_stack, result, answers, said, variables>>

Working == phase = "code" /\ result = Running
Here == unit.code[pc]
Op == Here.i.op
PcOf(block) == unit.block[block].pc

Val(operand) ==
    CASE operand[1] = "k" -> operand[2]
      [] operand[1] = "rv" -> rv
      [] OTHER -> IF operand[2] \in DOMAIN slots THEN slots[operand[2]] ELSE Junk

Init ==
    /\ fn \in DOMAIN Source /\ phase = "source" /\ unit = <<>>
    /\ pc = 1 /\ slots = <<>> /\ rv = NoValue /\ seh_stack = <<>>
    /\ result = Running /\ answers = <<>> /\ said = <<>> /\ variables = <<>>

-----------------------------------------------------------------------------
(* The clauses of the records.                                             *)

Table(rec) == unit.region[rec.region]
HandlerOpen(rec) == Table(rec).handler # Table(rec).finally /\ ~rec.catch_closed
FinallyDue(rec) == Table(rec).finally # 0 /\ ~rec.in_finally
Takes(rec) == HandlerOpen(rec) \/ FinallyDue(rec)
TakenBy(rec) == IF HandlerOpen(rec) THEN Table(rec).handler ELSE Table(rec).finally
Topmost(S) == IF S = {} THEN 0 ELSE Max(S)
Position(region) == Topmost({i \in DOMAIN seh_stack : seh_stack[i].region = region})

\* A block finds the variables as they were left.
Finds(block) ==
    \A version \in unit.block[block].versions :
        version[1] \in DOMAIN variables =>
            /\ version \in DOMAIN slots
            /\ slots[version] = variables[version[1]]

\* Control leaves for a block other than by a jump.  The compiler prepares for
\* it only in a throw, along an edge of its block, with the arguments of that
\* block.  Every other way in finds what the slots happen to hold: unless
\* StrayExits, a run in which these are not the variables stops there.
Prepared(block) ==
    LET from == unit.block[Here.at[1]]
        wanting == {to \in from.succ : ~unit.block[to].bare}
    IN  /\ Op = "throw" /\ block \in from.succ
        /\ unit.block[block].bare \/ block = Min(wanting)

Transfer(block, recs, value) ==
    IF StrayExits \/ Prepared(block) \/ Finds(block)
    THEN /\ pc' = PcOf(block) /\ seh_stack' = recs /\ rv' = value
         /\ UNCHANGED result
    ELSE /\ result' = <<"stray", block>>
         /\ UNCHANGED <<pc, seh_stack, rv>>

Leave(how) ==
    result' = how /\ UNCHANGED <<pc, seh_stack, rv>>

\* handle_throw: records are popped until one takes the exception.
HandleThrow(v, recs) ==
    LET i == Topmost({k \in DOMAIN recs : Takes(recs[k])})
        rest == SubSeq(recs, 1, i)
    IN  IF i = 0 THEN Leave(<<"throw", v>>)
        ELSE IF HandlerOpen(recs[i])
        THEN Transfer(TakenBy(recs[i]), [rest EXCEPT ![i].catch_closed = TRUE], v)
        ELSE Transfer(TakenBy(recs[i]),
                      [rest EXCEPT ![i].in_finally = TRUE, ![i].pending = <<"throw", v>>], rv)

\* The innermost finally due among the records from the first on runs, and
\* then what is pending.
RunFinally(i, pending) ==
    Transfer(Table(seh_stack[i]).finally,
             [seh_stack EXCEPT ![i].in_finally = TRUE, ![i].catch_closed = TRUE,
                               ![i].pending = pending], rv)

DueFrom(first) == Topmost({i \in DOMAIN seh_stack : i >= first /\ FinallyDue(seh_stack[i])})

-----------------------------------------------------------------------------
(* The instructions.                                                       *)

Unsaid == UNCHANGED <<answers, said>>
NextPc == pc' = pc + 1

\* A value is stored: a move, an increment, a comparison, LoadException.
Store ==
    /\ Op \in {"move", "inc", "equal", "load_exception"}
    /\ LET value == CASE Op = "move" -> Val(Here.i.use[1])
                      [] Op = "inc" -> Val(Here.i.use[1]) + 1
                      [] Op = "equal" -> IF Val(Here.i.use[1]) = Val(Here.i.use[2]) THEN 1 ELSE 0
                      [] OTHER -> rv
       IN  /\ slots' = (Here.i.dst :> value) @@ slots
           /\ variables' = IF Here.i.dst[3] = 0 THEN variables
                           ELSE (Here.i.dst[1] :> value) @@ variables
    /\ NextPc /\ UNCHANGED <<rv, seh_stack, result>> /\ Unsaid

SetRv ==
    /\ Op = "set_rv"
    /\ rv' = Val(Here.i.use[1])
    /\ NextPc /\ UNCHANGED <<slots, variables, seh_stack, result>> /\ Unsaid

JumpOrBranch ==
    /\ Op \in {"jump", "br_if"}
    /\ \E truth \in IF Op = "jump" THEN {TRUE}
                    ELSE IF Val(Here.i.use[1]) = Junk THEN BOOLEAN
                    ELSE {Val(Here.i.use[1]) \notin Falsy} :
          pc' = PcOf(Here.i.to[IF truth THEN 1 ELSE 2])
    /\ UNCHANGED <<slots, rv, seh_stack, result, variables>> /\ Unsaid

Says == [k \in DOMAIN Here.i.use |-> Val(Here.i.use[k])]

Call ==
    /\ Op = "call"
    /\ Len(answers) < MaxCalls
    /\ \E a \in Answers :
          /\ answers' = Append(answers, a) /\ said' = Append(said, Says)
          /\ IF a = Thrown THEN HandleThrow(Thrown, seh_stack)
             ELSE NextPc /\ rv' = a /\ UNCHANGED <<seh_stack, result>>
    /\ UNCHANGED <<slots, variables>>

Throw ==
    /\ Op = "throw"
    /\ HandleThrow(Val(Here.i.use[1]), seh_stack)
    /\ UNCHANGED <<slots, variables>> /\ Unsaid

Try ==
    /\ Op = "push_seh"
    /\ seh_stack' = Append(seh_stack, [region |-> Here.i.to[3], catch_closed |-> FALSE,
                                       in_finally |-> FALSE, pending |-> <<"normal", 0>>])
    /\ NextPc /\ UNCHANGED <<slots, rv, result, variables>> /\ Unsaid

\* With a finally to come the record stays, for ResumeExc to take.
EndTry ==
    /\ Op = "pop_seh"
    /\ LET i == Position(Here.i.to[1])
       IN  seh_stack' = IF i = 0 THEN Front(seh_stack)
                        ELSE IF Table(seh_stack[i]).finally = 0 THEN RemoveAt(seh_stack, i)
                        ELSE [seh_stack EXCEPT ![i].in_finally = TRUE,
                                               ![i].catch_closed = TRUE]
    /\ NextPc /\ UNCHANGED <<slots, rv, result, variables>> /\ Unsaid

ResumeExc ==
    /\ Op = "resume"
    /\ LET i == Position(Here.i.to[1])
           pending == IF i = 0 THEN <<"none", 0>>
                      ELSE IF seh_stack[i].in_finally THEN seh_stack[i].pending
                      ELSE <<"none", 0>>
           rest == RemoveAt(seh_stack, i)
       IN  CASE pending[1] = "none" ->
                    NextPc /\ UNCHANGED <<seh_stack, rv, result>>
             [] pending[1] = "normal" ->
                    NextPc /\ seh_stack' = rest /\ UNCHANGED <<rv, result>>
             [] pending[1] = "throw" -> HandleThrow(pending[2], rest)
             [] pending[1] = "jump" -> Transfer(pending[2], rest, rv)
             [] pending[1] = "return" ->
                    /\ pc' = unit.exit
                    /\ seh_stack' = rest /\ rv' = pending[2]
                    /\ UNCHANGED result
    /\ UNCHANGED <<slots, variables>> /\ Unsaid

DelayedJump ==
    /\ Op = "delayed_jump"
    /\ LET depth == Here.i.to[2]
           i == DueFrom(Len(seh_stack) + 1 - depth)
       IN  IF i # 0 THEN RunFinally(i, <<"jump", Here.i.to[1]>>)
           ELSE Transfer(Here.i.to[1], SubSeq(seh_stack, 1, Len(seh_stack) - depth), rv)
    /\ UNCHANGED <<slots, variables>> /\ Unsaid

Ret ==
    /\ Op = "ret"
    /\ IF DueFrom(1) # 0 THEN RunFinally(DueFrom(1), <<"return", rv>>)
       ELSE Leave(<<"return", rv>>)
    /\ UNCHANGED <<slots, variables>> /\ Unsaid

\* Not an operation: the run is over, or has made all the calls of the bound.
Over ==
    /\ phase = "code"
    /\ result # Running \/ (Op = "call" /\ Len(answers) = MaxCalls)
    /\ UNCHANGED vars

\* Compiler::compile for the function: its body is lowered, then converted to
\* SSA form, then its code is generated.
Compile ==
    /\ \/ /\ phase = "source" /\ phase' = "graph"
          /\ unit' = Lower(Source[fn].variables, Source[fn].body)
       \/ phase = "graph" /\ phase' = "ssa" /\ unit' = ConvertToSsa(unit)
       \/ phase = "ssa" /\ phase' = "code" /\ unit' = GenerateCode(unit)
    /\ UNCHANGED <<fn, pc, slots, rv, seh_stack, result, answers, said, variables>>

Step ==
    /\ Working /\ UNCHANGED <<fn, phase, unit>>
    /\ \/ Store \/ SetRv \/ JumpOrBranch \/ Call \/ Throw \/ Try \/ EndTry \/ ResumeExc
       \/ DelayedJump \/ Ret

Spec == Init /\ [][Compile \/ Step \/ Over]_vars

-----------------------------------------------------------------------------

\* Whatever its calls answer, the compiled function says what its source says,
\* in that order, and ends as its source ends.  This is the whole way through
\* lower_try, lower_loop_exit, SSABuilder, Codegen and the exception dispatch.
CodeMeansSource ==
    [][/\ answers' # answers =>
            Meaning(Source[fn].variables, Source[fn].body, answers)
                = [said |-> said', c |-> <<"wait", 0>>]
       /\ result'[1] \in {"return", "throw"} =>
            Meaning(Source[fn].variables, Source[fn].body, answers')
                = [said |-> said', c |-> result']]_vars

\* An EndTry and a ResumeExc find the record of their own try statement on top
\* of the seh_stack, as codegen's pairing claims, and a ResumeExc finds it in
\* its finally.
RegionsClosed ==
    Working /\ Op \in {"pop_seh", "resume"} =>
        /\ seh_stack # <<>>
        /\ Last(seh_stack).region = Here.i.to[1]
        /\ Last(seh_stack).in_finally <=> Op = "resume"

\* The block a throw statement is caught in is a successor of its own block:
\* otherwise nothing the handler reads would have been handed over.
ThrowsFollowEdges ==
    Working /\ Op = "throw" =>
        LET able == {i \in DOMAIN seh_stack : Takes(seh_stack[i])}
        IN  able # {} =>
                TakenBy(seh_stack[Max(able)]) \in unit.block[Here.at[1]].succ

\* What code generation takes for granted of the handlers it emits: they are
\* closed in the order they were opened, and a throw lands where an edge goes.
HandlersAsEmitted == RegionsClosed /\ ThrowsFollowEdges
=============================================================================
