------------------------------ MODULE Lowering ------------------------------
(***************************************************************************)
(* JSASTLower (src/src/compiler/lowering/mod.rs) for the statements and    *)
(* expressions of SourceLanguage: from the body of a function to its       *)
(* control-flow graph.                                                     *)
(*                                                                         *)
(* The lowerer is a value l: the graph g and the block cur it emits into,  *)
(* its contexts (loops, labels, regions), and the symbol table as the slot *)
(* of each name with the names that are past their dead zone.              *)
(* Abstracted: names are bound once per scope, and no nested function      *)
(* captures them (a captured name lives in a cell, not in a slot).         *)
(***************************************************************************)
EXTENDS FlowGraph, SourceLanguage

Add(l, i) == [l EXCEPT !.g = Emit(@, l.cur, i)]
At(l, b) == [l EXCEPT !.cur = b]
New(l, n) == [l EXCEPT !.g = CreateBlocks(@, n)]
Top(l) == Len(l.g.code)
Alloc(l) == [l EXCEPT !.g.variables = @ + 1]
Slot(l) == l.g.variables
Ended(l) == Terminated(l.g, l.cur)

Jump(l, b) == Add(l, Instruction("jump", 0, <<>>, <<b>>))
BrIf(l, v, yes, no) == Add(l, Instruction("br_if", 0, <<v>>, <<yes, no>>))
JumpUnlessEnded(l, b) == IF Ended(l) THEN l ELSE Jump(l, b)
SealBlock(l) == [l EXCEPT !.g.sealed[l.cur] = TRUE]

EnterScope(l, names) ==
    FoldLeft(LAMBDA m, x: LET n == Alloc(m)
                          IN  [Add(n, Move(Slot(n), K(Undefined))) EXCEPT
                                  !.slot[x] = Slot(n), !.live = @ \ {x}],
             l, SetToSeq(names))
LeaveScope(l, outer) == [l EXCEPT !.slot = outer.slot, !.live = outer.live]

\* throw_tdz: the block goes on after the throw.
ThrowTdz(l) ==
    [l |-> Add(l, Instruction("throw", 0, <<K(ReferenceError)>>, <<>>)),
     v |-> K(Undefined)]

-----------------------------------------------------------------------------
(* enter_loop_context, leave_loop_context, lower_loop_exit.                *)

EnterLoop(l, break, continue) ==
    LET labels == [i \in DOMAIN l.pending |->
            [name |-> l.pending[i], break |-> break, continue |-> continue,
             seh_depth |-> l.seh_depth, loop_depth |-> Len(l.loops) + 1]]
    IN  [l EXCEPT !.loops = Append(@, [break |-> break, continue |-> continue,
                                       seh_depth |-> l.seh_depth]),
                  !.labels = @ \o labels, !.pending = <<>>]

LeaveLoop(l) ==
    [l EXCEPT !.loops = Front(@),
              !.labels = SelectSeq(@, LAMBDA c: c.loop_depth < Len(l.loops))]

\* Mutant: the innermost of the regions stays open.
LoopExitOneShort(l, target, seh_depth) ==
    LET pop == Max({l.seh_depth - seh_depth - 1, 0})
        m == New(l, 1)
        exit(f) == [f EXCEPT !.exits = Append(@,
                      <<IF f.in_finally \/ f.finally = 0 THEN l.cur ELSE f.finally,
                        Top(m)>>)]
        n == Add([m EXCEPT !.frames = [i \in DOMAIN @ |->
                    IF i > Len(@) - pop THEN exit(@[i]) ELSE @[i]]],
                 Instruction("delayed_jump", 0, <<>>, <<Top(m), pop>>))
    IN  SealBlock(Jump(IF pop > 0 THEN At(n, Top(m)) ELSE l, target))

\* Through a trampoline, when regions are left on the way.
LoopExit(l, target, seh_depth) ==
    LET pop == l.seh_depth - seh_depth
        m == New(l, 1)
        exit(f) == [f EXCEPT !.exits = Append(@,
                      <<IF f.in_finally \/ f.finally = 0 THEN l.cur ELSE f.finally,
                        Top(m)>>)]
        n == Add([m EXCEPT !.frames = [i \in DOMAIN @ |->
                    IF i > Len(@) - pop THEN exit(@[i]) ELSE @[i]]],
                 Instruction("delayed_jump", 0, <<>>, <<Top(m), pop>>))
    IN  SealBlock(Jump(IF pop > 0 THEN At(n, Top(m)) ELSE l, target))

Labelled(l, name) == SelectSeq(l.labels, LAMBDA c: c.name = name)

Break(l, name) ==
    LET c == IF name = "" THEN Last(l.loops) ELSE Last(Labelled(l, name))
    IN  LoopExit(l, c.break, c.seh_depth)

Continue(l, name) ==
    LET c == IF name = "" THEN Last(l.loops) ELSE Last(Labelled(l, name))
    IN  LoopExit(l, c.continue, c.seh_depth)

-----------------------------------------------------------------------------
RECURSIVE Expression(_, _), Statement(_, _), Statements(_, _), Arguments(_, _)

\* Where the slot of a name may be read or written: past its dead zone.
Bound(l, name, Op(_)) == IF name \in l.live THEN Op(l.slot[name]) ELSE ThrowTdz(l)

LowerIdentifier(l, e) == Bound(l, e[2], LAMBDA slot: [l |-> l, v |-> V(slot)])

LowerAssignment(l, e) ==
    Bound(l, e[2], LAMBDA slot:
        LET r == Expression(l, e[3])
        IN  [l |-> Add(r.l, Move(slot, r.v)), v |-> r.v])

\* The postfix form: ToNumber, then the addition.
LowerUpdate(l, e) ==
    Bound(l, e[2], LAMBDA slot:
        LET old == Alloc(l)
            new == Alloc(Add(old, Move(Slot(old), V(slot))))
            sum == Add(new, Instruction("inc", Slot(new), <<V(Slot(old))>>, <<>>))
        IN  [l |-> Add(sum, Move(slot, V(Slot(new)))), v |-> V(Slot(old))])

LowerCall(l, e) ==
    LET args == Arguments(l, e[2])
        m == Alloc(args.l)
    IN  [l |-> Add(m, Instruction("call", Slot(m), args.v, <<>>)), v |-> V(Slot(m))]

\* Both arms assign the result and go on at its merge block.
Arm(l, b, e, result, merge) ==
    LET r == Expression(At(l, b), e)
    IN  Jump(Add(r.l, Move(result, r.v)), merge)

LowerConditional(l, e) ==
    LET m == New(Alloc(l), 3)
        b == Top(m)
        test == Expression(m, e[2])
        then == Arm(BrIf(test.l, test.v, b - 2, b - 1), b - 2, e[3], Slot(m), b)
    IN  [l |-> At(Arm(then, b - 1, e[4], Slot(m), b), b), v |-> V(Slot(m))]

LowerLogical(l, e) ==
    LET lhs == Expression(l, e[2])
        m == New(Alloc(lhs.l), 2)
        rhs == Top(m) - 1
        merge == Top(m)
        kept == Add(m, Move(Slot(m), lhs.v))
        split == IF e[1] = "and" THEN BrIf(kept, lhs.v, rhs, merge)
                                 ELSE BrIf(kept, lhs.v, merge, rhs)
    IN  [l |-> At(Arm(split, rhs, e[3], Slot(m), merge), merge), v |-> V(Slot(m))]

Expression(l, e) ==
    CASE e[1] = "val" -> [l |-> l, v |-> K(e[2])]
      [] e[1] = "var" -> LowerIdentifier(l, e)
      [] e[1] = "assign" -> LowerAssignment(l, e)
      [] e[1] = "inc" -> LowerUpdate(l, e)
      [] e[1] = "call" -> LowerCall(l, e)
      [] e[1] = "cond" -> LowerConditional(l, e)
      [] e[1] \in {"and", "or"} -> LowerLogical(l, e)

Arguments(l, es) ==
    IF es = <<>> THEN [l |-> l, v |-> <<>>]
    ELSE LET first == Expression(l, Head(es))
             rest == Arguments(first.l, Tail(es))
         IN  [l |-> rest.l, v |-> <<first.v>> \o rest.v]

\* lower_block_like: what follows a terminator is not lowered.
Statements(l, ss) ==
    IF ss = <<>> THEN l
    ELSE LET m == Statement(l, Head(ss))
         IN  IF Ended(m) THEN m ELSE Statements(m, Tail(ss))

\* lower_block_like_with_result: a protected body, whose value goes to the
\* result of the try statement.
WithResult(l, ss, result) ==
    LET step(r, st) ==
            IF Ended(r.l) THEN r
            ELSE IF st[1] # "expr" THEN [l |-> Statement(r.l, st), v |-> <<>>]
            ELSE LET e == Expression(r.l, st[2]) IN [l |-> e.l, v |-> <<e.v>>]
        stored(r) == IF r.v = <<>> THEN r.l ELSE Add(r.l, Move(result, r.v[1]))
    IN  stored(FoldLeft(step, [l |-> l, v |-> <<>>], ss))

\* The end of a protected body or of a catch clause.
CloseRegion(l, region, next) ==
    IF Ended(l) THEN l
    ELSE Jump(Add(l, Instruction("pop_seh", 0, <<>>, <<region>>)), next)

LinkAll(l, edges) ==
    [l EXCEPT !.g = FoldLeft(LAMBDA g, e: AddEdge(g, e[1], e[2]), @, edges)]

\* The blocks of a try statement, after the first of them, which also names the
\* region; no finally is 0.
TryBlocks(st, region, result) ==
    [region |-> region, result |-> result, catch |-> region + 1, after |-> region + 3,
     finally |-> IF st[5] = <<>> THEN 0 ELSE region + 2,
     handler |-> IF st[4] = <<>> THEN region + 2 ELSE region + 1,
     next |-> IF st[5] = <<>> THEN region + 3 ELSE region + 2]

OpenRegion(l, st, t) ==
    LinkAll(Add([Add(l, Move(t.result, K(Undefined))) EXCEPT
                    !.seh_depth = @ + 1,
                    !.frames = Append(@, [finally |-> t.finally, exits |-> <<>>,
                                          in_finally |-> FALSE])],
                Instruction("push_seh", 0, <<>>, <<t.handler, t.finally, t.region>>)),
            <<<<t.region, t.handler>>>>
            \o (IF t.finally = 0 THEN <<>> ELSE <<<<t.region, t.finally>>>>)
            \o (IF t.finally = 0 \/ st[4] = <<>> THEN <<>> ELSE <<<<t.catch, t.finally>>>>))

TryBody(l, st, t) ==
    CloseRegion(WithResult(At(Jump(OpenRegion(l, st, t), t.region), t.region),
                           st[2], t.result), t.region, t.next)

CatchClause(l, st, t) ==
    LET load == Alloc(At(l, t.catch))
        bound == [Add(load, Instruction("load_exception", Slot(load), <<>>, <<>>)) EXCEPT
                    !.slot[st[3]] = Slot(load), !.live = @ \cup {st[3]}]
    IN  LeaveScope(CloseRegion(WithResult(bound, st[4][1], t.result), t.region, t.next), l)

EndFinally(l, t) ==
    IF Ended(l) THEN l
    ELSE Jump(Add(l, Instruction("resume", 0, <<>>, <<t.region>>)), t.after)

FinallyClause(l, st, t) ==
    LET inside == [l EXCEPT !.frames =
                     Append(Front(@), [Last(@) EXCEPT !.in_finally = TRUE])]
    IN  EndFinally(Statements(At(inside, t.finally), st[5][1]), t)

LeaveRegion(l, t) ==
    At(LinkAll([l EXCEPT !.seh_depth = @ - 1, !.frames = Front(@)], Last(l.frames).exits),
       t.after)

LowerTry(l, st) ==
    LET m == New(Alloc(l), 4)
        t == TryBlocks(st, Top(m) - 3, Slot(m))
        catch(n) == IF st[4] = <<>> THEN n ELSE CatchClause(n, st, t)
        finally(n) == IF st[5] = <<>> THEN n ELSE FinallyClause(n, st, t)
    IN  LeaveRegion(finally(catch(TryBody(m, st, t))), t)

\* lower_switch: the chain of tests, then the clauses, each falling through.
LowerCases(disc, cases) ==
    LET Tested == {i \in DOMAIN cases : cases[i][1] # <<>>}
        after == Top(disc.l) + 1
        \* the last block of the first n clauses: each test has one too
        body == [n \in DOMAIN cases |-> after + n + Cardinality(Tested \cap 1..n)]
        tests == Ascending(Tested)
        default == IF DOMAIN cases = Tested THEN after
                   ELSE body[CHOOSE i \in DOMAIN cases : i \notin Tested]
        continue == IF disc.l.loops = <<>> THEN after ELSE Last(disc.l.loops).continue
        entered == EnterLoop(New(disc.l, 1 + Len(cases) + Len(tests)), after, continue)
        start == Jump(entered, IF tests = <<>> THEN default ELSE body[tests[1]] - 1)
        test(n, k) ==
            LET i == tests[k]
                at == Alloc(At(n, body[i] - 1))
                next == IF k < Len(tests) THEN body[tests[k + 1]] - 1 ELSE default
            IN  BrIf(Add(at, Instruction("equal", Slot(at), <<disc.v, K(cases[i][1][2])>>, <<>>)),
                     V(Slot(at)), body[i], next)
        clause(n, i) ==
            JumpUnlessEnded(Statements(At(n, body[i]), cases[i][2]),
                            IF i < Len(cases) THEN body[i + 1] ELSE after)
        lowered == FoldLeft(clause, FoldLeft(test, start, [k \in DOMAIN tests |-> k]),
                            [i \in DOMAIN cases |-> i])
    IN  At(LeaveLoop(lowered), after)

LowerSwitch(l, st) == LowerCases(Expression(l, st[2]), st[3])

LowerLet(l, st) ==
    LET r == Expression(l, st[3])
    IN  [Add(r.l, Move(l.slot[st[2]], r.v)) EXCEPT !.live = @ \cup {st[2]}]

LowerBlock(l, st) == LeaveScope(Statements(EnterScope(l, LetNames(st[2])), st[2]), l)

Branches(test, st, merge) ==
    LET alternate == st[4] # <<"block", <<>>>>
        m == IF alternate THEN New(test.l, 1) ELSE test.l
        else == IF alternate THEN Top(test.l) + 1 ELSE merge
        branch(n, b, s) == JumpUnlessEnded(Statement(At(n, b), s), merge)
        then == branch(BrIf(m, test.v, merge + 1, else), merge + 1, st[3])
    IN  At(IF alternate THEN branch(then, else, st[4]) ELSE then, merge)

LowerIf(l, st) == Branches(Expression(New(l, 2), st[2]), st, Top(l) + 1)

LowerWhile(l, st) ==
    LET m == New(l, 3)
        cond == Top(m) - 2
        test == Expression(At(Jump(EnterLoop(m, Top(m), cond), cond), cond), st[2])
        body == Statement(At(BrIf(test.l, test.v, cond + 1, Top(m)), cond + 1), st[3])
    IN  At(LeaveLoop(JumpUnlessEnded(body, cond)), Top(m))

LowerDoWhile(l, st) ==
    LET m == New(l, 3)
        cond == Top(m) - 1
        entered == Jump(EnterLoop(m, Top(m), cond), cond - 1)
        body == JumpUnlessEnded(Statement(At(entered, cond - 1), st[2]), cond)
        test == Expression(At(body, cond), st[3])
    IN  At(LeaveLoop(BrIf(test.l, test.v, cond - 1, Top(m))), Top(m))

LowerFor(l, st) ==
    LET m == New(l, 4)
        cond == Top(m) - 3
        update == cond + 2
        start == Expression(EnterLoop(m, Top(m), update), st[2])
        test == Expression(At(Jump(start.l, cond), cond), st[3])
        body == JumpUnlessEnded(
                    Statement(At(BrIf(test.l, test.v, cond + 1, Top(m)), cond + 1), st[5]),
                    update)
        next == Jump(Expression(At(body, update), st[4]).l, cond)
    IN  At(LeaveLoop(next), Top(m))

\* A loop takes its labels with it; any other statement has a block to break to.
LowerLabeled(l, st) ==
    LET m == New(l, 1)
        context == [name |-> st[2], break |-> Top(m), continue |-> 0,
                    seh_depth |-> m.seh_depth, loop_depth |-> Len(m.loops)]
        body == Statement([m EXCEPT !.labels = Append(@, context)], st[3])
    IN  IF st[3][1] \in {"while", "do", "for"}
        THEN Statement([l EXCEPT !.pending = Append(@, st[2])], st[3])
        ELSE At([JumpUnlessEnded(body, Top(m)) EXCEPT !.labels = Front(@)], Top(m))

LowerThrow(l, st) ==
    LET r == Expression(l, st[2])
    IN  SealBlock(Add(r.l, Instruction("throw", 0, <<r.v>>, <<>>)))

LowerReturn(l, st) ==
    LET r == Expression(l, st[2])
    IN  Add(r.l, Instruction("return", 0, <<r.v>>, <<>>))

Statement(l, st) ==
    CASE st[1] = "expr" -> Expression(l, st[2]).l
      [] st[1] = "let" -> LowerLet(l, st)
      [] st[1] = "block" -> LowerBlock(l, st)
      [] st[1] = "if" -> LowerIf(l, st)
      [] st[1] = "while" -> LowerWhile(l, st)
      [] st[1] = "do" -> LowerDoWhile(l, st)
      [] st[1] = "for" -> LowerFor(l, st)
      [] st[1] = "switch" -> LowerSwitch(l, st)
      [] st[1] = "labeled" -> LowerLabeled(l, st)
      [] st[1] = "break" -> Break(l, st[2])
      [] st[1] = "continue" -> Continue(l, st[2])
      [] st[1] = "throw" -> LowerThrow(l, st)
      [] st[1] = "return" -> LowerReturn(l, st)
      [] st[1] = "try" -> LowerTry(l, st)

\* lower_function_inner: every var is undefined, every top-level let in its
\* dead zone; every statement is lowered; a body that ends returns.
Lower(variables, body) ==
    LET start == [g |-> CreateBlocks(EmptyGraph, 1), cur |-> Entry,
                  seh_depth |-> 0, frames |-> <<>>, loops |-> <<>>, labels |-> <<>>,
                  pending |-> <<>>, slot |-> [x \in variables |-> 0], live |-> {}]
        vars == variables \ LetNames(body)
        hoisted == [EnterScope(EnterScope(start, vars), LetNames(body)) EXCEPT !.live = vars]
        returned(l) == IF Ended(l) THEN l
                       ELSE Add(l, Instruction("return", 0, <<K(Undefined)>>, <<>>))
    IN  returned(FoldLeft(Statement, hoisted, body)).g
=============================================================================
