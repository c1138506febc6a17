--------------------------- MODULE SsaConstruction ---------------------------
(***************************************************************************)
(* SSABuilder (src/src/compiler/ir/ssabuilder.rs): the edges along which a *)
(* throw reaches its handlers, the blocks that get a parameter for a       *)
(* variable, and the version of a variable every operand means; and        *)
(* Codegen, which makes bytecode of the result.                            *)
(*                                                                         *)
(* A version is <<v, b, j>>: what the j-th instruction of block b gave     *)
(* variable v, or for j = 0 what b was given for it as a parameter.        *)
(***************************************************************************)
EXTENDS FlowGraph

\* What stands for a variable that has no version: the variable itself.
Unversioned(v) == <<v, 0, 0>>

-----------------------------------------------------------------------------
(* The exception edges.                                                    *)

\* PushSeh names its handler, its finally (or 0) and its region, PopSeh its
\* region.
RegionsAfter(code, regions) ==
    FoldLeft(LAMBDA rs, i: IF i.op = "push_seh" THEN rs \cup {i.to[3]}
                           ELSE IF i.op = "pop_seh" THEN rs \ {i.to[1]} ELSE rs,
             regions, code)

\* compute_active_regions: the regions that may be open where a block begins.
RECURSIVE ActiveFrom(_, _)
ActiveFrom(g, out) ==
    LET in == [b \in Blocks(g) |->
                  IF b = Entry THEN {} ELSE UNION {out[p] : p \in ToSet(g.pred[b])}]
        next == [b \in Blocks(g) |-> RegionsAfter(g.code[b], in[b])]
    IN  IF next = out THEN in ELSE ActiveFrom(g, next)

ActiveRegions(g) == ActiveFrom(g, [b \in Blocks(g) |-> {}])

\* The instructions the scan of a block sees: it stops at a throw.
Scanned(code) ==
    LET throws == {j \in DOMAIN code : code[j].op = "throw"}
    IN  IF throws = {} THEN code ELSE SubSeq(code, 1, Min(throws))

\* The PushSeh of the regions open before an instruction, by region.
OpenHandlers(g, active, b, j) ==
    LET pushes == {i \in UNION {ToSet(g.code[c]) : c \in Blocks(g)} : i.op = "push_seh"}
        open == Ascending(RegionsAfter(SubSeq(g.code[b], 1, j - 1), active[b]))
    IN  [k \in DOMAIN open |-> CHOOSE i \in pushes : i.to[3] = open[k]]

\* What encloses the try statement whose finally begins with block b.
FinallyOuterScope(g, active, b) ==
    LET at == {<<c, j>> \in UNION {{c} \X DOMAIN Scanned(g.code[c]) : c \in Blocks(g)} :
                  g.code[c][j].op = "push_seh" /\ g.code[c][j].to[2] = b}
    IN  FlattenSeq([i \in 1..Cardinality(at) |->
            OpenHandlers(g, active, (CHOOSE p \in at : TRUE)[1],
                         (CHOOSE p \in at : TRUE)[2])])

\* A throw leads to every handler and finally of the regions open at it, a
\* resume to the handlers around the statement it ends.
ThrowTargets(g, active, b, j) ==
    CASE g.code[b][j].op = "throw" ->
            FlattenSeq([i \in DOMAIN OpenHandlers(g, active, b, j) |->
                LET to == OpenHandlers(g, active, b, j)[i].to
                IN  IF to[2] = 0 THEN <<to[1]>> ELSE <<to[1], to[2]>>])
      [] g.code[b][j].op = "resume" ->
            [i \in DOMAIN FinallyOuterScope(g, active, b) |->
                FinallyOuterScope(g, active, b)[i].to[1]]
      [] OTHER -> <<>>

\* Mutant: a throw leads only to the innermost handler.
InnermostThrowEdges(g) ==
    LET active == ActiveRegions(g)
        last(seq) == SubSeq(seq, Max({1, Len(seq)}), Len(seq))
        edge(h, b, to) == IF to \in ToSet(h.succ[b]) THEN h ELSE AddEdge(h, b, to)
        block(h, b) ==
            FoldLeft(LAMBDA k, to: edge(k, b, to), h,
                     FlattenSeq([j \in DOMAIN Scanned(g.code[b]) |->
                                    last(ThrowTargets(g, active, b, j))]))
    IN  FoldLeft(block, g, [b \in Blocks(g) |-> b])

\* add_exception_edges_for_throws
AddExceptionEdges(g) ==
    LET active == ActiveRegions(g)
        edge(h, b, to) == IF to \in ToSet(h.succ[b]) THEN h ELSE AddEdge(h, b, to)
        block(h, b) ==
            FoldLeft(LAMBDA k, to: edge(k, b, to), h,
                     FlattenSeq([j \in DOMAIN Scanned(g.code[b]) |->
                                    ThrowTargets(g, active, b, j)]))
    IN  FoldLeft(block, g, [b \in Blocks(g) |-> b])

-----------------------------------------------------------------------------
(* The block parameters.                                                   *)

Defining(g, v) == {b \in Blocks(g) : \E j \in DOMAIN g.code[b] : g.code[b][j].dst = v}
Using(g, v) ==
    {b \in Blocks(g) : \E j \in DOMAIN g.code[b] : V(v) \in ToSet(g.code[b][j].use)}
DefinedOnce(g, v) ==
    Cardinality(UNION {{<<b, j>> : j \in {k \in DOMAIN g.code[b] : g.code[b][k].dst = v}}
                       : b \in Blocks(g)}) <= 1

RECURSIVE IteratedFrontier(_, _, _)
IteratedFrontier(frontier, from, found) ==
    LET next == {p[2] : p \in {q \in frontier : q[1] \in from \cup found}}
    IN  IF next = found THEN found ELSE IteratedFrontier(frontier, from, next)

\* Mutant: the dominance frontier of the definitions, not iterated.
PhiBlocksOneStep(g, frontier, v) ==
    IF DefinedOnce(g, v) THEN {}
    ELSE {p[2] : p \in {q \in frontier : q[1] \in Defining(g, v)}}

\* determine_phi_nodes, for one variable: the iterated frontier, and the
\* blocks that read the variable after several predecessors of which one gives
\* it a value.
PhiBlocks(g, frontier, v) ==
    LET join(phis, b) ==
            IF /\ Len(g.pred[b]) > 1
               /\ \E p \in ToSet(g.pred[b]) : p \in Defining(g, v) \cup phis
            THEN phis \cup {b} ELSE phis
    IN  IF DefinedOnce(g, v) THEN {}
        ELSE FoldLeft(join, IteratedFrontier(frontier, Defining(g, v), {}),
                      Ascending(Using(g, v)))

-----------------------------------------------------------------------------
(* The versions.                                                           *)

\* convert_to_ssa up to the renaming: the graph with its exception edges, the
\* parameters of each block in the order of the variables, and its dominators.
WithParameters(g, dominance) ==
    LET frontier == DominanceFrontier(g, dominance)
        phis == UNION {{<<b, v>> : b \in PhiBlocks(g, frontier, v)} : v \in 1..g.variables}
    IN  [g |-> g, idom |-> ImmediateDominators(g, dominance), reachable |-> Reachable(g),
         params |-> [b \in Blocks(g) |->
                        Ascending({v \in 1..g.variables : <<b, v>> \in phis})]]

ConvertToSsa(lowered) ==
    LET annotated(g) == WithParameters(g, Dominance(g))
    IN  annotated(AddExceptionEdges(lowered))

\* The version on top of v's stack before the j-th instruction of block b:
\* the last one given in b, else b's parameter, else what b's dominator left.
\* A block the walk of the dominator tree never comes to has none.
RECURSIVE VersionAt(_, _, _, _)
VersionAt(s, v, b, j) ==
    LET given == {i \in 1..(j - 1) : s.g.code[b][i].dst = v}
    IN  IF b \notin s.reachable THEN Unversioned(v)
        ELSE IF given # {} THEN <<v, b, Max(given)>>
        ELSE IF v \in ToSet(s.params[b]) THEN <<v, b, 0>>
        ELSE IF b = Entry THEN Unversioned(v)
        ELSE VersionAt(s, v, s.idom[b], Len(s.g.code[s.idom[b]]) + 1)

AtEntry(s, v, b) == VersionAt(s, v, b, 1)
AtEnd(s, v, b) == VersionAt(s, v, b, Len(s.g.code[b]) + 1)

\* rename_use
Renamed(s, operand, b, j) ==
    IF operand[1] = "v" THEN V(VersionAt(s, operand[2], b, j)) ELSE operand

\* handle_jump_args: what block b hands to the parameters of block to.
JumpArguments(s, b, to) ==
    [k \in DOMAIN s.params[to] |->
        LET v == AtEnd(s, s.params[to][k], b)
        IN  IF v = Unversioned(s.params[to][k]) THEN K(Undefined) ELSE V(v)]

\* add_jump_arguments for a throw or a resume: there is one list, and the
\* first successor that has parameters fills it.
ThrowArguments(s, b) ==
    LET wanting == {to \in ToSet(s.g.succ[b]) : s.params[to] # <<>>}
    IN  IF wanting = {} THEN <<>> ELSE JumpArguments(s, b, Min(wanting))
-----------------------------------------------------------------------------
(* Codegen (src/src/compiler/codegen.rs): from the blocks in SSA form to   *)
(* one sequence of instructions.  FrameSlots gives every version a slot of *)
(* its own the first time it is named, so a slot is called by its version  *)
(* here; offsets are pcs.  An instruction keeps the place                  *)
(* <<block, position>> it is from, which only the properties read.         *)

Rv == <<"rv">>

\* store_jump_args: one move after the other into the slots of the parameters
\* of block to.
StoreJumpArgs(s, to, args) ==
    [k \in 1..Min({Len(args), Len(s.params[to])}) |->
        Instruction("move", <<s.params[to][k], to, 0>>, <<args[k]>>, <<>>)]

\* What one instruction becomes; blocks are still named by their number.
Lowered(s, b, j) ==
    LET i == s.g.code[b][j]
        reachable == b \in s.reachable
        dst == IF i.dst = 0 THEN 0
               ELSE IF reachable THEN <<i.dst, b, j>> ELSE Unversioned(i.dst)
        use == [k \in DOMAIN i.use |-> Renamed(s, i.use[k], b, j)]
        renamed == Instruction(i.op, dst, use, i.to)
        toAll(targets, args(_)) ==
            FlattenSeq([k \in DOMAIN targets |-> StoreJumpArgs(s, targets[k], args(targets[k]))])
    IN  CASE i.op = "call" ->
                <<[renamed EXCEPT !.dst = 0], Instruction("move", dst, <<Rv>>, <<>>)>>
          [] i.op = "return" ->
                <<Instruction("set_rv", 0, use, <<>>), Instruction("ret", 0, <<>>, <<>>)>>
          [] i.op \in {"jump", "br_if"} ->
                Append(toAll(i.to, LAMBDA to: JumpArguments(s, b, to)), renamed)
          [] i.op \in {"throw", "resume"} ->
                Append(toAll(s.g.succ[b], LAMBDA to: ThrowArguments(s, b)), renamed)
          [] OTHER -> <<renamed>>

BlockCode(s, b) ==
    LET placed(j, is) == [k \in DOMAIN is |-> [i |-> is[k], at |-> <<b, j>>]]
    IN  FlattenSeq([j \in DOMAIN s.g.code[b] |-> placed(j, Lowered(s, b, j))])

\* resolve_eh_regions: the clauses of the region that a Try, an EndTry or a
\* ResumeExc names.
RegionTable(s) ==
    LET pushes == {i \in UNION {ToSet(s.g.code[b]) : b \in Blocks(s.g)} : i.op = "push_seh"}
    IN  [region \in {i.to[3] : i \in pushes} |->
            LET to == (CHOOSE i \in pushes : i.to[3] = region).to
            IN  [handler |-> to[1], finally |-> to[2]]]

\* generate_code: the blocks in layout order and where each begins, and the
\* last Ret.  For the properties: the successors of a block, its parameters,
\* and the versions of the variables it begins with.
GenerateCode(s) ==
    LET layout == Layout(s.idom)
        flat == FlattenSeq([n \in DOMAIN layout |-> BlockCode(s, layout[n])])
        starts == FoldLeft(LAMBDA ns, b: Append(ns, Last(ns) + Len(BlockCode(s, b))),
                           <<1>>, layout)
        start(b) == starts[CHOOSE n \in DOMAIN layout : layout[n] = b]
        versions(b) == {AtEntry(s, v, b) : v \in 1..s.g.variables}
    IN  [code |-> flat,
         exit |-> Max({pc \in DOMAIN flat : flat[pc].i.op = "ret"} \cup {0}),
         region |-> RegionTable(s),
         block |-> [b \in Blocks(s.g) |->
            [pc |-> start(b), succ |-> ToSet(s.g.succ[b]), bare |-> s.params[b] = <<>>,
             versions |-> {w \in versions(b) : w # Unversioned(w[1])}]]]
=============================================================================
