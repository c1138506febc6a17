----------------------------- MODULE FlowGraph -----------------------------
(***************************************************************************)
(* The control-flow graph a function is lowered to                         *)
(* (src/src/compiler/ir/cfg.rs, instruction.rs) and what is computed on    *)
(* it: dominators, the dominance frontier and the layout of the blocks.    *)
(*                                                                         *)
(* Blocks are numbered from 1, which is the entry.  An instruction has the *)
(* variable it defines (0: none), the operands it reads and the blocks it  *)
(* names, a delayed jump also how many regions it leaves; an operand is a  *)
(* variable or a primitive.  The instructions that only compute are        *)
(* "move", "inc" and "equal"; "call" stands for the call family.           *)
(***************************************************************************)
EXTENDS SequencesExt, Integers

Undefined == -1

Ascending(S) ==
    [k \in 1..Cardinality(S) |-> CHOOSE n \in S : Cardinality({m \in S : m < n}) = k - 1]

K(value) == <<"k", value>>
V(variable) == <<"v", variable>>

Instruction(op, dst, use, to) == [op |-> op, dst |-> dst, use |-> use, to |-> to]
Move(dst, src) == Instruction("move", dst, <<src>>, <<>>)
Terminators == {"return", "jump", "br_if", "throw", "delayed_jump"}

EmptyGraph ==
    [code |-> <<>>, sealed |-> <<>>, succ |-> <<>>, pred |-> <<>>, variables |-> 0]

Blocks(g) == DOMAIN g.code
Entry == 1

CreateBlocks(g, n) ==
    LET more(seq, new) == seq \o [i \in 1..n |-> new]
    IN  [g EXCEPT !.code = more(@, <<>>), !.sealed = more(@, FALSE),
                  !.succ = more(@, <<>>), !.pred = more(@, <<>>)]

AddEdge(g, from, to) ==
    [g EXCEPT !.succ[from] = Append(@, to), !.pred[to] = Append(@, from)]

\* emit: what a sealed block is given is dropped.  Of the instructions only
\* Jump and BrIf bring edges.
Emit(g, b, i) ==
    IF g.sealed[b] THEN g
    ELSE LET linked == IF i.op \in {"jump", "br_if"}
                       THEN FoldLeft(LAMBDA h, to: AddEdge(h, b, to), g, i.to)
                       ELSE g
         IN  [linked EXCEPT !.code[b] = Append(@, i)]

Terminated(g, b) == g.code[b] # <<>> /\ Last(g.code[b]).op \in Terminators

-----------------------------------------------------------------------------
RECURSIVE ReachedFrom(_, _, _)
ReachedFrom(g, seen, avoiding) ==
    LET next == (UNION {ToSet(g.succ[b]) : b \in seen} \cup seen) \ avoiding
    IN  IF next = seen THEN seen ELSE ReachedFrom(g, next, avoiding)

Reachable(g) == ReachedFrom(g, {Entry}, {})

\* The pairs <<d, b>> where d is on every path to b, b itself included;
\* petgraph knows none but <<b, b>> for a block nothing leads to.
Dominance(g) ==
    LET reachable == Reachable(g)
        under(d) == IF d = Entry THEN reachable
                    ELSE reachable \ ReachedFrom(g, {Entry}, {d})
    IN  UNION {{<<d, b>> : b \in under(d)} : d \in reachable}
        \cup {<<b, b>> : b \in Blocks(g) \ reachable}

\* The closest strict dominator, 0 for the entry and for unreachable blocks.
ImmediateDominators(g, dominance) ==
    [b \in Blocks(g) |->
        LET strict == {d \in Blocks(g) \ {b} : <<d, b>> \in dominance}
        IN  IF strict = {} THEN 0
            ELSE CHOOSE d \in strict : \A e \in strict : <<e, d>> \in dominance]

\* dominance_frontier, as pairs <<n, b>>: b is in the frontier of what lies on
\* the way from its predecessors up the tree to its immediate dominator.
DominanceFrontier(g, dominance) ==
    LET over(b) == {d \in Blocks(g) : <<d, b>> \in dominance}
        runners(b) == UNION {over(p) : p \in ToSet(g.pred[b])} \ (over(b) \ {b})
    IN  UNION {{<<n, b>> : n \in runners(b)} : b \in Blocks(g)}

\* loop_root_reverse_postorder_layout2: the dominator tree in reversed
\* postorder; what nothing leads to hangs off the entry.
Layout(idom) ==
    LET children(b) ==
            {c \in DOMAIN idom \ {Entry} : idom[c] = b \/ (idom[c] = 0 /\ b = Entry)}
        order[b \in DOMAIN idom] ==
            LET cs == Ascending(children(b))
            IN  <<b>> \o FlattenSeq([i \in DOMAIN cs |-> order[cs[Len(cs) + 1 - i]]])
    IN  order[Entry]
=============================================================================
