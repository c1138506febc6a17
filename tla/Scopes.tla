-------------------------------- MODULE Scopes --------------------------------
(***************************************************************************)
(* What the compiler decides about names (src/src/compiler/symbol.rs and   *)
(* the scope side of src/src/compiler/lowering/mod.rs): which bindings of  *)
(* a function live in a cell because a nested function mentions them,      *)
(* which names a nested function is handed when it is made, and whether a  *)
(* use of a name reaches a register, the environment or the dead zone.     *)
(*                                                                         *)
(* A program is a tree of scopes, numbered from 1, the script, a scope     *)
(* after the one it stands in.  It is a record of functions of the scope:  *)
(*   up      the scope it stands in                                        *)
(*   kind    "script", "block", "loop", or a kind of function              *)
(*   params  its parameters                                                *)
(*   self    the name of the function, Nameless when it has none           *)
(*   body    its statements: <<what, operand>>, the operand a name, a      *)
(*           scope, or nothing                                             *)
(* A declaration stands in no body: it is hoisted.  Patterns, parameter    *)
(* initialisers, class members and the names of classes are left out.      *)
(***************************************************************************)
EXTENDS Integers, Sequences, FiniteSetsExt, TLC

Nameless == ""
Blocks == {"block", "loop"}
Classes == {"base", "derived"}
NoNames == [x \in {} |-> 0]

Scopes(p) == DOMAIN p.kind
Functions(p) == {s \in Scopes(p) : p.kind[s] \notin Blocks}

\* The function a scope belongs to.
Home(p) ==
    LET home[s \in Scopes(p)] == IF s \in Functions(p) THEN s ELSE home[p.up[s]]
    IN  home

Own(p, f) == {s \in Scopes(p) : Home(p)[s] = f}
Nested(p, f) == {g \in Functions(p) \ {1} : Home(p)[p.up[g]] = f}
Operands(p, s, whats) ==
    {p.body[s][i][2] : i \in {j \in DOMAIN p.body[s] : p.body[s][j][1] \in whats}}

\* Where a scope stands in the body of its parent.
Site(p, s) ==
    CHOOSE i \in DOMAIN p.body[p.up[s]] :
        p.body[p.up[s]][i] \in {<<what, s>> : what \in {"enter", "make"}}

Params(p, f) == {p.params[f][i] : i \in DOMAIN p.params[f]}
LetsOf(p, s) == Operands(p, s, {"let"})
LetsBefore(p, s, i) == {p.body[s][j][2] : j \in {k \in 1..(i - 1) : p.body[s][k][1] = "let"}}
VarsOf(p, f) == UNION {Operands(p, s, {"var"}) : s \in Own(p, f)}
Declarations(p, f) == {g \in Nested(p, f) : p.kind[g] = "declaration"}
DeclarationNames(p, f) == {p.self[g] : g \in Declarations(p, f)}
SelfName(p, f) == {p.self[f]} \ {Nameless}
Arguments(p, f) == IF p.kind[f] \in {"script", "arrow"} THEN {} ELSE {"arguments"}

-----------------------------------------------------------------------------
(* The identifiers a function leaves to the outside.                       *)

\* A let is not an identifier that is mentioned, a write is.
Mentions(p, f) ==
    UNION {Operands(p, s, {"read", "write", "callname"}) : s \in Own(p, f)} \ {"this", "target"}

\* One flat set: what a block declares counts for the whole function.
DeclaredIn(p, f) ==
    Params(p, f) \cup VarsOf(p, f) \cup DeclarationNames(p, f)
    \cup UNION {LetsOf(p, s) : s \in Own(p, f)}

FreeInside(p) ==
    LET free[f \in Functions(p)] ==
            (Mentions(p, f) \cup UNION {free[g] : g \in Nested(p, f)}) \ DeclaredIn(p, f)
    IN  free

\* What the function object is handed.
FreeOf(p, f) == FreeInside(p)[f] \ Arguments(p, f)

\* The names bound in the function's own scope.
ScopeNames(p, f) ==
    Params(p, f) \cup VarsOf(p, f) \cup LetsOf(p, f) \cup DeclarationNames(p, f)
    \cup {"arguments"}

\* The bindings that live in cells.
CapturedLocals(p, f) ==
    IF f = 1 THEN {}
    ELSE UNION {FreeInside(p)[g] : g \in Nested(p, f)} \cap ScopeNames(p, f)

-----------------------------------------------------------------------------
(* The symbol table: a function from names to bindings for each open       *)
(* scope, innermost last.  The owner of a binding says whose register it   *)
(* names; a binding that is not ready is in its dead zone.                 *)

Binding(s, ready) == [owner |-> s, ready |-> ready]

Depth(table, x) == Max({0} \cup {d \in DOMAIN table : x \in DOMAIN table[d]})

\* SymbolTable::remove takes the innermost binding only.
Without(table, names) ==
    [d \in DOMAIN table |->
        [x \in {y \in DOMAIN table[d] : y \in names => Depth(table, y) # d} |-> table[d][x]]]

Insert(table, names, binding) ==
    [table EXCEPT ![Len(table)] = [x \in names |-> binding] @@ @]

\* Parameters and arguments, then the var names nobody in sight binds, then
\* the lets of the function, which are dead until their declaration.
HoistVarBindings(p, f, table) ==
    Insert(table, {x \in VarsOf(p, f) : Depth(table, x) = 0}, Binding(f, TRUE))

HoistLexicalBindings(p, s, table) ==
    Insert(table, LetsOf(p, s) \ DOMAIN table[Len(table)], Binding(s, FALSE))

Hoisted(p, f, table) ==
    HoistLexicalBindings(p, f, HoistVarBindings(p, f,
        Insert(table, Params(p, f) \cup Arguments(p, f), Binding(f, TRUE))))

\* The declarations are bound next, and the function's own name.
Entered(p, s, table) ==
    IF s \notin Functions(p) THEN table
    ELSE Insert(Insert(table, DeclarationNames(p, s), Binding(s, TRUE)),
                SelfName(p, s), Binding(s, TRUE))

\* The table before the i-th statement, from that of the start of the scope.
At(p, s, i, start) ==
    LET table == Entered(p, s, start)
    IN  [table EXCEPT ![Len(table)] =
            [x \in DOMAIN @ |->
                IF x \in LetsBefore(p, s, i) THEN [@[x] EXCEPT !.ready = TRUE] ELSE @[x]]]

ScriptVars(p) == VarsOf(p, 1) \cup DeclarationNames(p, 1)
ScriptNames(p) == ScriptVars(p) \cup LetsOf(p, 1)

\* The statement of the script's own body that a place stands in.
ScriptStatement(p, s, i) ==
    LET index[t \in Scopes(p)] == IF p.up[t] = 1 THEN Site(p, t) ELSE index[p.up[t]]
    IN  IF s = 1 THEN i ELSE index[s]

\* global_names, when the statement is compiled.
GlobalNames(p, s, i) ==
    IF Home(p)[s] # 1 THEN {}
    ELSE ScriptVars(p) \cup LetsBefore(p, 1, ScriptStatement(p, s, i))

\* The table a nested function starts from.  The names of the script are known
\* as such only while the script itself is compiled.
NestedFunctionSymbols(p, f, table) ==
    LET kept == Without(table, FreeOf(p, f))
    IN  IF Home(p)[p.up[f]] # 1 THEN kept
        ELSE Without(Without(kept, GlobalNames(p, p.up[f], Site(p, f))), LetsOf(p, 1))

\* The table at the start of every scope.  A declaration of the script is
\* compiled before anything else is.
Tables(p) ==
    LET start[s \in Scopes(p)] ==
            IF s = 1 THEN Hoisted(p, 1, <<NoNames>>)
            ELSE LET up == p.up[s]
                     here == At(p, up, Site(p, s), start[up])
                 IN  IF p.kind[s] \in Blocks
                     THEN HoistLexicalBindings(p, s, Append(here, NoNames))
                     ELSE Hoisted(p, s,
                            IF p.kind[s] # "declaration" THEN NestedFunctionSymbols(p, s, here)
                            ELSE IF up = 1 THEN <<NoNames>>
                            ELSE Without(start[up], FreeOf(p, s)))
    IN  start

-----------------------------------------------------------------------------
(* What is emitted.                                                        *)

InEnvironment == <<"environment">>
InDeadZone == <<"dead zone">>
InRegister(owner) == <<"register", owner>>

\* is_env_backed: a captured local whose innermost binding is the function's.
EnvBacked(p, s, table, x) ==
    LET f == Home(p)[s]
    IN  x \in CapturedLocals(p, f) /\ Depth(table, x) = Len(Tables(p)[f])

\* How a use of a name reaches its binding.
Access(p, s, table, x, toEnvironment) ==
    LET d == Depth(table, x)
    IN  IF d = 0 THEN InEnvironment
        ELSE IF ~table[d][x].ready THEN InDeadZone
        ELSE IF toEnvironment \/ EnvBacked(p, s, table, x) THEN InEnvironment
        ELSE InRegister(table[d][x].owner)

Reads(p, s, i, x) ==
    LET table == At(p, s, i, Tables(p)[s])
    IN  Access(p, s, table, x, Depth(table, x) = 1 /\ x \in GlobalNames(p, s, i))

\* An assignment to a name of the script does not ask which binding is in sight.
Writes(p, s, i, x) ==
    IF x \in GlobalNames(p, s, i) THEN InEnvironment
    ELSE Access(p, s, At(p, s, i, Tables(p)[s]), x, FALSE)

\* Where a let puts its value: the cell, the script's record, or the register.
Declares(p, s, i, x) ==
    IF s = 1 \/ EnvBacked(p, s, Tables(p)[s], x) THEN InEnvironment
    ELSE LET table == Tables(p)[s] IN InRegister(table[Len(table)][x].owner)

\* The free names that are put on the function: none of the script's, and none
\* on a declaration of the script.
HandedNames(p, f) ==
    LET script == Home(p)[p.up[f]] = 1
    IN  {x \in FreeOf(p, f) : script => p.kind[f] # "declaration" /\ x \notin ScriptNames(p)}

\* emit_closure_vars: for each of them, the register a copy is taken from when
\* the frame has no cell for it, 0 when none is.
EmitClosureVars(p, f) ==
    LET up == p.up[f]
        table == IF p.kind[f] = "declaration" THEN Tables(p)[up]
                 ELSE At(p, up, Site(p, f), Tables(p)[up])
    IN  [x \in HandedNames(p, f) |->
            LET d == Depth(table, x)
            IN  IF d = 0 \/ EnvBacked(p, up, table, x) THEN 0 ELSE table[d][x].owner]

\* Everything the compiler decides about a program.
Compiled(p) ==
    [home     |-> Home(p),
     captured |-> [f \in Functions(p) |-> CapturedLocals(p, f)],
     handed   |-> [f \in Functions(p) \ {1} |-> EmitClosureVars(p, f)],
     start    |-> Tables(p),
     access   |-> [s \in Scopes(p) |-> [i \in DOMAIN p.body[s] |->
                    LET what == p.body[s][i][1]
                    IN  CASE what \in {"read", "callname"} -> Reads(p, s, i, p.body[s][i][2])
                          [] what \in {"write", "var"} -> Writes(p, s, i, p.body[s][i][2])
                          [] what = "let" -> Declares(p, s, i, p.body[s][i][2])
                          [] OTHER -> <<>>]]]
=============================================================================
