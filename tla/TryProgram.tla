----------------------------- MODULE TryProgram -----------------------------
(***************************************************************************)
(* The function whose try statements the unwinding modules run: which      *)
(* regions it has (lower_try of src/src/compiler/lowering/mod.rs declares  *)
(* one per try statement), how they nest, and which clauses each has.      *)
(*                                                                         *)
(* A place <<r, part>> is where the program counter is: in that part of    *)
(* region r and in no region inside it.  Everything a pc tells the runtime *)
(* about exceptions is the place it is at.                                 *)
(***************************************************************************)
EXTENDS Naturals, Sequences

CONSTANT NumRegions     \* bound: try statements of a function

ASSUME RegionAssumption == NumRegions \in Nat

Region == 1..NumRegions
Parts == {"try", "catch", "finally"}
Place == (0..NumRegions) \X Parts
Outside == <<0, "try">>

\* What lower_try is given: the place of the statement and its clauses.  A
\* function with fewer statements has none of the last regions.
Statement == [up: 0..NumRegions, part: Parts, catch: BOOLEAN, finally: BOOLEAN]

NoStatement == [up |-> 0, part |-> "try", catch |-> FALSE, finally |-> FALSE]
Present(prog) == {r \in Region : prog[r] # NoStatement}

HasPart(prog, r, part) ==
    \/ part = "try" /\ r \in Present(prog) \cup {0}
    \/ part = "catch" /\ r # 0 /\ prog[r].catch
    \/ part = "finally" /\ r # 0 /\ prog[r].finally

Programs ==
    {prog \in [Region -> Statement] :
        /\ \E n \in 0..NumRegions : Present(prog) = 1..n
        /\ \A r \in Present(prog) :
              /\ prog[r].catch \/ prog[r].finally
              /\ prog[r].up < r
              /\ prog[r].up = 0 => prog[r].part = "try"
              /\ HasPart(prog, prog[r].up, prog[r].part)}

Around(prog, r) == <<prog[r].up, prog[r].part>>

\* The regions a place of region r is in, the outermost first.
Path(prog, r) ==
    LET path[i \in 0..NumRegions] ==
            IF i = 0 THEN <<>> ELSE Append(path[prog[i].up], i)
    IN  path[r]

\* In which part of its i-th region a place is.
PartOf(prog, place, i) ==
    LET path == Path(prog, place[1])
    IN  IF i = Len(path) THEN place[2] ELSE prog[path[i + 1]].part

\* The place a jump that leaves the k innermost regions lands at.
PlaceAfter(prog, place, k) ==
    LET path == Path(prog, place[1])
    IN  Around(prog, path[Len(path) + 1 - k])
=============================================================================
