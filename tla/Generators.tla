---------------------------- MODULE Generators ----------------------------
(***************************************************************************)
(* Generators of src/src/vm/mod.rs: create_generator and its parameter     *)
(* prologue, generator_next, generator_abrupt (gen.return, gen.throw), and *)
(* the parking of a frame by Yield and PrologueEnd.                        *)
(*                                                                         *)
(* A suspended body is a frame lifted off the shared stacks: its own part  *)
(* of closure_var_stack, delegate_stack and seh_stack goes with it and     *)
(* comes back wherever the next resumption finds those stacks.  The module *)
(* is about that traffic.                                                  *)
(*                                                                         *)
(* Entries of the stacks carry the activation that owns them: a generator, *)
(* or 0 for functions.  Abstracted: values, the data stack and its two     *)
(* registers; a region of a try is a catch or a finally (Unwinding.tla     *)
(* has both and their order); what a delegate's methods do.                *)
(***************************************************************************)
EXTENDS SequencesExt

CONSTANTS
    NumGens,       \* bound: generators created
    NoFrame,
    Setups         \* the bounds of the programs: a behaviour keeps to one

ASSUME GeneratorsAssumption ==
    /\ NumGens \in Nat
    /\ \A setup \in Setups :
          /\ setup.frames \in Nat \ {0}     \* MAX_CALL_DEPTH
          /\ setup.cells \in Nat            \* cells on closure_var_stack
          /\ setup.tries \in Nat            \* records on seh_stack
          /\ setup.delegates \in Nat        \* yield* on delegate_stack
          /\ setup.uses \subseteq {"moved", "deep", "guarded", "delegate"}

Gen == 1..NumGens
Owner == 0..NumGens

VARIABLES
    state,      \* GeneratorObject::state, "none" before the object exists
    suspended,  \* GeneratorObject::suspended
    cells,      \* how many bindings the body has captured or made; not in
                \* the code, where only closure_var_stack knows
    frames, closures, seh, delegates,   \* the stacks of State and VM
    resumes,    \* Rust activations of run_generator_frame, with their locals
    prologue,   \* running_generator_prologue
    error,      \* an exception on its way out of a resumption
    limits      \* the bounds of this behaviour; fixed, not in the code

vars == <<state, suspended, cells, frames, closures, seh, delegates,
          resumes, prologue, error, limits>>
genVars == <<state, suspended, cells, limits>>
stackVars == <<frames, closures, seh, delegates>>

\* Where a frame's pc is: in the parameter prologue, in the body, or moved by
\* generator_abrupt to the trailing Ret or to a pending exception.
At == {"prologue", "body", "exit", "raise"}

Frame == [gen: Owner, at: At, closure_depth: Nat, seh_depth: Nat]
Record == [owner: Owner, finally: BOOLEAN,
           mode: {"try", "throwing", "returning"},
           saved_frame_depth: Nat, saved_closure_depth: Nat]
SuspendedFrame == [at: At, closure_maps: Seq(Owner), delegates: Seq(Owner),
                   seh: Seq(Record)]
Resume == [gen: Gen, frame_depth: Nat, closure: Nat, seh: Nat, delegate: Nat,
           closure_depth: Nat, prologue: BOOLEAN, flag: BOOLEAN]
ASSUME NoFrameAssumption == NoFrame \notin SuspendedFrame

States == {"none", "SuspendedStart", "SuspendedYield", "Executing", "Completed"}

MaxFrames == limits.frames    \* the script's frame included
MaxCells == limits.cells
MaxTries == limits.tries
MaxDelegates == limits.delegates
Uses == limits.uses           \* the uses of a suspended body, see Fit

Depth == Len(frames)
Top == frames[Depth]
InvokeBoundary == IF resumes = <<>> THEN 0 ELSE Last(resumes).frame_depth
Running == ~error /\ Depth > InvokeBoundary

Init ==
    /\ state = [g \in Gen |-> "none"]
    /\ suspended = [g \in Gen |-> NoFrame]
    /\ cells = [g \in Gen |-> 0]
    /\ frames = <<[gen |-> 0, at |-> "body", closure_depth |-> 0,
                   seh_depth |-> 0]>>
    /\ closures = <<>> /\ seh = <<>> /\ delegates = <<>>
    /\ resumes = <<>> /\ prologue = FALSE /\ error = FALSE
    /\ limits \in Setups

-----------------------------------------------------------------------------
(* What any code may do: call, return, bind, try.                          *)

CodeRuns == Running /\ Top.at \in {"prologue", "body"}

\* Mutant: a call at the depth cap goes through.
CallUncapped(c) ==
    /\ CodeRuns /\ Len(closures) + c <= MaxCells
    /\ frames' = Append(frames, [gen |-> 0, at |-> "body",
                    closure_depth |-> Len(closures), seh_depth |-> Len(seh)])
    /\ closures' = closures \o [i \in 1..c |-> 0]
    /\ UNCHANGED <<genVars, seh, delegates, resumes, prologue, error>>

\* A function with c captured variables (at the cap, enter_frame throws).
Call(c) ==
    /\ CodeRuns /\ Depth < MaxFrames /\ Len(closures) + c <= MaxCells
    /\ frames' = Append(frames, [gen |-> 0, at |-> "body",
                    closure_depth |-> Len(closures), seh_depth |-> Len(seh)])
    /\ closures' = closures \o [i \in 1..c |-> 0]
    /\ UNCHANGED <<genVars, seh, delegates, resumes, prologue, error>>

\* MakeCell: the body of a generator creates a binding closures can capture.
MakeCell ==
    /\ CodeRuns /\ Top.gen # 0
    /\ Len(closures) < MaxCells /\ cells[Top.gen] < MaxCells
    /\ closures' = Append(closures, Top.gen)
    /\ cells' = [cells EXCEPT ![Top.gen] = @ + 1]
    /\ UNCHANGED <<state, suspended, frames, seh, delegates, resumes,
                   prologue, error, limits>>

Try(fin) ==
    /\ CodeRuns /\ Top.at = "body" /\ Len(seh) < MaxTries
    /\ seh' = Append(seh, [owner |-> Top.gen, finally |-> fin, mode |-> "try",
                           saved_frame_depth |-> Depth,
                           saved_closure_depth |-> Len(closures)])
    /\ UNCHANGED <<genVars, frames, closures, delegates, resumes, prologue,
                   error>>

\* The records of the frame on top, by its watermark.
OwnRecords == (Top.seh_depth + 1)..Len(seh)

EndTry ==
    /\ CodeRuns /\ OwnRecords # {} /\ Last(seh).mode = "try"
    /\ seh' = Front(seh)
    /\ UNCHANGED <<genVars, frames, closures, delegates, resumes, prologue,
                   error>>

\* yield* opens an iterator and closes it when it is done.
DelegateOpen ==
    /\ CodeRuns /\ Top.gen # 0 /\ Top.at = "body"
    /\ Len(delegates) < MaxDelegates
    /\ delegates' = Append(delegates, Top.gen)
    /\ UNCHANGED <<genVars, frames, closures, seh, resumes, prologue, error>>

DelegateClose ==
    /\ CodeRuns /\ Top.gen # 0 /\ delegates # <<>>
    /\ Last(delegates) = Top.gen
    /\ delegates' = Front(delegates)
    /\ UNCHANGED <<genVars, frames, closures, seh, resumes, prologue, error>>

-----------------------------------------------------------------------------
(* The end of a resumption.                                                *)

\* Mutant: the parked frame of a completed generator is left to it.
CompleteKeepsFrame(g) ==
    /\ state' = [state EXCEPT ![g] = "Completed"]
    /\ UNCHANGED suspended

Complete(g) ==
    /\ state' = [state EXCEPT ![g] = "Completed"]
    /\ suspended' = [suspended EXCEPT ![g] = NoFrame]

\* Mutant: a resumption cannot have left delegates behind.
RestoreKeepsDelegates(r) ==
    /\ frames' = SubSeq(frames, 1, r.frame_depth)
    /\ closures' = SubSeq(closures, 1, r.closure)
    /\ seh' = SubSeq(seh, 1, r.seh)
    /\ delegates' = delegates
    /\ resumes' = Front(resumes)
    /\ prologue' = IF r.prologue THEN r.flag ELSE prologue

\* Mutant: the handlers of the body stay behind.
RestoreKeepsHandlers(r) ==
    /\ frames' = SubSeq(frames, 1, r.frame_depth)
    /\ closures' = SubSeq(closures, 1, r.closure)
    /\ seh' = seh
    /\ delegates' = SubSeq(delegates, 1, r.delegate)
    /\ resumes' = Front(resumes)
    /\ prologue' = IF r.prologue THEN r.flag ELSE prologue

\* restore_execution_state, and the prologue flag of run_generator_prologue.
Restore(r) ==
    /\ frames' = SubSeq(frames, 1, r.frame_depth)
    /\ closures' = SubSeq(closures, 1, r.closure)
    /\ seh' = SubSeq(seh, 1, r.seh)
    /\ delegates' = SubSeq(delegates, 1, r.delegate)
    /\ resumes' = Front(resumes)
    /\ prologue' = IF r.prologue THEN r.flag ELSE prologue

\* Ret: the innermost finally of the frame that has not run goes first;
\* otherwise the frame goes, and the resumption with it when it was its own.
Ret(recs) ==
    LET due == {i \in (Top.seh_depth + 1)..Len(recs) :
                    recs[i].finally /\ recs[i].mode = "try"}
        i == CHOOSE i \in due : \A j \in due : j <= i
        r == Last(resumes)
    IN  IF due # {}
        THEN /\ seh' = [recs EXCEPT ![i].mode = "returning"]
             /\ frames' = [frames EXCEPT ![Depth].at = "body"]
             /\ UNCHANGED <<genVars, closures, delegates, resumes, prologue,
                            error>>
        ELSE IF Top.gen # 0
        THEN /\ Complete(r.gen)
             /\ Restore(r)
             /\ UNCHANGED <<cells, error, limits>>
        ELSE /\ frames' = Front(frames)
             /\ closures' = SubSeq(closures, 1, Top.closure_depth)
             /\ seh' = SubSeq(recs, 1, Top.seh_depth)
             /\ UNCHANGED <<genVars, delegates, resumes, prologue, error>>

Return ==
    /\ Running /\ Depth > 1 /\ Top.at \in {"body", "exit"}
    /\ Ret(seh)

\* Yield, and PrologueEnd while a prologue runs: extract_generator_frame takes
\* what is above the frame's watermarks (closure_depth as the resumption
\* computed it), store_suspended_generator keeps it.
Park(to, at) ==
    LET r == Last(resumes)
    IN  /\ state' = [state EXCEPT ![r.gen] = to]
        /\ suspended' = [suspended EXCEPT ![r.gen] =
              [at |-> at,
               closure_maps |-> SubSeq(closures, r.closure_depth + 1,
                                       Len(closures)),
               delegates |-> SubSeq(delegates, r.delegate + 1, Len(delegates)),
               seh |-> SubSeq(seh, r.seh + 1, Len(seh))]]
        /\ Restore(r)
        /\ UNCHANGED <<cells, error, limits>>

PrologueEnd ==
    /\ Running /\ Top.at = "prologue"
    /\ IF prologue
       THEN Park("SuspendedStart", "body")
       ELSE /\ frames' = [frames EXCEPT ![Depth].at = "body"]
            /\ UNCHANGED <<genVars, closures, seh, delegates, resumes,
                           prologue, error>>

Yield ==
    /\ Running /\ Top.gen # 0 /\ Top.at = "body"
    /\ Park("SuspendedYield", "body")
-----------------------------------------------------------------------------
(* Exceptions.                                                             *)

Truncate(s, n) == SubSeq(s, 1, Min({n, Len(s)}))

\* handle_throw above frame depth b, on stacks given as arguments: every
\* record popped on the way unwinds to the depths it noted at its Try.
Dispatch(fr, cl, recs, b) ==
    LET reach == {i \in DOMAIN recs :
                    \A j \in i..Len(recs) : recs[j].saved_frame_depth > b}
        able == {i \in reach : recs[i].mode = "try"}
        last == IF able # {} THEN Max(able) ELSE Min(reach \cup {Len(recs) + 1})
        popped == last..Len(recs)
        unwound == Truncate(fr, Min({recs[i].saved_frame_depth : i \in popped}
                                      \cup {Len(fr)}))
    IN  [taken |-> able # {},
         frames |-> IF able = {} THEN unwound
                    ELSE [unwound EXCEPT ![Len(unwound)].at = "body"],
         closures |-> Truncate(cl, Min({recs[i].saved_closure_depth :
                                          i \in popped} \cup {Len(cl)})),
         seh |-> IF able # {} /\ recs[last].finally
                 THEN [SubSeq(recs, 1, last) EXCEPT ![last].mode = "throwing"]
                 ELSE SubSeq(recs, 1, last - 1)]

\* Bindings of a block that was unwound are gone for the body as well.
CellsAfter(d) ==
    [g \in Gen |->
        IF \E f \in DOMAIN d.frames : d.frames[f].gen = g
        THEN cells[g] - (Cardinality({i \in DOMAIN closures : closures[i] = g})
                         - Cardinality({i \in DOMAIN d.closures :
                                            d.closures[i] = g}))
        ELSE cells[g]]

\* The program ends; the next run starts with an empty registry.
Reset ==
    /\ state' = [g \in Gen |-> "none"]
    /\ suspended' = [g \in Gen |-> NoFrame]
    /\ cells' = [g \in Gen |-> 0]
    /\ frames' = <<[gen |-> 0, at |-> "body", closure_depth |-> 0,
                    seh_depth |-> 0]>>
    /\ closures' = <<>> /\ seh' = <<>> /\ delegates' = <<>>
    /\ resumes' = <<>> /\ prologue' = FALSE /\ error' = FALSE
    /\ UNCHANGED limits

\* An exception in the loop that runs the frame on top.  The nested loop of a
\* resumption gives up what it cannot handle: the generator is completed and
\* the error goes on in the resumer (run_generator_frame_or_complete).
Raise(recs) ==
    LET d == Dispatch(frames, closures, recs, InvokeBoundary)
        r == Last(resumes)
    IN  IF d.taken
        THEN /\ frames' = d.frames /\ closures' = d.closures /\ seh' = d.seh
             /\ cells' = CellsAfter(d)
             /\ error' = FALSE
             /\ resumes' = IF Top.at # "raise" THEN resumes
                           ELSE [resumes EXCEPT ![Len(resumes)].closure_depth =
                                    Len(d.closures)]
             /\ UNCHANGED <<state, suspended, delegates, prologue, limits>>
        ELSE IF resumes = <<>> THEN Reset
        ELSE /\ Complete(r.gen)
             /\ frames' = Truncate(d.frames, r.frame_depth)
             /\ closures' = Truncate(d.closures, r.closure)
             /\ seh' = Truncate(d.seh, r.seh)
             /\ delegates' = SubSeq(delegates, 1, r.delegate)
             /\ resumes' = Front(resumes)
             /\ prologue' = IF r.prologue THEN r.flag ELSE prologue
             /\ error' = TRUE
             /\ UNCHANGED <<cells, limits>>

Throw ==
    \/ Running /\ Top.at # "exit" /\ Raise(seh)
    \/ error /\ Raise(seh)

\* ResumeExc of a finally: the completion it interrupted goes on.
FinallyEnd ==
    /\ CodeRuns /\ OwnRecords # {}
    /\ \/ Last(seh).mode = "throwing" /\ Raise(Front(seh))
       \/ Last(seh).mode = "returning" /\ Ret(Front(seh))

-----------------------------------------------------------------------------
(* Creating and resuming.                                                  *)

\* save_execution_state, and the depths extract_generator_frame will use.
Saved(g, closure_depth, in_prologue) ==
    [gen |-> g, frame_depth |-> Depth, closure |-> Len(closures),
     seh |-> Len(seh), delegate |-> Len(delegates),
     closure_depth |-> closure_depth, prologue |-> in_prologue,
     flag |-> prologue]

\* create_generator of a function with c captured variables; at the depth cap
\* it throws, and nobody has the object.
Create(g, c) ==
    /\ CodeRuns /\ Depth < MaxFrames /\ Len(closures) + c <= MaxCells
    /\ state[g] = "none" /\ \A h \in 1..(g - 1) : state[h] # "none"
    /\ state' = [state EXCEPT ![g] = "SuspendedStart"]
    /\ cells' = [cells EXCEPT ![g] = c]
    /\ frames' = Append(frames, [gen |-> g, at |-> "prologue",
                    closure_depth |-> Len(closures), seh_depth |-> Len(seh)])
    /\ closures' = closures \o [i \in 1..c |-> g]
    /\ resumes' = Append(resumes, Saved(g, Len(closures), TRUE))
    /\ prologue' = TRUE
    /\ UNCHANGED <<suspended, seh, delegates, error, limits>>

\* A generator whose prologue runs is not known to the program yet.
Known(g) == ~\E i \in DOMAIN resumes : resumes[i].gen = g /\ resumes[i].prologue

\* Unless the run asks for it, a body is resumed where the depths its records
\* noted are still right ("moved"), and below the call depth cap ("deep").
Fit(g) ==
    /\ "deep" \in Uses \/ Depth < MaxFrames
    /\ "moved" \in Uses \/ \A i \in DOMAIN suspended[g].seh :
          LET rec == suspended[g].seh[i] IN
          /\ rec.saved_frame_depth = Depth + 1
          /\ rec.saved_closure_depth \in Len(closures)
                ..(Len(closures) + Len(suspended[g].closure_maps))

\* Mutant: the watermark of a restored frame is taken above its records.
FramesAfterRecords(g, at) ==
    Append(frames, [gen |-> g, at |-> at, closure_depth |-> Len(closures),
                    seh_depth |-> Len(seh) + Len(suspended[g].seh)])

\* restore_generator_frame.
Frames(g, at) ==
    Append(frames, [gen |-> g, at |-> at, closure_depth |-> Len(closures),
                    seh_depth |-> Len(seh)])

Closures(g) == closures \o suspended[g].closure_maps
Seh(g) == seh \o suspended[g].seh

\* Mutant: the parked frame is borrowed, not taken.
InstallCopies(g, at, dels, closure_depth) ==
    /\ state' = [state EXCEPT ![g] = "Executing"]
    /\ delegates' = delegates \o dels
    /\ frames' = Frames(g, at)
    /\ closures' = Closures(g) /\ seh' = Seh(g)
    /\ resumes' = Append(resumes, Saved(g, closure_depth, FALSE))
    /\ UNCHANGED <<suspended, cells, prologue, error, limits>>

Install(g, at, dels, closure_depth) ==
    /\ state' = [state EXCEPT ![g] = "Executing"]
    /\ suspended' = [suspended EXCEPT ![g] = NoFrame]
    /\ delegates' = delegates \o dels
    /\ IF Depth < MaxFrames
       THEN /\ frames' = Frames(g, at)
            /\ closures' = Closures(g) /\ seh' = Seh(g)
            /\ resumes' = Append(resumes, Saved(g, closure_depth, FALSE))
            /\ UNCHANGED <<cells, prologue, error, limits>>
       ELSE \* enter_frame refuses; the `?` leaves the rest as it is
            /\ error' = TRUE
            /\ UNCHANGED <<cells, frames, closures, seh, resumes, prologue,
                           limits>>

\* Mutant: the depth of a first resumption is taken before the frame is built
\* on the stacks of the caller.
NextStartFromBottom(g) ==
    /\ CodeRuns /\ state[g] = "SuspendedStart" /\ Known(g)
    /\ Fit(g)
    /\ Install(g, suspended[g].at, suspended[g].delegates, 0)

\* generator_next on a generator that has not started: the depth of the
\* environment is the base of the frame.
NextStart(g) ==
    /\ CodeRuns /\ state[g] = "SuspendedStart" /\ Known(g)
    /\ Fit(g)
    /\ Install(g, suspended[g].at, suspended[g].delegates, Len(closures))

\* ... and at a yield: it is the top of the stack, the frame's cells included.
NextYield(g) ==
    /\ CodeRuns /\ state[g] = "SuspendedYield"
    /\ Fit(g)
    /\ Install(g, suspended[g].at, suspended[g].delegates, Len(Closures(g)))

\* ... and on the generator that is running.
NextExecuting(g) ==
    /\ CodeRuns /\ state[g] = "Executing"
    /\ Complete(g)
    /\ error' = TRUE
    /\ UNCHANGED <<cells, stackVars, resumes, prologue, limits>>

\* gen.return: the body re-enters at its trailing Ret once the delegates are
\* closed, or with the exception closing one raised.
GenReturn(g) ==
    /\ CodeRuns /\ state[g] = "SuspendedYield"
    /\ Fit(g)
    /\ \/ Install(g, "exit", <<>>, Len(Closures(g)))
       \/ /\ suspended[g].delegates # <<>>
          /\ Install(g, "raise", <<>>, Len(Closures(g)))

\* gen.throw with no delegate to take it: the exception is dispatched on the
\* restored stacks, under the boundary of whoever runs the caller.
GenThrow(g) ==
    LET d == Dispatch(Frames(g, "body"), Closures(g), Seh(g), InvokeBoundary)
    IN  /\ CodeRuns /\ state[g] = "SuspendedYield"
        /\ Fit(g)
        /\ "guarded" \in Uses \/ (d.taken => Len(d.frames) > Depth)
        /\ IF Depth = MaxFrames
           THEN Install(g, "body", suspended[g].delegates, 0)
           ELSE IF d.taken /\ Len(d.frames) > Depth
           THEN /\ state' = [state EXCEPT ![g] = "Executing"]
                /\ suspended' = [suspended EXCEPT ![g] = NoFrame]
                /\ frames' = d.frames /\ closures' = d.closures
                /\ seh' = d.seh
                /\ delegates' = delegates \o suspended[g].delegates
                /\ resumes' = Append(resumes,
                        Saved(g, Last(d.frames).closure_depth, FALSE))
                /\ cells' = [cells EXCEPT ![g] =
                        @ - (Len(Closures(g)) - Len(d.closures))]
                /\ UNCHANGED <<prologue, error, limits>>
           ELSE \* nobody's, or (if taken) a handler of the callers'
                /\ Complete(g)
                /\ frames' = Truncate(d.frames, Depth)
                /\ closures' = Truncate(d.closures, Len(closures))
                /\ seh' = Truncate(d.seh, Len(seh))
                /\ error' = ~d.taken
                /\ UNCHANGED <<cells, delegates, resumes, prologue, limits>>

\* gen.throw with a delegate that has a throw method: it may finish the
\* generator (done, or not an object) or raise an exception itself; when it
\* yields, nothing changes.
GenThrowDelegate(g) ==
    /\ "delegate" \in Uses
    /\ CodeRuns /\ state[g] = "SuspendedYield"
    /\ suspended[g].delegates # <<>>
    /\ \/ Complete(g) /\ error' \in BOOLEAN
       \/ /\ state' = [state EXCEPT ![g] = "Executing"]
          /\ suspended' = [suspended EXCEPT ![g] = NoFrame]
          /\ error' = TRUE
    /\ UNCHANGED <<cells, stackVars, resumes, prologue, limits>>

\* Either of them on a generator with no frame to unwind.
Abrupt(g) ==
    /\ CodeRuns /\ Known(g)
    /\ state[g] \in {"SuspendedStart", "Executing", "Completed"}
    /\ Complete(g)
    /\ error' \in BOOLEAN
    /\ UNCHANGED <<cells, stackVars, resumes, prologue, limits>>

Halt == Running /\ Depth = 1 /\ Reset

Next ==
    \/ \E c \in 0..1 : Call(c)
    \/ MakeCell \/ EndTry \/ DelegateOpen \/ DelegateClose
    \/ \E fin \in BOOLEAN : Try(fin)
    \/ Return \/ PrologueEnd \/ Yield \/ Throw \/ FinallyEnd \/ Halt
    \/ \E g \in Gen : \/ \E c \in 0..1 : Create(g, c)
                      \/ NextStart(g) \/ NextYield(g) \/ NextExecuting(g)
                      \/ GenReturn(g) \/ GenThrow(g) \/ GenThrowDelegate(g)
                      \/ Abrupt(g)

Spec == Init /\ [][Next]_vars

-----------------------------------------------------------------------------
(* Properties.                                                             *)

\* The state of a generator is parked in it.
Parked(g) == suspended[g] # NoFrame
Activations(g) == {i \in DOMAIN frames : frames[i].gen = g}
Live(g) == Parked(g) \/ Activations(g) # {}

\* Types; the call depth is capped and no watermark is above its stack.
TypeOK ==
    /\ state \in [Gen -> States]
    /\ \A g \in Gen : Parked(g) => suspended[g] \in SuspendedFrame
    /\ cells \in [Gen -> Nat]
    /\ frames \in Seq(Frame) /\ Len(frames) \in 1..MaxFrames
    /\ closures \in Seq(Owner) /\ delegates \in Seq(Gen)
    /\ seh \in Seq(Record) /\ resumes \in Seq(Resume)
    /\ prologue \in BOOLEAN /\ error \in BOOLEAN
    /\ \A i \in DOMAIN frames : /\ frames[i].closure_depth <= Len(closures)
                               /\ frames[i].seh_depth <= Len(seh)

\* However resumptions nest, re-enter and fail, a body has one frame at most,
\* parked or on the stack, so no part of it can run twice.
SoleActivation ==
    \A g \in Gen :
        Cardinality(Activations(g)) + (IF Parked(g) THEN 1 ELSE 0) <= 1

\* Parking and restoring by watermarks never moves anything across a frame
\* border: between its watermarks a frame has only cells and records of its
\* own, and a parked frame has taken nothing of its resumer's.
FrameOwnsItsState ==
    LET ClosureTop(i) == IF i = Depth THEN Len(closures)
                         ELSE frames[i + 1].closure_depth
        SehTop(i) == IF i = Depth THEN Len(seh) ELSE frames[i + 1].seh_depth
    IN  /\ \A i \in DOMAIN frames :
            /\ \A k \in (frames[i].closure_depth + 1)..ClosureTop(i) :
                    closures[k] = frames[i].gen
            /\ \A k \in (frames[i].seh_depth + 1)..SehTop(i) :
                    seh[k].owner = frames[i].gen
        /\ \A g \in Gen : Parked(g) =>
            /\ Range(suspended[g].closure_maps) \subseteq {g}
            /\ Range(suspended[g].delegates) \subseteq {g}
            /\ \A rec \in Range(suspended[g].seh) : rec.owner = g

\* A step leaves the resumer's part of the shared stacks alone, and exactly
\* that when it ends the resumption.
RestoresResumer ==
    resumes # <<>> =>
        LET r == Last(resumes)
            Kept(old, new, n) ==
                /\ Len(new) >= n /\ SubSeq(new, 1, n) = SubSeq(old, 1, n)
                /\ Len(resumes') < Len(resumes) => Len(new) = n
        IN  /\ Kept(frames, frames', r.frame_depth)
            /\ Kept(closures, closures', r.closure)
            /\ Kept(seh, seh', r.seh)
            /\ Kept(delegates, delegates', r.delegate)

\* "Restore the resumer's context" (run_generator_frame): nothing the resumed
\* body does, its nested resumptions and exceptions included, touches what
\* the resumer has on the shared stacks, and the end of the resumption, by
\* yield, return or exception, leaves exactly that.
ResumerRestored == [][RestoresResumer]_vars

\* GeneratorState and the frame agree, so next() finds a frame whenever it
\* looks for one: parked exactly while suspended, and Executing only while
\* the body is on the stack (but for the two refusals of the uses "deep" and
\* "delegate", after which it is Executing without one).  A creation binds the
\* parameters and nothing more, also when a default of them creates another
\* generator: its frame is in its prologue until the first next().
StateMatchesFrame ==
    /\ \A g \in Gen :
        /\ Parked(g) => state[g] \in {"SuspendedStart", "SuspendedYield"}
        /\ state[g] = "SuspendedYield" => Parked(g)
        /\ state[g] = "SuspendedStart" /\ Known(g) => Parked(g)
        /\ state[g] = "Executing" /\ Uses \cap {"deep", "delegate"} = {} =>
              Activations(g) # {}
    /\ \A i \in DOMAIN resumes : resumes[i].prologue =>
            frames[resumes[i].frame_depth + 1].at = "prologue"

\* What resumptions rely on, however they nest, re-enter and fail: a body is in
\* one place, that place is the one its state says, and nothing of another frame
\* is parked or restored with it.
GeneratorInv ==
    /\ SoleActivation
    /\ StateMatchesFrame
    /\ FrameOwnsItsState

\* A step that drops a body finds no try of it open, or only catches and no
\* exception.
HonoursHandlers ==
    \A g \in Gen : Live(g) /\ ~Live(g)' /\ state'[g] # "none" =>
        LET recs == {rec \in Range(seh) : rec.owner = g}
                      \cup IF Parked(g) THEN Range(suspended[g].seh) ELSE {}
        IN  \A rec \in recs : rec.mode = "try" => ~error' /\ ~rec.finally

\* A body is never dropped over its handlers: it ends by an exception only
\* when no try of it was open, and otherwise only when no finally was.
HandlersHonoured == [][HonoursHandlers]_vars

\* Every binding the body has captured or made is in its environment again
\* each time it runs ("what the frame owns", current_frame_closure_depth).
EnvironmentKept ==
    \A g \in Gen : Live(g) =>
        cells[g] = IF Parked(g) THEN Len(suspended[g].closure_maps)
                   ELSE Cardinality({k \in DOMAIN closures : closures[k] = g})

\* gen.throw on a suspended body that does not take the exception throws it
\* in the caller ("the exception belongs to the caller", generator_abrupt).
ThrowReachesCaller ==
    [][\A g \in Gen : state[g] = "SuspendedYield" /\ state'[g] = "Completed"
                        => error']_vars

\* Completed is final: "the body returned or threw" (GeneratorState).
CompletedForever ==
    [][\A g \in Gen : state[g] = "Completed" =>
                        state'[g] \in {"Completed", "none"}]_vars
=============================================================================
