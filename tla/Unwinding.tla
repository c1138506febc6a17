----------------------------- MODULE Unwinding -----------------------------
(***************************************************************************)
(* Structured exception handling of the virtual machine: the frames, the   *)
(* seh_stack that Try, EndTry, Ret, DelayedJump and ResumeExc keep in      *)
(* src/src/vm/exec.rs, handle_throw and unwind_frames_to of                *)
(* src/src/vm/mod.rs, and the nested interpreter loop a builtin starts     *)
(* when it calls bytecode (drive_bytecode_frame).                          *)
(*                                                                         *)
(* One step is one instruction, with the whole dispatch of the exception   *)
(* it raises.  Abstracted: the code between these instructions (an         *)
(* exception may be raised anywhere); registers other than Rv; the stack   *)
(* and closure watermarks, which are truncated together with the frames.   *)
(* The script's own frame opens no region: a region belongs to one         *)
(* function, here the one every call activates.                            *)
(***************************************************************************)
EXTENDS TryProgram, SequencesExt

CONSTANTS
    Value, NoValue,
    MaxFrames,      \* bound: depth of calls, the script's frame included, of
                    \* a function with n regions
    AnyExit         \* see CleanExit

ASSUME UnwindingAssumption ==
    /\ NoValue \notin Value
    /\ MaxFrames \in [0..NumRegions -> Nat \ {0}]
    /\ AnyExit \in BOOLEAN

VARIABLES
    prog,        \* the function; fixed
    frames,      \* State::frames: seh_depth and where the frame's pc is
    seh_stack,
    boundaries,  \* invoke_boundaries with saved_seh of drive_bytecode_frame
    rv,          \* Register::Rv
    error,       \* Err(Thrown) in the hands of a builtin, or NoValue
    did          \* what the program did last, for Language; not in the code

vars == <<prog, frames, seh_stack, boundaries, rv, error, did>>

Frame == [seh_depth: Nat, at: Place]
Boundary == [frames: Nat, saved_seh: Nat]
SehRecord ==
    [region: Region, saved_frame_depth: Nat,
     in_finally: BOOLEAN, catch_closed: BOOLEAN,
     pending_exception: Value \cup {NoValue},
     delayed_jump_target: Place \cup {<<>>},
     delayed_return: BOOLEAN,
     delayed_return_value: Value \cup {NoValue}]

FrameLimit == MaxFrames[Cardinality(Present(prog))]

\* The types of the state; the depth of calls is that of enter_frame's cap.
TypeOK ==
    /\ prog \in Programs
    /\ frames \in Seq(Frame) /\ Len(frames) <= FrameLimit
    /\ seh_stack \in Seq(SehRecord)
    /\ boundaries \in Seq(Boundary)
    /\ rv \in Value \cup {NoValue}
    /\ error \in Value \cup {NoValue}

Depth == Len(frames)
Here == frames[Depth].at
InvokeBoundary ==
    IF boundaries = <<>> THEN 0 ELSE Last(boundaries).frames

\* The loop of drive_bytecode_frame, or of run, executes an instruction.
Stepping == error = NoValue /\ Depth > InvokeBoundary

Goto(place) == [frames EXCEPT ![Depth].at = place]

HandlerOpen(rec) == prog[rec.region].catch /\ ~rec.catch_closed
\* Mutant: a region whose catch has run does not run its finally.
FinallyDueUnlessCaught(rec) ==
    prog[rec.region].finally /\ ~rec.in_finally /\ ~rec.catch_closed

FinallyDue(rec) == prog[rec.region].finally /\ ~rec.in_finally

\* rposition: the topmost record of a region.
Positions(r) == {i \in DOMAIN seh_stack : seh_stack[i].region = r}

Init ==
    /\ prog \in Programs
    /\ frames = <<[seh_depth |-> 0, at |-> Outside]>>
    /\ seh_stack = <<>> /\ boundaries = <<>>
    /\ rv = NoValue /\ error = NoValue /\ did = <<"go">>

-----------------------------------------------------------------------------
(* Raising an exception.                                                   *)

\* The error leaves the loop that runs the frame: a builtin gets its frames
\* back as they were before the call, run gives up.
Escape(v) ==
    IF boundaries = <<>>
    THEN /\ frames' = <<>> /\ seh_stack' = <<>>
         /\ error' = NoValue
         /\ UNCHANGED <<boundaries, rv>>
    ELSE LET b == Last(boundaries)
         IN  /\ frames' = SubSeq(frames, 1, b.frames)
             /\ seh_stack' = SubSeq(seh_stack, 1, b.saved_seh)
             /\ boundaries' = Front(boundaries)
             /\ error' = v
             /\ UNCHANGED rv

\* Mutant: the records of the frames below a builtin's call are in reach.
HandleThrowAnywhere(v, recs) ==
    LET able == {i \in DOMAIN recs : HandlerOpen(recs[i]) \/ FinallyDue(recs[i])}
        i == Max(able)
        rec == recs[i]
        to == IF HandlerOpen(rec) THEN "catch" ELSE "finally"
    IN  IF able = {} THEN Escape(v)
        ELSE /\ seh_stack' =
                  [SubSeq(recs, 1, i) EXCEPT ![i] =
                     IF to = "catch"
                     THEN [@ EXCEPT !.catch_closed = TRUE]
                     ELSE [@ EXCEPT !.in_finally = TRUE,
                                    !.pending_exception = v]]
             /\ frames' = [SubSeq(frames, 1, rec.saved_frame_depth) EXCEPT
                             ![rec.saved_frame_depth].at = <<rec.region, to>>]
             /\ rv' = IF to = "catch" THEN v ELSE rv
             /\ error' = NoValue
             /\ UNCHANGED boundaries

\* handle_throw on the stack recs: records are popped until one takes the
\* exception; those of frames below the boundary are out of reach.
HandleThrow(v, recs) ==
    LET takes(i) == HandlerOpen(recs[i]) \/ FinallyDue(recs[i])
        reach == {i \in DOMAIN recs :
                    \A j \in i..Len(recs) :
                        recs[j].saved_frame_depth > InvokeBoundary}
        able == {i \in reach : takes(i)}
        i == Max(able)
        rec == recs[i]
        to == IF HandlerOpen(rec) THEN "catch" ELSE "finally"
    IN  IF able = {} THEN Escape(v)
        ELSE /\ seh_stack' =
                  [SubSeq(recs, 1, i) EXCEPT ![i] =
                     IF to = "catch"
                     THEN [@ EXCEPT !.catch_closed = TRUE]
                     ELSE [@ EXCEPT !.in_finally = TRUE,
                                    !.pending_exception = v]]
             /\ frames' = [SubSeq(frames, 1, rec.saved_frame_depth) EXCEPT
                             ![rec.saved_frame_depth].at = <<rec.region, to>>]
             /\ rv' = IF to = "catch" THEN v ELSE rv
             /\ error' = NoValue
             /\ UNCHANGED boundaries

Throw(v) ==
    /\ Stepping
    /\ HandleThrow(v, seh_stack)
    /\ did' = <<"throw", v>>
    /\ UNCHANGED prog

-----------------------------------------------------------------------------
(* Try, EndTry.                                                            *)

Try(r) ==
    /\ Stepping /\ Depth > 1 /\ r \in Present(prog)
    /\ Here = Around(prog, r)
    /\ seh_stack' = Append(seh_stack,
          [region |-> r, saved_frame_depth |-> Depth,
           in_finally |-> FALSE, catch_closed |-> FALSE,
           pending_exception |-> NoValue, delayed_jump_target |-> <<>>,
           delayed_return |-> FALSE, delayed_return_value |-> NoValue])
    /\ frames' = Goto(<<r, "try">>)
    /\ did' = <<"go">>
    /\ UNCHANGED <<prog, boundaries, rv, error>>

\* Mutant: the record goes even when its finally is about to run.
EndTryPops ==
    /\ Stepping /\ Here # Outside /\ Here[2] # "finally"
    /\ LET r == Here[1] IN
       /\ seh_stack' = RemoveAt(seh_stack, Max(Positions(r)))
       /\ frames' = Goto(IF prog[r].finally THEN <<r, "finally">>
                                            ELSE Around(prog, r))
    /\ did' = <<"end">>
    /\ UNCHANGED <<prog, boundaries, rv, error>>

\* The try or catch part ends normally.
EndTry ==
    /\ Stepping /\ Here # Outside /\ Here[2] # "finally"
    /\ LET r == Here[1]
           i == Max(Positions(r))
       IN  IF prog[r].finally
           THEN /\ seh_stack' = [seh_stack EXCEPT ![i].in_finally = TRUE,
                                                  ![i].catch_closed = TRUE]
                /\ frames' = Goto(<<r, "finally">>)
           ELSE /\ seh_stack' = RemoveAt(seh_stack, i)
                /\ frames' = Goto(Around(prog, r))
    /\ did' = <<"end">>
    /\ UNCHANGED <<prog, boundaries, rv, error>>

-----------------------------------------------------------------------------
(* Leaving regions by return, break and continue.                          *)

\* Mutant: a return that runs a finally leaves the region's catch open.
RetKeepsCatch(v, recs) ==
    LET seh_depth == frames[Depth].seh_depth
        due == {i \in (seh_depth + 1)..Len(recs) : FinallyDue(recs[i])}
        i == Max(due)
    IN  /\ rv' = v
        /\ IF due # {}
           THEN /\ seh_stack' = [recs EXCEPT
                      ![i].in_finally = TRUE, ![i].delayed_return = TRUE,
                      ![i].delayed_return_value = v]
                /\ frames' = Goto(<<recs[i].region, "finally">>)
           ELSE /\ seh_stack' = SubSeq(recs, 1, seh_depth)
                /\ frames' = Front(frames)

\* Ret with v in Rv on the stack recs: the innermost finally of the frame
\* that is due runs first, else the frame is popped.
Ret(v, recs) ==
    LET seh_depth == frames[Depth].seh_depth
        due == {i \in (seh_depth + 1)..Len(recs) : FinallyDue(recs[i])}
        i == Max(due)
    IN  /\ rv' = v
        /\ IF due # {}
           THEN /\ seh_stack' = [recs EXCEPT
                      ![i].in_finally = TRUE, ![i].catch_closed = TRUE,
                      ![i].delayed_return = TRUE,
                      ![i].delayed_return_value = v]
                /\ frames' = Goto(<<recs[i].region, "finally">>)
           ELSE /\ seh_stack' = SubSeq(recs, 1, seh_depth)
                /\ frames' = Front(frames)

\* Programs of the runs with AnyExit = FALSE: the k regions an exit leaves are
\* first those whose finally is due and then those without one, and a break
\* that meets a finally leaves no other region.  What the code does with the
\* other programs is the subject of the findings.
CleanExit(k, breaks) ==
    LET path == Path(prog, Here[1])
        n == Len(path)
        due == {i \in (n + 1 - k)..n :
                  prog[path[i]].finally /\ PartOf(prog, Here, i) # "finally"}
    IN  \A i \in due : i..n \subseteq due /\ (breaks => k = 1)

Return(v) ==
    /\ Stepping /\ Depth > 1
    /\ AnyExit \/ CleanExit(Len(Path(prog, Here[1])), FALSE)
    /\ Ret(v, seh_stack)
    /\ did' = <<"return", v>>
    /\ UNCHANGED <<prog, boundaries, error>>

\* lower_loop_exit emits DelayedJump when the jump leaves k > 0 regions.
DelayedJump(k) ==
    /\ Stepping /\ k \in 1..Len(Path(prog, Here[1]))
    /\ AnyExit \/ CleanExit(k, TRUE)
    /\ LET n == Len(seh_stack)
           start == Max({n - k, frames[Depth].seh_depth})
           due == {i \in (start + 1)..n : FinallyDue(seh_stack[i])}
           i == Max(due)
           target == PlaceAfter(prog, Here, k)
       IN  IF due # {}
           THEN /\ seh_stack' = [seh_stack EXCEPT
                      ![i].in_finally = TRUE, ![i].catch_closed = TRUE,
                      ![i].delayed_jump_target = target]
                /\ frames' = Goto(<<seh_stack[i].region, "finally">>)
           ELSE /\ seh_stack' = SubSeq(seh_stack, 1, n - k)
                /\ frames' = Goto(target)
    /\ did' = <<"break", Len(Path(prog, Here[1])) - k>>
    /\ UNCHANGED <<prog, boundaries, rv, error>>

\* Mutant: the deferred return takes whatever the finally left in Rv.
ResumeExcKeepsRv ==
    /\ Stepping /\ Here[2] = "finally"
    /\ LET i == Max(Positions(Here[1]))
           rec == seh_stack[i]
           recs == RemoveAt(seh_stack, i)
       IN  CASE rec.pending_exception # NoValue ->
                    HandleThrow(rec.pending_exception, recs)
             [] rec.pending_exception = NoValue
                /\ rec.delayed_jump_target # <<>> ->
                    /\ seh_stack' = recs
                    /\ frames' = Goto(rec.delayed_jump_target)
                    /\ UNCHANGED <<boundaries, rv, error>>
             [] rec.pending_exception = NoValue
                /\ rec.delayed_jump_target = <<>> /\ rec.delayed_return ->
                    /\ Ret(rv, recs)
                    /\ UNCHANGED <<boundaries, error>>
             [] OTHER ->
                    /\ seh_stack' = recs
                    /\ frames' = Goto(Around(prog, Here[1]))
                    /\ UNCHANGED <<boundaries, rv, error>>
    /\ did' = <<"end">>
    /\ UNCHANGED prog

\* The end of a finally part.
ResumeExc ==
    /\ Stepping /\ Here[2] = "finally"
    /\ LET i == Max(Positions(Here[1]))
           rec == seh_stack[i]
           recs == RemoveAt(seh_stack, i)
       IN  CASE rec.pending_exception # NoValue ->
                    HandleThrow(rec.pending_exception, recs)
             [] rec.pending_exception = NoValue
                /\ rec.delayed_jump_target # <<>> ->
                    /\ seh_stack' = recs
                    /\ frames' = Goto(rec.delayed_jump_target)
                    /\ UNCHANGED <<boundaries, rv, error>>
             [] rec.pending_exception = NoValue
                /\ rec.delayed_jump_target = <<>> /\ rec.delayed_return ->
                    \* on to the Ret at func_exit_pc, with Rv restored
                    /\ Ret(rec.delayed_return_value, recs)
                    /\ UNCHANGED <<boundaries, error>>
             [] OTHER ->
                    /\ seh_stack' = recs
                    /\ frames' = Goto(Around(prog, Here[1]))
                    /\ UNCHANGED <<boundaries, rv, error>>
    /\ did' = <<"end">>
    /\ UNCHANGED prog
-----------------------------------------------------------------------------
(* Calls, and the builtins that make some of them.                         *)

NewFrame == Append(frames, [seh_depth |-> Len(seh_stack), at |-> Outside])

\* Mutant: no cap on the depth of calls.
CallUncapped ==
    /\ Stepping /\ Depth <= FrameLimit
    /\ frames' = NewFrame
    /\ did' = <<"go">>
    /\ UNCHANGED <<prog, seh_stack, boundaries, rv, error>>

\* The Call opcodes stay in the loop they are executed by.
Call ==
    /\ Stepping /\ Depth < FrameLimit
    /\ frames' = NewFrame
    /\ did' = <<"go">>
    /\ UNCHANGED <<prog, seh_stack, boundaries, rv, error>>

\* drive_bytecode_frame starts a loop of its own.
CallFromBuiltin ==
    /\ Stepping /\ Depth < FrameLimit
    /\ boundaries' = Append(boundaries,
          [frames |-> Depth, saved_seh |-> Len(seh_stack)])
    /\ frames' = NewFrame
    /\ did' = <<"go">>
    /\ UNCHANGED <<prog, seh_stack, rv, error>>

\* Its frame is gone: it truncates to its watermarks and returns Rv.
CallReturned ==
    /\ error = NoValue /\ boundaries # <<>> /\ Depth <= InvokeBoundary
    /\ frames' = SubSeq(frames, 1, InvokeBoundary)
    /\ seh_stack' = SubSeq(seh_stack, 1, Last(boundaries).saved_seh)
    /\ boundaries' = Front(boundaries)
    /\ did' = <<"go">>
    /\ UNCHANGED <<prog, rv, error>>

\* The builtin passes Err on (step raises it again in the loop around it) ...
Propagate ==
    /\ error # NoValue
    /\ HandleThrow(error, seh_stack)
    /\ did' = <<"go">>
    /\ UNCHANGED prog

\* ... or drops it, as a promise executor or job does.
Swallow ==
    /\ error # NoValue
    /\ error' = NoValue
    /\ did' = <<"go">>
    /\ UNCHANGED <<prog, frames, seh_stack, boundaries, rv>>

\* The script's frame ends; the host runs the virtual machine again, which
\* replaces its state.
Halt ==
    /\ Stepping /\ Depth = 1
    /\ frames' = <<>> /\ seh_stack' = <<>>
    /\ did' = <<"go">>
    /\ UNCHANGED <<prog, boundaries, rv, error>>

Run ==
    /\ frames = <<>>
    /\ frames' = <<[seh_depth |-> 0, at |-> Outside]>>
    /\ seh_stack' = <<>> /\ boundaries' = <<>> /\ rv' = NoValue
    /\ did' = <<"go">>
    /\ UNCHANGED <<prog, error>>

Next ==
    \/ \E r \in Region : Try(r)
    \/ \E k \in Region : DelayedJump(k)
    \/ \E v \in Value : Return(v) \/ Throw(v)
    \/ EndTry \/ ResumeExc
    \/ Call \/ CallFromBuiltin \/ CallReturned \/ Propagate \/ Swallow
    \/ Halt \/ Run

Spec == Init /\ [][Next]_vars

-----------------------------------------------------------------------------
(* Properties.                                                             *)

PathOf(f) == Path(prog, frames[f].at[1])

\* The records of frame f, and where on the stack they end: its watermark and
\* that of the frame it called enclose them.
RecordsAt(f) == {i \in DOMAIN seh_stack : seh_stack[i].saved_frame_depth = f}
Low(f) == frames[f].seh_depth
High(f) == IF f = Depth THEN Len(seh_stack) ELSE frames[f + 1].seh_depth

\* The flags of a record of region r say that the pc is in that part of r.
Fits(rec, r, part) ==
    /\ rec.region = r
    /\ rec.in_finally = (part = "finally")
    /\ prog[r].catch => rec.catch_closed = (part # "try")

\* The records of every frame are the regions its pc is in, in order, and
\* their flags say which part of the region it is in; the frame's watermark
\* separates them from its callers' ("一次 push 对一次 pop" in EndTry, and
\* the bookkeeping lower_try keeps for break and continue).
RecordsMatchRegions ==
    \A f \in DOMAIN frames :
        LET path == PathOf(f) IN
        /\ {i \in DOMAIN seh_stack : seh_stack[i].saved_frame_depth < f}
              = 1..Low(f)
        /\ RecordsAt(f) = (Low(f) + 1)..(Low(f) + Len(path))
        /\ \A i \in DOMAIN path :
              Fits(seh_stack[Low(f) + i], path[i],
                   PartOf(prog, frames[f].at, i))

\* A frame that is in no region has no record left: nothing of a region it
\* has left can take an exception or run again.
NoRecordLeaks ==
    \A f \in DOMAIN frames : frames[f].at = Outside => RecordsAt(f) = {}

\* The step leaves no region whose finally has not begun.
KeepsFinally ==
    \A f \in DOMAIN frames :
        \A i \in DOMAIN PathOf(f) :
            LET r == PathOf(f)[i] IN
            prog[r].finally /\ PartOf(prog, frames[f].at, i) # "finally" =>
                /\ f \in DOMAIN frames'
                /\ \E j \in DOMAIN PathOf(f)' : PathOf(f)'[j] = r

\* A try or catch part of a region with a finally is left only through that
\* finally, whatever the step is: an exception from a callee, a return, a
\* break out of several regions, a finally that ends.
NoFinallySkipped == [][KeepsFinally]_vars

\* A catch clause runs only on exceptions of the try part it belongs to: a
\* step that lands in it comes from inside that try part, or from a region
\* nested in the clause.
EntersOwnCatch ==
    \A f \in DOMAIN frames \cap DOMAIN frames' :
        frames'[f].at # frames[f].at /\ frames'[f].at[2] = "catch" =>
            \E i \in DOMAIN PathOf(f) :
                /\ PathOf(f)[i] = frames'[f].at[1]
                /\ PartOf(prog, frames[f].at, i) # "finally"

\* While a builtin's call runs, the frames and the records below it are as
\* they were when it was made (the boundary check of handle_throw and the
\* range of the scans of Ret and DelayedJump).
KeepsCallers ==
    boundaries # <<>> =>
        LET b == Last(boundaries) IN
        /\ SubSeq(frames', 1, b.frames) = SubSeq(frames, 1, b.frames)
        /\ SubSeq(seh_stack', 1, b.saved_seh)
              = SubSeq(seh_stack, 1, b.saved_seh)

\* An exception is taken where it belongs: by a catch around the place it was
\* thrown at, and never by one of the frames below a builtin's call.
TakenWhereItBelongs == [][EntersOwnCatch /\ KeepsCallers]_vars

\* What a finally part that runs will do when it ends.
Pending(f, i) ==
    LET rec == seh_stack[Low(f) + i]
    IN  CASE PartOf(prog, frames[f].at, i) # "finally" -> [kind |-> "normal"]
          [] rec.pending_exception # NoValue ->
                [kind |-> "throw", value |-> rec.pending_exception]
          [] rec.delayed_jump_target # <<>> ->
                [kind |-> "break",
                 depth |-> Len(Path(prog, rec.delayed_jump_target[1]))]
          [] rec.delayed_return ->
                [kind |-> "return", value |-> rec.delayed_return_value]
          [] OTHER -> [kind |-> "normal"]

OpenRegions(f) ==
    LET path == PathOf(f)
    IN  [i \in DOMAIN path |->
            [region |-> path[i],
             part |-> PartOf(prog, frames[f].at, i),
             pending |-> Pending(f, i)]]

Language == INSTANCE Completions WITH
    calls <- [f \in DOMAIN frames |-> OpenRegions(f)],
    natives <- [i \in DOMAIN boundaries |-> boundaries[i].frames]

\* The records, flags and jumps are completion semantics: every instruction
\* does to the program what Completions says.
ImplementsCompletions == Language!Spec

-----------------------------------------------------------------------------
(* The inductive invariant behind them (UnwindingProofs), for the programs  *)
(* of CleanExit.                                                            *)

\* Once a return has begun to run the finally of r, it goes on as it started.
CleanAround(r) ==
    LET path == Path(prog, r)
        n == Len(path)
        due == {i \in 1..(n - 1) : /\ prog[path[i]].finally
                                   /\ prog[path[i + 1]].part # "finally"}
    IN  \A i \in due : i..(n - 1) \subseteq due

\* A record puts off one thing at a time, and only while its finally runs.
Deferred(rec) ==
    /\ ~rec.in_finally => /\ rec.pending_exception = NoValue
                          /\ rec.delayed_jump_target = <<>>
                          /\ ~rec.delayed_return
    /\ rec.pending_exception # NoValue =>
          rec.delayed_jump_target = <<>> /\ ~rec.delayed_return
    /\ rec.delayed_jump_target # <<>> =>
          /\ ~rec.delayed_return
          /\ rec.delayed_jump_target = Around(prog, rec.region)
    /\ rec.delayed_return =>
          rec.delayed_return_value \in Value /\ CleanAround(rec.region)

FramesInv ==
    /\ frames = <<>> => seh_stack = <<>> /\ boundaries = <<>> /\ error = NoValue
    /\ frames # <<>> => frames[1] = [seh_depth |-> 0, at |-> Outside]
    /\ \A f \in 1..Depth :
          /\ frames[f].at[1] = 0 => frames[f].at = Outside
          /\ High(f) = Low(f) + Len(PathOf(f))
    /\ \A f, g \in 1..Depth : f <= g => Low(f) <= Low(g)

RecordsInv ==
    /\ \A i \in 1..Len(seh_stack) :
          LET f == seh_stack[i].saved_frame_depth IN
          f \in 1..Depth /\ Low(f) < i /\ i <= High(f)
    /\ \A f \in 1..Depth : \A i \in 1..Len(PathOf(f)) :
          LET rec == seh_stack[Low(f) + i] IN
          /\ rec.saved_frame_depth = f
          /\ Fits(rec, PathOf(f)[i], PartOf(prog, frames[f].at, i))
          /\ Deferred(rec)

\* A builtin remembers where its callee's records begin.
BoundariesInv ==
    /\ \A i \in 1..Len(boundaries) :
          /\ boundaries[i].frames \in 1..Depth
          /\ boundaries[i].saved_seh = High(boundaries[i].frames)
    /\ \A i, j \in 1..Len(boundaries) :
          i < j => boundaries[i].frames < boundaries[j].frames
    /\ error # NoValue => Depth > InvokeBoundary

UnwindInv == TypeOK /\ FramesInv /\ RecordsInv /\ BoundariesInv
=============================================================================
