---------------------------- MODULE Completions ----------------------------
(***************************************************************************)
(* What try, catch and finally promise, as ECMAScript states it with       *)
(* completion records and no mention of an exception stack: an abrupt      *)
(* completion leaves the open regions from the inside out, stops at the    *)
(* first catch that may take it or finally that has not run, and goes on   *)
(* when that finally ends normally.  Unwinding.tla implements it.          *)
(***************************************************************************)
EXTENDS TryProgram, SequencesExt

CONSTANTS Value, NoValue

VARIABLES
    prog,     \* the function
    calls,    \* the activations, each the sequence of its open regions
    natives,  \* the activation below each call made by a builtin
    rv,       \* the value register
    error,    \* the exception a builtin got from such a call, or NoValue
    did       \* what the program chose to do last: the rest follows from it

vars == <<prog, calls, natives, rv, error, did>>

Normal == [kind |-> "normal"]
Throwing(v) == [kind |-> "throw", value |-> v]
Returning(v) == [kind |-> "return", value |-> v]
Breaking(d) == [kind |-> "break", depth |-> d]

Open(r, part, c) == [region |-> r, part |-> part, pending |-> c]

Top == Len(calls)
Floor == IF natives = <<>> THEN 0 ELSE Last(natives)
Running == error = NoValue /\ Top > Floor

Init ==
    /\ prog \in Programs
    /\ calls = <<<<>>>> /\ natives = <<>>
    /\ rv = NoValue /\ error = NoValue /\ did = <<"go">>

Catches(o, c) == c.kind = "throw" /\ o.part = "try" /\ prog[o.region].catch
Finalizes(o) == o.part # "finally" /\ prog[o.region].finally

\* The open regions at which completion c stops on its way out.
Stops(open, c) ==
    {i \in DOMAIN open :
        /\ c.kind = "break" => i > c.depth
        /\ Catches(open[i], c) \/ Finalizes(open[i])}

StopAt(open, c) ==
    LET i == Max(Stops(open, c))
        r == open[i].region
    IN  [SubSeq(open, 1, i) EXCEPT ![i] =
            IF Catches(@, c) THEN Open(r, "catch", Normal)
                             ELSE Open(r, "finally", c)]

Break(d) ==
    LET open == calls[Top]
    IN  /\ calls' = [calls EXCEPT ![Top] =
                        IF Stops(open, Breaking(d)) # {}
                        THEN StopAt(open, Breaking(d))
                        ELSE SubSeq(open, 1, d)]
        /\ UNCHANGED <<rv, error, natives>>

Return(v) ==
    LET open == calls[Top]
    IN  /\ calls' = IF Stops(open, Returning(v)) # {}
                    THEN [calls EXCEPT ![Top] = StopAt(open, Returning(v))]
                    ELSE Front(calls)
        /\ rv' = v
        /\ UNCHANGED <<error, natives>>

\* An exception looks through the activations above the innermost builtin
\* call; when none of them stops it, that builtin gets it, or the script ends.
Throw(v) ==
    LET c == Throwing(v)
        able == {j \in (Floor + 1)..Top : Stops(calls[j], c) # {}}
        j == Max(able)
    IN  IF able # {}
        THEN /\ calls' = [SubSeq(calls, 1, j) EXCEPT ![j] = StopAt(@, c)]
             /\ rv' = IF Catches(calls[j][Max(Stops(calls[j], c))], c)
                      THEN v ELSE rv
             /\ error' = NoValue
             /\ UNCHANGED natives
        ELSE /\ calls' = SubSeq(calls, 1, Floor)
             /\ error' = IF natives = <<>> THEN NoValue ELSE v
             /\ natives' = IF natives = <<>> THEN natives
                           ELSE Front(natives)
             /\ UNCHANGED rv

Perform(c) ==
    CASE c.kind = "throw" -> Throw(c.value)
      [] c.kind = "return" -> Return(c.value)
      [] c.kind = "break" -> Break(c.depth)
      [] OTHER -> UNCHANGED <<calls, natives, rv, error>>

Enter(r) ==
    /\ Running /\ Top > 1 /\ r \in Present(prog)
    /\ calls' = [calls EXCEPT ![Top] = Append(@, Open(r, "try", Normal))]
    /\ did' = <<"go">>
    /\ UNCHANGED <<prog, natives, rv, error>>

\* The innermost region's current part ends normally.
Finish ==
    /\ Running /\ calls[Top] # <<>>
    /\ LET open == calls[Top]
           n == Len(open)
           o == open[n]
           rest == [calls EXCEPT ![Top] = Front(open)]
       IN  \/ /\ o.part # "finally" /\ prog[o.region].finally
              /\ calls' = [calls EXCEPT ![Top][n] =
                              Open(o.region, "finally", Normal)]
              /\ UNCHANGED <<natives, rv, error>>
           \/ /\ \/ o.part # "finally" /\ ~prog[o.region].finally
                 \/ o.part = "finally" /\ o.pending = Normal
              /\ calls' = rest
              /\ UNCHANGED <<natives, rv, error>>
           \/ /\ o.part = "finally" /\ o.pending # Normal
              /\ Perform(o.pending)
    /\ did' = <<"end">>
    /\ UNCHANGED prog

Exit ==
    /\ Running
    /\ \/ \E d \in 0..(Len(calls[Top]) - 1) :
            Break(d) /\ did' = <<"break", d>>
       \/ Top > 1 /\ \E v \in Value : Return(v) /\ did' = <<"return", v>>
       \/ \E v \in Value : Throw(v) /\ did' = <<"throw", v>>
    /\ UNCHANGED prog

Call ==
    /\ Running
    /\ calls' = Append(calls, <<>>)
    /\ natives' \in {natives, Append(natives, Top)}
    /\ did' = <<"go">>
    /\ UNCHANGED <<prog, rv, error>>

\* A builtin goes on after its call: with the result, or with the exception,
\* which it passes on or drops.
Resume ==
    /\ \/ /\ error = NoValue /\ natives # <<>> /\ Top = Floor
          /\ natives' = Front(natives)
          /\ UNCHANGED <<calls, rv, error>>
       \/ error # NoValue /\ Throw(error)
       \/ /\ error # NoValue /\ error' = NoValue
          /\ UNCHANGED <<calls, rv, natives>>
    /\ did' = <<"go">>
    /\ UNCHANGED prog

\* The script ends, normally or with the exception nobody took; the host may
\* run the virtual machine again.
Restart ==
    /\ \/ /\ Running /\ Top = 1 /\ calls' = <<>> /\ UNCHANGED rv
       \/ calls = <<>> /\ calls' = <<<<>>>> /\ rv' = NoValue
    /\ did' = <<"go">>
    /\ UNCHANGED <<prog, natives, error>>

Next ==
    \/ \E r \in Region : Enter(r)
    \/ Finish \/ Exit \/ Call \/ Resume \/ Restart

Spec == Init /\ [][Next]_vars
=============================================================================
