------------------------------- MODULE LiveWalk -------------------------------
(***************************************************************************)
(* What a callback method of Array.prototype promises.  The length is read  *)
(* once.  Then the method goes on to the nearest index ahead that is there  *)
(* at that moment, with the value it has at that moment, whatever the       *)
(* script did since the last one; what it answers follows from the visits.  *)
(***************************************************************************)
EXTENDS Integers, Sequences, FiniteSets

CONSTANTS
    Getter,   \* stands for the value of an index with a getter
    Got,      \* what such a getter returns
    Needle    \* what indexOf and lastIndexOf look for

VARIABLES
    content,   \* the values of the indices the receiver has, inherited ones too
    length,    \* its length
    walk,      \* the method, the length it read, where it is, what it answered
    visits     \* the indices visited: their values, and the callback's answers

vars == <<content, length, walk, visits>>

Backward == {"findLast", "findLastIndex", "reduceRight", "lastIndexOf"}
Searching == {"indexOf", "lastIndexOf"}
Reducing == {"reduce", "reduceRight", "reduceFrom"}

NoResult == <<"none">>
Threw == <<"threw">>

Last(v) == v[Len(v)]
IndicesOf(v) == {v[n].index : n \in DOMAIN v}
At(v, i) == v[CHOOSE n \in DOMAIN v : v[n].index = i]
ValuesOf(v) == [n \in DOMAIN v |-> v[n].value]
Yes(w) == w.answer = "yes"

\* The method needs no further visit.
Decided(method, v) ==
    /\ v # <<>>
    /\ CASE method \in {"some", "find", "findIndex", "findLast", "findLastIndex"} -> Yes(Last(v))
         [] method = "every" -> Last(v).answer = "no"
         [] method \in Searching -> Last(v).value = Needle
         [] OTHER -> FALSE

Owed(method, len, v) ==
    LET found == Decided(method, v)
    IN  CASE method = "forEach" -> <<"undefined">>
          [] method = "map" -> <<"elements", len, [i \in IndicesOf(v) |-> At(v, i).answer]>>
          [] method = "entries" -> <<"elements", len, [i \in IndicesOf(v) |-> At(v, i).value]>>
          [] method = "filter" -> <<"list", ValuesOf(SelectSeq(v, Yes))>>
          [] method = "some" -> <<"bool", found>>
          [] method = "every" -> <<"bool", ~found>>
          [] method \in {"find", "findLast"} ->
                IF found THEN <<"value", Last(v).value>> ELSE <<"undefined">>
          [] method \in {"findIndex", "findLastIndex", "indexOf", "lastIndexOf"} ->
                <<"index", IF found THEN Last(v).index ELSE -1>>
          [] method \in {"reduce", "reduceRight"} ->
                IF v = <<>> THEN Threw ELSE <<"list", ValuesOf(v)>>
          [] method = "reduceFrom" -> <<"list", ValuesOf(v)>>

\* Indices the method has not passed yet.
Ahead ==
    LET from == IF visits = <<>> THEN walk.from ELSE Last(visits).index
    IN  {i \in DOMAIN content :
            /\ i < walk.len
            /\ IF visits = <<>>
               THEN IF walk.method \in Backward THEN i <= from ELSE i >= from
               ELSE IF walk.method \in Backward THEN i < from ELSE i > from}

Nearest(is) ==
    CHOOSE i \in is :
        \A j \in is : IF walk.method \in Backward THEN j <= i ELSE i <= j

\* The visit calls the callback; the first one of reduce without an initial
\* value, a comparison of indexOf and the reading of elements do not.
Calls ==
    ~ \/ walk.method \in Searching \cup {"entries"}
      \/ walk.method \in {"reduce", "reduceRight"} /\ visits = <<>>

Settled(v) ==
    walk' = IF Decided(walk.method, v)
            THEN [walk EXCEPT !.status = "done", !.result = Owed(walk.method, walk.len, v)]
            ELSE [walk EXCEPT !.status = "walking"]

-----------------------------------------------------------------------------
Init ==
    /\ walk = [status |-> "idle", method |-> "none", len |-> 0, from |-> 0, result |-> NoResult]
    /\ visits = <<>>

\* The script changes the receiver: between calls, within a getter or a
\* callback.
Change ==
    /\ walk.status # "walking"
    /\ UNCHANGED <<walk, visits>>

Begin ==
    /\ walk.status = "idle"
    /\ walk'.len = length /\ walk'.result = NoResult /\ walk'.status \in {"walking", "script"}
    /\ \/ walk'.method \in Searching
       \/ walk'.from = IF walk'.method \in Backward THEN length - 1 ELSE 0
    /\ visits' = <<>>
    /\ UNCHANGED <<content, length>>

\* ArraySpeciesCreate ran the script before the first visit.
SpeciesDone ==
    /\ walk.status = "script" /\ visits = <<>>
    /\ walk' = [walk EXCEPT !.status = "walking"]
    /\ UNCHANGED <<content, length, visits>>

Visit ==
    /\ walk.status = "walking" /\ Ahead # {}
    /\ LET i == Nearest(Ahead)
           value == IF content[i] = Getter THEN Got ELSE content[i]
       IN  /\ visits' = Append(visits, [index |-> i, value |-> value, answer |-> "none"])
           /\ IF Calls \/ content[i] = Getter
              THEN walk' = [walk EXCEPT !.status = "script"]
              ELSE Settled(visits')
    /\ UNCHANGED <<content, length>>

\* The getter and the callback of the last visit returned.
Resume ==
    /\ walk.status = "script" /\ visits # <<>>
    /\ \E answer \in {"yes", "no", "none"} :
          visits' = [visits EXCEPT ![Len(visits)].answer = answer]
    /\ Settled(visits')
    /\ UNCHANGED <<content, length>>

Abrupt ==
    /\ walk.status = "script"
    /\ walk' = [walk EXCEPT !.status = "done", !.result = Threw]
    /\ UNCHANGED <<content, length, visits>>

Finish ==
    /\ walk.status = "walking" /\ Ahead = {}
    /\ walk' = [walk EXCEPT !.status = "done", !.result = Owed(walk.method, walk.len, visits)]
    /\ UNCHANGED <<content, length, visits>>

\* The caller has the answer.
Return ==
    /\ walk.status = "done"
    /\ walk'.status = "idle"
    /\ visits' = <<>>

Next ==
    Change \/ Begin \/ SpeciesDone \/ Visit \/ Resume \/ Abrupt \/ Finish \/ Return

Spec == Init /\ [][Next]_vars
=============================================================================
