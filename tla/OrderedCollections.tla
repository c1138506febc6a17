-------------------------- MODULE OrderedCollections --------------------------
(***************************************************************************)
(* What Map and Set promise: entries in insertion order, one for each key,  *)
(* and walks that visit every entry there is when they get there, once, and *)
(* nothing else.  A walk is what lies ahead of it: at first all entries; a  *)
(* new entry goes to the end of it, a deleted one disappears from it.  Once *)
(* a walk has found nothing ahead, it is over.                              *)
(***************************************************************************)
EXTENDS Integers, Sequences, SequencesExt

CONSTANT Nobody
VARIABLES
    order,   \* the entries of each collection
    walks    \* for each walk under way: of, ahead and over

vars == <<order, walks>>

Init ==
    /\ \A c \in DOMAIN order : order[c] = <<>>
    /\ \A w \in DOMAIN walks : walks[w] = Nobody

HasKey(entries, key) == \E i \in 1..Len(entries) : entries[i].key = key
InPlace(entries, entry) ==
    [i \in 1..Len(entries) |-> IF entries[i].key = entry.key THEN entry ELSE entries[i]]
Without(entries, key) == RemoveFirstMatch(entries, LAMBDA e : e.key = key)

\* The walks of c, with what lies ahead of those not over changed by f.
Ahead(c, f(_)) ==
    [w \in DOMAIN walks |->
        IF walks[w] # Nobody /\ walks[w].of = c /\ ~walks[w].over
        THEN [walks[w] EXCEPT !.ahead = f(@)] ELSE walks[w]]

Change(c, f(_)) ==
    /\ order' = [order EXCEPT ![c] = f(@)]
    /\ walks' = Ahead(c, f)

Put(c, entry) ==
    IF HasKey(order[c], entry.key)
    THEN Change(c, LAMBDA entries : InPlace(entries, entry))
    ELSE Change(c, LAMBDA entries : Append(entries, entry))

Withdraw(c, key) == Change(c, LAMBDA entries : Without(entries, key))
Empty(c) == Change(c, LAMBDA entries : <<>>)

Open(w, c) ==
    /\ walks[w] = Nobody
    /\ walks' = [walks EXCEPT ![w] = [of |-> c, ahead |-> order[c], over |-> FALSE]]
    /\ UNCHANGED order

Visit(w) ==
    /\ walks[w] # Nobody /\ ~walks[w].over /\ walks[w].ahead # <<>>
    /\ walks' = [walks EXCEPT ![w].ahead = Tail(@)]
    /\ UNCHANGED order

Finish(w) ==
    /\ walks[w] # Nobody /\ walks[w].ahead = <<>>
    /\ walks' = [walks EXCEPT ![w].over = TRUE]
    /\ UNCHANGED order

\* Nobody holds the walk any more.
Release(w) ==
    /\ walks[w] # Nobody
    /\ walks' = [walks EXCEPT ![w] = Nobody]
    /\ UNCHANGED order

Next ==
    \/ \E c \in DOMAIN order :
          \/ Empty(c)
          \/ \E i \in 1..Len(order[c]) : Withdraw(c, order[c][i].key)
          \/ \E i \in 1..Len(order'[c]) : Put(c, order'[c][i])
    \/ \E w \in DOMAIN walks :
          \/ Visit(w) \/ Finish(w) \/ Release(w)
          \/ \E c \in DOMAIN order : Open(w, c)

Spec == Init /\ [][Next]_vars
=============================================================================
