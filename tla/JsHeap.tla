------------------------------- MODULE JsHeap -------------------------------
(***************************************************************************)
(* What the heap promises the interpreter that runs on it, with no         *)
(* collector in sight: objects are made, linked and dropped by the         *)
(* program, and the implementation may at any moment reclaim an object the *)
(* program cannot reach and forget a weak entry whose key only a weak      *)
(* container keeps alive.  GcHeap is shown to implement this module: an    *)
(* action's effect comes before the condition it needs, because TLC finds  *)
(* with it which action a step of GcHeap is.                               *)
(***************************************************************************)
EXTENDS HeapGraph, Sequences, FiniteSets

VARIABLES
    objs,       \* the slots that hold an object
    refs,       \* refs[s]: strong references of the object in s
    entries,    \* entries[s]: weak entries of the object in s
    roots,      \* the handles the VM's own state holds (Trace for VM)
    held        \* the handles held in Rust locals, one per native call

vars == <<objs, refs, entries, roots, held>>

Holders == roots \cup {held[i] : i \in DOMAIN held}
Accessible == Reach(Holders, refs, entries)

Init ==
    /\ objs = {} /\ roots = {} /\ held = <<>>
    /\ refs = [s \in Slot |-> {}]
    /\ entries = [s \in Slot |-> {}]

New(s) ==
    /\ s \notin objs
    /\ objs' = objs \cup {s}
    /\ roots' = roots \cup {s}
    /\ refs' = [refs EXCEPT ![s] = {}]
    /\ entries' = [entries EXCEPT ![s] = {}]
    /\ UNCHANGED held

\* The program stores and drops handles it can get at.
Root(s) ==
    /\ roots' = roots \cup {s}
    /\ UNCHANGED <<objs, refs, entries, held>>
    /\ s \in Accessible

Unroot(s) ==
    /\ roots' = roots \ {s}
    /\ UNCHANGED <<objs, refs, entries, held>>

Link(s, t) ==
    /\ refs' = [refs EXCEPT ![s] = @ \cup {t}]
    /\ UNCHANGED <<objs, entries, roots, held>>
    /\ s \in Accessible /\ t \in Accessible

Unlink(s, t) ==
    /\ s \in Accessible /\ t \in refs[s]
    /\ refs' = [refs EXCEPT ![s] = @ \ {t}]
    /\ UNCHANGED <<objs, entries, roots, held>>

\* WeakMap.prototype.set, WeakSet.prototype.add
Put(s, k, v) ==
    /\ entries' = [entries EXCEPT ![s] = {e \in @ : e[1] # k} \cup {<<k, v>>}]
    /\ UNCHANGED <<objs, refs, roots, held>>
    /\ s \in Accessible /\ k \in Accessible /\ v \in Accessible \cup {NoSlot}

\* WeakMap.prototype.delete, WeakSet.prototype.delete
Delete(s, k) ==
    /\ entries' = [entries EXCEPT ![s] = {e \in @ : e[1] # k}]
    /\ UNCHANGED <<objs, refs, roots, held>>
    /\ s \in Accessible /\ k \in Accessible

Hold(s) ==
    /\ held' = Append(held, s)
    /\ UNCHANGED <<objs, refs, entries, roots>>
    /\ s \in Accessible

Return(keep) ==
    /\ held # <<>>
    /\ held' = SubSeq(held, 1, Len(held) - 1)
    /\ roots' = IF keep THEN roots \cup {held[Len(held)]} ELSE roots
    /\ UNCHANGED <<objs, refs, entries>>

\* The two things the implementation may do on its own.
Reclaim(s) ==
    /\ objs' = objs \ {s}
    /\ refs' = [refs EXCEPT ![s] = {}]
    /\ entries' = [entries EXCEPT ![s] = {}]
    /\ UNCHANGED <<roots, held>>
    /\ s \in objs \ Accessible

Forget(s) ==
    \E es \in SUBSET entries[s] :
       /\ entries' = [entries EXCEPT ![s] = es]
       /\ UNCHANGED <<objs, refs, roots, held>>
       /\ \A e \in entries[s] \ es : e[1] \notin StrongReach(Holders, refs)

Next ==
    \/ \E s \in Slot :
          New(s) \/ Root(s) \/ Unroot(s) \/ Hold(s) \/ Reclaim(s) \/ Forget(s)
    \/ \E s, t \in Slot : Link(s, t) \/ Unlink(s, t) \/ Delete(s, t)
    \/ \E s, k \in Slot, v \in Slot \cup {NoSlot} : Put(s, k, v)
    \/ \E keep \in BOOLEAN : Return(keep)

Spec == Init /\ [][Next]_vars
=============================================================================
