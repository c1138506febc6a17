--------------------------- MODULE PromiseProofs ---------------------------
(***************************************************************************)
(* The theorems about PromiseJobs.  First the lemmas: what the operations  *)
(* of PromiseCore do to a heap of promises and jobs, the types they keep,  *)
(* where they move what is owed to whom, and which reactions are           *)
(* outstanding afterwards (V is the set of values).  JobsInv is inductive; *)
(* the properties the runs check follow from it and from what its proof    *)
(* says of a step.                                                         *)
(***************************************************************************)
EXTENDS PromiseJobs, StackLemmas

\* A reaction that waits is an element of the list of a promise.
LEMMA WaitsFacts ==
    ASSUME NEW h
    PROVE  /\ \A q \in DOMAIN h.promises :
                \A i \in DOMAIN h.promises[q].reactions : <<q, i>> \in Waits(h)
           /\ \A w \in Waits(h) :
                /\ w = <<w[1], w[2]>> /\ w[1] \in DOMAIN h.promises
                /\ w[2] \in DOMAIN h.promises[w[1]].reactions
BY DEF Waits

\* The parts of a heap.
LEMMA HeapFacts ==
    ASSUME NEW V, NEW h \in Heaps(V)
    PROVE  /\ h.promises \in Seq(PromiseRecords(V)) /\ h.jobs \in Seq(Jobs(V))
           /\ h = [promises |-> h.promises, jobs |-> h.jobs]
           /\ Len(h.promises) \in Nat /\ DOMAIN h.promises = 1..Len(h.promises)
           /\ Len(h.jobs) \in Nat /\ DOMAIN h.jobs = 1..Len(h.jobs)
           /\ \A p \in DOMAIN h.promises :
                /\ h.promises[p] \in PromiseRecords(V)
                /\ h.promises[p].state \in States /\ h.promises[p].value \in V
                /\ h.promises[p].reactions \in Seq(Reactions)
           /\ \A k \in DOMAIN h.jobs : h.jobs[k] \in Jobs(V)
           /\ \A w \in Waits(h) : ReactionAt(h, w) \in Reactions
<1>1. /\ h.promises \in Seq(PromiseRecords(V)) /\ h.jobs \in Seq(Jobs(V))
      /\ h = [promises |-> h.promises, jobs |-> h.jobs]
  BY DEF Heaps
<1>2. /\ Len(h.promises) \in Nat /\ DOMAIN h.promises = 1..Len(h.promises)
      /\ Len(h.jobs) \in Nat /\ DOMAIN h.jobs = 1..Len(h.jobs)
      /\ \A p \in DOMAIN h.promises : h.promises[p] \in PromiseRecords(V)
      /\ \A k \in DOMAIN h.jobs : h.jobs[k] \in Jobs(V)
  BY <1>1
<1>3. \A p \in DOMAIN h.promises :
         /\ h.promises[p].state \in States /\ h.promises[p].value \in V
         /\ h.promises[p].reactions \in Seq(Reactions)
  BY <1>2 DEF PromiseRecords
<1>4. \A w \in Waits(h) : ReactionAt(h, w) \in Reactions
  <2> SUFFICES ASSUME NEW w \in Waits(h) PROVE ReactionAt(h, w) \in Reactions
    OBVIOUS
  <2>1. /\ w[1] \in DOMAIN h.promises
        /\ w[2] \in DOMAIN h.promises[w[1]].reactions
    BY WaitsFacts
  <2> QED BY <1>3, <2>1 DEF ReactionAt
<1> QED BY <1>1, <1>2, <1>3, <1>4

\* A job that answers reaction r with this outcome.
Reacts(job, r, state, v) ==
    /\ job.kind = "reaction" /\ job.reaction = r /\ job.argument = v
    /\ state = IF job.fulfilled THEN "Fulfilled" ELSE "Rejected"

\* promise_settle of a pending promise: its reactions become the last jobs.
SettleEffect(V, h, p, s, v, g) ==
    LET recs == h.promises[p].reactions
        n == Len(h.jobs)
    IN  /\ g \in Heaps(V)
        /\ DOMAIN g.promises = DOMAIN h.promises
        /\ Len(g.promises) = Len(h.promises)
        /\ g.promises[p] = [state |-> s, value |-> v, reactions |-> <<>>]
        /\ \A q \in DOMAIN h.promises \ {p} : g.promises[q] = h.promises[q]
        /\ recs \in Seq(Reactions) /\ n \in Nat /\ Len(recs) \in Nat
        /\ DOMAIN recs = 1..Len(recs)
        /\ Len(g.jobs) = n + Len(recs)
        /\ DOMAIN g.jobs = 1..(n + Len(recs)) /\ DOMAIN h.jobs = 1..n
        /\ \A k \in 1..n : g.jobs[k] = h.jobs[k]
        /\ \A i \in 1..Len(recs) : Reacts(g.jobs[n + i], recs[i], s, v)

LEMMA SettleFacts ==
    ASSUME NEW V, NEW h \in Heaps(V), NEW p \in DOMAIN h.promises, NEW v \in V,
           NEW s \in {"Fulfilled", "Rejected"}, Pending(h, p),
           NEW g, g = Settle(h, p, s, v)
    PROVE  SettleEffect(V, h, p, s, v, g)
<1> DEFINE recs == h.promises[p].reactions
           n == Len(h.jobs)
           full == (s = "Fulfilled")
           new == [i \in DOMAIN recs |-> ReactionJob(recs[i], v, full)]
           rec == [state |-> s, value |-> v, reactions |-> <<>>]
<1>1. /\ recs \in Seq(Reactions) /\ n \in Nat /\ h.jobs \in Seq(Jobs(V))
      /\ h.promises \in Seq(PromiseRecords(V))
  BY HeapFacts
<1>2. g = [promises |-> [h.promises EXCEPT ![p] = rec], jobs |-> h.jobs \o new]
  BY DEF Settle, Pending
<1>3. rec \in PromiseRecords(V)
  BY DEF PromiseRecords, States
<1>4. new \in Seq(Jobs(V)) /\ Len(new) = Len(recs)
      /\ \A i \in 1..Len(recs) : new[i] = ReactionJob(recs[i], v, full)
  <2>1. DOMAIN recs = 1..Len(recs) /\ Len(recs) \in Nat
    BY <1>1
  <2>2. \A i \in 1..Len(recs) : /\ recs[i] \in Reactions
                                /\ ReactionJob(recs[i], v, full) \in Jobs(V)
    <3>1. full \in BOOLEAN
      BY DEF full
    <3> HIDE DEF full
    <3> QED BY <1>1, <2>1, <3>1 DEF ReactionJob, Jobs
  <2> QED BY <2>1, <2>2
<1>11. full \in BOOLEAN /\ s = IF full THEN "Fulfilled" ELSE "Rejected"
  BY DEF full
<1> HIDE DEF recs, n, new, rec, full
<1>5. [h.promises EXCEPT ![p] = rec] \in Seq(PromiseRecords(V))
  BY <1>1, <1>3
<1>6. h.jobs \o new \in Seq(Jobs(V))
  BY <1>1, <1>4
<1>7. g \in Heaps(V)
  BY <1>2, <1>5, <1>6 DEF Heaps
<1>8. /\ Len(g.jobs) = n + Len(recs)
      /\ \A k \in 1..n : g.jobs[k] = h.jobs[k]
      /\ \A i \in 1..Len(recs) : g.jobs[n + i] = new[i]
  <2>1. g.jobs = h.jobs \o new
    BY <1>2
  <2>2. /\ Len(h.jobs \o new) = Len(h.jobs) + Len(new)
        /\ \A i \in 1..Len(h.jobs) : (h.jobs \o new)[i] = h.jobs[i]
        /\ \A i \in 1..Len(new) : (h.jobs \o new)[Len(h.jobs) + i] = new[i]
    <3>1. h.jobs \in Seq(Jobs(V)) /\ new \in Seq(Jobs(V))
      BY <1>1, <1>4
    <3> QED BY <3>1, JoinFacts
  <2> QED BY <1>4, <2>1, <2>2 DEF n
<1>9. /\ DOMAIN g.promises = DOMAIN h.promises
      /\ Len(g.promises) = Len(h.promises)
      /\ g.promises[p] = rec
      /\ \A q \in DOMAIN h.promises \ {p} : g.promises[q] = h.promises[q]
  BY <1>1, <1>2
<1>10. \A i \in 1..Len(recs) : Reacts(new[i], recs[i], s, v)
  <2> TAKE i \in 1..Len(recs)
  <2>0. new[i] = ReactionJob(recs[i], v, full)
    BY <1>4
  <2>1. /\ new[i].kind = "reaction" /\ new[i].reaction = recs[i]
        /\ new[i].argument = v
    BY <2>0 DEF ReactionJob
  <2>2. new[i].fulfilled = full
    BY <2>0 DEF ReactionJob
  <2> QED BY <1>11, <2>1, <2>2 DEF Reacts
<1>12. DOMAIN g.jobs = 1..Len(g.jobs) /\ DOMAIN h.jobs = 1..n
  BY <1>7, HeapFacts DEF n
<1>13. Len(recs) \in Nat /\ DOMAIN recs = 1..Len(recs)
  BY <1>1
<1>14. \A i \in 1..Len(recs) : Reacts(g.jobs[n + i], recs[i], s, v)
  BY <1>8, <1>10
<1> QED BY <1>1, <1>7, <1>8, <1>9, <1>12, <1>13, <1>14
        DEF SettleEffect, recs, n, rec
\* ... nothing else stops waiting, and all reactions stay outstanding.
LEMMA SettleReactions ==
    ASSUME NEW V, NEW h \in Heaps(V), NEW p \in DOMAIN h.promises, NEW v \in V,
           NEW s \in {"Fulfilled", "Rejected"}, Pending(h, p),
           NEW g, g = Settle(h, p, s, v)
    PROVE  /\ Waits(g) = {w \in Waits(h) : w[1] # p}
           /\ \A w \in Waits(g) : ReactionAt(g, w) = ReactionAt(h, w)
           /\ Outstanding(g) = Outstanding(h)
<1> DEFINE recs == h.promises[p].reactions
           n == Len(h.jobs)
<1>1. /\ DOMAIN g.promises = DOMAIN h.promises
      /\ g.promises[p].reactions = <<>>
      /\ \A q \in DOMAIN h.promises \ {p} : g.promises[q] = h.promises[q]
      /\ recs \in Seq(Reactions) /\ n \in Nat /\ Len(recs) \in Nat
      /\ Len(g.jobs) = n + Len(recs)
      /\ DOMAIN g.jobs = 1..(n + Len(recs)) /\ DOMAIN h.jobs = 1..n
      /\ \A k \in 1..n : g.jobs[k] = h.jobs[k]
      /\ \A i \in 1..Len(recs) :
            Reacts(g.jobs[n + i], recs[i], s, v)
  <2>1. SettleEffect(V, h, p, s, v, g)
    BY SettleFacts
  <2> QED BY ONLY <2>1 DEF SettleEffect
<1>2. ASSUME NEW w PROVE w \in Waits(g) <=> w \in Waits(h) /\ w[1] # p
  <2>1. ASSUME w \in Waits(g) PROVE w \in Waits(h) /\ w[1] # p
    <3>1. /\ w = <<w[1], w[2]>> /\ w[1] \in DOMAIN g.promises
          /\ w[2] \in DOMAIN g.promises[w[1]].reactions
      BY <2>1, WaitsFacts
    <3>2. w[1] # p
      BY <1>1, <3>1
    <3>3. w[2] \in DOMAIN h.promises[w[1]].reactions /\ w[1] \in DOMAIN h.promises
      BY <1>1, <3>1, <3>2
    <3>4. <<w[1], w[2]>> \in Waits(h)
      BY <3>3, WaitsFacts
    <3> QED BY <3>1, <3>2, <3>4
  <2>2. ASSUME w \in Waits(h), w[1] # p PROVE w \in Waits(g)
    <3>1. /\ w = <<w[1], w[2]>> /\ w[1] \in DOMAIN h.promises
          /\ w[2] \in DOMAIN h.promises[w[1]].reactions
      BY <2>2, WaitsFacts
    <3>3. w[2] \in DOMAIN g.promises[w[1]].reactions /\ w[1] \in DOMAIN g.promises
      BY <1>1, <2>2, <3>1
    <3>4. <<w[1], w[2]>> \in Waits(g)
      BY <3>3, WaitsFacts
    <3> QED BY <3>1, <3>4
  <2> QED BY <2>1, <2>2
<1>3. Waits(g) = {w \in Waits(h) : w[1] # p}
  BY <1>2
<1>4. \A w \in Waits(g) : ReactionAt(g, w) = ReactionAt(h, w)
  BY <1>1, <1>2, WaitsFacts DEF ReactionAt
<1>10. DOMAIN recs = 1..Len(recs)
  BY <1>1
<1>11. \A i \in DOMAIN recs : <<p, i>> \in Waits(h)
                              /\ ReactionAt(h, <<p, i>>) = recs[i]
  BY WaitsFacts DEF ReactionAt
<1>12. \A w \in Waits(h) : w[1] = p =>
          w[2] \in DOMAIN recs /\ ReactionAt(h, w) = recs[w[2]]
  BY WaitsFacts DEF ReactionAt
<1> HIDE DEF n, recs
<1>5. \A k \in 1..n : /\ k \in DOMAIN g.jobs /\ k \in DOMAIN h.jobs
                      /\ k \in Queue(g) <=> k \in Queue(h)
  BY <1>1 DEF Queue
<1>6. \A i \in 1..Len(recs) : n + i \in Queue(g) /\ g.jobs[n + i].reaction = recs[i]
  <2> TAKE i \in 1..Len(recs)
  <2>1. n + i \in DOMAIN g.jobs
    BY <1>1
  <2>2. g.jobs[n + i].kind = "reaction" /\ g.jobs[n + i].reaction = recs[i]
    BY <1>1 DEF Reacts
  <2> QED BY <2>1, <2>2 DEF Queue
<1>7. ASSUME NEW r \in Outstanding(g) PROVE r \in Outstanding(h)
  <2>1. CASE \E w \in Waits(g) : r = ReactionAt(g, w)
    BY <1>2, <1>4, <2>1 DEF Outstanding
  <2>2. CASE \E k \in Queue(g) : r = g.jobs[k].reaction
    <3>1. PICK k \in Queue(g) : r = g.jobs[k].reaction
      BY <2>2
    <3>2. CASE k \in 1..n
      <4>1. k \in Queue(h) /\ r = h.jobs[k].reaction
        BY <1>1, <1>5, <3>1, <3>2
      <4> QED BY <4>1 DEF Outstanding
    <3>3. CASE k \notin 1..n
      <4>1. k - n \in 1..Len(recs) /\ k = n + (k - n)
        BY <1>1, <3>3 DEF Queue
      <4>2. r = recs[k - n]
        BY <1>6, <3>1, <4>1
      <4>3. <<p, k - n>> \in Waits(h) /\ ReactionAt(h, <<p, k - n>>) = recs[k - n]
        BY <1>10, <1>11, <4>1
      <4> QED BY <4>2, <4>3 DEF Outstanding
    <3> QED BY <3>2, <3>3
  <2> QED BY <2>1, <2>2 DEF Outstanding
<1>8. ASSUME NEW r \in Outstanding(h) PROVE r \in Outstanding(g)
  <2>1. CASE \E w \in Waits(h) : r = ReactionAt(h, w)
    <3>1. PICK w \in Waits(h) : r = ReactionAt(h, w)
      BY <2>1
    <3>2. CASE w[1] = p
      <4>1. w[2] \in DOMAIN recs /\ r = recs[w[2]]
        BY <1>12, <3>1, <3>2
      <4>2. w[2] \in 1..Len(recs)
        BY <1>10, <4>1
      <4> QED BY <1>6, <4>1, <4>2 DEF Outstanding
    <3>3. CASE w[1] # p
      <4>1. w \in Waits(g) /\ ReactionAt(g, w) = r
        BY <1>2, <1>4, <3>1, <3>3
      <4> QED BY <4>1 DEF Outstanding
    <3> QED BY <3>2, <3>3
  <2>2. CASE \E k \in Queue(h) : r = h.jobs[k].reaction
    <3>1. PICK k \in Queue(h) : r = h.jobs[k].reaction
      BY <2>2
    <3>2. k \in 1..n
      BY <1>1, <3>1 DEF Queue
    <3>3. k \in Queue(g) /\ g.jobs[k].reaction = r
      BY <1>1, <1>5, <3>1, <3>2
    <3> QED BY <3>3 DEF Outstanding
  <2> QED BY <2>1, <2>2 DEF Outstanding
<1>9. Outstanding(g) = Outstanding(h)
  BY <1>7, <1>8
<1> QED BY <1>3, <1>4, <1>9

\* ... and the outcome is no longer owed, if an activation owed it.
LEMMA SettleOwed ==
    ASSUME NEW V, NEW h \in Heaps(V), NEW O, NEW X, Owed(h, O, X),
           NEW p \in O \cup X, NEW v \in V,
           NEW s \in {"Fulfilled", "Rejected"}, Pending(h, p),
           NEW g, g = Settle(h, p, s, v)
    PROVE  Owed(g, O \ {p}, X)
<1> DEFINE recs == h.promises[p].reactions
           n == Len(h.jobs)
           O2 == O \ {p}
<1>0. p \in DOMAIN h.promises
  BY DEF Owed
<1>1. /\ DOMAIN g.promises = DOMAIN h.promises
      /\ g.promises[p].reactions = <<>>
      /\ g.promises[p].state = s /\ g.promises[p].value = v
      /\ \A q \in DOMAIN h.promises \ {p} : g.promises[q] = h.promises[q]
      /\ recs \in Seq(Reactions) /\ n \in Nat /\ Len(recs) \in Nat
      /\ Len(g.jobs) = n + Len(recs)
      /\ DOMAIN g.jobs = 1..(n + Len(recs)) /\ DOMAIN h.jobs = 1..n
      /\ \A k \in 1..n : g.jobs[k] = h.jobs[k]
      /\ \A i \in 1..Len(recs) :
            Reacts(g.jobs[n + i], recs[i], s, v)
  <2>1. SettleEffect(V, h, p, s, v, g)
    BY <1>0, SettleFacts
  <2> QED BY <2>1 DEF SettleEffect
<1>2. /\ \A w : w \in Waits(g) <=> w \in Waits(h) /\ w[1] # p
      /\ \A w \in Waits(g) : ReactionAt(g, w) = ReactionAt(h, w)
                             /\ WaitTarget(g, w) = WaitTarget(h, w)
  BY <1>0, SettleReactions DEF WaitTarget
<1>3. \A q : IsOwed(h, O, X, q) <=> IsOwed(g, O2, X, q)
  <2>1. ~Pending(g, p)
    BY <1>1 DEF Pending
  <2>2. \A q \in DOMAIN h.promises \ {p} : Pending(g, q) <=> Pending(h, q)
    BY <1>1 DEF Pending
  <2> QED BY <1>1, <2>1, <2>2 DEF IsOwed
<1>4. WaitsFit(h, O, X) /\ QueueFits(h, O, X) /\ OneTarget(h)
      /\ Covered(h, O, X) /\ Carried(h)
  BY DEF Owed
<1>5. \A i \in 1..Len(recs) : /\ <<p, i>> \in Waits(h)
                              /\ WaitTarget(h, <<p, i>>) = recs[i].target
                              /\ ReactionAt(h, <<p, i>>) = recs[i]
  BY <1>0, <1>1, WaitsFacts DEF WaitTarget, ReactionAt
<1>14. DOMAIN recs = 1..Len(recs)
  BY <1>1
<1>15. \A w \in Waits(h) : w[1] = p => w = <<p, w[2]>> /\ w[2] \in DOMAIN recs
  BY WaitsFacts
<1> HIDE DEF n, recs
<1>6. /\ \A k \in 1..n : QueueTarget(g, k) = QueueTarget(h, k)
      /\ \A i \in 1..Len(recs) : QueueTarget(g, n + i) = WaitTarget(h, <<p, i>>)
  BY <1>1, <1>5 DEF QueueTarget, JobTarget, Reacts
<1>7. \A k \in DOMAIN g.jobs : \/ k \in 1..n
                              \/ (k - n \in 1..Len(recs) /\ k = n + (k - n))
  BY <1>1
<1>8. WaitsFit(g, O2, X)
  <2> SUFFICES ASSUME NEW w \in Waits(g)
               PROVE  /\ ReactionAt(g, w).source = w[1] /\ Pending(g, w[1])
                      /\ IsOwed(g, O2, X, WaitTarget(g, w))
                      /\ WaitTarget(g, w) # w[1]
    BY DEF WaitsFit
  <2>1. /\ w \in Waits(h) /\ w[1] # p /\ w[1] \in DOMAIN h.promises
        /\ ReactionAt(g, w) = ReactionAt(h, w)
        /\ WaitTarget(g, w) = WaitTarget(h, w)
    BY <1>2, WaitsFacts
  <2>2. /\ ReactionAt(h, w).source = w[1] /\ Pending(h, w[1])
        /\ IsOwed(h, O, X, WaitTarget(h, w)) /\ WaitTarget(h, w) # w[1]
    BY <1>4, <2>1 DEF WaitsFit
  <2>3. Pending(g, w[1])
    BY <1>1, <2>1, <2>2 DEF Pending
  <2> QED BY <1>3, <2>1, <2>2, <2>3
<1>9. QueueFits(g, O2, X)
  <2> SUFFICES ASSUME NEW k \in DOMAIN g.jobs
               PROVE  IsOwed(g, O2, X, QueueTarget(g, k))
    BY DEF QueueFits
  <2>1. CASE k \in 1..n
    <3>1. k \in DOMAIN h.jobs /\ QueueTarget(g, k) = QueueTarget(h, k)
      BY <1>1, <1>6, <2>1
    <3> QED BY <1>3, <1>4, <3>1 DEF QueueFits
  <2>2. CASE k \notin 1..n
    <3>1. <<p, k - n>> \in Waits(h)
          /\ QueueTarget(g, k) = WaitTarget(h, <<p, k - n>>)
      BY <1>5, <1>6, <1>7, <2>2
    <3>2. IsOwed(h, O, X, WaitTarget(h, <<p, k - n>>))
      BY <1>4, <3>1 DEF WaitsFit
    <3> QED BY <1>3, <3>1, <3>2
  <2> QED BY <2>1, <2>2
<1>10. OneTarget(g)
  <2>1. \A u, w \in Waits(g) : WaitTarget(g, u) = WaitTarget(g, w) => u = w
    BY <1>2, <1>4 DEF OneTarget
  <2>2. ASSUME NEW k \in DOMAIN g.jobs, NEW m \in DOMAIN g.jobs,
               QueueTarget(g, k) = QueueTarget(g, m)
        PROVE  k = m
    <3>1. CASE k \in 1..n /\ m \in 1..n
      BY <1>1, <1>4, <1>6, <2>2, <3>1 DEF OneTarget
    <3>2. CASE k \in 1..n /\ m \notin 1..n
      <4>1. <<p, m - n>> \in Waits(h) /\ k \in DOMAIN h.jobs
            /\ WaitTarget(h, <<p, m - n>>) = QueueTarget(h, k)
        BY <1>1, <1>5, <1>6, <1>7, <2>2, <3>2
      <4> QED BY <1>4, <4>1 DEF OneTarget
    <3>3. CASE k \notin 1..n /\ m \in 1..n
      <4>1. <<p, k - n>> \in Waits(h) /\ m \in DOMAIN h.jobs
            /\ WaitTarget(h, <<p, k - n>>) = QueueTarget(h, m)
        BY <1>1, <1>5, <1>6, <1>7, <2>2, <3>3
      <4> QED BY <1>4, <4>1 DEF OneTarget
    <3>4. CASE k \notin 1..n /\ m \notin 1..n
      <4>1. <<p, k - n>> \in Waits(h) /\ <<p, m - n>> \in Waits(h)
            /\ WaitTarget(h, <<p, k - n>>) = WaitTarget(h, <<p, m - n>>)
        BY <1>5, <1>6, <1>7, <2>2, <3>4
      <4>2. <<p, k - n>> = <<p, m - n>>
        BY <1>4, <4>1 DEF OneTarget
      <4> QED BY <1>1, <1>7, <3>4, <4>2
    <3> QED BY <3>1, <3>2, <3>3, <3>4
  <2>3. ASSUME NEW w \in Waits(g), NEW k \in DOMAIN g.jobs
        PROVE  WaitTarget(g, w) # QueueTarget(g, k)
    <3>1. CASE k \in 1..n
      BY <1>1, <1>2, <1>4, <1>6, <3>1 DEF OneTarget
    <3>2. CASE k \notin 1..n
      <4>1. /\ <<p, k - n>> \in Waits(h) /\ w # <<p, k - n>>
            /\ QueueTarget(g, k) = WaitTarget(h, <<p, k - n>>)
        BY <1>2, <1>5, <1>6, <1>7, <3>2
      <4> QED BY <1>2, <1>4, <4>1 DEF OneTarget
    <3> QED BY <3>1, <3>2
  <2> QED BY <2>1, <2>2, <2>3 DEF OneTarget
<1>11. Covered(g, O2, X)
  <2> SUFFICES ASSUME NEW q \in DOMAIN g.promises, IsOwed(g, O2, X, q)
               PROVE  \/ \E w \in Waits(g) : WaitTarget(g, w) = q
                      \/ \E k \in DOMAIN g.jobs : QueueTarget(g, k) = q
    BY DEF Covered
  <2>1. \/ \E w \in Waits(h) : WaitTarget(h, w) = q
        \/ \E k \in DOMAIN h.jobs : QueueTarget(h, k) = q
    BY <1>1, <1>3, <1>4 DEF Covered
  <2>2. CASE \E k \in DOMAIN h.jobs : QueueTarget(h, k) = q
    BY <1>1, <1>6, <2>2
  <2>3. CASE \E w \in Waits(h) : WaitTarget(h, w) = q
    <3>1. PICK w \in Waits(h) : WaitTarget(h, w) = q
      BY <2>3
    <3>2. CASE w[1] # p
      BY <1>2, <3>1, <3>2
    <3>3. CASE w[1] = p
      <4>1. w = <<p, w[2]>> /\ w[2] \in DOMAIN recs
        BY <1>15, <3>1, <3>3
      <4>2. w[2] \in 1..Len(recs) /\ n + w[2] \in DOMAIN g.jobs
        BY <1>1, <1>14, <4>1
      <4> QED BY <1>6, <3>1, <4>1, <4>2
    <3> QED BY <3>2, <3>3
  <2> QED BY <2>1, <2>2, <2>3
<1>12. Carried(g)
  <2> SUFFICES ASSUME NEW k \in Queue(g)
               PROVE  LET job == g.jobs[k]
                          source == g.promises[job.reaction.source]
                      IN  /\ job.reaction.source \in DOMAIN g.promises
                          /\ source.state = IF job.fulfilled THEN "Fulfilled"
                                            ELSE "Rejected"
                          /\ source.value = job.argument
    BY DEF Carried
  <2>1. k \in DOMAIN g.jobs
    BY DEF Queue
  <2>2. CASE k \in 1..n
    <3>1. k \in Queue(h) /\ g.jobs[k] = h.jobs[k]
      BY <1>1, <2>2 DEF Queue
    <3>2. /\ h.jobs[k].reaction.source \in DOMAIN h.promises
          /\ ~Pending(h, h.jobs[k].reaction.source)
      BY <1>4, <3>1 DEF Carried, Pending
    <3>3. h.jobs[k].reaction.source # p
      BY <3>2
    <3>4. PICK src : src = h.jobs[k].reaction.source
      OBVIOUS
    <3>5. /\ h.promises[src].state = IF h.jobs[k].fulfilled THEN "Fulfilled"
                                   ELSE "Rejected"
          /\ h.promises[src].value = h.jobs[k].argument
      BY <1>4, <3>1, <3>4 DEF Carried
    <3>6. src \in DOMAIN g.promises /\ g.promises[src] = h.promises[src]
      BY <1>1, <3>2, <3>3, <3>4
    <3> QED BY <3>1, <3>4, <3>5, <3>6
  <2>3. CASE k \notin 1..n
    <3>1. k - n \in 1..Len(recs) /\ k = n + (k - n)
      BY <1>7, <2>1, <2>3
    <3>2. Reacts(g.jobs[k], recs[k - n], s, v)
      BY <1>1, <3>1
    <3>3. recs[k - n].source = p
      BY <1>4, <1>5, <3>1 DEF WaitsFit
    <3> QED BY <1>0, <1>1, <3>2, <3>3 DEF Reacts
  <2> QED BY <2>2, <2>3
<1>13. /\ O2 \cup X \subseteq DOMAIN g.promises /\ O2 \cap X = {}
       /\ \A q \in O2 : Pending(g, q)
  BY <1>1 DEF Owed, Pending
<1> QED BY <1>8, <1>9, <1>10, <1>11, <1>12, <1>13 DEF Owed
-----------------------------------------------------------------------------
(* What an operation may do to the promises there are, other than settling  *)
(* those of T; and a heap that is well formed.                              *)

Keeps(h, g, T) ==
    /\ DOMAIN h.promises \subseteq DOMAIN g.promises
    /\ \A p \in DOMAIN h.promises :
          IF Pending(h, p) THEN p \notin T => Pending(g, p)
          ELSE g.promises[p] = h.promises[p]

WellFormed(V, h, O, X) == h \in Heaps(V) /\ Owed(h, O, X)

LEMMA KeepsTransitive ==
    ASSUME NEW f, NEW g, NEW h, NEW S, NEW T, NEW U,
           Keeps(f, g, S), Keeps(g, h, T),
           (S \cup T) \cap DOMAIN f.promises \subseteq U
    PROVE  Keeps(f, h, U)
<1> SUFFICES ASSUME NEW p \in DOMAIN f.promises
             PROVE  /\ p \in DOMAIN h.promises
                    /\ IF Pending(f, p) THEN p \notin U => Pending(h, p)
                       ELSE h.promises[p] = f.promises[p]
  BY DEF Keeps
<1>1. p \in DOMAIN g.promises /\ p \in DOMAIN h.promises
  BY DEF Keeps
<1>2. CASE Pending(f, p)
  <2>1. p \notin U => Pending(g, p)
    BY <1>2 DEF Keeps
  <2>2. p \notin U => Pending(h, p)
    BY <1>1, <2>1 DEF Keeps
  <2> QED BY <1>1, <1>2, <2>2
<1>3. CASE ~Pending(f, p)
  <2>1. g.promises[p] = f.promises[p]
    BY <1>3 DEF Keeps
  <2>2. ~Pending(g, p)
    BY <1>3, <2>1 DEF Pending
  <2>3. h.promises[p] = g.promises[p]
    BY <1>1, <2>2 DEF Keeps
  <2> QED BY <1>1, <1>3, <2>1, <2>3
<1> QED BY <1>2, <1>3

LEMMA KeepsSame ==
    ASSUME NEW h, NEW g, NEW T, g.promises = h.promises
    PROVE  Keeps(h, g, T)
BY DEF Keeps, Pending

\* promise_settle, by somebody who owes it or may do it at any time.
Settled(V, h, g, O, X, p, s, v) ==
    /\ WellFormed(V, g, O \ {p}, X)
    /\ Keeps(h, g, {p})
    /\ DOMAIN g.promises = DOMAIN h.promises
    /\ Outstanding(g) = Outstanding(h)
    /\ Pending(h, p) => g.promises[p].state = s /\ g.promises[p].value = v
    /\ ~Pending(h, p) => g = h

LEMMA SettleStep ==
    ASSUME NEW V, NEW h, NEW O, NEW X, WellFormed(V, h, O, X),
           NEW p \in O \cup X, NEW v \in V, NEW s \in {"Fulfilled", "Rejected"}
    PROVE  Settled(V, h, Settle(h, p, s, v), O, X, p, s, v)
<1>1. h \in Heaps(V) /\ Owed(h, O, X) /\ p \in DOMAIN h.promises
  BY DEF WellFormed, Owed
<1>2. CASE Pending(h, p)
  <2>1. PICK g : g = Settle(h, p, s, v)
    OBVIOUS
  <2>2. SettleEffect(V, h, p, s, v, g)
    BY <1>1, <1>2, <2>1, SettleFacts
  <2>3. /\ g \in Heaps(V) /\ DOMAIN g.promises = DOMAIN h.promises
        /\ g.promises[p] = [state |-> s, value |-> v, reactions |-> <<>>]
        /\ \A q \in DOMAIN h.promises \ {p} : g.promises[q] = h.promises[q]
    BY ONLY <2>2 DEF SettleEffect
  <2>4. Outstanding(g) = Outstanding(h)
    BY <1>1, <1>2, <2>1, SettleReactions
  <2>5. Owed(g, O \ {p}, X)
    BY <1>1, <1>2, <2>1, SettleOwed
  <2>6. Keeps(h, g, {p})
    BY <1>2, <2>3 DEF Keeps, Pending
  <2>7. g.promises[p].state = s /\ g.promises[p].value = v
    BY <2>3
  <2>8. Settled(V, h, g, O, X, p, s, v)
    BY <1>2, <2>3, <2>4, <2>5, <2>6, <2>7 DEF Settled, WellFormed
  <2> QED BY <2>1, <2>8
<1>3. CASE ~Pending(h, p)
  <2>1. Settle(h, p, s, v) = h
    BY <1>3 DEF Settle, Pending
  <2>2. O \ {p} = O
    BY <1>1, <1>3 DEF Owed
  <2>3. Keeps(h, h, {p})
    BY KeepsSame
  <2>4. Settled(V, h, h, O, X, p, s, v)
    BY <1>1, <1>3, <2>2, <2>3 DEF Settled, WellFormed
  <2> QED BY <2>1, <2>4
<1> QED BY <1>2, <1>3
-----------------------------------------------------------------------------
(* Handing what an activation owes over to a reaction or a job.            *)

\* A reaction of a pending promise waits with the others.
WaitEffect(h, p, r, g) ==
    LET w == <<p, Len(h.promises[p].reactions) + 1>>
    IN  /\ DOMAIN g.promises = DOMAIN h.promises
        /\ g.jobs = h.jobs
        /\ \A q \in DOMAIN h.promises : /\ g.promises[q].state = h.promises[q].state
                                        /\ g.promises[q].value = h.promises[q].value
        /\ \A q \in DOMAIN h.promises \ {p} : g.promises[q] = h.promises[q]
        /\ Waits(g) = Waits(h) \cup {w} /\ w \notin Waits(h) /\ w[1] = p
        /\ \A u \in Waits(h) : ReactionAt(g, u) = ReactionAt(h, u)
        /\ ReactionAt(g, w) = r

LEMMA WaitFacts ==
    ASSUME NEW V, NEW h \in Heaps(V), NEW p \in DOMAIN h.promises,
           NEW r \in Reactions, NEW g,
           g = [h EXCEPT !.promises[p].reactions = Append(@, r)]
    PROVE  g \in Heaps(V) /\ WaitEffect(h, p, r, g)
<1> DEFINE recs == h.promises[p].reactions
           m == Len(recs)
           more == Append(recs, r)
           w == <<p, m + 1>>
           rec == [h.promises[p] EXCEPT !.reactions = more]
<1>1. /\ h.promises \in Seq(PromiseRecords(V)) /\ h.promises[p] \in PromiseRecords(V)
      /\ h.jobs \in Seq(Jobs(V)) /\ recs \in Seq(Reactions)
      /\ h = [promises |-> h.promises, jobs |-> h.jobs]
  BY HeapFacts
<1>2. /\ more \in Seq(Reactions) /\ Len(more) = m + 1 /\ m \in Nat
      /\ DOMAIN more = 1..(m + 1) /\ DOMAIN recs = 1..m
      /\ more[m + 1] = r /\ \A i \in 1..m : more[i] = recs[i]
  BY <1>1
<1>3. /\ rec \in PromiseRecords(V) /\ rec.reactions = more
      /\ rec.state = h.promises[p].state /\ rec.value = h.promises[p].value
  BY <1>1, <1>2 DEF PromiseRecords
<1>4. g = [promises |-> [h.promises EXCEPT ![p] = rec], jobs |-> h.jobs]
  BY <1>1
<1> HIDE DEF rec, more, m, recs
<1>5. /\ g.promises \in Seq(PromiseRecords(V)) /\ g.jobs = h.jobs
      /\ DOMAIN g.promises = DOMAIN h.promises /\ g.promises[p] = rec
      /\ \A q \in DOMAIN h.promises \ {p} : g.promises[q] = h.promises[q]
  <2>1. g.promises = [h.promises EXCEPT ![p] = rec] /\ g.jobs = h.jobs
    BY <1>4
  <2>2. h.promises \in Seq(PromiseRecords(V)) /\ rec \in PromiseRecords(V)
    BY <1>1, <1>3
  <2>3. [h.promises EXCEPT ![p] = rec] \in Seq(PromiseRecords(V))
    BY <2>2
  <2>4. /\ DOMAIN g.promises = DOMAIN h.promises /\ g.promises[p] = rec
        /\ \A q \in DOMAIN h.promises \ {p} : g.promises[q] = h.promises[q]
    BY <2>1, <2>2
  <2> QED BY <2>1, <2>3, <2>4
<1>6. g \in Heaps(V)
  BY <1>1, <1>4, <1>5 DEF Heaps
<1>7. ASSUME NEW u PROVE u \in Waits(g) <=> u \in Waits(h) \cup {w}
  <2>1. ASSUME u \in Waits(g) PROVE u \in Waits(h) \cup {w}
    <3>1. /\ u = <<u[1], u[2]>> /\ u[1] \in DOMAIN g.promises
          /\ u[2] \in DOMAIN g.promises[u[1]].reactions
      BY <2>1, WaitsFacts
    <3>2. CASE u[1] # p
      <4>1. u[1] \in DOMAIN h.promises /\ u[2] \in DOMAIN h.promises[u[1]].reactions
        BY <1>5, <3>1, <3>2
      <4>2. <<u[1], u[2]>> \in Waits(h)
        BY <4>1, WaitsFacts
      <4> QED BY <3>1, <4>2
    <3>3. CASE u[1] = p
      <4>1. u[2] \in 1..(m + 1)
        BY <1>2, <1>3, <1>5, <3>1, <3>3
      <4>2. CASE u[2] = m + 1
        BY <3>1, <3>3, <4>2
      <4>3. CASE u[2] # m + 1
        <5>1. u[2] \in DOMAIN recs
          BY <1>2, <4>1, <4>3
        <5>2. <<p, u[2]>> \in Waits(h)
          BY <5>1, WaitsFacts DEF recs
        <5> QED BY <3>1, <3>3, <5>2
      <4> QED BY <4>2, <4>3
    <3> QED BY <3>2, <3>3
  <2>2. ASSUME u \in Waits(h) PROVE u \in Waits(g)
    <3>1. /\ u = <<u[1], u[2]>> /\ u[1] \in DOMAIN h.promises
          /\ u[2] \in DOMAIN h.promises[u[1]].reactions
      BY <2>2, WaitsFacts
    <3>2. u[2] \in DOMAIN g.promises[u[1]].reactions
      <4>1. CASE u[1] # p
        BY <1>5, <3>1, <4>1
      <4>2. CASE u[1] = p
        <5>1. u[2] \in DOMAIN recs
          BY <3>1, <4>2 DEF recs
        <5>2. u[2] \in DOMAIN more
          BY <1>2, <5>1
        <5> QED BY <1>3, <1>5, <4>2, <5>2
      <4> QED BY <4>1, <4>2
    <3>3. <<u[1], u[2]>> \in Waits(g)
      BY <1>5, <3>1, <3>2, WaitsFacts
    <3> QED BY <3>1, <3>3
  <2>3. w \in Waits(g)
    <3>1. g.promises[p].reactions = more
      BY <1>3, <1>5
    <3>2. m + 1 \in DOMAIN more
      BY <1>2
    <3> QED BY <1>5, <3>1, <3>2, WaitsFacts
  <2> QED BY <2>1, <2>2, <2>3
<1>8. w \notin Waits(h)
  <2> SUFFICES ASSUME w \in Waits(h) PROVE FALSE
    OBVIOUS
  <2>1. m + 1 \in DOMAIN recs
    BY WaitsFacts DEF recs
  <2> QED BY <1>2, <2>1
<1>9. \A u \in Waits(h) : ReactionAt(g, u) = ReactionAt(h, u)
  <2> SUFFICES ASSUME NEW u \in Waits(h)
               PROVE  g.promises[u[1]].reactions[u[2]]
                        = h.promises[u[1]].reactions[u[2]]
    BY DEF ReactionAt
  <2>1. u[1] \in DOMAIN h.promises /\ u[2] \in DOMAIN h.promises[u[1]].reactions
    BY WaitsFacts
  <2>2. CASE u[1] # p
    BY <1>5, <2>1, <2>2
  <2>3. CASE u[1] = p
    <3>1. u[2] \in DOMAIN recs
      BY <2>1, <2>3 DEF recs
    <3>2. more[u[2]] = recs[u[2]]
      BY <1>2, <3>1
    <3> QED BY <1>3, <1>5, <2>3, <3>2 DEF recs
  <2> QED BY <2>2, <2>3
<1>10. ReactionAt(g, w) = r
  BY <1>2, <1>3, <1>5 DEF ReactionAt
<1>11. w[1] = p /\ Waits(g) = Waits(h) \cup {w}
  BY <1>7
<1>12. \A q \in DOMAIN h.promises : /\ g.promises[q].state = h.promises[q].state
                                    /\ g.promises[q].value = h.promises[q].value
  BY <1>3, <1>5
<1> QED BY <1>5, <1>6, <1>8, <1>9, <1>10, <1>11, <1>12 DEF WaitEffect, w, m, recs

\* What an activation owes t is now owed by the heap, with more reactions R.
Handed(V, h, g, O, X, t, R) ==
    /\ WellFormed(V, g, O \ {t}, X)
    /\ Keeps(h, g, {})
    /\ DOMAIN g.promises = DOMAIN h.promises
    /\ Outstanding(g) = Outstanding(h) \cup R

LEMMA WaitStep ==
    ASSUME NEW V, NEW h, NEW O, NEW X, WellFormed(V, h, O, X),
           NEW p \in DOMAIN h.promises, Pending(h, p),
           NEW r \in Reactions, r.source = p, r.target \in O, r.target # p,
           NEW g, g = [h EXCEPT !.promises[p].reactions = Append(@, r)]
    PROVE  Handed(V, h, g, O, X, r.target, {r})
<1> DEFINE w == <<p, Len(h.promises[p].reactions) + 1>>
           t == r.target
           O2 == O \ {t}
<1>0. h \in Heaps(V) /\ Owed(h, O, X)
  BY DEF WellFormed
<1>1. g \in Heaps(V) /\ WaitEffect(h, p, r, g)
  BY <1>0, WaitFacts
<1>2. /\ DOMAIN g.promises = DOMAIN h.promises
      /\ g.jobs = h.jobs
      /\ \A q \in DOMAIN h.promises : /\ g.promises[q].state = h.promises[q].state
                                      /\ g.promises[q].value = h.promises[q].value
      /\ \A q \in DOMAIN h.promises \ {p} : g.promises[q] = h.promises[q]
      /\ Waits(g) = Waits(h) \cup {w} /\ w \notin Waits(h) /\ w[1] = p
      /\ \A u \in Waits(h) : ReactionAt(g, u) = ReactionAt(h, u)
      /\ ReactionAt(g, w) = r
  BY ONLY <1>1 DEF WaitEffect
<1>3. /\ \A q \in DOMAIN h.promises : Pending(g, q) <=> Pending(h, q)
      /\ \A u \in Waits(h) : WaitTarget(g, u) = WaitTarget(h, u)
      /\ WaitTarget(g, w) = t
      /\ \A k \in DOMAIN h.jobs : QueueTarget(g, k) = QueueTarget(h, k)
  BY <1>2 DEF Pending, WaitTarget, QueueTarget
<1>4. /\ WaitsFit(h, O, X) /\ QueueFits(h, O, X) /\ OneTarget(h)
      /\ Covered(h, O, X) /\ Carried(h)
      /\ O \cup X \subseteq DOMAIN h.promises /\ O \cap X = {}
      /\ \A q \in O : Pending(h, q)
  BY <1>0 DEF Owed
<1>5. /\ \A q : IsOwed(h, O, X, q) => IsOwed(g, O2, X, q)
      /\ \A q : IsOwed(g, O2, X, q) => IsOwed(h, O, X, q) \/ q = t
      /\ IsOwed(g, O2, X, t) /\ ~IsOwed(h, O, X, t)
  BY <1>2, <1>3, <1>4 DEF IsOwed
<1>6. /\ \A u \in Waits(h) : WaitTarget(h, u) # t
      /\ \A k \in DOMAIN h.jobs : QueueTarget(h, k) # t
  BY <1>4, <1>5 DEF WaitsFit, QueueFits
<1>7. \A u \in Waits(h) : u[1] \in DOMAIN h.promises
  BY WaitsFacts
<1> HIDE DEF w, t, O2
<1>8. WaitsFit(g, O2, X)
  <2> SUFFICES ASSUME NEW u \in Waits(g)
               PROVE  /\ ReactionAt(g, u).source = u[1] /\ Pending(g, u[1])
                      /\ IsOwed(g, O2, X, WaitTarget(g, u))
                      /\ WaitTarget(g, u) # u[1]
    BY DEF WaitsFit
  <2>1. CASE u = w
    BY <1>2, <1>3, <1>5, <2>1 DEF t
  <2>2. CASE u \in Waits(h)
    BY <1>2, <1>3, <1>4, <1>5, <1>7, <2>2 DEF WaitsFit
  <2> QED BY <1>2, <2>1, <2>2
<1>9. QueueFits(g, O2, X)
  BY <1>2, <1>3, <1>4, <1>5 DEF QueueFits
<1>10. OneTarget(g)
  <2>1. \A u, x \in Waits(g) : WaitTarget(g, u) = WaitTarget(g, x) => u = x
    BY <1>2, <1>3, <1>4, <1>6 DEF OneTarget
  <2>2. ASSUME NEW k \in DOMAIN g.jobs, NEW m \in DOMAIN g.jobs,
               QueueTarget(g, k) = QueueTarget(g, m)
        PROVE  k = m
    <3>1. /\ k \in DOMAIN h.jobs /\ m \in DOMAIN h.jobs
          /\ QueueTarget(h, k) = QueueTarget(h, m)
      BY <1>2, <1>3, <2>2
    <3> QED BY <1>4, <3>1 DEF OneTarget
  <2>3. ASSUME NEW u \in Waits(g), NEW k \in DOMAIN g.jobs
        PROVE  WaitTarget(g, u) # QueueTarget(g, k)
    <3>1. k \in DOMAIN h.jobs /\ QueueTarget(g, k) = QueueTarget(h, k)
      BY <1>2, <1>3
    <3>2. CASE u = w
      BY <1>3, <1>6, <3>1, <3>2
    <3>3. CASE u \in Waits(h)
      <4>1. WaitTarget(g, u) = WaitTarget(h, u)
        BY <1>3, <3>3
      <4>2. WaitTarget(h, u) # QueueTarget(h, k)
        BY <1>4, <3>1, <3>3 DEF OneTarget
      <4> QED BY <3>1, <4>1, <4>2
    <3> QED BY <1>2, <3>2, <3>3
  <2> QED BY <2>1, <2>2, <2>3 DEF OneTarget
<1>11. Covered(g, O2, X)
  <2> SUFFICES ASSUME NEW q \in DOMAIN g.promises, IsOwed(g, O2, X, q)
               PROVE  \/ \E u \in Waits(g) : WaitTarget(g, u) = q
                      \/ \E k \in DOMAIN g.jobs : QueueTarget(g, k) = q
    BY DEF Covered
  <2>1. CASE q = t
    BY <1>2, <1>3, <2>1
  <2>2. CASE q # t
    <3>1. \/ \E u \in Waits(h) : WaitTarget(h, u) = q
          \/ \E k \in DOMAIN h.jobs : QueueTarget(h, k) = q
      BY <1>2, <1>4, <1>5, <2>2 DEF Covered
    <3>2. CASE \E u \in Waits(h) : WaitTarget(h, u) = q
      BY <1>2, <1>3, <3>2
    <3>3. CASE \E k \in DOMAIN h.jobs : QueueTarget(h, k) = q
      BY <1>2, <1>3, <3>3
    <3> QED BY <3>1, <3>2, <3>3
  <2> QED BY <2>1, <2>2
<1>12. Carried(g)
  <2> SUFFICES ASSUME NEW k \in Queue(g), NEW job, job = g.jobs[k],
                      NEW s, s = job.reaction.source
               PROVE  /\ s \in DOMAIN g.promises
                      /\ g.promises[s].state =
                            IF job.fulfilled THEN "Fulfilled" ELSE "Rejected"
                      /\ g.promises[s].value = job.argument
    BY DEF Carried
  <2>1. k \in Queue(h) /\ job = h.jobs[k]
    BY <1>2 DEF Queue
  <2>2. /\ s \in DOMAIN h.promises
        /\ h.promises[s].state =
              IF job.fulfilled THEN "Fulfilled" ELSE "Rejected"
        /\ h.promises[s].value = job.argument
    BY <1>4, <2>1 DEF Carried
  <2> QED BY <1>2, <2>2
<1>13. Owed(g, O2, X)
  BY <1>2, <1>3, <1>4, <1>8, <1>9, <1>10, <1>11, <1>12 DEF Owed, O2
<1>14. Outstanding(g) = Outstanding(h) \cup {r}
  <2>1. Queue(g) = Queue(h)
    BY <1>2 DEF Queue
  <2>2. ASSUME NEW x
        PROVE  (\E u \in Waits(g) : x = ReactionAt(g, u))
                 <=> x = r \/ \E u \in Waits(h) : x = ReactionAt(h, u)
    BY <1>2
  <2>3. ASSUME NEW x
        PROVE  (\E k \in Queue(g) : x = g.jobs[k].reaction)
                 <=> \E k \in Queue(h) : x = h.jobs[k].reaction
    BY <1>2, <2>1
  <2>4. ASSUME NEW x PROVE x \in Outstanding(g) <=> x \in Outstanding(h) \cup {r}
    <3>1. x \in Outstanding(g) <=> \/ \E u \in Waits(g) : x = ReactionAt(g, u)
                                   \/ \E k \in Queue(g) : x = g.jobs[k].reaction
      BY DEF Outstanding
    <3>2. x \in Outstanding(h) <=> \/ \E u \in Waits(h) : x = ReactionAt(h, u)
                                   \/ \E k \in Queue(h) : x = h.jobs[k].reaction
      BY DEF Outstanding
    <3> QED BY ONLY <2>2, <2>3, <3>1, <3>2
  <2> QED BY <2>4
<1>15. Keeps(h, g, {})
  BY <1>2, <1>3 DEF Keeps
<1> QED BY <1>1, <1>2, <1>13, <1>14, <1>15 DEF WellFormed, Handed, O2, t
\* Nothing about waiting depends on the jobs.
LEMMA SamePromises ==
    ASSUME NEW h, NEW g, g.promises = h.promises
    PROVE  /\ Waits(g) = Waits(h)
           /\ \A w : /\ ReactionAt(g, w) = ReactionAt(h, w)
                     /\ WaitTarget(g, w) = WaitTarget(h, w)
           /\ \A p : Pending(g, p) <=> Pending(h, p)
           /\ \A O, X, p : IsOwed(g, O, X, p) <=> IsOwed(h, O, X, p)
BY DEF Waits, ReactionAt, WaitTarget, Pending, IsOwed

\* The job with the outcome of the promise a reaction is on, if it is one.
CarriesOutcome(h, job) ==
    job.kind = "reaction" =>
        LET source == h.promises[job.reaction.source]
        IN  /\ job.reaction.source \in DOMAIN h.promises
            /\ source.state = IF job.fulfilled THEN "Fulfilled" ELSE "Rejected"
            /\ source.value = job.argument
ReactionOf(job) == {r \in {job.reaction} : job.kind = "reaction"}

LEMMA JobStep ==
    ASSUME NEW V, NEW h, NEW O, NEW X, WellFormed(V, h, O, X),
           NEW job \in Jobs(V), JobTarget(job) \in O, CarriesOutcome(h, job),
           NEW g, g = [h EXCEPT !.jobs = Append(@, job)]
    PROVE  Handed(V, h, g, O, X, JobTarget(job), ReactionOf(job))
<1> DEFINE t == JobTarget(job)
           O2 == O \ {t}
           n == Len(h.jobs)
<1>0. h \in Heaps(V) /\ Owed(h, O, X)
  BY DEF WellFormed
<1>1. /\ h.promises \in Seq(PromiseRecords(V)) /\ h.jobs \in Seq(Jobs(V))
      /\ h = [promises |-> h.promises, jobs |-> h.jobs]
      /\ n \in Nat /\ DOMAIN h.jobs = 1..n
  BY <1>0, HeapFacts
<1>2. g.promises = h.promises /\ g.jobs = Append(h.jobs, job) /\ g \in Heaps(V)
  <2>1. g = [promises |-> h.promises, jobs |-> Append(h.jobs, job)]
    BY <1>1
  <2>2. Append(h.jobs, job) \in Seq(Jobs(V))
    BY <1>1
  <2> QED BY <1>1, <2>1, <2>2 DEF Heaps
<1>3. /\ DOMAIN g.jobs = 1..(n + 1) /\ g.jobs[n + 1] = job
      /\ \A k \in 1..n : g.jobs[k] = h.jobs[k]
  BY <1>1, <1>2
<1>4. /\ WaitsFit(h, O, X) /\ QueueFits(h, O, X) /\ OneTarget(h)
      /\ Covered(h, O, X) /\ Carried(h)
      /\ O \cup X \subseteq DOMAIN h.promises /\ O \cap X = {}
      /\ \A q \in O : Pending(h, q)
  BY <1>0 DEF Owed
<1>5. /\ Waits(g) = Waits(h)
      /\ \A w : /\ ReactionAt(g, w) = ReactionAt(h, w)
                /\ WaitTarget(g, w) = WaitTarget(h, w)
      /\ \A q : Pending(g, q) <=> Pending(h, q)
  BY <1>2, SamePromises
<1>6. /\ \A q : IsOwed(h, O, X, q) => IsOwed(g, O2, X, q)
      /\ \A q : IsOwed(g, O2, X, q) => IsOwed(h, O, X, q) \/ q = t
      /\ IsOwed(g, O2, X, t) /\ ~IsOwed(h, O, X, t)
  BY <1>2, <1>4, <1>5 DEF IsOwed
<1>7. /\ \A w \in Waits(h) : WaitTarget(h, w) # t
      /\ \A k \in DOMAIN h.jobs : QueueTarget(h, k) # t
  BY <1>4, <1>6 DEF WaitsFit, QueueFits
<1>8. /\ \A k \in 1..n : QueueTarget(g, k) = QueueTarget(h, k)
      /\ QueueTarget(g, n + 1) = t
  BY <1>3 DEF QueueTarget
<1>9. \A k \in DOMAIN g.jobs : k \in 1..n \/ k = n + 1
  BY <1>1, <1>3
<1> HIDE DEF t, n, O2
<1>10. WaitsFit(g, O2, X)
  BY <1>4, <1>5, <1>6 DEF WaitsFit
<1>11. QueueFits(g, O2, X)
  <2> SUFFICES ASSUME NEW k \in DOMAIN g.jobs
               PROVE  IsOwed(g, O2, X, QueueTarget(g, k))
    BY DEF QueueFits
  <2>1. CASE k \in 1..n
    BY <1>1, <1>4, <1>6, <1>8, <2>1 DEF QueueFits
  <2> QED BY <1>6, <1>8, <1>9, <2>1
<1>12. OneTarget(g)
  <2>1. \A v, w \in Waits(g) : WaitTarget(g, v) = WaitTarget(g, w) => v = w
    BY <1>4, <1>5 DEF OneTarget
  <2>2. ASSUME NEW k \in DOMAIN g.jobs, NEW m \in DOMAIN g.jobs,
               QueueTarget(g, k) = QueueTarget(g, m)
        PROVE  k = m
    <3>1. CASE k \in 1..n /\ m \in 1..n
      <4>1. /\ k \in DOMAIN h.jobs /\ m \in DOMAIN h.jobs
            /\ QueueTarget(h, k) = QueueTarget(h, m)
        BY <1>1, <1>8, <2>2, <3>1
      <4> QED BY <1>4, <4>1 DEF OneTarget
    <3> QED BY <1>1, <1>7, <1>8, <1>9, <2>2, <3>1
  <2>3. ASSUME NEW w \in Waits(g), NEW k \in DOMAIN g.jobs
        PROVE  WaitTarget(g, w) # QueueTarget(g, k)
    <3>1. CASE k \in 1..n
      BY <1>1, <1>4, <1>5, <1>8, <3>1 DEF OneTarget
    <3> QED BY <1>5, <1>7, <1>8, <1>9, <3>1
  <2> QED BY <2>1, <2>2, <2>3 DEF OneTarget
<1>13. Covered(g, O2, X)
  <2> SUFFICES ASSUME NEW q \in DOMAIN g.promises, IsOwed(g, O2, X, q)
               PROVE  \/ \E w \in Waits(g) : WaitTarget(g, w) = q
                      \/ \E k \in DOMAIN g.jobs : QueueTarget(g, k) = q
    BY DEF Covered
  <2>1. n + 1 \in DOMAIN g.jobs /\ \A k \in 1..n : k \in DOMAIN g.jobs
    BY <1>1, <1>3
  <2>2. CASE q = t
    BY <1>8, <2>1, <2>2
  <2>3. CASE q # t
    <3>1. \/ \E w \in Waits(h) : WaitTarget(h, w) = q
          \/ \E k \in DOMAIN h.jobs : QueueTarget(h, k) = q
      BY <1>2, <1>4, <1>6, <2>3 DEF Covered
    <3> QED BY <1>1, <1>5, <1>8, <2>1, <3>1
  <2> QED BY <2>2, <2>3
<1>14. \A k : k \in Queue(g) <=> k \in Queue(h) \/ (k = n + 1 /\ job.kind = "reaction")
  <2> SUFFICES ASSUME NEW k
               PROVE  k \in Queue(g) <=> k \in Queue(h) \/ (k = n + 1 /\ job.kind = "reaction")
    OBVIOUS
  <2>1. n + 1 \notin 1..n /\ n + 1 \in DOMAIN g.jobs
        /\ \A i \in 1..n : i \in DOMAIN g.jobs
    BY <1>1, <1>3
  <2>2. CASE k \in 1..n
    BY <1>1, <1>3, <2>1, <2>2 DEF Queue
  <2>3. CASE k \notin 1..n
    BY <1>1, <1>3, <1>9, <2>1, <2>3 DEF Queue
  <2> QED BY <2>2, <2>3
<1>15. Carried(g)
  <2> SUFFICES ASSUME NEW k \in Queue(g) PROVE CarriesOutcome(g, g.jobs[k])
    BY DEF Carried, CarriesOutcome, Queue
  <2>1. CASE k \in Queue(h)
    <3>1. g.jobs[k] = h.jobs[k]
      BY <1>1, <1>3, <2>1 DEF Queue
    <3> QED BY <1>2, <1>4, <2>1, <3>1 DEF Carried, CarriesOutcome
  <2>2. CASE k = n + 1
    BY <1>2, <1>3, <2>2 DEF CarriesOutcome
  <2> QED BY <1>14, <2>1, <2>2
<1>16. Owed(g, O2, X)
  BY <1>2, <1>4, <1>5, <1>10, <1>11, <1>12, <1>13, <1>15 DEF Owed, O2
<1>17. Outstanding(g) = Outstanding(h) \cup ReactionOf(job)
  <2>1. \A w \in Waits(g) : ReactionAt(g, w) \in Outstanding(h)
    BY <1>5 DEF Outstanding
  <2>2. \A w \in Waits(h) : ReactionAt(h, w) \in Outstanding(g)
    <3>1. \A w \in Waits(g) : ReactionAt(g, w) \in Outstanding(g)
      BY DEF Outstanding
    <3> QED BY <1>5, <3>1
  <2>3. \A k \in Queue(g) : g.jobs[k].reaction \in Outstanding(h) \cup ReactionOf(job)
    <3> SUFFICES ASSUME NEW k \in Queue(g)
                 PROVE  g.jobs[k].reaction \in Outstanding(h) \cup ReactionOf(job)
      OBVIOUS
    <3>1. CASE k \in Queue(h)
      <4>1. g.jobs[k] = h.jobs[k]
        BY <1>1, <1>3, <3>1 DEF Queue
      <4> QED BY <3>1, <4>1 DEF Outstanding
    <3>2. CASE k = n + 1 /\ job.kind = "reaction"
      BY <1>3, <3>2 DEF ReactionOf
    <3> QED BY <1>14, <3>1, <3>2
  <2>4. \A k \in Queue(h) : h.jobs[k].reaction \in Outstanding(g)
    <3> SUFFICES ASSUME NEW k \in Queue(h) PROVE h.jobs[k].reaction \in Outstanding(g)
      OBVIOUS
    <3>1. k \in Queue(g) /\ g.jobs[k] = h.jobs[k]
      BY <1>1, <1>3, <1>14 DEF Queue
    <3> QED BY <3>1 DEF Outstanding
  <2>5. ReactionOf(job) \subseteq Outstanding(g)
    BY <1>3, <1>14 DEF ReactionOf, Outstanding
  <2>6. \A x \in Outstanding(g) : x \in Outstanding(h) \cup ReactionOf(job)
    BY <2>1, <2>3 DEF Outstanding
  <2>7. \A x \in Outstanding(h) : x \in Outstanding(g)
    BY <2>2, <2>4 DEF Outstanding
  <2> QED BY <2>5, <2>6, <2>7
<1>18. Keeps(h, g, {})
  BY <1>2, KeepsSame
<1> QED BY <1>2, <1>16, <1>17, <1>18 DEF WellFormed, Handed, O2, t
\* A reaction is handed to the promise it is on.
LEMMA ReactStep ==
    ASSUME NEW V, NEW h, NEW O, NEW X, WellFormed(V, h, O, X),
           NEW r \in Reactions, r.source \in DOMAIN h.promises,
           r.target \in O, r.target # r.source
    PROVE  Handed(V, h, React(h, r.source, r), O, X, r.target, {r})
<1> DEFINE p == r.source
<1>1. CASE Pending(h, p)
  <2>1. PICK g : g = [h EXCEPT !.promises[p].reactions = Append(@, r)]
    OBVIOUS
  <2>2. Handed(V, h, g, O, X, r.target, {r})
    BY <1>1, <2>1, WaitStep
  <2>3. React(h, p, r) = g
    BY <1>1, <2>1 DEF React, Pending
  <2> QED BY <2>2, <2>3
<1>2. CASE ~Pending(h, p)
  <2> DEFINE full == (h.promises[p].state = "Fulfilled")
             v == h.promises[p].value
             job == ReactionJob(r, v, full)
  <2>1. full \in BOOLEAN
    OBVIOUS
  <2>2. h.promises[p].state = IF full THEN "Fulfilled" ELSE "Rejected"
    <3>1. h \in Heaps(V)
      BY DEF WellFormed
    <3>2. h.promises[p].state \in States
      BY <3>1, HeapFacts
    <3> QED BY <1>2, <3>2 DEF Pending, States
  <2>3. v \in V
    <3>1. h \in Heaps(V)
      BY DEF WellFormed
    <3> QED BY <3>1, HeapFacts
  <2>8. React(h, p, r) = [h EXCEPT !.jobs = Append(@, job)]
    BY <1>2 DEF React, Pending
  <2> HIDE DEF full, v
  <2>4. /\ job.kind = "reaction" /\ job.reaction = r /\ job.argument = v
        /\ job.fulfilled = full /\ job \in Jobs(V)
    BY <2>1, <2>3 DEF ReactionJob, Jobs
  <2>5. CarriesOutcome(h, job) /\ JobTarget(job) = r.target /\ ReactionOf(job) = {r}
    BY <2>2, <2>4 DEF CarriesOutcome, JobTarget, ReactionOf, v
  <2> HIDE DEF job
  <2>6. PICK g : g = [h EXCEPT !.jobs = Append(@, job)]
    OBVIOUS
  <2>7. Handed(V, h, g, O, X, r.target, {r})
    <3>1. Handed(V, h, g, O, X, JobTarget(job), ReactionOf(job))
      BY <2>4, <2>5, <2>6, JobStep
    <3> QED BY <2>5, <3>1
  <2> QED BY <2>6, <2>7, <2>8
<1> QED BY <1>1, <1>2

\* A new promise, which its maker owes an outcome.
Made(V, h, g, O, X) ==
    LET n == Len(h.promises) + 1
    IN  /\ WellFormed(V, g, O \cup {n}, X)
        /\ Keeps(h, g, {})
        /\ n \notin DOMAIN h.promises /\ n \notin O \cup X
        /\ DOMAIN g.promises = DOMAIN h.promises \cup {n}
        /\ Len(g.promises) = n
        /\ Pending(g, n)
        /\ \A p \in DOMAIN h.promises : g.promises[p] = h.promises[p]
        /\ g.jobs = h.jobs
        /\ Outstanding(g) = Outstanding(h)

LEMMA NewStep ==
    ASSUME NEW V, NEW h, NEW O, NEW X, WellFormed(V, h, O, X), Undefined \in V
    PROVE  Made(V, h, New(h), O, X)
<1> DEFINE n == Len(h.promises) + 1
           rec == [state |-> "Pending", value |-> Undefined, reactions |-> <<>>]
           O2 == O \cup {n}
<1>0. h \in Heaps(V) /\ Owed(h, O, X)
  BY DEF WellFormed
<1>1. /\ h.promises \in Seq(PromiseRecords(V)) /\ h.jobs \in Seq(Jobs(V))
      /\ h = [promises |-> h.promises, jobs |-> h.jobs]
      /\ Len(h.promises) \in Nat /\ DOMAIN h.promises = 1..Len(h.promises)
  BY <1>0, HeapFacts
<1>2. rec \in PromiseRecords(V)
  BY DEF PromiseRecords, States
<1> PICK g : g = New(h)
  OBVIOUS
<1>3. g = [promises |-> Append(h.promises, rec), jobs |-> h.jobs]
  BY <1>1 DEF New
<1>20. /\ rec.state = "Pending" /\ rec.reactions = <<>>
  OBVIOUS
<1> HIDE DEF rec
<1>4. /\ g.jobs = h.jobs /\ DOMAIN g.promises = 1..n /\ g.promises[n] = rec
      /\ \A p \in DOMAIN h.promises : g.promises[p] = h.promises[p]
      /\ g.promises \in Seq(PromiseRecords(V)) /\ Len(g.promises) = n
  BY <1>1, <1>2, <1>3
<1>5. g \in Heaps(V)
  BY <1>1, <1>3, <1>4 DEF Heaps
<1>6. n \notin DOMAIN h.promises /\ DOMAIN g.promises = DOMAIN h.promises \cup {n}
  BY <1>1, <1>4
<1> HIDE DEF n
<1>7. /\ WaitsFit(h, O, X) /\ QueueFits(h, O, X) /\ OneTarget(h)
      /\ Covered(h, O, X) /\ Carried(h)
      /\ O \cup X \subseteq DOMAIN h.promises /\ O \cap X = {}
      /\ \A q \in O : Pending(h, q)
  BY <1>0 DEF Owed
<1>8. n \notin O \cup X
  BY <1>6, <1>7
<1>9. ASSUME NEW w PROVE w \in Waits(g) <=> w \in Waits(h)
  <2>1. ASSUME w \in Waits(g) PROVE w \in Waits(h)
    <3>1. /\ w = <<w[1], w[2]>> /\ w[1] \in DOMAIN g.promises
          /\ w[2] \in DOMAIN g.promises[w[1]].reactions
      BY <2>1, WaitsFacts
    <3>2. w[1] # n
      BY <1>4, <1>20, <3>1
    <3>3. w[1] \in DOMAIN h.promises /\ w[2] \in DOMAIN h.promises[w[1]].reactions
      BY <1>4, <1>6, <3>1, <3>2
    <3>4. <<w[1], w[2]>> \in Waits(h)
      BY <3>3, WaitsFacts
    <3> QED BY <3>1, <3>4
  <2>2. ASSUME w \in Waits(h) PROVE w \in Waits(g)
    <3>1. /\ w = <<w[1], w[2]>> /\ w[1] \in DOMAIN h.promises
          /\ w[2] \in DOMAIN h.promises[w[1]].reactions
      BY <2>2, WaitsFacts
    <3>2. w[1] \in DOMAIN g.promises /\ w[2] \in DOMAIN g.promises[w[1]].reactions
      BY <1>4, <1>6, <3>1
    <3>3. <<w[1], w[2]>> \in Waits(g)
      BY <3>2, WaitsFacts
    <3> QED BY <3>1, <3>3
  <2> QED BY <2>1, <2>2
<1>10. Waits(g) = Waits(h)
  BY <1>9
<1>11. \A w \in Waits(h) : /\ ReactionAt(g, w) = ReactionAt(h, w)
                           /\ WaitTarget(g, w) = WaitTarget(h, w)
                           /\ w[1] \in DOMAIN h.promises
  BY <1>4, WaitsFacts DEF ReactionAt, WaitTarget
<1>12. /\ \A k \in DOMAIN h.jobs : QueueTarget(g, k) = QueueTarget(h, k)
       /\ Queue(g) = Queue(h)
  BY <1>4 DEF QueueTarget, Queue
<1>13. /\ \A q \in DOMAIN h.promises : Pending(g, q) <=> Pending(h, q)
       /\ Pending(g, n)
  BY <1>4, <1>20 DEF Pending
<1>14. \A q : IsOwed(g, O2, X, q) <=> IsOwed(h, O, X, q)
  <2> SUFFICES ASSUME NEW q PROVE IsOwed(g, O2, X, q) <=> IsOwed(h, O, X, q)
    OBVIOUS
  <2>1. CASE q = n
    BY <1>6, <2>1 DEF IsOwed
  <2>2. CASE q # n
    BY <1>6, <1>13, <2>2 DEF IsOwed
  <2> QED BY <2>1, <2>2
<1> HIDE DEF O2
<1>15. WaitsFit(g, O2, X)
  BY <1>7, <1>10, <1>11, <1>13, <1>14 DEF WaitsFit
<1>16. QueueFits(g, O2, X)
  BY <1>4, <1>7, <1>12, <1>14 DEF QueueFits
<1>17. OneTarget(g)
  BY <1>4, <1>7, <1>10, <1>11, <1>12 DEF OneTarget
<1>18. Covered(g, O2, X)
  <2> SUFFICES ASSUME NEW q, IsOwed(g, O2, X, q)
               PROVE  \/ \E w \in Waits(g) : WaitTarget(g, w) = q
                      \/ \E k \in DOMAIN g.jobs : QueueTarget(g, k) = q
    BY DEF Covered
  <2>1. IsOwed(h, O, X, q) /\ q \in DOMAIN h.promises
    BY <1>14 DEF IsOwed
  <2>2. \/ \E w \in Waits(h) : WaitTarget(h, w) = q
        \/ \E k \in DOMAIN h.jobs : QueueTarget(h, k) = q
    BY <1>7, <2>1 DEF Covered
  <2> QED BY <1>4, <1>10, <1>11, <1>12, <2>2
<1>19. Carried(g)
  BY <1>4, <1>6, <1>7, <1>12 DEF Carried
<1>21. Owed(g, O2, X)
  BY <1>6, <1>7, <1>8, <1>13, <1>15, <1>16, <1>17, <1>18, <1>19 DEF Owed, O2
<1>22. Outstanding(g) = Outstanding(h)
  <2>1. \A w \in Waits(g) : ReactionAt(g, w) = ReactionAt(h, w)
    BY <1>10, <1>11
  <2> QED BY <1>4, <1>10, <1>12, <2>1 DEF Outstanding
<1>23. Keeps(h, g, {})
  BY <1>4, <1>6, <1>13 DEF Keeps
<1> QED BY <1>4, <1>5, <1>6, <1>8, <1>13, <1>21, <1>22, <1>23
        DEF WellFormed, Made, O2, n

\* What a maker owes can be left to the natives.
LEMMA OwnerMoves ==
    ASSUME NEW V, NEW h, NEW O, NEW X, NEW t, WellFormed(V, h, O, X), t \in O
    PROVE  WellFormed(V, h, O \ {t}, X \cup {t})
<1>1. h \in Heaps(V) /\ Owed(h, O, X)
  BY DEF WellFormed
<1>2. \A q : IsOwed(h, O, X, q) <=> IsOwed(h, O \ {t}, X \cup {t}, q)
  BY DEF IsOwed
<1>3. /\ WaitsFit(h, O \ {t}, X \cup {t}) /\ QueueFits(h, O \ {t}, X \cup {t})
      /\ Covered(h, O \ {t}, X \cup {t})
  BY <1>1, <1>2 DEF Owed, WaitsFit, QueueFits, Covered
<1> QED BY <1>1, <1>3 DEF WellFormed, Owed
\* Whatever is outstanding is on its way to a promise the heap owes an outcome.
LEMMA OutstandingOwed ==
    ASSUME NEW V, NEW h, NEW O, NEW X, WellFormed(V, h, O, X),
           NEW r \in Outstanding(h)
    PROVE  IsOwed(h, O, X, r.target) /\ r \in Reactions
<1>1. h \in Heaps(V) /\ WaitsFit(h, O, X) /\ QueueFits(h, O, X)
  BY DEF WellFormed, Owed
<1>2. CASE \E w \in Waits(h) : r = ReactionAt(h, w)
  <2>1. PICK w \in Waits(h) : r = ReactionAt(h, w)
    BY <1>2
  <2>2. r \in Reactions
    BY <1>1, <2>1, HeapFacts
  <2> QED BY <1>1, <2>1, <2>2 DEF WaitsFit, WaitTarget
<1>3. CASE \E k \in Queue(h) : r = h.jobs[k].reaction
  <2>1. PICK k \in Queue(h) : r = h.jobs[k].reaction
    BY <1>3
  <2>2. k \in DOMAIN h.jobs /\ h.jobs[k].kind = "reaction"
    BY DEF Queue
  <2>3. h.jobs[k] \in Jobs(V)
    BY <1>1, <2>2, HeapFacts
  <2>4. r \in Reactions
    BY <2>1, <2>2, <2>3 DEF Jobs
  <2>5. QueueTarget(h, k) = r.target
    BY <2>1, <2>2 DEF QueueTarget, JobTarget
  <2> QED BY <1>1, <2>2, <2>4, <2>5 DEF QueueFits
<1> QED BY <1>2, <1>3 DEF Outstanding

\* Taking the first job: whoever runs it owes its target an outcome.
Taken(V, h, g, O, X) ==
    LET job == Head(h.jobs)
        t == JobTarget(job)
    IN  /\ WellFormed(V, g, O \cup {t}, X)
        /\ g.promises = h.promises
        /\ job \in Jobs(V) /\ CarriesOutcome(h, job)
        /\ t \in DOMAIN h.promises /\ Pending(h, t) /\ t \notin O \cup X
        /\ Outstanding(h) = Outstanding(g) \cup ReactionOf(job)

LEMMA TakeStep ==
    ASSUME NEW V, NEW h, NEW O, NEW X, WellFormed(V, h, O, X), h.jobs # <<>>,
           NEW g, g = [h EXCEPT !.jobs = Tail(@)]
    PROVE  Taken(V, h, g, O, X)
<1> DEFINE job == Head(h.jobs)
           t == JobTarget(job)
           n == Len(h.jobs)
           O2 == O \cup {t}
<1>0. h \in Heaps(V) /\ Owed(h, O, X)
  BY DEF WellFormed
<1>1. /\ h.promises \in Seq(PromiseRecords(V)) /\ h.jobs \in Seq(Jobs(V))
      /\ h = [promises |-> h.promises, jobs |-> h.jobs]
      /\ DOMAIN h.jobs = 1..n
  BY <1>0, HeapFacts
<1>2. /\ n \in Nat \ {0} /\ job = h.jobs[1] /\ job \in Jobs(V)
      /\ Tail(h.jobs) \in Seq(Jobs(V)) /\ Len(Tail(h.jobs)) = n - 1
      /\ \A k \in 1..(n - 1) : Tail(h.jobs)[k] = h.jobs[k + 1]
  BY <1>1, TailFacts
<1>3. g.promises = h.promises /\ g.jobs = Tail(h.jobs) /\ g \in Heaps(V)
  <2>1. g = [promises |-> h.promises, jobs |-> Tail(h.jobs)]
    BY <1>1
  <2> QED BY <1>1, <1>2, <2>1 DEF Heaps
<1> HIDE DEF job, t, n, O2
<1>4. DOMAIN g.jobs = 1..(n - 1) /\ \A k \in DOMAIN g.jobs :
         /\ k + 1 \in DOMAIN h.jobs /\ k + 1 # 1 /\ k \in Int
         /\ g.jobs[k] = h.jobs[k + 1] /\ QueueTarget(g, k) = QueueTarget(h, k + 1)
  <2>1. g.jobs \in Seq(Jobs(V)) /\ Len(g.jobs) = n - 1
    BY <1>2, <1>3
  <2>2. DOMAIN g.jobs = 1..(n - 1)
    BY <2>1
  <2>3. \A k \in 1..(n - 1) : k + 1 \in 1..n /\ k + 1 # 1 /\ k \in Int
    BY <1>2
  <2> QED BY <1>1, <1>2, <1>3, <2>2, <2>3 DEF QueueTarget
<1>5. \A k \in DOMAIN h.jobs : k = 1 \/ (k - 1 \in DOMAIN g.jobs /\ k = (k - 1) + 1)
  BY <1>1, <1>2, <1>4
<1>6. 1 \in DOMAIN h.jobs /\ QueueTarget(h, 1) = t
  BY <1>1, <1>2 DEF QueueTarget, t
<1>7. /\ WaitsFit(h, O, X) /\ QueueFits(h, O, X) /\ OneTarget(h)
      /\ Covered(h, O, X) /\ Carried(h)
      /\ O \cup X \subseteq DOMAIN h.promises /\ O \cap X = {}
      /\ \A q \in O : Pending(h, q)
  BY <1>0 DEF Owed
<1>8. IsOwed(h, O, X, t)
  BY <1>6, <1>7 DEF QueueFits
<1>9. t \in DOMAIN h.promises /\ Pending(h, t) /\ t \notin O \cup X
  BY <1>8 DEF IsOwed
<1>10. /\ Waits(g) = Waits(h)
       /\ \A w : /\ ReactionAt(g, w) = ReactionAt(h, w)
                 /\ WaitTarget(g, w) = WaitTarget(h, w)
       /\ \A q : Pending(g, q) <=> Pending(h, q)
  BY <1>3, SamePromises
<1>11. \A q : IsOwed(g, O2, X, q) <=> IsOwed(h, O, X, q) /\ q # t
  BY <1>3, <1>10 DEF IsOwed, O2
<1>12. \A w \in Waits(h) : WaitTarget(h, w) # t
  BY <1>6, <1>7 DEF OneTarget
<1>13. \A k \in DOMAIN g.jobs : QueueTarget(g, k) # t
  <2> SUFFICES ASSUME NEW k \in DOMAIN g.jobs, QueueTarget(g, k) = t PROVE FALSE
    OBVIOUS
  <2>1. k + 1 \in DOMAIN h.jobs /\ k + 1 # 1 /\ QueueTarget(h, k + 1) = QueueTarget(h, 1)
    BY <1>4, <1>6
  <2> QED BY <1>6, <1>7, <2>1 DEF OneTarget
<1>14. WaitsFit(g, O2, X)
  BY <1>7, <1>10, <1>11, <1>12 DEF WaitsFit
<1>15. QueueFits(g, O2, X)
  <2> SUFFICES ASSUME NEW k \in DOMAIN g.jobs
               PROVE  IsOwed(g, O2, X, QueueTarget(g, k))
    BY DEF QueueFits
  <2> QED BY <1>4, <1>7, <1>11, <1>13 DEF QueueFits
<1>16. OneTarget(g)
  <2>1. \A v, w \in Waits(g) : WaitTarget(g, v) = WaitTarget(g, w) => v = w
    BY <1>7, <1>10 DEF OneTarget
  <2>2. ASSUME NEW k \in DOMAIN g.jobs, NEW m \in DOMAIN g.jobs,
               QueueTarget(g, k) = QueueTarget(g, m)
        PROVE  k = m
    <3>1. /\ k + 1 \in DOMAIN h.jobs /\ m + 1 \in DOMAIN h.jobs
          /\ QueueTarget(h, k + 1) = QueueTarget(h, m + 1)
          /\ k \in Int /\ m \in Int
      BY <1>4, <2>2
    <3>2. k + 1 = m + 1
      BY <1>7, <3>1 DEF OneTarget
    <3> QED BY <3>1, <3>2
  <2>3. ASSUME NEW w \in Waits(g), NEW k \in DOMAIN g.jobs
        PROVE  WaitTarget(g, w) # QueueTarget(g, k)
    <3>1. k + 1 \in DOMAIN h.jobs /\ QueueTarget(g, k) = QueueTarget(h, k + 1)
      BY <1>4
    <3>2. w \in Waits(h) /\ WaitTarget(g, w) = WaitTarget(h, w)
      BY <1>10
    <3> QED BY <1>7, <3>1, <3>2 DEF OneTarget
  <2> QED BY <2>1, <2>2, <2>3 DEF OneTarget
<1>17. Covered(g, O2, X)
  <2> SUFFICES ASSUME NEW q \in DOMAIN g.promises, IsOwed(g, O2, X, q)
               PROVE  \/ \E w \in Waits(g) : WaitTarget(g, w) = q
                      \/ \E k \in DOMAIN g.jobs : QueueTarget(g, k) = q
    BY DEF Covered
  <2>1. IsOwed(h, O, X, q) /\ q # t
    BY <1>11
  <2>2. \/ \E w \in Waits(h) : WaitTarget(h, w) = q
        \/ \E k \in DOMAIN h.jobs : QueueTarget(h, k) = q
    BY <1>3, <1>7, <2>1 DEF Covered
  <2>3. CASE \E k \in DOMAIN h.jobs : QueueTarget(h, k) = q
    <3>1. PICK k \in DOMAIN h.jobs : QueueTarget(h, k) = q
      BY <2>3
    <3>2. k # 1
      BY <1>6, <2>1, <3>1
    <3>3. k - 1 \in DOMAIN g.jobs /\ QueueTarget(g, k - 1) = q
      BY <1>4, <1>5, <3>1, <3>2
    <3> QED BY <3>3
  <2> QED BY <1>10, <2>2, <2>3
<1>18. \A k \in Queue(g) : k + 1 \in Queue(h) /\ g.jobs[k] = h.jobs[k + 1]
  BY <1>4 DEF Queue
<1>19. Carried(g)
  <2> SUFFICES ASSUME NEW k \in Queue(g) PROVE CarriesOutcome(g, g.jobs[k])
    BY DEF Carried, CarriesOutcome, Queue
  <2>1. k + 1 \in Queue(h) /\ g.jobs[k] = h.jobs[k + 1]
    BY <1>18
  <2>2. CarriesOutcome(h, h.jobs[k + 1])
    BY <1>7, <2>1 DEF Carried, CarriesOutcome
  <2> QED BY <1>3, <2>1, <2>2 DEF CarriesOutcome
<1>20. Owed(g, O2, X)
  BY <1>3, <1>7, <1>9, <1>10, <1>14, <1>15, <1>16, <1>17, <1>19 DEF Owed, O2
<1>21. 1 \in Queue(h) <=> job.kind = "reaction"
  BY <1>2, <1>6 DEF Queue
<1>22. CarriesOutcome(h, job)
  BY <1>2, <1>7, <1>21 DEF Carried, CarriesOutcome
<1>23. Outstanding(h) = Outstanding(g) \cup ReactionOf(job)
  <2>1. \A x \in Outstanding(g) : x \in Outstanding(h)
    <3> SUFFICES ASSUME NEW x \in Outstanding(g) PROVE x \in Outstanding(h)
      OBVIOUS
    <3>1. CASE \E w \in Waits(g) : x = ReactionAt(g, w)
      BY <1>10, <3>1 DEF Outstanding
    <3>2. CASE \E k \in Queue(g) : x = g.jobs[k].reaction
      BY <1>18, <3>2 DEF Outstanding
    <3> QED BY <3>1, <3>2 DEF Outstanding
  <2>2. \A x \in ReactionOf(job) : x \in Outstanding(h)
    BY <1>2, <1>21 DEF Outstanding, ReactionOf
  <2>3. \A x \in Outstanding(h) : x \in Outstanding(g) \cup ReactionOf(job)
    <3> SUFFICES ASSUME NEW x \in Outstanding(h)
                 PROVE  x \in Outstanding(g) \cup ReactionOf(job)
      OBVIOUS
    <3>1. CASE \E w \in Waits(h) : x = ReactionAt(h, w)
      BY <1>10, <3>1 DEF Outstanding
    <3>2. CASE \E k \in Queue(h) : x = h.jobs[k].reaction
      <4>1. PICK k \in Queue(h) : x = h.jobs[k].reaction
        BY <3>2
      <4>2. CASE k = 1
        BY <1>2, <1>21, <4>1, <4>2 DEF ReactionOf
      <4>3. CASE k # 1
        <5>1. k \in DOMAIN h.jobs /\ h.jobs[k].kind = "reaction"
          BY DEF Queue
        <5>2. k - 1 \in DOMAIN g.jobs /\ g.jobs[k - 1] = h.jobs[k]
          BY <1>4, <1>5, <4>3, <5>1
        <5>3. k - 1 \in Queue(g) /\ x = g.jobs[k - 1].reaction
          BY <4>1, <5>1, <5>2 DEF Queue
        <5> QED BY <5>3 DEF Outstanding
      <4> QED BY <4>2, <4>3
    <3> QED BY <3>1, <3>2 DEF Outstanding
  <2> QED BY <2>1, <2>2, <2>3
<1> QED BY <1>2, <1>3, <1>9, <1>20, <1>22, <1>23 DEF Taken, WellFormed, O2, t, job
-----------------------------------------------------------------------------
(* What an operation leaves: it settled no promise but those of T, and      *)
(* added the reactions E of aggregations.                                   *)

Moved(V, h, g, O, X, T, E) ==
    /\ WellFormed(V, g, O, X)
    /\ Keeps(h, g, T)
    /\ ElementReactions(g) = ElementReactions(h) \cup E

IsElement(r) == "element" \in {r.on_fulfilled.kind, r.on_rejected.kind}

LEMMA SameElements ==
    ASSUME NEW h, NEW g, NEW R, Outstanding(g) = Outstanding(h) \cup R
    PROVE  ElementReactions(g) = ElementReactions(h) \cup {r \in R : IsElement(r)}
<1>1. ASSUME NEW r
      PROVE  r \in ElementReactions(g)
               <=> r \in ElementReactions(h) \cup {x \in R : IsElement(x)}
  BY DEF ElementReactions, IsElement
<1> QED BY <1>1

\* The values the operations themselves use.
Closed(V) == Undefined \in V /\ CycleError \in V /\ NoAggregate \in V

\* promise_resolve, by the one who owes the outcome.
Resolved(V, h, g, O, X, p, v) ==
    /\ Moved(V, h, g, O \ {p}, X, {p}, {})
    /\ DOMAIN g.promises = DOMAIN h.promises
    /\ g.promises[p].value = v \/ v \in Refs(h) \cup Thenable

LEMMA ResolveStep ==
    ASSUME NEW V, NEW h, NEW O, NEW X, WellFormed(V, h, O, X), Closed(V),
           NEW p \in O, NEW v \in V
    PROVE  Resolved(V, h, Resolve(h, p, v), O, X, p, v)
<1>0. /\ h \in Heaps(V) /\ p \in DOMAIN h.promises /\ p \in Nat
      /\ DOMAIN h.promises \subseteq Nat /\ CycleError \in V /\ Pending(h, p)
  <2>1. h \in Heaps(V) /\ p \in DOMAIN h.promises /\ Pending(h, p)
    BY DEF WellFormed, Owed
  <2>2. DOMAIN h.promises \subseteq Nat
    BY <2>1, HeapFacts
  <2> QED BY <2>1, <2>2 DEF Closed
<1>5. \/ v = Ref(p) /\ Resolve(h, p, v) = Settle(h, p, "Rejected", CycleError)
      \/ /\ v \in Refs(h) \ {Ref(p)}
         /\ Resolve(h, p, v) = React(h, v.promise, Reaction(v.promise, None, None, p))
      \/ /\ v \in Thenable
         /\ Resolve(h, p, v) = [h EXCEPT !.jobs = Append(@, ThenableJob(p, v))]
      \/ Resolve(h, p, v) = Settle(h, p, "Fulfilled", v)
  BY DEF Resolve
<1>1. CASE v = Ref(p) /\ Resolve(h, p, v) = Settle(h, p, "Rejected", CycleError)
  <2>1. PICK g : g = Settle(h, p, "Rejected", CycleError)
    OBVIOUS
  <2>2. Settled(V, h, g, O, X, p, "Rejected", CycleError)
    BY <1>0, <2>1, SettleStep
  <2>3. Resolve(h, p, v) = g
    BY <1>1, <2>1
  <2>4. ElementReactions(g) = ElementReactions(h) \cup {}
    BY <2>2 DEF Settled, ElementReactions
  <2>5. v \in Refs(h)
    BY <1>0, <1>1 DEF Refs
  <2> QED BY <2>2, <2>3, <2>4, <2>5 DEF Settled, Resolved, Moved
<1>2. CASE /\ v \in Refs(h) \ {Ref(p)}
           /\ Resolve(h, p, v) = React(h, v.promise, Reaction(v.promise, None, None, p))
  <2>1. PICK q \in DOMAIN h.promises : v = Ref(q) /\ q # p
    BY <1>2 DEF Refs
  <2>2. PICK r : r = Reaction(q, None, None, p)
    OBVIOUS
  <2>3. /\ r \in Reactions /\ r.source = q /\ r.target = p /\ ~IsElement(r)
        /\ r.on_fulfilled.kind = "none" /\ r.on_rejected.kind = "none"
    BY <1>0, <2>1, <2>2
       DEF Reaction, Reactions, Handlers, None, Handler, IsElement
  <2>4. PICK g : g = React(h, r.source, r)
    OBVIOUS
  <2>5. Handed(V, h, g, O, X, r.target, {r})
    BY <1>0, <2>1, <2>3, <2>4, ReactStep
  <2>6. Resolve(h, p, v) = g
    <3>1. v.promise = q
      BY <2>1 DEF Ref
    <3> QED BY <1>2, <2>2, <2>3, <2>4, <3>1
  <2>7. ElementReactions(g) = ElementReactions(h) \cup {}
    <3>1. Outstanding(g) = Outstanding(h) \cup {r}
      BY <2>5 DEF Handed
    <3>2. ElementReactions(g) = ElementReactions(h) \cup {x \in {r} : IsElement(x)}
      BY <3>1, SameElements
    <3> QED BY <2>3, <3>2
  <2>8. Keeps(h, g, {p})
    BY <2>5 DEF Handed, Keeps
  <2> QED BY <1>2, <2>3, <2>5, <2>6, <2>7, <2>8 DEF Handed, Resolved, Moved
<1>3. CASE /\ v \in Thenable
           /\ Resolve(h, p, v) = [h EXCEPT !.jobs = Append(@, ThenableJob(p, v))]
  <2>1. PICK job : job = ThenableJob(p, v)
    OBVIOUS
  <2>2. /\ job \in Jobs(V) /\ JobTarget(job) = p /\ ReactionOf(job) = {}
        /\ CarriesOutcome(h, job)
    <3>1. job = [kind |-> "thenable", promise |-> p, thenable |-> v]
      BY <2>1 DEF ThenableJob
    <3>2. job.kind = "thenable" /\ job.promise = p
      BY <3>1
    <3>3. job \in Jobs(V)
      BY <1>0, <3>1 DEF Jobs
    <3> QED BY <3>2, <3>3 DEF JobTarget, ReactionOf, CarriesOutcome
  <2>3. PICK g : g = [h EXCEPT !.jobs = Append(@, job)]
    OBVIOUS
  <2>4. Handed(V, h, g, O, X, JobTarget(job), ReactionOf(job))
    BY <2>2, <2>3, JobStep
  <2>5. Resolve(h, p, v) = g
    BY <1>3, <2>1, <2>3
  <2>6. Outstanding(g) = Outstanding(h)
    BY <2>2, <2>4 DEF Handed
  <2>7. ElementReactions(g) = ElementReactions(h) \cup {}
    BY <2>6 DEF ElementReactions
  <2>8. Keeps(h, g, {p})
    BY <2>4 DEF Handed, Keeps
  <2> QED BY <1>3, <2>2, <2>4, <2>5, <2>7, <2>8 DEF Handed, Resolved, Moved
<1>4. CASE Resolve(h, p, v) = Settle(h, p, "Fulfilled", v)
  <2>1. PICK g : g = Settle(h, p, "Fulfilled", v)
    OBVIOUS
  <2>2. Settled(V, h, g, O, X, p, "Fulfilled", v)
    BY <2>1, SettleStep
  <2>3. Resolve(h, p, v) = g
    BY <1>4, <2>1
  <2>4. ElementReactions(g) = ElementReactions(h) \cup {}
    BY <2>2 DEF Settled, ElementReactions
  <2>5. g.promises[p].value = v
    BY <1>0, <2>2 DEF Settled
  <2> QED BY <2>2, <2>3, <2>4, <2>5 DEF Settled, Resolved, Moved
<1> QED BY <1>1, <1>2, <1>3, <1>4, <1>5

\* promise_then: the reaction is owed to the child, the last promise.
Derived(V, h, g, O, X, r) ==
    LET n == Len(h.promises) + 1
    IN  /\ Moved(V, h, g, O, X, {}, {x \in {r} : IsElement(x)})
        /\ DOMAIN g.promises = DOMAIN h.promises \cup {n}
        /\ Outstanding(g) = Outstanding(h) \cup {r} /\ r \notin Outstanding(h)

LEMMA ThenStep ==
    ASSUME NEW V, NEW h, NEW O, NEW X, WellFormed(V, h, O, X), Closed(V),
           NEW p \in DOMAIN h.promises, NEW f \in Handlers, NEW r \in Handlers
    PROVE  Derived(V, h, Then(h, p, f, r), O, X,
                   Reaction(p, f, r, Len(h.promises) + 1))
<1> DEFINE n == Len(h.promises) + 1
<1>0. /\ h \in Heaps(V) /\ DOMAIN h.promises \subseteq Nat /\ n \in Nat
      /\ Undefined \in V
  <2>1. h \in Heaps(V)
    BY DEF WellFormed
  <2>2. DOMAIN h.promises \subseteq Nat /\ Len(h.promises) \in Nat
    BY <2>1, HeapFacts
  <2> QED BY <2>1, <2>2 DEF Closed
<1>1. PICK m : m = New(h)
  OBVIOUS
<1>2. Made(V, h, m, O, X)
  BY <1>0, <1>1, NewStep
<1>3. PICK x : x = Reaction(p, f, r, n)
  OBVIOUS
<1>4. x \in Reactions /\ x.source = p /\ x.target = n
  BY <1>0, <1>3 DEF Reaction, Reactions
<1>5. /\ WellFormed(V, m, O \cup {n}, X) /\ Keeps(h, m, {})
      /\ n \notin DOMAIN h.promises /\ n \notin O
      /\ DOMAIN m.promises = DOMAIN h.promises \cup {n}
      /\ Outstanding(m) = Outstanding(h)
  BY <1>2 DEF Made
<1> HIDE DEF n
<1>6. PICK g : g = React(m, x.source, x)
  OBVIOUS
<1>7. Handed(V, m, g, O \cup {n}, X, x.target, {x})
  <2>1. x.source \in DOMAIN m.promises /\ x.target \in O \cup {n} /\ x.target # x.source
    BY <1>4, <1>5
  <2> QED BY <1>4, <1>5, <1>6, <2>1, ReactStep
<1>8. WellFormed(V, g, O, X)
  <2>1. (O \cup {n}) \ {n} = O
    BY <1>5
  <2> QED BY <1>4, <1>7, <2>1 DEF Handed
<1>9. Keeps(h, g, {})
  BY <1>5, <1>7, KeepsTransitive DEF Handed
<1>10. Outstanding(g) = Outstanding(h) \cup {x}
  BY <1>5, <1>7 DEF Handed
<1>11. x \notin Outstanding(h)
  BY <1>4, <1>5, OutstandingOwed DEF IsOwed
<1>12. ElementReactions(g) = ElementReactions(h) \cup {y \in {x} : IsElement(y)}
  BY <1>10, SameElements
<1>13. Then(h, p, f, r) = g
  BY <1>1, <1>3, <1>4, <1>6 DEF Then, n
<1>14. DOMAIN g.promises = DOMAIN h.promises \cup {n}
  BY <1>5, <1>7 DEF Handed
<1>15. Derived(V, h, g, O, X, x)
  BY <1>8, <1>9, <1>10, <1>11, <1>12, <1>14 DEF Derived, Moved, n
<1> QED BY <1>3, <1>13, <1>15 DEF n

\* How many promises there are is read off their identities.
LEMMA Lengths ==
    ASSUME NEW V, NEW h \in Heaps(V), NEW g \in Heaps(V)
    PROVE  /\ DOMAIN g.promises = DOMAIN h.promises =>
                Len(g.promises) = Len(h.promises)
           /\ DOMAIN g.promises = DOMAIN h.promises \cup {Len(h.promises) + 1} =>
                Len(g.promises) = Len(h.promises) + 1
<1>1. /\ Len(h.promises) \in Nat /\ DOMAIN h.promises = 1..Len(h.promises)
      /\ Len(g.promises) \in Nat /\ DOMAIN g.promises = 1..Len(g.promises)
  BY HeapFacts
<1>2. ASSUME NEW m \in Nat, NEW n \in Nat, 1..m = 1..n PROVE m = n
  <2>1. m # 0 => m \in 1..n
    BY <1>2
  <2>2. n # 0 => n \in 1..m
    BY <1>2
  <2> QED BY <2>1, <2>2
<1>3. DOMAIN g.promises = DOMAIN h.promises => Len(g.promises) = Len(h.promises)
  BY <1>1, <1>2
<1>4. DOMAIN g.promises = DOMAIN h.promises \cup {Len(h.promises) + 1} =>
        Len(g.promises) = Len(h.promises) + 1
  <2>1. (1..Len(h.promises)) \cup {Len(h.promises) + 1} = 1..(Len(h.promises) + 1)
    BY <1>1
  <2>2. PICK n \in Nat : n = Len(h.promises) + 1
    BY <1>1
  <2> QED BY <1>1, <1>2, <2>1, <2>2
<1> QED BY <1>3, <1>4

\* `value` as a promise.
LEMMA AsPromiseStep ==
    ASSUME NEW V, NEW h, NEW O, NEW X, WellFormed(V, h, O, X), Closed(V),
           NEW v \in V
    PROVE  /\ Moved(V, h, AsPromise(h, v), O, X, {}, {})
           /\ PromiseOf(h, v) \in DOMAIN AsPromise(h, v).promises
           /\ v \notin Refs(h) => Len(AsPromise(h, v).promises) = Len(h.promises) + 1
<1>0. h \in Heaps(V) /\ Undefined \in V
  BY DEF WellFormed, Closed
<1>1. CASE v \in Refs(h)
  <2>1. AsPromise(h, v) = h
    BY <1>1 DEF AsPromise
  <2>2. PromiseOf(h, v) \in DOMAIN h.promises
    BY <1>1 DEF PromiseOf, Refs, Ref
  <2>3. Keeps(h, h, {})
    BY KeepsSame
  <2> QED BY <1>1, <2>1, <2>2, <2>3 DEF Moved
<1>2. CASE v \notin Refs(h)
  <2> DEFINE n == Len(h.promises) + 1
  <2>1. PICK m : m = New(h)
    OBVIOUS
  <2>2. Made(V, h, m, O, X)
    BY <1>0, <2>1, NewStep
  <2>3. /\ WellFormed(V, m, O \cup {n}, X) /\ Keeps(h, m, {})
        /\ n \notin DOMAIN h.promises /\ n \notin O /\ n \in DOMAIN m.promises
        /\ Outstanding(m) = Outstanding(h) /\ Len(m.promises) = n
    BY <2>2 DEF Made
  <2>4. PICK g : g = Resolve(m, n, v)
    OBVIOUS
  <2>5. AsPromise(h, v) = g /\ PromiseOf(h, v) = n
    BY <1>2, <2>1, <2>4 DEF AsPromise, PromiseOf
  <2> HIDE DEF n
  <2>6. Resolved(V, m, g, O \cup {n}, X, n, v)
    <3>1. n \in O \cup {n}
      OBVIOUS
    <3> QED BY <2>3, <2>4, <3>1, ResolveStep
  <2>7. /\ WellFormed(V, g, (O \cup {n}) \ {n}, X) /\ Keeps(m, g, {n})
        /\ DOMAIN g.promises = DOMAIN m.promises
        /\ ElementReactions(g) = ElementReactions(m)
    BY <2>6 DEF Resolved, Moved
  <2>8. (O \cup {n}) \ {n} = O /\ ({} \cup {n}) \cap DOMAIN h.promises \subseteq {}
    BY <2>3
  <2>9. Keeps(h, g, {})
    BY <2>3, <2>7, <2>8, KeepsTransitive
  <2>10. ElementReactions(m) = ElementReactions(h)
    BY <2>3 DEF ElementReactions
  <2>11. Len(g.promises) = n
    <3>1. m \in Heaps(V) /\ g \in Heaps(V)
      BY <2>3, <2>7 DEF WellFormed
    <3> QED BY <2>3, <2>7, <3>1, Lengths
  <2>12. Moved(V, h, g, O, X, {}, {}) /\ n \in DOMAIN g.promises
    BY <2>3, <2>7, <2>8, <2>9, <2>10 DEF Moved
  <2> QED BY <2>5, <2>11, <2>12 DEF n
<1> QED BY <1>1, <1>2
-----------------------------------------------------------------------------
(* The loop of promise_aggregate.                                          *)

\* The loop has a state after each element, by the recursion its definition
\* states.
LEMMA AddElementsUnfolds ==
    ASSUME NEW h, NEW id, NEW elements, Len(elements) \in Nat
    PROVE  \E after :
              /\ AddElements(h, id, elements) = after[Len(elements)]
              /\ after[0] = [h |-> h, promises |-> <<>>]
              /\ \A n \in 1..Len(elements) :
                    after[n] = AddElement(after[n - 1], id, n, elements[n])
<1> DEFINE N == Len(elements)
           Step(f, n) == IF n = 0 THEN [h |-> h, promises |-> <<>>]
                         ELSE AddElement(f[n - 1], id, n, elements[n])
           Good(k) == \E f : f = [n \in 0..k |-> Step(f, n)]
           Bad == {k \in 0..N : ~Good(k)}
<1>1. Bad = {}
  <2> SUFFICES ASSUME Bad # {} PROVE FALSE
    OBVIOUS
  <2>1. PICK m \in Bad : \A k \in Bad : m <= k
    <3>1. Bad \in SUBSET Nat
      OBVIOUS
    <3> HIDE DEF Bad
    <3> QED BY <3>1, LeastElement
  <2>2. m \in 0..N /\ ~Good(m) /\ m \in Nat
    OBVIOUS
  <2>3. CASE m = 0
    <3> DEFINE f == [n \in 0..m |-> [h |-> h, promises |-> <<>>]]
    <3>1. \A n \in 0..m : n = 0
      BY <2>3
    <3>2. f = [n \in 0..m |-> Step(f, n)]
      BY <3>1
    <3>3. Good(m)
      <4> HIDE DEF f
      <4> QED BY <3>2
    <3> HIDE DEF Good, Bad
    <3> QED BY <2>2, <3>3
  <2>4. CASE m # 0
    <3>1. m - 1 \in 0..N /\ m - 1 \notin Bad
      <4>1. m - 1 \in 0..N /\ ~(m <= m - 1)
        BY <2>2, <2>4
      <4> HIDE DEF Bad
      <4> QED BY <2>1, <4>1
    <3>2. PICK f : f = [n \in 0..(m - 1) |-> Step(f, n)]
      BY <3>1
    <3> DEFINE g == [n \in 0..m |-> IF n = m THEN Step(f, m) ELSE f[n]]
    <3>3. ASSUME NEW n \in 0..m PROVE g[n] = Step(g, n)
      <4>1. CASE n = 0
        <5>1. f[0] = [h |-> h, promises |-> <<>>]
          BY <2>2, <2>4, <3>2
        <5> QED BY <2>4, <4>1, <5>1
      <4>2. CASE n # 0
        <5>1. n - 1 \in 0..(m - 1) /\ n - 1 # m /\ n - 1 \in 0..m
          BY <2>2, <4>2
        <5>2. g[n - 1] = f[n - 1]
          BY <5>1
        <5>3. CASE n = m
          BY <4>2, <5>2, <5>3
        <5>4. CASE n # m
          <6>1. n \in 0..(m - 1)
            BY <2>2, <5>4
          <6>2. g[n] = f[n] /\ f[n] = Step(f, n)
            BY <3>2, <5>4, <6>1
          <6> QED BY <4>2, <5>2, <6>2
        <5> QED BY <5>3, <5>4
      <4> QED BY <4>1, <4>2
    <3>4. g = [n \in 0..m |-> Step(g, n)]
      BY <3>3
    <3>5. Good(m)
      <4> HIDE DEF g
      <4> QED BY <3>4
    <3> QED BY <2>2, <3>5
  <2> QED BY <2>3, <2>4
<1>2. Good(N)
  <2>1. N \in 0..N
    OBVIOUS
  <2> HIDE DEF Good
  <2> QED BY <1>1, <2>1
<1> DEFINE after == CHOOSE f : f = [n \in 0..N |-> Step(f, n)]
<1>3. after = [n \in 0..N |-> Step(after, n)]
  BY <1>2
<1>4. AddElements(h, id, elements) = after[N]
  BY DEF AddElements
<1> HIDE DEF after
<1>5. after[0] = [h |-> h, promises |-> <<>>]
  BY <1>3
<1>6. \A n \in 1..N : after[n] = AddElement(after[n - 1], id, n, elements[n])
  <2> TAKE n \in 1..N
  <2>1. n \in 0..N /\ n # 0
    OBVIOUS
  <2>2. after[n] = Step(after, n)
    BY <1>3, <2>1
  <2> QED BY <2>1, <2>2
<1> QED BY <1>4, <1>5, <1>6

\* After n elements of aggregation id: each has been given its reaction.
Added(V, h, O, X, id, acc, n) ==
    /\ WellFormed(V, acc.h, O, X) /\ Keeps(h, acc.h, {})
    /\ acc.promises \in Seq(Nat) /\ Len(acc.promises) = n
    /\ \A i \in 1..n : acc.promises[i] \in DOMAIN acc.h.promises
    /\ ElementReactions(h) \subseteq ElementReactions(acc.h)
    /\ \A r \in ElementReactions(acc.h) \ ElementReactions(h) :
          /\ r.on_fulfilled = r.on_rejected
          /\ \E i \in 1..n : /\ r.on_fulfilled = Element(id, i)
                             /\ r.source = acc.promises[i]
    /\ \A i \in 1..n : \E r \in ElementReactions(acc.h) :
          r.on_fulfilled = Element(id, i)
    /\ \A r, s \in ElementReactions(acc.h) \ ElementReactions(h) :
          r.on_fulfilled = s.on_fulfilled => r = s

\* Elements differ when their indices do.
LEMMA ElementFacts ==
    ASSUME NEW id \in Nat, NEW i \in Nat
    PROVE  /\ Element(id, i) \in Handlers /\ Element(id, i).kind = "element"
           /\ Element(id, i).agg = id /\ Element(id, i).index = i
           /\ \A x, j : Element(id, i) = Element(x, j) => x = id /\ j = i
BY DEF Element, Handler, Handlers

LEMMA AddElementStep ==
    ASSUME NEW V, NEW h, NEW O, NEW X, NEW id \in Nat, NEW acc, NEW n \in Nat,
           Added(V, h, O, X, id, acc, n), Closed(V), NEW v \in V
    PROVE  Added(V, h, O, X, id, AddElement(acc, id, n + 1, v), n + 1)
<1>1. PICK a : a = AsPromise(acc.h, v)
  OBVIOUS
<1>2. PICK p : p = PromiseOf(acc.h, v)
  OBVIOUS
<1>3. PICK e : e = Element(id, n + 1)
  OBVIOUS
<1>4. e \in Handlers /\ e.kind = "element" /\ e.agg = id /\ e.index = n + 1
  BY <1>3, ElementFacts
<1>5. WellFormed(V, acc.h, O, X) /\ Keeps(h, acc.h, {})
  BY DEF Added
<1>6. Moved(V, acc.h, a, O, X, {}, {}) /\ p \in DOMAIN a.promises
  BY <1>1, <1>2, <1>5, AsPromiseStep
<1>7. PICK x : x = Reaction(p, e, e, Len(a.promises) + 1)
  OBVIOUS
<1>8. PICK g : g = Then(a, p, e, e)
  OBVIOUS
<1>9. Derived(V, a, g, O, X, x)
  BY <1>4, <1>6, <1>7, <1>8, ThenStep DEF Moved
<1>10. /\ x.source = p /\ x.on_fulfilled = e /\ x.on_rejected = e
       /\ IsElement(x)
  BY <1>4, <1>7 DEF Reaction, IsElement
<1>11. /\ WellFormed(V, g, O, X) /\ Keeps(a, g, {})
       /\ ElementReactions(g) = ElementReactions(a) \cup {y \in {x} : IsElement(y)}
       /\ x \notin Outstanding(a)
  BY <1>9 DEF Derived, Moved
<1>12. ElementReactions(g) = ElementReactions(acc.h) \cup {x}
  <2>1. ElementReactions(a) = ElementReactions(acc.h)
    BY <1>6 DEF Moved
  <2> QED BY <1>10, <1>11, <2>1
<1>13. Keeps(h, g, {}) /\ Keeps(acc.h, g, {})
  <2>1. Keeps(acc.h, a, {})
    BY <1>6 DEF Moved
  <2>2. Keeps(acc.h, g, {})
    BY <1>11, <2>1, KeepsTransitive
  <2> QED BY <1>5, <2>2, KeepsTransitive
<1>14. PICK ps : ps = Append(acc.promises, p)
  OBVIOUS
<1>15. p \in Nat
  <2>1. a \in Heaps(V)
    BY <1>6 DEF Moved, WellFormed
  <2> QED BY <1>6, <2>1, HeapFacts
<1>16. /\ ps \in Seq(Nat) /\ Len(ps) = n + 1 /\ ps[n + 1] = p
       /\ \A i \in 1..n : ps[i] = acc.promises[i]
  <2>1. acc.promises \in Seq(Nat) /\ Len(acc.promises) = n
    BY DEF Added
  <2> QED BY <1>14, <1>15, <2>1, AppendFacts
<1>17. \A i \in 1..(n + 1) : i \in 1..n \/ i = n + 1
  OBVIOUS
<1>18. \A i \in 1..(n + 1) : ps[i] \in DOMAIN g.promises
  <2>1. p \in DOMAIN g.promises
    BY <1>6, <1>11 DEF Keeps
  <2>2. \A i \in 1..n : acc.promises[i] \in DOMAIN g.promises
    BY <1>13 DEF Added, Keeps
  <2> QED BY <1>16, <1>17, <2>1, <2>2
<1>19. \A r \in ElementReactions(g) \ ElementReactions(h) :
          /\ r.on_fulfilled = r.on_rejected
          /\ \E i \in 1..(n + 1) : /\ r.on_fulfilled = Element(id, i)
                                   /\ r.source = ps[i]
  <2> SUFFICES ASSUME NEW r \in ElementReactions(g) \ ElementReactions(h)
               PROVE  /\ r.on_fulfilled = r.on_rejected
                      /\ \E i \in 1..(n + 1) : /\ r.on_fulfilled = Element(id, i)
                                               /\ r.source = ps[i]
    OBVIOUS
  <2>0. n + 1 \in 1..(n + 1) /\ \A i \in 1..n : i \in 1..(n + 1)
    OBVIOUS
  <2>1. CASE r = x
    BY <1>3, <1>10, <1>16, <2>0, <2>1
  <2>2. CASE r \in ElementReactions(acc.h)
    <3>1. /\ r.on_fulfilled = r.on_rejected
          /\ \E i \in 1..n : /\ r.on_fulfilled = Element(id, i)
                             /\ r.source = acc.promises[i]
      BY <2>2 DEF Added
    <3> QED BY <1>16, <2>0, <3>1
  <2> QED BY <1>12, <2>1, <2>2
<1>20. \A i \in 1..(n + 1) : \E r \in ElementReactions(g) :
          r.on_fulfilled = Element(id, i)
  <2> SUFFICES ASSUME NEW i \in 1..(n + 1)
               PROVE  \E r \in ElementReactions(g) : r.on_fulfilled = Element(id, i)
    OBVIOUS
  <2>1. CASE i = n + 1
    BY <1>3, <1>10, <1>12, <2>1
  <2>2. CASE i \in 1..n
    <3>1. \E r \in ElementReactions(acc.h) : r.on_fulfilled = Element(id, i)
      BY <2>2 DEF Added
    <3> QED BY <1>12, <3>1
  <2> QED BY <1>17, <2>1, <2>2
<1>21. \A r \in ElementReactions(acc.h) \ ElementReactions(h) : r.on_fulfilled # e
  <2> SUFFICES ASSUME NEW r \in ElementReactions(acc.h) \ ElementReactions(h)
               PROVE  r.on_fulfilled # e
    OBVIOUS
  <2>1. PICK i \in 1..n : r.on_fulfilled = Element(id, i)
    BY DEF Added
  <2>2. r.on_fulfilled.index = i /\ i # n + 1
    BY <2>1, ElementFacts
  <2> QED BY <1>4, <2>2
<1>22. \A r, s \in ElementReactions(g) \ ElementReactions(h) :
          r.on_fulfilled = s.on_fulfilled => r = s
  <2>1. \A r, s \in ElementReactions(acc.h) \ ElementReactions(h) :
            r.on_fulfilled = s.on_fulfilled => r = s
    BY DEF Added
  <2> QED BY <1>10, <1>12, <1>21, <2>1
<1>23. ElementReactions(h) \subseteq ElementReactions(g)
  BY <1>12 DEF Added
<1>24. PICK new : new = [h |-> g, promises |-> ps]
  OBVIOUS
<1>25. Added(V, h, O, X, id, new, n + 1)
  <2>1. new.h = g /\ new.promises = ps
    BY <1>24
  <2> QED BY <1>11, <1>13, <1>16, <1>18, <1>19, <1>20, <1>22, <1>23, <2>1
          DEF Added
<1>26. AddElement(acc, id, n + 1, v) = new
  BY <1>1, <1>2, <1>3, <1>8, <1>14, <1>24 DEF AddElement
<1> QED BY <1>25, <1>26

LEMMA AddElementsStep ==
    ASSUME NEW V, NEW h, NEW O, NEW X, NEW id \in Nat,
           WellFormed(V, h, O, X), Closed(V), NEW elements \in Seq(V)
    PROVE  Added(V, h, O, X, id, AddElements(h, id, elements), Len(elements))
<1> DEFINE N == Len(elements)
<1>1. N \in Nat /\ \A n \in 1..N : elements[n] \in V
  OBVIOUS
<1>2. PICK after :
         /\ AddElements(h, id, elements) = after[N]
         /\ after[0] = [h |-> h, promises |-> <<>>]
         /\ \A n \in 1..N : after[n] = AddElement(after[n - 1], id, n, elements[n])
  BY <1>1, AddElementsUnfolds
<1> DEFINE Good(n) == Added(V, h, O, X, id, after[n], n)
           Bad == {n \in 0..N : ~Good(n)}
<1> HIDE DEF N
<1>3. Good(0)
  <2>1. after[0].h = h /\ after[0].promises = <<>>
    BY <1>2
  <2>2. Keeps(h, h, {})
    BY KeepsSame
  <2>3. <<>> \in Seq(Nat) /\ Len(<<>>) = 0 /\ 1..0 = {}
    OBVIOUS
  <2> QED BY <2>1, <2>2, <2>3 DEF Added
<1>4. ASSUME NEW n \in 1..N, Good(n - 1) PROVE Good(n)
  <2>1. n - 1 \in Nat /\ (n - 1) + 1 = n /\ elements[n] \in V
    BY <1>1
  <2>2. Added(V, h, O, X, id, AddElement(after[n - 1], id, (n - 1) + 1, elements[n]),
              (n - 1) + 1)
    <3> HIDE DEF Good
    <3>1. Added(V, h, O, X, id, after[n - 1], n - 1)
      BY <1>4 DEF Good
    <3>2. PICK m : m = n - 1
      OBVIOUS
    <3> QED BY <2>1, <3>1, <3>2, AddElementStep
  <2> QED BY <1>2, <2>1, <2>2
<1>5. Bad = {}
  <2> SUFFICES ASSUME Bad # {} PROVE FALSE
    OBVIOUS
  <2>1. Bad \in SUBSET Nat
    BY <1>1
  <2>2. \A n \in 0..N : n \in Bad <=> ~Good(n)
    OBVIOUS
  <2>3. Bad \subseteq 0..N
    OBVIOUS
  <2> HIDE DEF Bad, Good
  <2>4. PICK m \in Bad : \A k \in Bad : m <= k
    BY <2>1, LeastElement
  <2>5. m # 0 /\ m \in 0..N /\ ~Good(m)
    BY <1>3, <2>2, <2>3
  <2>6. m \in 1..N /\ m - 1 \in 0..N /\ ~(m <= m - 1)
    BY <1>1, <2>5
  <2>7. Good(m - 1)
    BY <2>2, <2>4, <2>6
  <2> QED BY <1>4, <2>5, <2>6, <2>7
<1>6. N \in 0..N
  BY <1>1
<1>7. Good(N)
  BY <1>5, <1>6
<1> QED BY <1>2, <1>7 DEF N

-----------------------------------------------------------------------------
(* The invariant and the theorems.                                         *)

\* Every, or some, element of an aggregation had an outcome.
Every(h, agg, outcomes) ==
    \A i \in 1..agg.total : /\ agg.values[i].fulfilled \in outcomes
                            /\ Had(h, agg, i, agg.values[i])
Some(h, agg) ==
    LET r == h.promises[agg.result]
    IN  \E i \in 1..agg.total :
            Had(h, agg, i, Outcome(r.state = "Fulfilled", r.value))

\* What a verified aggregation is, by kind.
LEMMA VerifiedFacts ==
    ASSUME NEW h, NEW id, NEW agg, NEW r, r = h.promises[agg.result]
    PROVE  /\ agg.kind = "all" =>
                (Verified(h, id, agg) <=>
                   IF r.state = "Fulfilled"
                   THEN r.value = Array(id) /\ Every(h, agg, {TRUE})
                   ELSE Some(h, agg))
           /\ agg.kind = "any" =>
                (Verified(h, id, agg) <=>
                   IF r.state = "Fulfilled" THEN Some(h, agg)
                   ELSE r.value = AggregateError(id) /\ Every(h, agg, {FALSE}))
           /\ agg.kind = "race" => (Verified(h, id, agg) <=> Some(h, agg))
           /\ agg.kind = "allSettled" =>
                (Verified(h, id, agg) <=>
                   /\ r.state = "Fulfilled" /\ r.value = Array(id)
                   /\ Every(h, agg, BOOLEAN))
<1>1. ASSUME agg.kind = "all"
      PROVE  Verified(h, id, agg) <=>
                   IF r.state = "Fulfilled"
                   THEN r.value = Array(id) /\ Every(h, agg, {TRUE})
                   ELSE Some(h, agg)
  BY <1>1 DEF Verified, Every, Some
<1>2. ASSUME agg.kind = "any"
      PROVE  Verified(h, id, agg) <=>
                   IF r.state = "Fulfilled" THEN Some(h, agg)
                   ELSE r.value = AggregateError(id) /\ Every(h, agg, {FALSE})
  BY <1>2 DEF Verified, Every, Some
<1>3. ASSUME agg.kind = "race"
      PROVE  Verified(h, id, agg) <=> Some(h, agg)
  BY <1>3 DEF Verified, Some
<1>4. ASSUME agg.kind = "allSettled"
      PROVE  Verified(h, id, agg) <=>
                   /\ r.state = "Fulfilled" /\ r.value = Array(id)
                   /\ Every(h, agg, BOOLEAN)
  BY <1>4 DEF Verified, Every
<1> QED BY <1>1, <1>2, <1>3, <1>4

\* An outcome an element had it keeps.
LEMMA HadKept ==
    ASSUME NEW h, NEW g, NEW T, Keeps(h, g, T), NEW agg, NEW i, NEW answer,
           agg.elements[i] \in DOMAIN h.promises, Had(h, agg, i, answer)
    PROVE  Had(g, agg, i, answer)
<1>1. ~Pending(h, agg.elements[i])
  BY DEF Had, Pending
<1>2. g.promises[agg.elements[i]] = h.promises[agg.elements[i]]
  BY <1>1 DEF Keeps
<1> QED BY <1>2 DEF Had

\* What is open depends on the reactions of aggregations only.
LEMMA OpenFacts ==
    ASSUME NEW h, NEW id \in Nat, NEW agg, agg.total \in Nat
    PROVE  \A i : i \in Open(h, id, agg) <=>
              /\ i \in 1..agg.total
              /\ \E r \in ElementReactions(h) : r.on_fulfilled = Element(id, i)
<1> SUFFICES ASSUME NEW i \in 1..agg.total, NEW r \in Outstanding(h),
                    r.on_fulfilled = Element(id, i)
             PROVE  r \in ElementReactions(h)
  BY DEF Open, ElementReactions
<1>1. r.on_fulfilled.kind = "element"
  BY ElementFacts
<1> QED BY <1>1 DEF ElementReactions

LEMMA OpenElements ==
    ASSUME NEW h, NEW g, ElementReactions(g) = ElementReactions(h),
           NEW id \in Nat, NEW agg, agg.total \in Nat
    PROVE  Open(g, id, agg) = Open(h, id, agg)
<1>1. \A i : i \in Open(g, id, agg) <=> i \in Open(h, id, agg)
  BY OpenFacts
<1> QED BY <1>1

\* A step that leaves its result and its reactions alone keeps an aggregation.
LEMMA AggregationKept ==
    ASSUME NEW h, NEW g, NEW T, Keeps(h, g, T), NEW id, NEW agg,
           AggregationInv(h, id, agg), agg.result \notin T,
           agg.kind \in Kinds, agg.live => Open(g, id, agg) = Open(h, id, agg)
    PROVE  AggregationInv(g, id, agg)
<1>1. /\ Len(agg.elements) = agg.total /\ Len(agg.values) = agg.total
      /\ agg.result \in DOMAIN g.promises /\ agg.result \in DOMAIN h.promises
      /\ \A i \in 1..agg.total : /\ agg.elements[i] \in DOMAIN h.promises
                                 /\ agg.elements[i] \in DOMAIN g.promises
  BY DEF AggregationInv, Keeps
<1>2. \A answer : \A i \in 1..agg.total :
         Had(h, agg, i, answer) => Had(g, agg, i, answer)
  BY <1>1, HadKept
<1>3. Pending(h, agg.result) => Pending(g, agg.result)
  BY <1>1 DEF Keeps
<1>4. CASE agg.live
  <2>1. Counted(h, id, agg) /\ Noticed(h, id, agg)
    BY <1>4 DEF AggregationInv
  <2>2. Counted(g, id, agg)
    BY <1>3, <1>4, <2>1 DEF Counted
  <2>3. Noticed(g, id, agg)
    <3> SUFFICES ASSUME NEW i \in (1..agg.total) \ Open(g, id, agg)
                 PROVE  /\ Had(g, agg, i, agg.values[i])
                        /\ agg.kind = "all" => agg.values[i].fulfilled
                        /\ agg.kind = "any" => ~agg.values[i].fulfilled
                        /\ agg.kind # "race"
      BY DEF Noticed
    <3>1. i \in (1..agg.total) \ Open(h, id, agg)
      BY <1>4
    <3>2. /\ Had(h, agg, i, agg.values[i])
          /\ agg.kind = "all" => agg.values[i].fulfilled
          /\ agg.kind = "any" => ~agg.values[i].fulfilled
          /\ agg.kind # "race"
      BY <2>1, <3>1 DEF Noticed
    <3> QED BY <1>2, <3>1, <3>2
  <2> QED BY <1>1, <1>4, <2>2, <2>3 DEF AggregationInv
<1>5. CASE ~agg.live /\ agg.kind = "race" /\ agg.total = 0
  BY <1>1, <1>3, <1>5 DEF AggregationInv
<1>6. CASE ~agg.live /\ ~(agg.kind = "race" /\ agg.total = 0)
  <2>1. ~Pending(h, agg.result) /\ Verified(h, id, agg)
    BY <1>6 DEF AggregationInv
  <2>2. PICK r : r = h.promises[agg.result]
    OBVIOUS
  <2>3. g.promises[agg.result] = r
    BY <1>1, <2>1, <2>2 DEF Keeps
  <2>4. ~Pending(g, agg.result)
    BY <2>1, <2>2, <2>3 DEF Pending
  <2>5. \A outcomes : Every(h, agg, outcomes) => Every(g, agg, outcomes)
    BY <1>2 DEF Every
  <2>6. Some(h, agg) => Some(g, agg)
    <3>1. PICK o : o = Outcome(r.state = "Fulfilled", r.value)
      OBVIOUS
    <3>2. Some(h, agg) <=> \E i \in 1..agg.total : Had(h, agg, i, o)
      BY <2>2, <3>1 DEF Some
    <3>3. Some(g, agg) <=> \E i \in 1..agg.total : Had(g, agg, i, o)
      BY <2>3, <3>1 DEF Some
    <3> QED BY <1>2, <3>2, <3>3
  <2>7. Verified(g, id, agg)
    <3>1. CASE agg.kind = "all"
      BY <2>1, <2>2, <2>3, <2>5, <2>6, <3>1, VerifiedFacts
    <3>2. CASE agg.kind = "any"
      BY <2>1, <2>2, <2>3, <2>5, <2>6, <3>2, VerifiedFacts
    <3>3. CASE agg.kind = "race"
      BY <2>1, <2>6, <3>3, VerifiedFacts
    <3>4. CASE agg.kind = "allSettled"
      BY <2>1, <2>2, <2>3, <2>5, <3>4, VerifiedFacts
    <3> QED BY <3>1, <3>2, <3>3, <3>4 DEF Kinds
  <2> QED BY <1>1, <1>6, <2>4, <2>7 DEF AggregationInv
<1> QED BY <1>4, <1>5, <1>6
-----------------------------------------------------------------------------
(* The parts of the invariant.                                             *)

Natives == settlers \cup AggregateResults

LEMMA BaseFacts ==
    ASSUME JobsInv
    PROVE  /\ WellFormed(Values, H, Owners, Natives) /\ Closed(Values)
           /\ H.promises = promises /\ H.jobs = jobs
           /\ Len(promises) \in Nat /\ Promise = 1..Len(promises)
           /\ Len(promises) <= MaxPromises /\ MaxPromises \in Nat
           /\ MaxAggs \in Nat /\ MaxElements \in Nat
           /\ Arg \cup {Undefined} \subseteq Values /\ known \subseteq Promise
           /\ settlers \subseteq Promise /\ abandoned \subseteq Promise
<1>1. TypeOK /\ Owed(H, Owners, Natives)
  BY DEF JobsInv, Natives
<1>2. H \in Heaps(Values) /\ H.promises = promises /\ H.jobs = jobs
  BY <1>1 DEF TypeOK, H
<1>3. Len(promises) \in Nat /\ Promise = 1..Len(promises)
  BY <1>2, HeapFacts DEF Promise
<1>4. limits \in Setups /\ Len(promises) <= MaxPromises
      /\ known \subseteq Promise /\ settlers \subseteq Promise
      /\ abandoned \subseteq Promise
  BY <1>1 DEF TypeOK
<1>5. MaxPromises \in Nat /\ MaxAggs \in Nat /\ MaxElements \in Nat
  BY <1>4, PromiseJobsAssumption DEF MaxPromises, MaxAggs, MaxElements
<1>6. Closed(Values)
  BY DEF Closed, Values
<1>7. Arg \cup {Undefined} \subseteq Values
  <2>1. known \subseteq 1..MaxPromises
    BY <1>3, <1>4, <1>5
  <2> QED BY <2>1 DEF Arg, Values
<1> QED BY <1>1, <1>2, <1>3, <1>4, <1>5, <1>6, <1>7 DEF WellFormed

\* The limits of a behaviour are fixed.
LEMMA SameLimits ==
    ASSUME limits' = limits
    PROVE  /\ MaxPromises' = MaxPromises /\ MaxAggs' = MaxAggs
           /\ Values' = Values /\ Activations' = Activations
           /\ Aggregations' = Aggregations
<1>1. MaxPromises' = MaxPromises /\ MaxAggs' = MaxAggs
  BY DEF MaxPromises, MaxAggs
<1>2. Values' = Values
  BY <1>1 DEF Values
<1> QED BY <1>1, <1>2 DEF Activations, Aggregations

\* What TypeOK says of reactions is part of what is owed.
LEMMA ReactionTypes ==
    ASSUME NEW V, NEW h, NEW O, NEW X, WellFormed(V, h, O, X),
           NEW p \in DOMAIN h.promises
    PROVE  /\ h.promises[p].reactions # <<>> => Pending(h, p)
           /\ \A i \in DOMAIN h.promises[p].reactions :
                /\ h.promises[p].reactions[i].source = p
                /\ h.promises[p].reactions[i].target \in DOMAIN h.promises \ {p}
<1>1. h \in Heaps(V) /\ WaitsFit(h, O, X)
  BY DEF WellFormed, Owed
<1>2. \A i \in DOMAIN h.promises[p].reactions :
         /\ <<p, i>> \in Waits(h)
         /\ ReactionAt(h, <<p, i>>) = h.promises[p].reactions[i]
         /\ WaitTarget(h, <<p, i>>) = h.promises[p].reactions[i].target
  BY WaitsFacts DEF ReactionAt, WaitTarget
<1>3. \A i \in DOMAIN h.promises[p].reactions :
         /\ h.promises[p].reactions[i].source = p /\ Pending(h, p)
         /\ h.promises[p].reactions[i].target \in DOMAIN h.promises \ {p}
  <2> TAKE i \in DOMAIN h.promises[p].reactions
  <2>1. PICK w : w = <<p, i>>
    OBVIOUS
  <2>2. w \in Waits(h) /\ ReactionAt(h, w) = h.promises[p].reactions[i]
        /\ WaitTarget(h, w) = h.promises[p].reactions[i].target /\ w[1] = p
    BY <1>2, <2>1
  <2> QED BY <1>1, <2>2 DEF WaitsFit, IsOwed
<1>4. ASSUME h.promises[p].reactions # <<>> PROVE Pending(h, p)
  <2>1. h.promises[p].reactions \in Seq(Reactions)
    BY <1>1, HeapFacts
  <2>2. 1 \in DOMAIN h.promises[p].reactions
    BY <1>4, <2>1
  <2> QED BY <1>3, <2>2
<1> QED BY <1>3, <1>4

\* What a step may never do: change the outcome of a settled promise, or let a
\* finally callback change the outcome that it passes on.
KeepsOutcomes ==
    stack # <<>> => \A p \in Promise : promises[p].state # "Pending" =>
        promises'[p] = promises[p]
PassesOn ==
    CodeRuns /\ Top.kind = "finally" /\ Len(stack') < Len(stack) =>
        LET p == Top.promise
            pass == Top.pass
        IN  \/ promises'[p].state = "Rejected"
            \/ /\ pass.fulfilled
               /\ \/ promises'[p].value = pass.value
                  \/ pass.value \in Refs(H) \cup Thenable

\* The parts of a step that leaves the aggregations alone: what it makes of the
\* heap and of the stack.
HeapStep(h, T) ==
    /\ Becomes(h)
    /\ Moved(Values, H, h, Owners', Natives', T, {})
    /\ T \cap AggregateResults = {}
    /\ Len(h.promises) <= MaxPromises
StackStep == stack' \in Seq(Activations) /\ StackInv'
RestStep ==
    /\ limits' = limits
    /\ settlers' \subseteq DOMAIN promises'
    /\ known' \subseteq DOMAIN promises'
    /\ abandoned' \subseteq DOMAIN promises'

\* The next heap is the one a step says it becomes.
LEMMA NextHeap ==
    ASSUME NEW V, NEW h \in Heaps(V), Becomes(h)
    PROVE  H' = h /\ promises' = h.promises /\ jobs' = h.jobs
<1>1. h = [promises |-> h.promises, jobs |-> h.jobs]
  BY HeapFacts
<1> QED BY <1>1 DEF Becomes, H

LEMMA TypeKept ==
    ASSUME JobsInv, NEW h, Becomes(h), WellFormed(Values, h, Owners', Natives'),
           Len(h.promises) <= MaxPromises, StackStep, RestStep,
           aggs' \in Seq(Aggregations), Len(aggs') <= MaxAggs
    PROVE  TypeOK' /\ Owed(H', Owners', Natives')
<1>1. h \in Heaps(Values) /\ Owed(h, Owners', Natives')
  BY DEF WellFormed
<1>2. H' = h /\ promises' = h.promises
  BY <1>1, NextHeap
<1>3. /\ MaxPromises' = MaxPromises /\ MaxAggs' = MaxAggs
      /\ Values' = Values /\ Activations' = Activations
      /\ Aggregations' = Aggregations
  BY SameLimits DEF RestStep
<1>4. H' \in Heaps(Values') /\ Len(promises') <= MaxPromises'
  BY <1>1, <1>2, <1>3
<1>5. \A p \in DOMAIN promises' :
          /\ promises'[p].reactions # <<>> => promises'[p].state = "Pending"
          /\ \A i \in DOMAIN promises'[p].reactions :
                /\ promises'[p].reactions[i].source = p
                /\ promises'[p].reactions[i].target \in DOMAIN promises' \ {p}
  BY <1>2, ReactionTypes DEF Pending
<1>6. aggs' \in Seq(Aggregations') /\ Len(aggs') <= MaxAggs'
  BY <1>3
<1>7. stack' \in Seq(Activations')
  BY <1>3 DEF StackStep
<1>8. limits' \in Setups
  BY DEF RestStep, JobsInv, TypeOK
<1> QED BY <1>1, <1>2, <1>4, <1>5, <1>6, <1>7, <1>8 DEF TypeOK, RestStep, Promise

LEMMA OutcomesKept ==
    ASSUME NEW V, NEW h \in Heaps(V), NEW T, Becomes(h), Keeps(H, h, T)
    PROVE  KeepsOutcomes
<1>1. promises' = h.promises
  BY NextHeap
<1> QED BY <1>1 DEF KeepsOutcomes, Keeps, Promise, H, Pending

LEMMA AggsKept ==
    ASSUME JobsInv, NEW h, NEW T, HeapStep(h, T), aggs' = aggs,
           settlers' \cap AggregateResults = {}
    PROVE  AggsInv'
<1>1. /\ H' = h /\ AggregateResults' = AggregateResults
      /\ Keeps(H, h, T) /\ ElementReactions(h) = ElementReactions(H)
  <2>1. h \in Heaps(Values)
    BY DEF HeapStep, Moved, WellFormed
  <2> QED BY <2>1, NextHeap DEF HeapStep, Moved, AggregateResults
<1>2. AggsInv /\ TypeOK
  BY DEF JobsInv
<1>3. ElementsInv(h, aggs)
  BY <1>1, <1>2 DEF AggsInv, ElementsInv
<1>4. ASSUME NEW id \in DOMAIN aggs PROVE AggregationInv(h, id, aggs[id])
  <2>1. aggs[id].kind \in Kinds /\ aggs[id].total \in Nat /\ id \in Nat
    <3>1. aggs \in Seq(Aggregations)
      BY <1>2 DEF TypeOK
    <3>2. aggs[id] \in Aggregations /\ id \in Nat
      BY <3>1
    <3> QED BY <3>2 DEF Aggregations
  <2>2. aggs[id].result \notin T
    BY DEF HeapStep, AggregateResults
  <2>3. Open(h, id, aggs[id]) = Open(H, id, aggs[id])
    BY <1>1, <2>1, OpenElements
  <2> QED BY <1>1, <1>2, <2>1, <2>2, <2>3, AggregationKept DEF AggsInv
<1> QED BY <1>1, <1>2, <1>3, <1>4 DEF AggsInv

\* A step that leaves the aggregations alone keeps the invariant.
LEMMA StepKeeps ==
    ASSUME JobsInv, NEW h, NEW T, HeapStep(h, T), StackStep, RestStep,
           aggs' = aggs, settlers' \cap AggregateResults = {}
    PROVE  JobsInv' /\ KeepsOutcomes
<1>1. WellFormed(Values, h, Owners', Natives') /\ Becomes(h) /\ Keeps(H, h, T)
      /\ Len(h.promises) <= MaxPromises /\ h \in Heaps(Values)
  BY DEF HeapStep, Moved, WellFormed
<1>2. TypeOK' /\ Owed(H', Owners', Natives')
  <2>1. aggs' \in Seq(Aggregations) /\ Len(aggs') <= MaxAggs
    BY DEF JobsInv, TypeOK
  <2> QED BY <1>1, <2>1, TypeKept
<1>3. AggsInv'
  BY AggsKept
<1>4. KeepsOutcomes
  BY <1>1, OutcomesKept
<1> QED BY <1>2, <1>3, <1>4 DEF JobsInv, StackStep, Natives
-----------------------------------------------------------------------------
(* The stack.                                                              *)

LEMMA StackFacts ==
    ASSUME JobsInv
    PROVE  /\ stack \in Seq(Activations) /\ Len(stack) \in Nat
           /\ DOMAIN stack = 1..Len(stack) /\ StackInv
           /\ \A i \in DOMAIN stack : stack[i] \in Activations
           /\ \A p : p \in Owners <=>
                 \E i \in DOMAIN stack : Settles(stack[i]) /\ stack[i].promise = p
           /\ Owners \subseteq Promise /\ Owners \cap Natives = {}
           /\ \A p \in Owners : Pending(H, p)
<1>1. stack \in Seq(Activations) /\ StackInv
  BY DEF JobsInv, TypeOK
<1>2. Owed(H, Owners, Natives)
  BY DEF JobsInv, Natives
<1>3. \A p : p \in Owners <=>
         \E i \in DOMAIN stack : Settles(stack[i]) /\ stack[i].promise = p
  BY DEF Owners
<1>4. Owners \subseteq Promise /\ Owners \cap Natives = {}
      /\ \A p \in Owners : Pending(H, p)
  BY <1>2 DEF Owed, Promise, H
<1> QED BY <1>1, <1>3, <1>4

\* Nothing is called or returned from.
LEMMA SameStack ==
    ASSUME JobsInv, stack' = stack, settlers \subseteq settlers',
           Promise \subseteq DOMAIN promises'
    PROVE  StackStep /\ Owners' = Owners
<1>1. StackInv /\ stack \in Seq(Activations)
  BY DEF JobsInv, TypeOK
<1>2. Owners' = Owners
  BY DEF Owners
<1>3. StackInv'
  BY <1>1 DEF StackInv, Promise
<1> QED BY <1>1, <1>2, <1>3 DEF StackStep

\* A call.
LEMMA PushStack ==
    ASSUME JobsInv, NEW a \in Activations, stack' = Callee(a),
           settlers \subseteq settlers', Promise \subseteq DOMAIN promises',
           Settles(a) => a.promise \notin Owners,
           a.kind \in {"executor", "thenable"} => a.promise \in settlers',
           a.kind = "await" => a.promise \in DOMAIN promises',
           a.kind # "script"
    PROVE  /\ StackStep
           /\ Owners' = Owners \cup {p \in {a.promise} : Settles(a)}
           /\ Len(stack') = Len(stack) + 1 /\ Len(stack) \in Nat
<1> DEFINE n == Len(stack) + 1
<1>1. /\ stack \in Seq(Activations) /\ Len(stack) \in Nat
      /\ DOMAIN stack = 1..Len(stack) /\ StackInv
      /\ \A p : p \in Owners <=>
           \E i \in DOMAIN stack : Settles(stack[i]) /\ stack[i].promise = p
  BY StackFacts
<1>2. /\ stack' \in Seq(Activations) /\ Len(stack') = n /\ stack'[n] = a
      /\ \A i \in DOMAIN stack : stack'[i] = stack[i]
  BY <1>1, AppendFacts DEF Callee
<1>3. DOMAIN stack' = DOMAIN stack \cup {n} /\ n \notin DOMAIN stack
  BY <1>1, <1>2
<1> HIDE DEF n
<1>4. \A p : p \in Owners' <=> p \in Owners \/ (Settles(a) /\ p = a.promise)
  <2>1. \A p : p \in Owners' <=>
           \E i \in DOMAIN stack' : Settles(stack'[i]) /\ stack'[i].promise = p
    BY DEF Owners, Settles
  <2>2. \A i \in DOMAIN stack : Settles(stack'[i]) <=> Settles(stack[i])
    BY <1>2 DEF Settles
  <2>3. Settles(stack'[n]) <=> Settles(a)
    BY <1>2 DEF Settles
  <2> QED BY <1>1, <1>2, <1>3, <2>1, <2>2, <2>3
<1>5. Owners' = Owners \cup {p \in {a.promise} : Settles(a)}
  BY <1>4
<1>6. \A i, j \in DOMAIN stack' :
          Settles(stack'[i]) /\ Settles(stack'[j])
            /\ stack'[i].promise = stack'[j].promise => i = j
  <2> SUFFICES ASSUME NEW i \in DOMAIN stack', NEW j \in DOMAIN stack',
                      Settles(stack'[i]), Settles(stack'[j]),
                      stack'[i].promise = stack'[j].promise
               PROVE  i = j
    OBVIOUS
  <2>1. CASE i \in DOMAIN stack /\ j \in DOMAIN stack
    BY <1>1, <1>2, <2>1 DEF StackInv
  <2>2. CASE i \in DOMAIN stack /\ j = n
    BY <1>1, <1>2, <2>2
  <2>3. CASE i = n /\ j \in DOMAIN stack
    BY <1>1, <1>2, <2>3
  <2> QED BY <1>3, <2>1, <2>2, <2>3
<1>7. \A i \in DOMAIN stack' :
          /\ stack'[i].kind \in {"executor", "thenable"} =>
                stack'[i].promise \in settlers'
          /\ stack'[i].kind = "await" => stack'[i].promise \in DOMAIN promises'
          /\ stack'[i].kind = "script" => i = 1
  <2> SUFFICES ASSUME NEW i \in DOMAIN stack'
               PROVE  /\ stack'[i].kind \in {"executor", "thenable"} =>
                            stack'[i].promise \in settlers'
                      /\ stack'[i].kind = "await" =>
                            stack'[i].promise \in DOMAIN promises'
                      /\ stack'[i].kind = "script" => i = 1
    OBVIOUS
  <2>1. CASE i \in DOMAIN stack
    BY <1>1, <1>2, <2>1 DEF StackInv
  <2>2. CASE i = n
    BY <1>2, <2>2
  <2> QED BY <1>3, <2>1, <2>2
<1>8. StackInv'
  BY <1>6, <1>7 DEF StackInv, Settles, Promise
<1> QED BY <1>1, <1>2, <1>5, <1>8 DEF StackStep, n

\* The end of an activation.
LEMMA PopStack ==
    ASSUME JobsInv, stack # <<>>, stack' = Caller,
           settlers \subseteq settlers', Promise \subseteq DOMAIN promises'
    PROVE  /\ StackStep
           /\ Owners' = Owners \ {p \in {Top.promise} : Settles(Top)}
           /\ Top \in Activations /\ (Settles(Top) => Top.promise \in Owners)
<1> DEFINE n == Len(stack)
<1>1. /\ stack \in Seq(Activations) /\ n \in Nat
      /\ DOMAIN stack = 1..n /\ StackInv
      /\ \A p : p \in Owners <=>
           \E i \in DOMAIN stack : Settles(stack[i]) /\ stack[i].promise = p
  BY StackFacts
<1>2. /\ stack' \in Seq(Activations) /\ n # 0 /\ Len(stack') = n - 1
      /\ \A i \in 1..(n - 1) : stack'[i] = stack[i]
      /\ Top = stack[n] /\ Top \in Activations
  BY <1>1, PopFacts DEF Caller, Top
<1>3. /\ DOMAIN stack' = 1..(n - 1) /\ n \in DOMAIN stack /\ n \notin DOMAIN stack'
      /\ DOMAIN stack = DOMAIN stack' \cup {n}
  BY <1>1, <1>2
<1> HIDE DEF n
<1>4. \A i \in DOMAIN stack' : i \in DOMAIN stack /\ stack'[i] = stack[i] /\ i # n
  BY <1>2, <1>3
<1>5. \A p : p \in Owners' <=> p \in Owners /\ ~(Settles(Top) /\ p = Top.promise)
  <2> SUFFICES ASSUME NEW p
               PROVE  p \in Owners' <=> p \in Owners /\ ~(Settles(Top) /\ p = Top.promise)
    OBVIOUS
  <2>1. p \in Owners' <=>
           \E i \in DOMAIN stack' : Settles(stack'[i]) /\ stack'[i].promise = p
    BY DEF Owners, Settles
  <2>2. \A i \in DOMAIN stack' : Settles(stack'[i]) <=> Settles(stack[i])
    BY <1>4 DEF Settles
  <2>3. ASSUME p \in Owners' PROVE p \in Owners /\ ~(Settles(Top) /\ p = Top.promise)
    <3>1. PICK i \in DOMAIN stack' : Settles(stack[i]) /\ stack[i].promise = p
      BY <1>4, <2>1, <2>2, <2>3
    <3>2. p \in Owners
      BY <1>1, <1>4, <3>1
    <3>3. ~(Settles(stack[n]) /\ p = stack[n].promise)
      BY <1>1, <1>3, <1>4, <3>1 DEF StackInv
    <3> QED BY <1>2, <3>2, <3>3
  <2>4. ASSUME p \in Owners, ~(Settles(Top) /\ p = Top.promise) PROVE p \in Owners'
    <3>1. PICK i \in DOMAIN stack : Settles(stack[i]) /\ stack[i].promise = p
      BY <1>1, <2>4
    <3>2. i # n
      BY <1>2, <2>4, <3>1
    <3>3. i \in DOMAIN stack'
      BY <1>3, <3>2
    <3> QED BY <1>4, <2>1, <2>2, <3>1, <3>3
  <2> QED BY <2>3, <2>4
<1>6. Owners' = Owners \ {p \in {Top.promise} : Settles(Top)}
  BY <1>5
<1>7. Settles(Top) => Top.promise \in Owners
  BY <1>1, <1>2, <1>3
<1>8. \A i, j \in DOMAIN stack' :
          Settles(stack'[i]) /\ Settles(stack'[j])
            /\ stack'[i].promise = stack'[j].promise => i = j
  BY <1>1, <1>4 DEF StackInv
<1>9. \A i \in DOMAIN stack' :
          /\ stack'[i].kind \in {"executor", "thenable"} =>
                stack'[i].promise \in settlers'
          /\ stack'[i].kind = "await" => stack'[i].promise \in DOMAIN promises'
          /\ stack'[i].kind = "script" => i = 1
  BY <1>1, <1>4 DEF StackInv
<1>10. StackInv'
  BY <1>8, <1>9 DEF StackInv, Settles, Promise
<1> QED BY <1>2, <1>6, <1>7, <1>10 DEF StackStep
-----------------------------------------------------------------------------
(* What JavaScript calls.                                                  *)

StepInv == JobsInv' /\ KeepsOutcomes /\ PassesOn

\* A step that pops no finally callback has nothing to pass on.
LEMMA NoPass ==
    ASSUME JobsInv, stack' = stack \/ Len(stack') = Len(stack) + 1 \/ ~CodeRuns
                      \/ Top.kind # "finally"
    PROVE  PassesOn
<1>1. Len(stack) \in Nat
  BY StackFacts
<1> QED BY <1>1 DEF PassesOn

\* Aggregations settle their results themselves.
LEMMA NativeFacts ==
    ASSUME JobsInv
    PROVE  /\ settlers \cap AggregateResults = {} /\ Natives \subseteq Promise
           /\ NewId \notin Natives /\ NewId \notin Owners /\ NewId \in Nat \ {0}
<1>1. /\ WellFormed(Values, H, Owners, Natives) /\ H.promises = promises
      /\ Len(promises) \in Nat /\ Promise = 1..Len(promises)
  BY BaseFacts
<1>2. Owners \cup Natives \subseteq Promise
  BY <1>1 DEF WellFormed, Owed, Promise
<1>3. NewId \notin Promise /\ NewId \in Nat \ {0}
  BY <1>1 DEF NewId
<1> QED BY <1>2, <1>3 DEF JobsInv, AggsInv

\* A step that leaves the stack, the aggregations and the settlers alone, and
\* gives JavaScript at most the promises of P.
LEMMA QuietStep ==
    ASSUME JobsInv, NEW g, NEW T, NEW P,
           Moved(Values, H, g, Owners, Natives, T, {}),
           T \cap AggregateResults = {}, Len(g.promises) <= MaxPromises,
           P \subseteq DOMAIN g.promises, Becomes(g), known' = known \cup P,
           UNCHANGED <<aggs, stack, settlers, abandoned, limits>>
    PROVE  StepInv
<1>1. g \in Heaps(Values) /\ Keeps(H, g, T)
  BY DEF Moved, WellFormed
<1>2. promises' = g.promises
  BY <1>1, NextHeap
<1>3. Promise \subseteq DOMAIN promises'
  BY <1>1, <1>2 DEF Keeps, Promise, H
<1>4. StackStep /\ Owners' = Owners
  BY <1>3, SameStack
<1>5. Natives' = Natives /\ AggregateResults' = AggregateResults
  BY DEF Natives, AggregateResults
<1>6. HeapStep(g, T)
  BY <1>4, <1>5 DEF HeapStep
<1>7. RestStep
  BY <1>2, <1>3, BaseFacts DEF RestStep
<1>8. settlers' \cap AggregateResults = {}
  BY NativeFacts
<1>9. JobsInv' /\ KeepsOutcomes
  BY <1>4, <1>6, <1>7, <1>8, StepKeeps
<1>10. PassesOn
  BY NoPass
<1> QED BY <1>9, <1>10 DEF StepInv

LEMMA StepResolve ==
    ASSUME JobsInv, NEW v \in Arg, PromiseResolve(v)
    PROVE  StepInv
<1>1. PICK g : g = AsPromise(H, v)
  OBVIOUS
<1>2. WellFormed(Values, H, Owners, Natives) /\ Closed(Values) /\ v \in Values
      /\ H.promises = promises
  BY BaseFacts
<1>3. v \notin Refs(H)
  BY DEF PromiseResolve
<1>4. /\ Moved(Values, H, g, Owners, Natives, {}, {})
      /\ PromiseOf(H, v) \in DOMAIN g.promises
      /\ Len(g.promises) = Len(H.promises) + 1
  BY <1>1, <1>2, <1>3, AsPromiseStep
<1>5. PromiseOf(H, v) = NewId /\ g = Resolve(New(H), NewId, v)
  BY <1>1, <1>2, <1>3 DEF PromiseOf, AsPromise, NewId
<1>6. Len(g.promises) <= MaxPromises
  BY <1>2, <1>4 DEF PromiseResolve, Room
<1>7. {NewId} \subseteq DOMAIN g.promises
  BY <1>4, <1>5
<1>8. /\ Becomes(g) /\ known' = known \cup {NewId}
      /\ UNCHANGED <<aggs, stack, settlers, abandoned, limits>>
  BY <1>5 DEF PromiseResolve
<1>20. {} \cap AggregateResults = {}
  OBVIOUS
<1> QED BY <1>20, <1>4, <1>6, <1>7, <1>8, QuietStep

LEMMA StepReject ==
    ASSUME JobsInv, NEW v \in Arg, PromiseReject(v)
    PROVE  StepInv
<1>1. PICK m : m = New(H)
  OBVIOUS
<1>2. /\ WellFormed(Values, H, Owners, Natives) /\ v \in Values
      /\ Undefined \in Values /\ H.promises = promises
  BY BaseFacts DEF Closed
<1>3. Made(Values, H, m, Owners, Natives)
  BY <1>1, <1>2, NewStep
<1>4. /\ WellFormed(Values, m, Owners \cup {NewId}, Natives) /\ Keeps(H, m, {})
      /\ NewId \notin DOMAIN H.promises /\ NewId \notin Owners
      /\ NewId \in DOMAIN m.promises /\ Len(m.promises) = NewId
      /\ Outstanding(m) = Outstanding(H)
  BY <1>2, <1>3 DEF Made, NewId
<1>5. PICK g : g = Settle(m, NewId, "Rejected", v)
  OBVIOUS
<1>6. Settled(Values, m, g, Owners \cup {NewId}, Natives, NewId, "Rejected", v)
  BY <1>2, <1>4, <1>5, SettleStep
<1>7. /\ WellFormed(Values, g, (Owners \cup {NewId}) \ {NewId}, Natives)
      /\ Keeps(m, g, {NewId}) /\ DOMAIN g.promises = DOMAIN m.promises
      /\ Outstanding(g) = Outstanding(m)
  BY <1>6 DEF Settled
<1>8. (Owners \cup {NewId}) \ {NewId} = Owners
  BY <1>4
<1>9. Keeps(H, g, {})
  BY <1>4, <1>7, KeepsTransitive
<1>10. ElementReactions(g) = ElementReactions(H) \cup {}
  BY <1>4, <1>7 DEF ElementReactions
<1>11. Moved(Values, H, g, Owners, Natives, {}, {})
  BY <1>7, <1>8, <1>9, <1>10 DEF Moved
<1>12. Len(g.promises) = NewId
  BY <1>4, <1>7, Lengths DEF WellFormed
<1>13. Len(g.promises) <= MaxPromises
  BY <1>12 DEF PromiseReject, Room, NewId
<1>14. {NewId} \subseteq DOMAIN g.promises
  BY <1>4, <1>7
<1>15. /\ Becomes(g) /\ known' = known \cup {NewId}
       /\ UNCHANGED <<aggs, stack, settlers, abandoned, limits>>
  BY <1>1, <1>5 DEF PromiseReject
<1>20. {} \cap AggregateResults = {}
  OBVIOUS
<1> QED BY <1>20, <1>11, <1>13, <1>14, <1>15, QuietStep

LEMMA StepThen ==
    ASSUME JobsInv, NEW p \in known, NEW f \in Handlers, NEW r \in Handlers,
           f.kind # "element", r.kind # "element", PromiseThen(p, f, r)
    PROVE  StepInv
<1>1. /\ WellFormed(Values, H, Owners, Natives) /\ Closed(Values)
      /\ H.promises = promises /\ p \in DOMAIN H.promises
  BY BaseFacts DEF Promise
<1>2. PICK g : g = Then(H, p, f, r)
  OBVIOUS
<1>3. PICK x : x = Reaction(p, f, r, Len(H.promises) + 1)
  OBVIOUS
<1>4. Derived(Values, H, g, Owners, Natives, x)
  BY <1>1, <1>2, <1>3, ThenStep
<1>5. ~IsElement(x)
  BY <1>3 DEF IsElement, Reaction
<1>6. /\ Moved(Values, H, g, Owners, Natives, {}, {y \in {x} : IsElement(y)})
      /\ DOMAIN g.promises = DOMAIN H.promises \cup {NewId}
  BY <1>1, <1>4 DEF Derived, NewId
<1>7. {y \in {x} : IsElement(y)} = {}
  BY <1>5
<1>8. Moved(Values, H, g, Owners, Natives, {}, {})
  BY <1>6, <1>7
<1>9. Len(g.promises) = NewId
  BY <1>1, <1>6, Lengths DEF WellFormed, Moved, NewId
<1>10. Len(g.promises) <= MaxPromises
  BY <1>9 DEF PromiseThen, Room, NewId
<1>11. {NewId} \subseteq DOMAIN g.promises
  BY <1>6
<1>12. /\ Becomes(g) /\ known' = known \cup {NewId}
       /\ UNCHANGED <<aggs, stack, settlers, abandoned, limits>>
  BY <1>2 DEF PromiseThen
<1>20. {} \cap AggregateResults = {}
  OBVIOUS
<1> QED BY <1>20, <1>8, <1>10, <1>11, <1>12, QuietStep

LEMMA StepSettler ==
    ASSUME JobsInv, NEW p \in settlers, NEW v \in Arg,
           NEW state \in {"Fulfilled", "Rejected"}, CallSettler(p, state, v)
    PROVE  StepInv
<1>1. /\ WellFormed(Values, H, Owners, Natives) /\ v \in Values
      /\ H.promises = promises /\ Len(promises) <= MaxPromises
  BY BaseFacts
<1>2. p \in Natives /\ p \notin Owners /\ {p} \cap AggregateResults = {}
  BY NativeFacts, StackFacts DEF Natives
<1>3. PICK g : g = Settle(H, p, state, v)
  OBVIOUS
<1>4. Settled(Values, H, g, Owners, Natives, p, state, v)
  BY <1>1, <1>2, <1>3, SettleStep
<1>5. /\ WellFormed(Values, g, Owners, Natives) /\ Keeps(H, g, {p})
      /\ DOMAIN g.promises = DOMAIN H.promises
      /\ Outstanding(g) = Outstanding(H)
  <2>1. Owners \ {p} = Owners
    BY <1>2
  <2> QED BY <1>4, <2>1 DEF Settled
<1>6. ElementReactions(g) = ElementReactions(H) \cup {}
  BY <1>5 DEF ElementReactions
<1>7. Moved(Values, H, g, Owners, Natives, {p}, {})
  BY <1>5, <1>6 DEF Moved
<1>8. Len(g.promises) <= MaxPromises
  BY <1>1, <1>5, Lengths DEF WellFormed
<1>9. /\ Becomes(g) /\ known' = known \cup {}
      /\ UNCHANGED <<aggs, stack, settlers, abandoned, limits>>
  BY <1>3 DEF CallSettler
<1> QED BY <1>2, <1>7, <1>8, <1>9, QuietStep
LEMMA ActivationFacts ==
    ASSUME NEW kind \in CodeKinds \cup {"await", "drain"}, NEW p \in Nat,
           NEW pass \in Answered(Values), NEW a, a = Activation(kind, p, pass)
    PROVE  /\ a \in Activations
           /\ a.kind = kind /\ a.promise = p /\ a.pass = pass
           /\ Settles(a) <=> kind \in {"handler", "finally", "async"}
           /\ Nothing \in Answered(Values)
<1>1. Undefined \in Values
  BY DEF Values
<1>2. Nothing \in Answered(Values)
  BY <1>1 DEF Nothing, Outcome, Answered
<1> QED BY <1>2 DEF Activation, Activations, Settles

\* A new promise, and a call that makes it.
LEMMA StepConstruct ==
    ASSUME JobsInv, PromiseConstruct
    PROVE  StepInv
<1>1. PICK m : m = New(H)
  OBVIOUS
<1>2. /\ WellFormed(Values, H, Owners, Natives) /\ Undefined \in Values
      /\ H.promises = promises /\ Len(promises) \in Nat
      /\ known \subseteq Promise /\ settlers \subseteq Promise
      /\ abandoned \subseteq Promise
  BY BaseFacts DEF Closed
<1>3. Made(Values, H, m, Owners, Natives)
  BY <1>1, <1>2, NewStep
<1>4. /\ WellFormed(Values, m, Owners \cup {NewId}, Natives) /\ Keeps(H, m, {})
      /\ NewId \notin Owners /\ NewId \notin Natives
      /\ DOMAIN m.promises = Promise \cup {NewId} /\ Len(m.promises) = NewId
      /\ Outstanding(m) = Outstanding(H)
  BY <1>2, <1>3, NativeFacts DEF Made, NewId, Promise
<1>5. WellFormed(Values, m, Owners, Natives \cup {NewId})
  <2>1. NewId \in Owners \cup {NewId} /\ (Owners \cup {NewId}) \ {NewId} = Owners
    BY <1>4
  <2>2. PICK O : O = Owners \cup {NewId}
    OBVIOUS
  <2>3. WellFormed(Values, m, O \ {NewId}, Natives \cup {NewId})
    BY <1>4, <2>1, <2>2, OwnerMoves
  <2> QED BY <2>1, <2>2, <2>3
<1>6. /\ Becomes(m) /\ stack' = Callee(Activation("executor", NewId, Nothing))
      /\ settlers' = settlers \cup {NewId} /\ Room(1)
      /\ UNCHANGED <<aggs, known, abandoned, limits>>
  BY <1>1 DEF PromiseConstruct
<1>7. promises' = m.promises
  BY <1>4, <1>6, NextHeap DEF WellFormed
<1>8. PICK a : a = Activation("executor", NewId, Nothing)
  OBVIOUS
<1>9. a \in Activations /\ a.kind = "executor" /\ a.promise = NewId /\ ~Settles(a)
  <2>1. Nothing \in Answered(Values)
    BY <1>2 DEF Nothing, Outcome, Answered
  <2>2. "executor" \in CodeKinds \cup {"await", "drain"} /\ NewId \in Nat
    BY NativeFacts DEF CodeKinds
  <2> QED BY <1>8, <2>1, <2>2, ActivationFacts
<1>10. /\ StackStep /\ Owners' = Owners
       /\ Len(stack') = Len(stack) + 1
  <2>1. settlers \subseteq settlers' /\ a.promise \in settlers'
        /\ Promise \subseteq DOMAIN promises' /\ stack' = Callee(a)
    BY <1>4, <1>6, <1>7, <1>8, <1>9
  <2> QED BY <1>9, <2>1, PushStack
<1>11. Natives' = Natives \cup {NewId} /\ AggregateResults' = AggregateResults
  BY <1>6 DEF Natives, AggregateResults
<1>12. ElementReactions(m) = ElementReactions(H) \cup {}
  BY <1>4 DEF ElementReactions
<1>13. HeapStep(m, {})
  <2>1. Len(m.promises) <= MaxPromises
    BY <1>4, <1>6 DEF Room, NewId
  <2> QED BY <1>4, <1>5, <1>6, <1>10, <1>11, <1>12, <2>1 DEF HeapStep, Moved
<1>14. RestStep
  BY <1>2, <1>4, <1>6, <1>7 DEF RestStep
<1>15. settlers' \cap AggregateResults = {}
  BY <1>4, <1>6, NativeFacts DEF Natives
<1>16. JobsInv' /\ KeepsOutcomes
  BY <1>6, <1>10, <1>13, <1>14, <1>15, StepKeeps
<1>17. PassesOn
  BY <1>10, NoPass
<1> QED BY <1>16, <1>17 DEF StepInv

LEMMA StepAsync ==
    ASSUME JobsInv, CallAsync
    PROVE  StepInv
<1>1. PICK m : m = New(H)
  OBVIOUS
<1>2. /\ WellFormed(Values, H, Owners, Natives) /\ Undefined \in Values
      /\ H.promises = promises /\ Len(promises) \in Nat
      /\ known \subseteq Promise /\ settlers \subseteq Promise
      /\ abandoned \subseteq Promise
  BY BaseFacts DEF Closed
<1>3. Made(Values, H, m, Owners, Natives)
  BY <1>1, <1>2, NewStep
<1>4. /\ WellFormed(Values, m, Owners \cup {NewId}, Natives) /\ Keeps(H, m, {})
      /\ NewId \notin Owners
      /\ DOMAIN m.promises = Promise \cup {NewId} /\ Len(m.promises) = NewId
      /\ Outstanding(m) = Outstanding(H)
  BY <1>2, <1>3, NativeFacts DEF Made, NewId, Promise
<1>6. /\ Becomes(m) /\ stack' = Callee(Activation("async", NewId, Nothing))
      /\ Room(1) /\ UNCHANGED <<aggs, settlers, known, abandoned, limits>>
  BY <1>1 DEF CallAsync
<1>7. promises' = m.promises
  BY <1>4, <1>6, NextHeap DEF WellFormed
<1>8. PICK a : a = Activation("async", NewId, Nothing)
  OBVIOUS
<1>9. a \in Activations /\ a.kind = "async" /\ a.promise = NewId /\ Settles(a)
  <2>1. Nothing \in Answered(Values)
    BY <1>2 DEF Nothing, Outcome, Answered
  <2>2. "async" \in CodeKinds \cup {"await", "drain"} /\ NewId \in Nat
    BY NativeFacts DEF CodeKinds
  <2> QED BY <1>8, <2>1, <2>2, ActivationFacts
<1>10. /\ StackStep /\ Owners' = Owners \cup {NewId}
       /\ Len(stack') = Len(stack) + 1
  <2>1. settlers \subseteq settlers' /\ Promise \subseteq DOMAIN promises'
        /\ stack' = Callee(a)
    BY <1>4, <1>6, <1>7, <1>8
  <2>2. /\ StackStep
        /\ Owners' = Owners \cup {p \in {a.promise} : Settles(a)}
        /\ Len(stack') = Len(stack) + 1
    BY <1>4, <1>9, <2>1, PushStack
  <2> QED BY <1>9, <2>2
<1>11. Natives' = Natives /\ AggregateResults' = AggregateResults
  BY <1>6 DEF Natives, AggregateResults
<1>12. ElementReactions(m) = ElementReactions(H) \cup {}
  BY <1>4 DEF ElementReactions
<1>13. HeapStep(m, {})
  <2>1. Len(m.promises) <= MaxPromises
    BY <1>4, <1>6 DEF Room, NewId
  <2> QED BY <1>4, <1>6, <1>10, <1>11, <1>12, <2>1 DEF HeapStep, Moved
<1>14. RestStep
  BY <1>2, <1>4, <1>6, <1>7 DEF RestStep
<1>15. settlers' \cap AggregateResults = {}
  BY <1>6, NativeFacts
<1>16. JobsInv' /\ KeepsOutcomes
  BY <1>6, <1>10, <1>13, <1>14, <1>15, StepKeeps
<1>17. PassesOn
  BY <1>10, NoPass
<1> QED BY <1>16, <1>17 DEF StepInv

LEMMA StepAwait ==
    ASSUME JobsInv, NEW v \in Arg, AwaitValue(v)
    PROVE  StepInv
<1>1. PICK g : g = AsPromise(H, v)
  OBVIOUS
<1>2. /\ WellFormed(Values, H, Owners, Natives) /\ Closed(Values) /\ v \in Values
      /\ H.promises = promises /\ Len(promises) \in Nat /\ MaxPromises \in Nat
      /\ known \subseteq Promise /\ settlers \subseteq Promise
      /\ abandoned \subseteq Promise
  BY BaseFacts
<1>3. /\ Moved(Values, H, g, Owners, Natives, {}, {})
      /\ PromiseOf(H, v) \in DOMAIN g.promises
  BY <1>1, <1>2, AsPromiseStep
<1>4. /\ Becomes(g) /\ stack' = Callee(Await(PromiseOf(H, v)))
      /\ Room(Len(g.promises) - Len(promises))
      /\ UNCHANGED <<aggs, settlers, known, abandoned, limits>>
  BY <1>1 DEF AwaitValue
<1>5. g \in Heaps(Values) /\ Keeps(H, g, {})
  BY <1>3 DEF Moved, WellFormed
<1>6. promises' = g.promises /\ DOMAIN g.promises \subseteq Nat /\ Len(g.promises) \in Nat
  BY <1>4, <1>5, NextHeap, HeapFacts
<1>7. PICK a : a = Await(PromiseOf(H, v))
  OBVIOUS
<1>8. a \in Activations /\ a.kind = "await" /\ a.promise = PromiseOf(H, v) /\ ~Settles(a)
  <2>1. Nothing \in Answered(Values)
    BY <1>2 DEF Nothing, Outcome, Answered, Closed
  <2>2. "await" \in CodeKinds \cup {"await", "drain"} /\ PromiseOf(H, v) \in Nat
    BY <1>3, <1>6
  <2>3. a = Activation("await", PromiseOf(H, v), Nothing)
    BY <1>7 DEF Await
  <2> QED BY <2>1, <2>2, <2>3, ActivationFacts
<1>9. Promise \subseteq DOMAIN promises'
  BY <1>2, <1>5, <1>6 DEF Keeps, Promise
<1>10. /\ StackStep /\ Owners' = Owners
       /\ Len(stack') = Len(stack) + 1
  <2>1. settlers \subseteq settlers' /\ a.promise \in DOMAIN promises'
        /\ stack' = Callee(a)
    BY <1>3, <1>4, <1>6, <1>7, <1>8
  <2> QED BY <1>8, <1>9, <2>1, PushStack
<1>11. Natives' = Natives /\ AggregateResults' = AggregateResults
  BY <1>4 DEF Natives, AggregateResults
<1>12. HeapStep(g, {})
  <2>1. Len(g.promises) <= MaxPromises
    BY <1>2, <1>4, <1>6 DEF Room
  <2> QED BY <1>3, <1>4, <1>10, <1>11, <2>1 DEF HeapStep
<1>13. RestStep
  BY <1>2, <1>4, <1>9 DEF RestStep
<1>14. settlers' \cap AggregateResults = {}
  BY <1>4, NativeFacts
<1>15. JobsInv' /\ KeepsOutcomes
  BY <1>4, <1>10, <1>12, <1>13, <1>14, StepKeeps
<1>16. PassesOn
  BY <1>10, NoPass
<1> QED BY <1>15, <1>16 DEF StepInv
-----------------------------------------------------------------------------
(* How activations end.                                                    *)

LEMMA SameHeap ==
    ASSUME JobsInv
    PROVE  Moved(Values, H, H, Owners, Natives, {}, {})
<1>1. WellFormed(Values, H, Owners, Natives)
  BY BaseFacts
<1>2. Keeps(H, H, {})
  BY KeepsSame
<1> QED BY <1>1, <1>2 DEF Moved

\* A step that pops the stack, and settles what the activation owed, if it did.
LEMMA PopStep ==
    ASSUME JobsInv, stack # <<>>, stack' = Caller, NEW g, NEW T,
           Moved(Values, H, g, Owners \ {p \in {Top.promise} : Settles(Top)},
                 Natives, T, {}),
           T \cap AggregateResults = {}, DOMAIN g.promises = DOMAIN H.promises,
           Becomes(g), known' \subseteq Promise, abandoned' \subseteq Promise,
           UNCHANGED <<aggs, settlers, limits>>
    PROVE  JobsInv' /\ KeepsOutcomes /\ promises' = g.promises
<1>1. g \in Heaps(Values) /\ H \in Heaps(Values)
  BY BaseFacts DEF Moved, WellFormed
<1>2. promises' = g.promises /\ DOMAIN promises' = Promise
  BY <1>1, NextHeap DEF Promise, H
<1>3. StackStep /\ Owners' = Owners \ {p \in {Top.promise} : Settles(Top)}
  BY <1>2, PopStack
<1>4. Natives' = Natives /\ AggregateResults' = AggregateResults
  BY DEF Natives, AggregateResults
<1>5. Len(g.promises) <= MaxPromises
  <2>1. Len(g.promises) = Len(H.promises)
    BY <1>1, Lengths
  <2> QED BY <2>1, BaseFacts
<1>6. HeapStep(g, T)
  BY <1>3, <1>4, <1>5 DEF HeapStep
<1>7. RestStep
  BY <1>2, BaseFacts DEF RestStep
<1>8. settlers' \cap AggregateResults = {}
  BY NativeFacts
<1>9. JobsInv' /\ KeepsOutcomes
  BY <1>3, <1>6, <1>7, <1>8, StepKeeps
<1> QED BY <1>2, <1>9

LEMMA TopFacts ==
    ASSUME JobsInv, CodeRuns
    PROVE  /\ stack # <<>> /\ Top \in Activations /\ Top.kind \in CodeKinds
           /\ Settles(Top) => Top.promise \in Owners /\ Pending(H, Top.promise)
                              /\ Top.promise \notin Natives
           /\ Top.kind \in {"executor", "thenable"} => Top.promise \in settlers
           /\ Top.kind = "script" => Len(stack) = 1 /\ Owners = {}
           /\ Top.pass \in Answered(Values)
<1>1. stack # <<>> /\ Top.kind \in CodeKinds
  BY DEF CodeRuns
<1>2. /\ stack \in Seq(Activations) /\ Len(stack) \in Nat
      /\ DOMAIN stack = 1..Len(stack) /\ StackInv
      /\ \A p : p \in Owners <=>
           \E i \in DOMAIN stack : Settles(stack[i]) /\ stack[i].promise = p
      /\ Owners \cap Natives = {} /\ \A p \in Owners : Pending(H, p)
  BY StackFacts
<1>3. Top = stack[Len(stack)] /\ Len(stack) \in DOMAIN stack /\ Top \in Activations
  <2>1. stack \in Seq(Activations) /\ stack # <<>>
    BY <1>1, <1>2
  <2>2. Last(stack) = stack[Len(stack)] /\ Last(stack) \in Activations
        /\ Len(stack) \in Nat \ {0}
    BY <2>1, PopFacts
  <2> QED BY <1>2, <2>2 DEF Top
<1>4. Settles(Top) => Top.promise \in Owners
  BY <1>2, <1>3
<1>5. Top.kind \in {"executor", "thenable"} => Top.promise \in settlers
  BY <1>2, <1>3 DEF StackInv
<1>6. Top.kind = "script" => Len(stack) = 1 /\ Owners = {}
  <2> SUFFICES ASSUME Top.kind = "script" PROVE Len(stack) = 1 /\ Owners = {}
    OBVIOUS
  <2>1. Len(stack) = 1
    BY <1>2, <1>3 DEF StackInv
  <2>2. \A i \in DOMAIN stack : stack[i] = Top
    BY <1>2, <1>3, <2>1
  <2>3. ~Settles(Top)
    BY DEF Settles
  <2>4. \A p : p \notin Owners
    BY <1>2, <2>2, <2>3
  <2> QED BY <2>1, <2>4
<1>7. Top.pass \in Answered(Values)
  BY <1>3 DEF Activations
<1> QED BY <1>1, <1>2, <1>3, <1>4, <1>5, <1>6, <1>7

\* The script returns: its drain is all there is on the stack.
LEMMA StepScriptDone ==
    ASSUME JobsInv, CodeRuns, Top.kind = "script", stack' = <<Drain>>,
           UNCHANGED <<promises, jobs, aggs, settlers, known, abandoned, limits>>
    PROVE  StepInv
<1>1. Owners = {}
  BY TopFacts
<1>2. Drain \in Activations /\ Drain.kind = "drain" /\ ~Settles(Drain)
  <2>1. Nothing \in Answered(Values)
    BY DEF Nothing, Outcome, Answered, Values
  <2>2. "drain" \in CodeKinds \cup {"await", "drain"} /\ 0 \in Nat
    OBVIOUS
  <2>3. PICK a : a = Activation("drain", 0, Nothing)
    OBVIOUS
  <2>4. a \in Activations /\ a.kind = "drain" /\ ~Settles(a)
    BY <2>1, <2>2, <2>3, ActivationFacts
  <2> QED BY <2>3, <2>4 DEF Drain
<1>3. /\ stack' \in Seq(Activations) /\ DOMAIN stack' = {1} /\ stack'[1] = Drain
  BY <1>2
<1>4. \A i \in DOMAIN stack' : stack'[i].kind = "drain" /\ ~Settles(stack'[i]) /\ i = 1
  BY <1>2, <1>3
<1>5. StackInv'
  BY <1>4 DEF StackInv, Settles, Promise
<1>6. Owners' = {}
  <2>1. \A p : p \in Owners' <=>
           \E i \in DOMAIN stack' : Settles(stack'[i]) /\ stack'[i].promise = p
    BY DEF Owners, Settles
  <2> QED BY <1>4, <2>1
<1>7. Natives' = Natives /\ AggregateResults' = AggregateResults
  BY DEF Natives, AggregateResults
<1>8. Moved(Values, H, H, Owners, Natives, {}, {}) /\ Becomes(H)
      /\ Len(H.promises) <= MaxPromises
  BY SameHeap, BaseFacts DEF Becomes, H
<1>9. HeapStep(H, {}) /\ StackStep
  BY <1>1, <1>3, <1>5, <1>6, <1>7, <1>8 DEF HeapStep, StackStep
<1>10. RestStep
  BY BaseFacts DEF RestStep, Promise
<1>11. settlers' \cap AggregateResults = {}
  BY NativeFacts
<1>12. JobsInv' /\ KeepsOutcomes
  BY <1>9, <1>10, <1>11, StepKeeps
<1> QED BY <1>12, NoPass DEF StepInv

\* The promise of an executor or an async function is given to the caller.
LEMMA KnownKept ==
    ASSUME JobsInv, CodeRuns,
           known' = IF Top.kind \in {"executor", "async"}
                    THEN known \cup {Top.promise} ELSE known
    PROVE  known' \subseteq Promise
<1>1. known \subseteq Promise /\ settlers \subseteq Promise /\ Owners \subseteq Promise
  BY BaseFacts, StackFacts
<1>2. Top.kind \in {"executor", "async"} => Top.promise \in Promise
  BY <1>1, TopFacts DEF Settles
<1> QED BY <1>1, <1>2

\* The outcome of an activation settles what it owes, or is adopted.
LEMMA ResolveTop ==
    ASSUME JobsInv, CodeRuns, Settles(Top), NEW v \in Values, NEW g,
           g = Resolve(H, Top.promise, v)
    PROVE  /\ Moved(Values, H, g, Owners \ {p \in {Top.promise} : Settles(Top)},
                    Natives, {Top.promise}, {})
           /\ {Top.promise} \cap AggregateResults = {}
           /\ DOMAIN g.promises = DOMAIN H.promises
           /\ g.promises[Top.promise].value = v \/ v \in Refs(H) \cup Thenable
<1>1. Top.promise \in Owners /\ Top.promise \notin Natives
  BY TopFacts
<1>2. Resolved(Values, H, g, Owners, Natives, Top.promise, v)
  BY <1>1, BaseFacts, ResolveStep
<1>3. {p \in {Top.promise} : Settles(Top)} = {Top.promise}
  OBVIOUS
<1> QED BY <1>1, <1>2, <1>3 DEF Resolved, Natives

LEMMA SettleTop ==
    ASSUME JobsInv, CodeRuns, Top.kind # "script", NEW v \in Values, NEW g,
           g = Settle(H, Top.promise, "Rejected", v)
    PROVE  /\ Moved(Values, H, g, Owners \ {p \in {Top.promise} : Settles(Top)},
                    Natives, {Top.promise}, {})
           /\ {Top.promise} \cap AggregateResults = {}
           /\ DOMAIN g.promises = DOMAIN H.promises
           /\ Settles(Top) => g.promises[Top.promise].state = "Rejected"
<1>1. /\ Top.promise \in Owners \cup Natives
      /\ ~Settles(Top) => Top.promise \in settlers
      /\ Settles(Top) => Top.promise \in Owners /\ Pending(H, Top.promise)
  BY TopFacts DEF Settles, CodeKinds, Natives
<1>2. Top.promise \notin AggregateResults
  BY <1>1, TopFacts, NativeFacts DEF Natives
<1>3. PICK t : t = Top.promise
  OBVIOUS
<1>4. Settled(Values, H, g, Owners, Natives, t, "Rejected", v)
  BY <1>1, <1>3, BaseFacts, SettleStep
<1>5. Owners \ {p \in {t} : Settles(Top)} = Owners \ {t}
  <2>1. CASE Settles(Top)
    BY <2>1
  <2>2. CASE ~Settles(Top)
    <3>1. t \notin Owners
      BY <1>1, <1>3, <2>2, StackFacts DEF Natives
    <3> QED BY <2>2, <3>1
  <2> QED BY <2>1, <2>2
<1>6. ElementReactions(g) = ElementReactions(H) \cup {}
  BY <1>4 DEF Settled, ElementReactions
<1> QED BY <1>1, <1>2, <1>3, <1>4, <1>5, <1>6 DEF Settled, Moved

LEMMA StepReturn ==
    ASSUME JobsInv, NEW v \in Arg \cup {Undefined}, Return(v)
    PROVE  StepInv
<1>1. /\ CodeRuns /\ stack # <<>> /\ v \in Values /\ Top.kind \in CodeKinds
      /\ Top.pass \in Answered(Values) /\ abandoned \subseteq Promise
  BY TopFacts, BaseFacts DEF Return
<1>2. /\ stack' = IF Top.kind = "script" THEN <<Drain>> ELSE Caller
      /\ known' = IF Top.kind \in {"executor", "async"}
                  THEN known \cup {Top.promise} ELSE known
      /\ UNCHANGED <<aggs, settlers, abandoned, limits>>
  BY DEF Return
<1>3. /\ Top.kind \in {"script", "executor", "thenable"} => UNCHANGED <<promises, jobs>>
      /\ Top.kind \in {"handler", "async"} => Becomes(Resolve(H, Top.promise, v))
      /\ Top.kind = "finally" =>
            Becomes(IF Top.pass.fulfilled
                    THEN Resolve(H, Top.promise, Top.pass.value)
                    ELSE Settle(H, Top.promise, "Rejected", Top.pass.value))
  BY DEF Return
<1>4. known' \subseteq Promise
  BY <1>1, <1>2, KnownKept
<1>5. Top.pass.value \in Values /\ Top.pass.fulfilled \in BOOLEAN
  BY <1>1 DEF Answered
<1>6. CASE Top.kind = "script"
  BY <1>1, <1>2, <1>3, <1>6, StepScriptDone
<1>7. CASE Top.kind \in {"executor", "thenable"}
  <2>1. ~Settles(Top)
    BY <1>7 DEF Settles
  <2>2. Owners \ {p \in {Top.promise} : Settles(Top)} = Owners
    BY <2>1
  <2>3. Becomes(H) /\ {} \cap AggregateResults = {}
    BY <1>3, <1>7 DEF Becomes, H
  <2>4. Moved(Values, H, H, Owners \ {p \in {Top.promise} : Settles(Top)},
              Natives, {}, {})
    BY <2>2, SameHeap
  <2>5. stack' = Caller /\ Top.kind # "finally"
    BY <1>2, <1>7
  <2>6. JobsInv' /\ KeepsOutcomes
    BY <1>1, <1>2, <1>4, <2>3, <2>4, <2>5, PopStep
  <2> QED BY <2>5, <2>6, NoPass DEF StepInv
<1>8. CASE Top.kind \in {"handler", "async"}
  <2>1. Settles(Top) /\ stack' = Caller /\ Top.kind # "finally"
    BY <1>2, <1>8 DEF Settles
  <2>2. PICK g : g = Resolve(H, Top.promise, v)
    OBVIOUS
  <2>3. /\ Moved(Values, H, g, Owners \ {p \in {Top.promise} : Settles(Top)},
                    Natives, {Top.promise}, {})
        /\ {Top.promise} \cap AggregateResults = {}
        /\ DOMAIN g.promises = DOMAIN H.promises
    BY <1>1, <2>1, <2>2, ResolveTop
  <2>4. Becomes(g)
    BY <1>3, <1>8, <2>2
  <2>5. JobsInv' /\ KeepsOutcomes
    BY <1>1, <1>2, <1>4, <2>1, <2>3, <2>4, PopStep
  <2> QED BY <2>1, <2>5, NoPass DEF StepInv
<1>9. CASE Top.kind = "finally" /\ Top.pass.fulfilled
  <2>1. Settles(Top) /\ stack' = Caller
    BY <1>2, <1>9 DEF Settles
  <2>2. PICK g : g = Resolve(H, Top.promise, Top.pass.value)
    OBVIOUS
  <2>3. /\ Moved(Values, H, g, Owners \ {p \in {Top.promise} : Settles(Top)},
                    Natives, {Top.promise}, {})
        /\ {Top.promise} \cap AggregateResults = {}
        /\ DOMAIN g.promises = DOMAIN H.promises
        /\ \/ g.promises[Top.promise].value = Top.pass.value
           \/ Top.pass.value \in Refs(H) \cup Thenable
    BY <1>1, <1>5, <2>1, <2>2, ResolveTop
  <2>4. Becomes(g)
    BY <1>3, <1>9, <2>2
  <2>5. JobsInv' /\ KeepsOutcomes /\ promises' = g.promises
    BY <1>1, <1>2, <1>4, <2>1, <2>3, <2>4, PopStep
  <2>6. PassesOn
    BY <1>9, <2>3, <2>5 DEF PassesOn
  <2> QED BY <2>5, <2>6 DEF StepInv
<1>10. CASE Top.kind = "finally" /\ ~Top.pass.fulfilled
  <2>1. Settles(Top) /\ stack' = Caller /\ Top.kind # "script"
    BY <1>2, <1>10 DEF Settles
  <2>2. PICK g : g = Settle(H, Top.promise, "Rejected", Top.pass.value)
    OBVIOUS
  <2>3. /\ Moved(Values, H, g, Owners \ {p \in {Top.promise} : Settles(Top)},
                    Natives, {Top.promise}, {})
        /\ {Top.promise} \cap AggregateResults = {}
        /\ DOMAIN g.promises = DOMAIN H.promises
        /\ g.promises[Top.promise].state = "Rejected"
    BY <1>1, <1>5, <2>1, <2>2, SettleTop
  <2>4. Becomes(g)
    BY <1>3, <1>10, <2>2
  <2>5. JobsInv' /\ KeepsOutcomes /\ promises' = g.promises
    BY <1>1, <1>2, <1>4, <2>1, <2>3, <2>4, PopStep
  <2>6. PassesOn
    BY <2>3, <2>5 DEF PassesOn
  <2> QED BY <2>5, <2>6 DEF StepInv
<1> QED BY <1>1, <1>6, <1>7, <1>8, <1>9, <1>10 DEF CodeKinds

LEMMA StepThrow ==
    ASSUME JobsInv, NEW v \in Arg, Throw(v)
    PROVE  StepInv
<1>1. /\ CodeRuns /\ stack # <<>> /\ v \in Values /\ abandoned \subseteq Promise
      /\ stack' = Caller
      /\ known' = IF Top.kind \in {"executor", "async"}
                  THEN known \cup {Top.promise} ELSE known
      /\ UNCHANGED <<aggs, settlers, abandoned, limits>>
  BY BaseFacts DEF Throw, CodeRuns
<1>2. known' \subseteq Promise
  BY <1>1, KnownKept
<1>3. CASE Top.kind = "script"
  <2>1. ~Settles(Top) /\ Top.kind # "finally"
    BY <1>3 DEF Settles
  <2>2. Owners \ {p \in {Top.promise} : Settles(Top)} = Owners
    BY <2>1
  <2>3. Becomes(H) /\ {} \cap AggregateResults = {}
    BY <1>3 DEF Becomes, H, Throw
  <2>4. Moved(Values, H, H, Owners \ {p \in {Top.promise} : Settles(Top)},
              Natives, {}, {})
    BY <2>2, SameHeap
  <2>5. JobsInv' /\ KeepsOutcomes
    BY <1>1, <1>2, <2>3, <2>4, PopStep
  <2> QED BY <2>1, <2>5, NoPass DEF StepInv
<1>4. CASE Top.kind # "script"
  <2>1. PICK g : g = Settle(H, Top.promise, "Rejected", v)
    OBVIOUS
  <2>2. /\ Moved(Values, H, g, Owners \ {p \in {Top.promise} : Settles(Top)},
                    Natives, {Top.promise}, {})
        /\ {Top.promise} \cap AggregateResults = {}
        /\ DOMAIN g.promises = DOMAIN H.promises
        /\ Settles(Top) => g.promises[Top.promise].state = "Rejected"
    BY <1>1, <1>4, <2>1, SettleTop
  <2>3. Becomes(g)
    BY <1>4, <2>1 DEF Throw
  <2>4. JobsInv' /\ KeepsOutcomes /\ promises' = g.promises
    BY <1>1, <1>2, <2>2, <2>3, PopStep
  <2>5. PassesOn
    BY <2>2, <2>4 DEF PassesOn, Settles
  <2> QED BY <2>4, <2>5 DEF StepInv
<1> QED BY <1>3, <1>4
-----------------------------------------------------------------------------
(* run_promise_jobs and await_value.                                       *)

\* The loops at the top of the stack.
LEMMA LoopFacts ==
    ASSUME JobsInv, stack # <<>>, Top.kind \in {"drain", "await"}
    PROVE  /\ ~CodeRuns /\ ~Settles(Top)
           /\ Owners \ {p \in {Top.promise} : Settles(Top)} = Owners
           /\ Top.kind = "await" => Top.promise \in Promise
<1>1. ~CodeRuns /\ ~Settles(Top)
  BY DEF CodeRuns, Settles, CodeKinds
<1>2. Owners \ {p \in {Top.promise} : Settles(Top)} = Owners
  BY <1>1
<1>3. Top.kind = "await" => Top.promise \in Promise
  <2>1. stack \in Seq(Activations) /\ StackInv /\ DOMAIN stack = 1..Len(stack)
    BY StackFacts
  <2>2. Last(stack) = stack[Len(stack)] /\ Len(stack) \in Nat \ {0}
    BY <2>1, PopFacts
  <2> QED BY <2>1, <2>2 DEF Top, StackInv
<1> QED BY <1>1, <1>2, <1>3

\* The end of a loop.
LEMMA PopLoop ==
    ASSUME JobsInv, stack # <<>>, Top.kind \in {"drain", "await"},
           stack' = Caller, abandoned' \subseteq Promise,
           UNCHANGED <<promises, jobs, aggs, settlers, known, limits>>
    PROVE  StepInv
<1>1. ~CodeRuns /\ Owners \ {p \in {Top.promise} : Settles(Top)} = Owners
  BY LoopFacts
<1>2. Moved(Values, H, H, Owners \ {p \in {Top.promise} : Settles(Top)},
            Natives, {}, {})
  BY <1>1, SameHeap
<1>3. Becomes(H) /\ {} \cap AggregateResults = {} /\ known' \subseteq Promise
  BY BaseFacts DEF Becomes, H
<1>4. JobsInv' /\ KeepsOutcomes
  BY <1>2, <1>3, PopStep
<1> QED BY <1>1, <1>4, NoPass DEF StepInv

LEMMA StepDrainDone ==
    ASSUME JobsInv, DrainDone
    PROVE  StepInv
<1>1. abandoned' \subseteq Promise
  BY BaseFacts DEF DrainDone
<1> QED BY <1>1, PopLoop DEF DrainDone

\* A call, with the heap and all else as it is.
LEMMA CallStep ==
    ASSUME JobsInv, NEW a \in Activations, stack' = Callee(a),
           ~Settles(a), a.kind = "drain",
           UNCHANGED <<promises, jobs, aggs, settlers, known, abandoned, limits>>
    PROVE  StepInv
<1>1. StackStep /\ Owners' = Owners /\ Len(stack') = Len(stack) + 1
  <2>1. /\ StackStep
        /\ Owners' = Owners \cup {p \in {a.promise} : Settles(a)}
        /\ Len(stack') = Len(stack) + 1
    BY PushStack DEF Promise
  <2> QED BY <2>1
<1>2. Natives' = Natives /\ AggregateResults' = AggregateResults
  BY DEF Natives, AggregateResults
<1>3. Moved(Values, H, H, Owners, Natives, {}, {}) /\ Becomes(H)
      /\ Len(H.promises) <= MaxPromises
  BY SameHeap, BaseFacts DEF Becomes, H
<1>4. HeapStep(H, {})
  BY <1>1, <1>2, <1>3 DEF HeapStep
<1>5. RestStep
  BY BaseFacts DEF RestStep, Promise
<1>6. settlers' \cap AggregateResults = {}
  BY NativeFacts
<1>7. JobsInv' /\ KeepsOutcomes
  BY <1>1, <1>4, <1>5, <1>6, StepKeeps
<1> QED BY <1>1, <1>7, NoPass DEF StepInv

LEMMA StepAwaitTest ==
    ASSUME JobsInv, AwaitTest
    PROVE  StepInv
<1> DEFINE pending == promises[Top.promise].state = "Pending"
<1>1. /\ stack # <<>> /\ Top.kind = "await"
      /\ stack' = IF pending /\ jobs # <<>> THEN Callee(Drain) ELSE Caller
      /\ abandoned' = IF pending /\ jobs = <<>>
                      THEN abandoned \cup {Top.promise} ELSE abandoned
      /\ UNCHANGED <<promises, jobs, aggs, settlers, known, limits>>
  BY DEF AwaitTest
<1>2. abandoned' \subseteq Promise
  BY <1>1, LoopFacts, BaseFacts
<1>3. CASE pending /\ jobs # <<>>
  <2>1. stack' = Callee(Drain) /\ abandoned' = abandoned
    BY <1>1, <1>3
  <2>2. Drain \in Activations /\ Drain.kind = "drain" /\ ~Settles(Drain)
    <3>1. Nothing \in Answered(Values)
      BY DEF Nothing, Outcome, Answered, Values
    <3>2. "drain" \in CodeKinds \cup {"await", "drain"} /\ 0 \in Nat
      OBVIOUS
    <3>3. PICK a : a = Activation("drain", 0, Nothing)
      OBVIOUS
    <3>4. a \in Activations /\ a.kind = "drain" /\ ~Settles(a)
      BY <3>1, <3>2, <3>3, ActivationFacts
    <3> QED BY <3>3, <3>4 DEF Drain
  <2> QED BY <1>1, <2>1, <2>2, CallStep
<1>4. CASE ~(pending /\ jobs # <<>>)
  <2>1. stack' = Caller
    BY <1>1, <1>4
  <2> QED BY <1>1, <1>2, <2>1, PopLoop
<1> QED BY <1>3, <1>4
\* The heap g after the first job has been taken, for its target t.
Picked(g, job, t) ==
    /\ WellFormed(Values, g, Owners \cup {t}, Natives)
    /\ g.promises = promises /\ Keeps(H, g, {})
    /\ t \in Promise /\ t \notin Owners /\ t \notin Natives /\ Pending(g, t)
    /\ job \in Jobs(Values) /\ CarriesOutcome(H, job)
    /\ ElementReactions(H) = ElementReactions(g)
                                \cup {r \in ReactionOf(job) : IsElement(r)}
    /\ \A r \in Outstanding(g) : r.target # t
    /\ ReactionOf(job) \subseteq Outstanding(H)

LEMMA PickStep ==
    ASSUME JobsInv, jobs # <<>>, NEW g, g = [H EXCEPT !.jobs = Tail(@)]
    PROVE  Picked(g, Head(jobs), JobTarget(Head(jobs)))
<1> DEFINE job == Head(jobs)
           t == JobTarget(job)
<1>1. /\ WellFormed(Values, H, Owners, Natives) /\ H.jobs = jobs
      /\ H.promises = promises
  BY BaseFacts
<1>2. Taken(Values, H, g, Owners, Natives)
  BY <1>1, TakeStep
<1>3. /\ WellFormed(Values, g, Owners \cup {t}, Natives)
      /\ g.promises = promises
      /\ job \in Jobs(Values) /\ CarriesOutcome(H, job)
      /\ t \in Promise /\ Pending(H, t) /\ t \notin Owners \cup Natives
      /\ Outstanding(H) = Outstanding(g) \cup ReactionOf(job)
  BY <1>1, <1>2 DEF Taken, Promise
<1> HIDE DEF job, t
<1>4. Keeps(H, g, {})
  BY <1>1, <1>3, KeepsSame
<1>5. Pending(g, t)
  BY <1>1, <1>3 DEF Pending
<1>6. \A r \in Outstanding(g) : r.target # t
  <2> SUFFICES ASSUME NEW r \in Outstanding(g) PROVE r.target # t
    OBVIOUS
  <2>1. IsOwed(g, Owners \cup {t}, Natives, r.target)
    BY <1>3, OutstandingOwed
  <2> QED BY <2>1 DEF IsOwed
<1>7. ElementReactions(H) = ElementReactions(g)
                                \cup {r \in ReactionOf(job) : IsElement(r)}
  <2>1. PICK R : R = ReactionOf(job)
    OBVIOUS
  <2>2. Outstanding(H) = Outstanding(g) \cup R
    BY <1>3, <2>1
  <2>3. ElementReactions(H) = ElementReactions(g) \cup {r \in R : IsElement(r)}
    BY ONLY <2>2, SameElements
  <2> QED BY <2>1, <2>3
<1>8. Picked(g, job, t)
  BY <1>3, <1>4, <1>5, <1>6, <1>7 DEF Picked
<1> QED BY <1>8 DEF job, t

\* What a reaction does that is not of an aggregation.
LEMMA PlainReaction ==
    ASSUME JobsInv, NEW g, NEW job, NEW t, Picked(g, job, t),
           job.kind = "reaction",
           "element" # (IF job.fulfilled THEN job.reaction.on_fulfilled
                        ELSE job.reaction.on_rejected).kind
    PROVE  ElementReactions(g) = ElementReactions(H)
<1>1. job.reaction \in Outstanding(H)
  BY DEF Picked, ReactionOf
<1>2. ~IsElement(job.reaction)
  <2> SUFFICES ASSUME IsElement(job.reaction) PROVE FALSE
    OBVIOUS
  <2>1. job.reaction \in ElementReactions(H)
    BY <1>1 DEF ElementReactions, IsElement
  <2>2. job.reaction.on_fulfilled = job.reaction.on_rejected
    BY <2>1 DEF JobsInv, AggsInv, ElementsInv
  <2> QED BY <2>2 DEF IsElement
<1>3. {r \in ReactionOf(job) : IsElement(r)} = {}
  BY <1>2 DEF ReactionOf
<1> QED BY <1>3 DEF Picked

\* The `then` of a thenable is called.
LEMMA RunThenable ==
    ASSUME JobsInv, NEW g, NEW job, Picked(g, job, job.promise),
           job.kind = "thenable", Becomes(g),
           stack' = Callee(Activation("thenable", job.promise, Nothing)),
           settlers' = settlers \cup {job.promise},
           UNCHANGED <<aggs, known, abandoned, limits>>
    PROVE  JobsInv' /\ KeepsOutcomes /\ Len(stack') = Len(stack) + 1
<1> DEFINE t == job.promise
<1>1. /\ WellFormed(Values, g, Owners \cup {t}, Natives)
      /\ g.promises = promises /\ Keeps(H, g, {})
      /\ t \in Promise /\ t \notin Owners /\ t \notin Natives
      /\ ElementReactions(H) = ElementReactions(g)
                                \cup {r \in ReactionOf(job) : IsElement(r)}
  BY DEF Picked
<1> HIDE DEF t
<1>2. WellFormed(Values, g, Owners, Natives \cup {t})
  <2>1. t \in Owners \cup {t} /\ (Owners \cup {t}) \ {t} = Owners
    BY <1>1
  <2>2. PICK O : O = Owners \cup {t}
    OBVIOUS
  <2>3. WellFormed(Values, g, O \ {t}, Natives \cup {t})
    BY <1>1, <2>1, <2>2, OwnerMoves
  <2> QED BY <2>1, <2>2, <2>3
<1>3. promises' = promises /\ t \in Nat
  <2>1. g \in Heaps(Values)
    BY <1>1 DEF WellFormed
  <2> QED BY <1>1, <2>1, NextHeap, BaseFacts
<1>4. PICK a : a = Activation("thenable", t, Nothing)
  OBVIOUS
<1>5. a \in Activations /\ a.kind = "thenable" /\ a.promise = t /\ ~Settles(a)
  <2>1. Nothing \in Answered(Values)
    BY DEF Nothing, Outcome, Answered, Values
  <2>2. "thenable" \in CodeKinds \cup {"await", "drain"}
    BY DEF CodeKinds
  <2> QED BY <1>3, <1>4, <2>1, <2>2, ActivationFacts
<1>6. /\ StackStep /\ Owners' = Owners
      /\ Len(stack') = Len(stack) + 1
  <2>1. settlers \subseteq settlers' /\ a.promise \in settlers'
        /\ Promise \subseteq DOMAIN promises' /\ stack' = Callee(a)
    BY <1>3, <1>4, <1>5 DEF Promise, t
  <2> QED BY <1>5, <2>1, PushStack
<1>7. Natives' = Natives \cup {t} /\ AggregateResults' = AggregateResults
  BY DEF Natives, AggregateResults, t
<1>8. ElementReactions(g) = ElementReactions(H) \cup {}
  <2>1. ReactionOf(job) = {}
    BY DEF ReactionOf
  <2> QED BY <1>1, <2>1
<1>9. HeapStep(g, {})
  <2>1. Len(g.promises) <= MaxPromises
    BY <1>1, BaseFacts
  <2> QED BY <1>1, <1>2, <1>6, <1>7, <1>8, <2>1 DEF HeapStep, Moved
<1>10. RestStep
  BY <1>1, <1>3, BaseFacts DEF RestStep, Promise, t
<1>11. settlers' \cap AggregateResults = {}
  BY <1>1, NativeFacts DEF Natives, t
<1> QED BY <1>6, <1>9, <1>10, <1>11, StepKeeps

\* A handler in JavaScript is called.
LEMMA RunHandler ==
    ASSUME JobsInv, NEW g, NEW job, NEW t, Picked(g, job, t), Becomes(g),
           ElementReactions(g) = ElementReactions(H),
           NEW kind \in {"handler", "finally"}, NEW pass \in Answered(Values),
           stack' = Callee(Activation(kind, t, pass)),
           UNCHANGED <<aggs, settlers, known, abandoned, limits>>
    PROVE  JobsInv' /\ KeepsOutcomes /\ Len(stack') = Len(stack) + 1
<1>1. /\ WellFormed(Values, g, Owners \cup {t}, Natives)
      /\ g.promises = promises /\ Keeps(H, g, {})
      /\ t \in Promise /\ t \notin Owners /\ t \notin Natives
  BY DEF Picked
<1>2. promises' = promises /\ t \in Nat
  <2>1. g \in Heaps(Values)
    BY <1>1 DEF WellFormed
  <2> QED BY <1>1, <2>1, NextHeap, BaseFacts
<1>3. PICK a : a = Activation(kind, t, pass)
  OBVIOUS
<1>4. a \in Activations /\ a.kind = kind /\ a.promise = t /\ Settles(a)
  <2>1. kind \in CodeKinds \cup {"await", "drain"}
    BY DEF CodeKinds
  <2> QED BY <1>2, <1>3, <2>1, ActivationFacts
<1>5. /\ StackStep /\ Owners' = Owners \cup {t}
      /\ Len(stack') = Len(stack) + 1
  <2>1. settlers \subseteq settlers' /\ Promise \subseteq DOMAIN promises'
        /\ stack' = Callee(a)
    BY <1>2, <1>3 DEF Promise
  <2>2. /\ StackStep
        /\ Owners' = Owners \cup {p \in {a.promise} : Settles(a)}
        /\ Len(stack') = Len(stack) + 1
    BY <1>1, <1>4, <2>1, PushStack
  <2> QED BY <1>4, <2>2
<1>6. Natives' = Natives /\ AggregateResults' = AggregateResults
  BY DEF Natives, AggregateResults
<1>7. HeapStep(g, {})
  <2>1. Len(g.promises) <= MaxPromises
    BY <1>1, BaseFacts
  <2> QED BY <1>1, <1>5, <1>6, <2>1 DEF HeapStep, Moved
<1>8. RestStep
  BY <1>2, BaseFacts DEF RestStep, Promise
<1>9. settlers' \cap AggregateResults = {}
  BY NativeFacts
<1> QED BY <1>5, <1>7, <1>8, <1>9, StepKeeps

\* A reaction without a handler passes the outcome on.
LEMMA RunPassThrough ==
    ASSUME JobsInv, NEW g, NEW job, NEW t, Picked(g, job, t),
           ElementReactions(g) = ElementReactions(H),
           NEW s \in {"Fulfilled", "Rejected"}, NEW v \in Values,
           Becomes(Settle(g, t, s, v)),
           UNCHANGED <<aggs, stack, settlers, known, abandoned, limits>>
    PROVE  StepInv
<1>1. /\ WellFormed(Values, g, Owners \cup {t}, Natives)
      /\ g.promises = promises /\ Keeps(H, g, {})
      /\ t \in Promise /\ t \notin Owners /\ t \notin Natives
  BY DEF Picked
<1>2. PICK f : f = Settle(g, t, s, v)
  OBVIOUS
<1>3. Settled(Values, g, f, Owners \cup {t}, Natives, t, s, v)
  BY <1>1, <1>2, SettleStep
<1>4. /\ WellFormed(Values, f, (Owners \cup {t}) \ {t}, Natives)
      /\ Keeps(g, f, {t}) /\ DOMAIN f.promises = DOMAIN g.promises
      /\ Outstanding(f) = Outstanding(g)
  BY <1>3 DEF Settled
<1>5. (Owners \cup {t}) \ {t} = Owners /\ {t} \cap AggregateResults = {}
  BY <1>1 DEF Natives
<1>6. Keeps(H, f, {t})
  BY <1>1, <1>4, KeepsTransitive
<1>7. ElementReactions(f) = ElementReactions(H) \cup {}
  BY <1>4 DEF ElementReactions
<1>8. Moved(Values, H, f, Owners, Natives, {t}, {})
  BY <1>4, <1>5, <1>6, <1>7 DEF Moved
<1>9. Len(f.promises) <= MaxPromises
  <2>1. Len(f.promises) = Len(g.promises)
    BY <1>1, <1>4, Lengths DEF WellFormed
  <2> QED BY <1>1, <2>1, BaseFacts
<1>10. Becomes(f) /\ known' = known \cup {}
       /\ UNCHANGED <<aggs, stack, settlers, abandoned, limits>>
  BY <1>2
<1> QED BY <1>5, <1>8, <1>9, <1>10, QuietStep
-----------------------------------------------------------------------------
(* The handler of an element.                                              *)

\* The other aggregations do not notice the answer of element i of agg id.
LEMMA ElementAnswered ==
    ASSUME JobsInv, NEW g \in Heaps(Values), NEW T, Becomes(g), Keeps(H, g, T),
           NEW r, ElementReactions(H) = ElementReactions(g) \cup {r},
           r \notin ElementReactions(g),
           NEW id \in DOMAIN aggs, NEW i \in Nat, r.on_fulfilled = Element(id, i),
           T \cap AggregateResults \subseteq {aggs[id].result},
           NEW A, aggs' = [aggs EXCEPT ![id] = A],
           A.result = aggs[id].result, A.elements = aggs[id].elements,
           A.total = aggs[id].total, AggregationInv(g, id, A),
           settlers' = settlers
    PROVE  AggsInv' /\ AggregateResults' = AggregateResults
<1>1. H' = g /\ promises' = g.promises
  BY NextHeap
<1>2. AggsInv /\ aggs \in Seq(Aggregations)
  BY DEF JobsInv, TypeOK
<1>3. /\ DOMAIN aggs' = DOMAIN aggs /\ aggs'[id] = A
      /\ \A other \in DOMAIN aggs \ {id} : aggs'[other] = aggs[other]
      /\ \A other \in DOMAIN aggs : /\ aggs'[other].result = aggs[other].result
                                    /\ aggs'[other].elements = aggs[other].elements
                                    /\ aggs'[other].total = aggs[other].total
  BY <1>2
<1>4. AggregateResults' = AggregateResults
  BY <1>3 DEF AggregateResults
<1>5. ElementsInv(g, aggs')
  <2>1. ElementsInv(H, aggs)
    BY <1>2 DEF AggsInv
  <2>2. \A x \in ElementReactions(g) : x \in ElementReactions(H)
    OBVIOUS
  <2>3. \A x \in ElementReactions(g) :
          /\ x.on_fulfilled = x.on_rejected
          /\ \E k \in DOMAIN aggs' : \E j \in 1..aggs'[k].total :
                x.on_fulfilled = Element(k, j) /\ x.source = aggs'[k].elements[j]
    <3> SUFFICES ASSUME NEW x \in ElementReactions(g)
                 PROVE  /\ x.on_fulfilled = x.on_rejected
                        /\ \E k \in DOMAIN aggs' : \E j \in 1..aggs'[k].total :
                              /\ x.on_fulfilled = Element(k, j)
                              /\ x.source = aggs'[k].elements[j]
      OBVIOUS
    <3>1. /\ x.on_fulfilled = x.on_rejected
          /\ \E k \in DOMAIN aggs : \E j \in 1..aggs[k].total :
                x.on_fulfilled = Element(k, j) /\ x.source = aggs[k].elements[j]
      BY <2>1, <2>2 DEF ElementsInv
    <3>2. PICK k \in DOMAIN aggs : \E j \in 1..aggs[k].total :
             x.on_fulfilled = Element(k, j) /\ x.source = aggs[k].elements[j]
      BY <3>1
    <3>4. PICK j \in 1..aggs[k].total :
             x.on_fulfilled = Element(k, j) /\ x.source = aggs[k].elements[j]
      BY <3>2
    <3>3. /\ k \in DOMAIN aggs' /\ j \in 1..aggs'[k].total
          /\ x.source = aggs'[k].elements[j]
      BY <1>3, <3>4
    <3> QED BY <3>1, <3>3, <3>4
  <2>4. \A x, s \in ElementReactions(g) :
          x.on_fulfilled = s.on_fulfilled => x = s
    BY <2>1, <2>2 DEF ElementsInv
  <2> QED BY <2>3, <2>4 DEF ElementsInv
<1>6. ASSUME NEW other \in DOMAIN aggs \ {id}
      PROVE  AggregationInv(g, other, aggs[other])
  <2>1. /\ aggs[other].kind \in Kinds /\ aggs[other].total \in Nat
        /\ other \in Nat /\ id \in Nat
    <3>1. aggs[other] \in Aggregations /\ other \in Nat /\ id \in Nat
      BY <1>2
    <3> QED BY <3>1 DEF Aggregations
  <2>2. aggs[other].result \notin T
    <3>1. aggs[other].result # aggs[id].result
      BY <1>2 DEF AggsInv
    <3> QED BY <3>1 DEF AggregateResults
  <2>3. \A j : r.on_fulfilled # Element(other, j)
    BY <2>1, ElementFacts
  <2>4. Open(g, other, aggs[other]) = Open(H, other, aggs[other])
    <3>1. PICK agg : agg = aggs[other]
      OBVIOUS
    <3>2. \A j : j \in Open(g, other, agg) <=> j \in Open(H, other, agg)
      <4> SUFFICES ASSUME NEW j
                   PROVE  j \in Open(g, other, agg) <=> j \in Open(H, other, agg)
        OBVIOUS
      <4>1. j \in Open(g, other, agg) <=>
              /\ j \in 1..agg.total
              /\ \E x \in ElementReactions(g) : x.on_fulfilled = Element(other, j)
        BY <2>1, <3>1, OpenFacts
      <4>2. j \in Open(H, other, agg) <=>
              /\ j \in 1..agg.total
              /\ \E x \in ElementReactions(H) : x.on_fulfilled = Element(other, j)
        BY <2>1, <3>1, OpenFacts
      <4> QED BY <2>3, <4>1, <4>2
    <3> QED BY <3>1, <3>2
  <2>5. AggregationInv(H, other, aggs[other])
    BY <1>2 DEF AggsInv
  <2> QED BY <2>1, <2>2, <2>4, <2>5, AggregationKept
<1>7. \A k \in DOMAIN aggs' : AggregationInv(H', k, aggs'[k])
  BY <1>1, <1>3, <1>6
<1>8. \A k, other \in DOMAIN aggs' :
          aggs'[k].result = aggs'[other].result => k = other
  BY <1>2, <1>3 DEF AggsInv
<1>9. settlers' \cap AggregateResults' = {}
  BY <1>2, <1>4 DEF AggsInv
<1> QED BY <1>1, <1>4, <1>5, <1>7, <1>8, <1>9 DEF AggsInv

\* One element less is open.
LEMMA OneLessOpen ==
    ASSUME NEW h, NEW g, NEW r, ElementReactions(h) = ElementReactions(g) \cup {r},
           r \notin ElementReactions(g),
           \A x, y \in ElementReactions(h) : x.on_fulfilled = y.on_fulfilled => x = y,
           NEW id \in Nat, NEW agg, agg.total \in Nat, NEW A, A.total = agg.total,
           NEW i \in 1..agg.total, r.on_fulfilled = Element(id, i)
    PROVE  /\ i \in Open(h, id, agg)
           /\ Open(g, id, A) = Open(h, id, agg) \ {i}
           /\ IsFiniteSet(Open(h, id, agg))
           /\ Cardinality(Open(g, id, A)) = Cardinality(Open(h, id, agg)) - 1
           /\ Cardinality(Open(h, id, agg)) \in Nat
           /\ Cardinality(Open(g, id, A)) = 0 <=> Open(g, id, A) = {}
<1>1. \A j : j \in Open(h, id, agg) <=>
         /\ j \in 1..agg.total
         /\ \E x \in ElementReactions(h) : x.on_fulfilled = Element(id, j)
  BY OpenFacts
<1>2. \A j : j \in Open(g, id, A) <=>
         /\ j \in 1..agg.total
         /\ \E x \in ElementReactions(g) : x.on_fulfilled = Element(id, j)
  BY OpenFacts
<1>3. i \in Open(h, id, agg)
  BY <1>1
<1>4. ASSUME NEW j PROVE j \in Open(g, id, A) <=> j \in Open(h, id, agg) /\ j # i
  <2>1. i \notin Open(g, id, A)
    BY <1>2
  <2>2. ASSUME j \in Open(h, id, agg), j # i PROVE j \in Open(g, id, A)
    <3>1. PICK x \in ElementReactions(h) : x.on_fulfilled = Element(id, j)
      BY <1>1, <2>2
    <3>2. x # r
      <4>1. i \in Nat /\ j \in Nat
        BY <1>1, <2>2
      <4> QED BY <2>2, <3>1, <4>1, ElementFacts
    <3> QED BY <1>1, <1>2, <2>2, <3>1, <3>2
  <2>3. ASSUME j \in Open(g, id, A) PROVE j \in Open(h, id, agg)
    BY <1>1, <1>2, <2>3
  <2> QED BY <2>1, <2>2, <2>3
<1>5. Open(g, id, A) = Open(h, id, agg) \ {i}
  BY <1>4
<1>6. IsFiniteSet(Open(h, id, agg))
  <2>1. Open(h, id, agg) \subseteq 1..agg.total
    BY <1>1
  <2>2. IsFiniteSet(1..agg.total)
    BY FS_Interval
  <2> QED BY <2>1, <2>2, FS_Subset
<1>7. /\ IsFiniteSet(Open(g, id, A))
      /\ Cardinality(Open(g, id, A)) = Cardinality(Open(h, id, agg)) - 1
  BY <1>3, <1>5, <1>6, FS_RemoveElement
<1>8. Cardinality(Open(g, id, A)) = 0 <=> Open(g, id, A) = {}
  BY <1>7, FS_EmptySet
<1>9. Cardinality(Open(h, id, agg)) \in Nat
  BY <1>6, FS_CardinalityType
<1> QED BY <1>3, <1>5, <1>6, <1>7, <1>8, <1>9

\* What an aggregation is when element i answers.
Asked(g, r, id, i, answer) ==
    /\ id \in DOMAIN aggs /\ i \in 1..aggs[id].total
    /\ r.on_fulfilled = Element(id, i)
    /\ Had(H, aggs[id], i, answer)
    /\ ElementReactions(H) = ElementReactions(g) \cup {r}
    /\ r \notin ElementReactions(g)

\* What its types say of an aggregation.
LEMMA AggregationTypes ==
    ASSUME JobsInv, NEW id \in DOMAIN aggs
    PROVE  /\ aggs \in Seq(Aggregations) /\ DOMAIN aggs = 1..Len(aggs)
           /\ Len(aggs) \in Nat /\ Len(aggs) <= MaxAggs
           /\ aggs[id] \in Aggregations /\ id \in Nat /\ id \in 1..MaxAggs
           /\ aggs[id].kind \in Kinds /\ aggs[id].total \in Nat
           /\ aggs[id].remaining \in Nat /\ aggs[id].rejections \in Nat
           /\ aggs[id].live \in BOOLEAN /\ aggs[id].result \in Nat
           /\ aggs[id].values \in Seq(Answered(Values))
           /\ AggregationInv(H, id, aggs[id])
           /\ aggs[id].result \in Natives /\ aggs[id].result \in AggregateResults
<1>1. aggs \in Seq(Aggregations) /\ Len(aggs) <= MaxAggs /\ AggsInv
  BY DEF JobsInv, TypeOK
<1>2. /\ DOMAIN aggs = 1..Len(aggs) /\ Len(aggs) \in Nat
      /\ aggs[id] \in Aggregations /\ id \in Nat
  BY <1>1
<1>3. id \in 1..MaxAggs
  BY <1>1, <1>2, BaseFacts
<1>4. aggs[id].result \in AggregateResults
  BY DEF AggregateResults
<1>5. AggregationInv(H, id, aggs[id])
  BY <1>1 DEF AggsInv
<1> QED BY <1>1, <1>2, <1>3, <1>4, <1>5 DEF Aggregations, Natives
\* Noted, field by field.
LEMMA NotedFacts ==
    ASSUME NEW agg \in Aggregations,
           agg.kind \in {"all", "allSettled"} => agg.remaining > 0,
           NEW i \in 1..Len(agg.values), NEW answer \in Answered(Values),
           NEW A, A = Noted(agg, i, answer)
    PROVE  /\ A \in Aggregations
           /\ A.kind = agg.kind /\ A.result = agg.result
           /\ A.elements = agg.elements /\ A.total = agg.total
           /\ Len(A.values) = Len(agg.values) /\ A.values[i] = answer
           /\ \A j \in 1..Len(agg.values) : j # i => A.values[j] = agg.values[j]
           /\ answer.fulfilled => A.rejections = agg.rejections
           /\ ~answer.fulfilled => A.rejections = agg.rejections + 1
           /\ agg.kind \in {"all", "allSettled"} => A.remaining = agg.remaining - 1
           /\ agg.kind \notin {"all", "allSettled"} => A.remaining = agg.remaining
           /\ A.live <=> ~Answers(agg, answer)
<1>1. PICK live \in BOOLEAN : live = ~Answers(agg, answer)
  OBVIOUS
<1>2. /\ agg.kind \in Kinds /\ agg.result \in Nat /\ agg.elements \in Seq(Nat)
      /\ agg.remaining \in Nat /\ agg.values \in Seq(Answered(Values))
      /\ agg.rejections \in Nat /\ agg.total \in Nat
  BY DEF Aggregations
<1>3. PICK values : values = [agg.values EXCEPT ![i] = answer]
  OBVIOUS
<1>4. /\ values \in Seq(Answered(Values)) /\ Len(values) = Len(agg.values)
      /\ values[i] = answer
      /\ \A j \in 1..Len(agg.values) : j # i => values[j] = agg.values[j]
  BY <1>2, <1>3
<1>5. PICK rejections \in Nat :
         /\ rejections = IF answer.fulfilled THEN agg.rejections
                         ELSE agg.rejections + 1
  BY <1>2
<1>6. PICK remaining \in Nat :
         remaining = IF agg.kind \in {"all", "allSettled"} THEN agg.remaining - 1
                     ELSE agg.remaining
  BY <1>2
<1>7. A = [agg EXCEPT !.values = values, !.rejections = rejections,
                      !.remaining = remaining, !.live = live]
  BY <1>1, <1>3, <1>5, <1>6 DEF Noted, Aggregations
<1>8. /\ A = [kind |-> agg.kind, result |-> agg.result,
              elements |-> agg.elements, remaining |-> remaining,
              values |-> values, rejections |-> rejections,
              total |-> agg.total, live |-> live]
  BY <1>7 DEF Aggregations
<1>9. A \in Aggregations
  BY <1>1, <1>2, <1>4, <1>5, <1>6, <1>8 DEF Aggregations
<1>10. A.live <=> ~Answers(agg, answer)
  <2>1. A.live = live
    BY <1>8
  <2>2. live <=> ~Answers(agg, answer)
    BY ONLY <1>1, Zenon
  <2> QED BY <2>1, <2>2
<1> QED BY <1>4, <1>5, <1>6, <1>8, <1>9, <1>10
\* What the heap of an aggregation becomes when its element i has answered.
Shrunk(h, g, id, agg, A, i) ==
    /\ i \in Open(h, id, agg)
    /\ Open(g, id, A) = Open(h, id, agg) \ {i}
    /\ Cardinality(Open(g, id, A)) = Cardinality(Open(h, id, agg)) - 1
    /\ Cardinality(Open(h, id, agg)) \in Nat
    /\ Cardinality(Open(g, id, A)) = 0 <=> Open(g, id, A) = {}

\* An answer that does not decide is noticed.
LEMMA AnswerNoticed ==
    ASSUME NEW h, NEW g, NEW T, Keeps(h, g, T), NEW id,
           NEW agg \in Aggregations, AggregationInv(h, id, agg), agg.live,
           agg.result \notin T, NEW i \in 1..agg.total,
           NEW answer \in Answered(Values), Had(h, agg, i, answer),
           NEW A, A = Noted(agg, i, answer), Shrunk(h, g, id, agg, A, i),
           ~Answers(agg, answer),
           agg.kind \in {"all", "allSettled"} => agg.remaining > 0
    PROVE  AggregationInv(g, id, A)
<1>1. /\ agg.kind \in Kinds /\ agg.remaining \in Nat
      /\ agg.rejections \in Nat /\ agg.total \in Nat
      /\ answer.fulfilled \in BOOLEAN
  BY DEF Aggregations, Answered
<1>2. /\ Len(agg.elements) = agg.total /\ Len(agg.values) = agg.total
      /\ agg.result \in DOMAIN h.promises
      /\ \A j \in 1..agg.total : agg.elements[j] \in DOMAIN h.promises
      /\ Counted(h, id, agg) /\ Noticed(h, id, agg)
  BY DEF AggregationInv
<1>3. /\ A.kind = agg.kind /\ A.result = agg.result
      /\ A.elements = agg.elements /\ A.total = agg.total
      /\ Len(A.values) = agg.total /\ A.values[i] = answer
      /\ \A j \in 1..agg.total : j # i => A.values[j] = agg.values[j]
      /\ answer.fulfilled => A.rejections = agg.rejections
      /\ ~answer.fulfilled => A.rejections = agg.rejections + 1
      /\ agg.kind \in {"all", "allSettled"} => A.remaining = agg.remaining - 1
      /\ agg.kind \notin {"all", "allSettled"} => A.remaining = agg.remaining
      /\ A.live
  BY <1>2, NotedFacts
<1>4. /\ agg.kind # "race"
      /\ agg.kind = "all" => answer.fulfilled /\ agg.remaining # 1
      /\ agg.kind = "allSettled" => agg.remaining # 1
      /\ agg.kind = "any" => ~answer.fulfilled /\ agg.rejections + 1 # agg.total
  BY <1>1 DEF Answers
<1>5. /\ Pending(h, agg.result)
      /\ agg.kind = "any" =>
            Cardinality(Open(h, id, agg)) = agg.total - agg.rejections
      /\ agg.kind # "any" => Cardinality(Open(h, id, agg)) = agg.remaining
  BY <1>2 DEF Counted
<1>6. Pending(g, A.result)
  BY <1>2, <1>3, <1>5 DEF Keeps
<1>7. /\ A.kind = "any" =>
            Cardinality(Open(g, id, A)) = A.total - A.rejections
      /\ A.kind # "any" => Cardinality(Open(g, id, A)) = A.remaining
      /\ Cardinality(Open(g, id, A)) # 0
  <2>1. CASE agg.kind = "any"
    BY <1>1, <1>3, <1>4, <1>5, <2>1 DEF Shrunk
  <2>2. CASE agg.kind \in {"all", "allSettled"}
    BY <1>1, <1>3, <1>4, <1>5, <2>2 DEF Shrunk
  <2> QED BY <1>1, <1>4, <2>1, <2>2 DEF Kinds
<1>8. Counted(g, id, A)
  BY <1>6, <1>7 DEF Counted, Shrunk
<1>9. Noticed(g, id, A)
  <2> SUFFICES ASSUME NEW j \in (1..A.total) \ Open(g, id, A)
               PROVE  /\ Had(g, A, j, A.values[j])
                      /\ A.kind = "all" => A.values[j].fulfilled
                      /\ A.kind = "any" => ~A.values[j].fulfilled
                      /\ A.kind # "race"
    BY DEF Noticed
  <2>1. /\ Had(h, agg, j, A.values[j])
        /\ A.kind = "all" => A.values[j].fulfilled
        /\ A.kind = "any" => ~A.values[j].fulfilled
    <3>1. CASE j = i
      BY <1>3, <1>4, <3>1
    <3>2. CASE j # i
      <4>1. j \in (1..agg.total) \ Open(h, id, agg) /\ A.values[j] = agg.values[j]
        BY <1>3, <3>2 DEF Shrunk
      <4> QED BY <1>2, <1>3, <4>1 DEF Noticed
    <3> QED BY <3>1, <3>2
  <2>2. Had(g, agg, j, A.values[j])
    BY <1>2, <1>3, <2>1, HadKept
  <2> QED BY <1>3, <1>4, <2>1, <2>2 DEF Had
<1>10. /\ A.result \in DOMAIN g.promises
       /\ \A j \in 1..A.total : A.elements[j] \in DOMAIN g.promises
  BY <1>2, <1>3 DEF Keeps
<1> QED BY <1>2, <1>3, <1>8, <1>9, <1>10 DEF AggregationInv
\* Verdict, by kinds.
LEMMA VerdictFacts ==
    ASSUME NEW id, NEW agg, agg.kind \in Kinds, NEW answer \in Answered(Values),
           NEW verdict, verdict = Verdict(id, agg, answer)
    PROVE  /\ agg.kind = "allSettled" \/ (agg.kind = "all" /\ answer.fulfilled) =>
                 verdict = Outcome(TRUE, Array(id))
           /\ agg.kind = "any" /\ ~answer.fulfilled =>
                 verdict = Outcome(FALSE, AggregateError(id))
           /\ agg.kind = "race" => verdict = answer
           /\ agg.kind = "all" /\ ~answer.fulfilled => verdict = answer
           /\ agg.kind = "any" /\ answer.fulfilled => verdict = answer
           /\ Answers(agg, answer) =>
                /\ agg.kind = "allSettled" => agg.remaining = 1
                /\ agg.kind = "all" /\ answer.fulfilled => agg.remaining = 1
                /\ agg.kind = "any" /\ ~answer.fulfilled =>
                      agg.rejections + 1 = agg.total
<1>1. answer.fulfilled \in BOOLEAN
  BY DEF Answered
<1>2. CASE agg.kind = "all"
  BY <1>1, <1>2 DEF Verdict, Answers
<1>3. CASE agg.kind = "any"
  BY <1>1, <1>3 DEF Verdict, Answers
<1>4. CASE agg.kind = "race"
  BY <1>1, <1>4 DEF Verdict, Answers
<1>5. CASE agg.kind = "allSettled"
  BY <1>1, <1>5 DEF Verdict, Answers
<1> QED BY <1>2, <1>3, <1>4, <1>5 DEF Kinds

\* An answer that decides verifies the result.
LEMMA AnswerDecides ==
    ASSUME NEW h, NEW g, NEW T, Keeps(h, g, T), NEW id,
           NEW agg \in Aggregations, AggregationInv(h, id, agg), agg.live,
           NEW i \in 1..agg.total,
           NEW answer \in Answered(Values), Had(h, agg, i, answer),
           NEW A, A = Noted(agg, i, answer), Shrunk(h, g, id, agg, A, i),
           Answers(agg, answer),
           agg.kind \in {"all", "allSettled"} => agg.remaining > 0,
           NEW verdict, verdict = Verdict(id, agg, answer),
           NEW r, r = g.promises[agg.result], r.value = verdict.value,
           r.state = IF verdict.fulfilled THEN "Fulfilled" ELSE "Rejected"
    PROVE  AggregationInv(g, id, A)
<1>1. /\ agg.kind \in Kinds /\ agg.remaining \in Nat
      /\ agg.rejections \in Nat /\ agg.total \in Nat
      /\ answer.fulfilled \in BOOLEAN
  BY DEF Aggregations, Answered
<1>2. /\ Len(agg.elements) = agg.total /\ Len(agg.values) = agg.total
      /\ agg.result \in DOMAIN h.promises
      /\ \A j \in 1..agg.total : agg.elements[j] \in DOMAIN h.promises
      /\ Counted(h, id, agg) /\ Noticed(h, id, agg)
  BY DEF AggregationInv
<1>3. /\ A.kind = agg.kind /\ A.result = agg.result
      /\ A.elements = agg.elements /\ A.total = agg.total
      /\ Len(A.values) = agg.total /\ A.values[i] = answer
      /\ \A j \in 1..agg.total : j # i => A.values[j] = agg.values[j]
      /\ ~A.live
  BY <1>2, NotedFacts
<1>4. /\ A.result \in DOMAIN g.promises
      /\ \A j \in 1..A.total : A.elements[j] \in DOMAIN g.promises
  BY <1>2, <1>3 DEF Keeps
<1>5. r = g.promises[A.result]
  BY <1>3
<1>6. \A x, j : Had(g, agg, j, x) <=> Had(g, A, j, x)
  BY <1>3 DEF Had
<1>7. Had(g, A, i, answer)
  BY <1>2, <1>6, HadKept
<1>8. ASSUME verdict = answer PROVE Some(g, A)
  <2>1. PICK o : o = Outcome(r.state = "Fulfilled", r.value)
    OBVIOUS
  <2>2. o.value = answer.value
    BY <1>8, <2>1 DEF Outcome
  <2>3. o.fulfilled <=> answer.fulfilled
    <3>1. o.fulfilled <=> r.state = "Fulfilled"
      BY <2>1 DEF Outcome
    <3>2. r.state = "Fulfilled" <=> answer.fulfilled
      BY <1>8
    <3> QED BY <3>1, <3>2
  <2>4. Had(g, A, i, o)
    BY <1>7, <2>2, <2>3 DEF Had
  <2>5. Some(g, A) <=> \E j \in 1..A.total : Had(g, A, j, o)
    BY <1>5, <2>1 DEF Some
  <2> QED BY <1>3, <2>4, <2>5
<1>9. ASSUME Cardinality(Open(h, id, agg)) = 1
      PROVE  \A j \in 1..agg.total :
                /\ Had(g, A, j, A.values[j])
                /\ A.values[j] \in {answer, agg.values[j]}
                /\ j # i => /\ agg.kind = "all" => A.values[j].fulfilled
                            /\ agg.kind = "any" => ~A.values[j].fulfilled
  <2> SUFFICES ASSUME NEW j \in 1..agg.total
               PROVE  /\ Had(g, A, j, A.values[j])
                      /\ A.values[j] \in {answer, agg.values[j]}
                      /\ j # i => /\ agg.kind = "all" => A.values[j].fulfilled
                                  /\ agg.kind = "any" => ~A.values[j].fulfilled
    OBVIOUS
  <2>1. Open(g, id, A) = {}
    BY <1>9 DEF Shrunk
  <2>2. CASE j = i
    BY <1>3, <1>7, <2>2
  <2>3. CASE j # i
    <3>1. j \in (1..agg.total) \ Open(h, id, agg) /\ A.values[j] = agg.values[j]
      BY <1>3, <2>1, <2>3 DEF Shrunk
    <3>2. /\ Had(h, agg, j, A.values[j])
          /\ agg.kind = "all" => A.values[j].fulfilled
          /\ agg.kind = "any" => ~A.values[j].fulfilled
      BY <1>2, <3>1 DEF Noticed
    <3> QED BY <1>2, <1>6, <3>1, <3>2, HadKept
  <2> QED BY <2>2, <2>3
<1>10. /\ agg.kind = "any" =>
             Cardinality(Open(h, id, agg)) = agg.total - agg.rejections
       /\ agg.kind # "any" => Cardinality(Open(h, id, agg)) = agg.remaining
  BY <1>2 DEF Counted
<1>11. \A j \in 1..agg.total : A.values[j].fulfilled \in BOOLEAN
  <2>1. A.values \in Seq(Answered(Values))
    <3>1. A \in Aggregations
      BY <1>2, NotedFacts
    <3> QED BY <3>1 DEF Aggregations
  <2>2. \A j \in 1..agg.total : A.values[j] \in Answered(Values)
    BY <1>3, <2>1
  <2> QED BY <2>2 DEF Answered
<1>14. /\ agg.kind = "any" /\ ~answer.fulfilled =>
             /\ verdict = Outcome(FALSE, AggregateError(id))
             /\ agg.rejections + 1 = agg.total
       /\ agg.kind = "all" /\ answer.fulfilled =>
             verdict = Outcome(TRUE, Array(id)) /\ agg.remaining = 1
       /\ agg.kind = "allSettled" =>
             verdict = Outcome(TRUE, Array(id)) /\ agg.remaining = 1
  <2>1. /\ agg.kind \in Kinds /\ answer \in Answered(Values)
        /\ verdict = Verdict(id, agg, answer) /\ Answers(agg, answer)
    BY <1>1
  <2> QED BY ONLY <2>1, VerdictFacts
<1>12. Verified(g, id, A)
  <2>1. CASE agg.kind = "race"
    <3>1. verdict = answer
      BY <2>1 DEF Verdict
    <3> QED BY <1>3, <1>8, <2>1, <3>1, VerifiedFacts
  <2>2. CASE agg.kind = "all" /\ ~answer.fulfilled
    <3>1. verdict = answer
      BY <1>1, <2>2 DEF Verdict
    <3>2. r.state # "Fulfilled"
      BY <2>2, <3>1
    <3> QED BY <1>3, <1>5, <1>8, <2>2, <3>1, <3>2, VerifiedFacts
  <2>3. CASE agg.kind = "any" /\ answer.fulfilled
    <3>1. verdict = answer
      BY <1>1, <2>3 DEF Verdict
    <3>2. r.state = "Fulfilled"
      BY <2>3, <3>1
    <3> QED BY <1>3, <1>5, <1>8, <2>3, <3>1, <3>2, VerifiedFacts
  <2>4. CASE agg.kind = "all" /\ answer.fulfilled
    <3>1. verdict = Outcome(TRUE, Array(id)) /\ agg.remaining = 1
      BY <1>14, <2>4
    <3>2. r.state = "Fulfilled" /\ r.value = Array(id)
      BY <3>1 DEF Outcome
    <3>3. \A j \in 1..A.total : /\ A.values[j].fulfilled
                                /\ Had(g, A, j, A.values[j])
      BY <1>3, <1>9, <1>10, <2>4, <3>1
    <3>4. Every(g, A, {TRUE})
      BY <1>3, <1>11, <3>3 DEF Every
    <3> QED BY <1>3, <1>5, <2>4, <3>2, <3>4, VerifiedFacts
  <2>5. CASE agg.kind = "any" /\ ~answer.fulfilled
    <3>1. /\ verdict = Outcome(FALSE, AggregateError(id))
          /\ agg.rejections + 1 = agg.total
      BY <1>14, <2>5
    <3>2. r.state # "Fulfilled" /\ r.value = AggregateError(id)
      BY <3>1 DEF Outcome
    <3>3. Cardinality(Open(h, id, agg)) = 1
      BY <1>1, <1>10, <2>5, <3>1
    <3>4. \A j \in 1..A.total : /\ ~A.values[j].fulfilled
                                /\ Had(g, A, j, A.values[j])
      BY <1>3, <1>9, <2>5, <3>3
    <3>5. Every(g, A, {FALSE})
      BY <1>3, <1>11, <3>4 DEF Every
    <3> QED BY <1>3, <1>5, <2>5, <3>2, <3>5, VerifiedFacts
  <2>6. CASE agg.kind = "allSettled"
    <3>1. verdict = Outcome(TRUE, Array(id)) /\ agg.remaining = 1
      BY <1>14, <2>6
    <3>2. r.state = "Fulfilled" /\ r.value = Array(id)
      BY <3>1 DEF Outcome
    <3>3. \A j \in 1..A.total : Had(g, A, j, A.values[j])
      BY <1>3, <1>9, <1>10, <2>6, <3>1
    <3>4. Every(g, A, BOOLEAN)
      BY <1>3, <1>11, <3>3 DEF Every
    <3> QED BY <1>3, <1>5, <2>6, <3>2, <3>4, VerifiedFacts
  <2> QED BY <1>1, <2>1, <2>2, <2>3, <2>4, <2>5, <2>6 DEF Kinds
<1>13. ~Pending(g, A.result) /\ A.total # 0
  BY <1>1, <1>3, <1>5 DEF Pending
<1> QED BY <1>2, <1>3, <1>4, <1>12, <1>13 DEF AggregationInv

\* A step that may change aggregations and leaves the stack alone.
LEMMA ElementStep ==
    ASSUME JobsInv, NEW g, NEW T, WellFormed(Values, g, Owners, Natives),
           Keeps(H, g, T), Len(g.promises) <= MaxPromises, Becomes(g),
           AggsInv', AggregateResults' = AggregateResults,
           aggs' \in Seq(Aggregations), Len(aggs') <= MaxAggs,
           UNCHANGED <<stack, settlers, known, abandoned, limits>>
    PROVE  StepInv
<1>1. g \in Heaps(Values)
  BY DEF WellFormed
<1>2. promises' = g.promises
  BY <1>1, NextHeap
<1>3. Promise \subseteq DOMAIN promises'
  BY <1>2 DEF Keeps, Promise, H
<1>4. StackStep /\ Owners' = Owners
  BY <1>3, SameStack
<1>5. Natives' = Natives
  BY DEF Natives
<1>6. RestStep
  BY <1>3, BaseFacts DEF RestStep
<1>7. TypeOK' /\ Owed(H', Owners', Natives')
  BY <1>4, <1>5, <1>6, TypeKept
<1>8. KeepsOutcomes
  BY <1>1, OutcomesKept
<1>9. JobsInv'
  BY <1>4, <1>7 DEF JobsInv, StackStep, Natives
<1>10. PassesOn
  BY NoPass
<1> QED BY <1>8, <1>9, <1>10 DEF StepInv

\* The job of an element's reaction asks its aggregation.
LEMMA ElementAsked ==
    ASSUME JobsInv, NEW h, NEW job, NEW r, r = job.reaction,
           job.kind = "reaction", Picked(h, job, r.target),
           "element" = (IF job.fulfilled THEN r.on_fulfilled
                        ELSE r.on_rejected).kind,
           NEW answer, answer = Outcome(job.fulfilled, job.argument)
    PROVE  /\ answer \in Answered(Values)
           /\ Asked(h, r, r.on_fulfilled.agg, r.on_fulfilled.index, answer)
<1>1. r \in ElementReactions(H) /\ IsElement(r)
  <2>1. r \in Outstanding(H)
    BY DEF Picked, ReactionOf
  <2>2. IsElement(r)
    BY DEF IsElement
  <2> QED BY <2>1, <2>2 DEF ElementReactions, IsElement
<1>2. ElementReactions(H) = ElementReactions(h) \cup {r}
  BY <1>1 DEF Picked, ReactionOf
<1>3. r \notin ElementReactions(h)
  BY DEF Picked, ElementReactions
<1>4. ElementsInv(H, aggs)
  BY DEF JobsInv, AggsInv
<1>5. PICK id \in DOMAIN aggs : \E i \in 1..aggs[id].total :
         r.on_fulfilled = Element(id, i) /\ r.source = aggs[id].elements[i]
  BY <1>1, <1>4 DEF ElementsInv
<1>6. PICK i \in 1..aggs[id].total :
         r.on_fulfilled = Element(id, i) /\ r.source = aggs[id].elements[i]
  BY <1>5
<1>7. id \in Nat /\ i \in Nat
  BY AggregationTypes
<1>8. r.on_fulfilled.agg = id /\ r.on_fulfilled.index = i
  BY <1>6, <1>7, ElementFacts
<1>9. job.fulfilled \in BOOLEAN /\ job.argument \in Values
  BY DEF Picked, Jobs
<1>10. answer \in Answered(Values)
  BY <1>9 DEF Answered, Outcome
<1>11. Had(H, aggs[id], i, answer)
  <2>1. /\ H.promises[r.source].state =
              IF job.fulfilled THEN "Fulfilled" ELSE "Rejected"
        /\ H.promises[r.source].value = job.argument
    BY DEF Picked, CarriesOutcome
  <2>2. answer.fulfilled = job.fulfilled /\ answer.value = job.argument
    BY DEF Outcome
  <2> QED BY <1>6, <2>1, <2>2 DEF Had
<1> QED BY <1>2, <1>3, <1>6, <1>8, <1>10, <1>11 DEF Asked
\* An element that answers when its aggregation is over.
LEMMA ElementLate ==
    ASSUME JobsInv, NEW h, NEW job, NEW r, Picked(h, job, r.target),
           NEW id, NEW i, NEW answer, Asked(h, r, id, i, answer),
           ~aggs[id].live,
           Becomes(Settle(h, r.target, "Rejected", NoAggregate)), aggs' = aggs,
           UNCHANGED <<stack, settlers, known, abandoned, limits>>
    PROVE  StepInv
<1> DEFINE t == r.target
<1>1. /\ WellFormed(Values, h, Owners \cup {t}, Natives)
      /\ h.promises = promises /\ Keeps(H, h, {})
      /\ t \notin Owners /\ t \notin Natives
  BY DEF Picked
<1> HIDE DEF t
<1>2. PICK g : g = Settle(h, t, "Rejected", NoAggregate)
  OBVIOUS
<1>3. Settled(Values, h, g, Owners \cup {t}, Natives, t, "Rejected", NoAggregate)
  <2>1. NoAggregate \in Values
    BY BaseFacts DEF Closed
  <2> QED BY <1>1, <1>2, <2>1, SettleStep
<1>4. /\ WellFormed(Values, g, (Owners \cup {t}) \ {t}, Natives)
      /\ Keeps(h, g, {t}) /\ DOMAIN g.promises = DOMAIN h.promises
      /\ Outstanding(g) = Outstanding(h)
  BY <1>3 DEF Settled
<1>5. WellFormed(Values, g, Owners, Natives) /\ g \in Heaps(Values)
  <2>1. (Owners \cup {t}) \ {t} = Owners
    BY <1>1
  <2> QED BY <1>4, <2>1 DEF WellFormed
<1>6. Keeps(H, g, {t})
  BY <1>1, <1>4, KeepsTransitive
<1>7. ElementReactions(g) = ElementReactions(h)
  BY <1>4 DEF ElementReactions
<1>8. Becomes(g)
  BY <1>2 DEF t
<1>9. /\ id \in DOMAIN aggs /\ i \in 1..aggs[id].total
      /\ r.on_fulfilled = Element(id, i)
      /\ ElementReactions(H) = ElementReactions(g) \cup {r}
      /\ r \notin ElementReactions(g)
  BY <1>7 DEF Asked
<1>10. PICK A : A = aggs[id]
  OBVIOUS
<1>11. /\ aggs \in Seq(Aggregations) /\ Len(aggs) <= MaxAggs
       /\ A.kind \in Kinds /\ A.total \in Nat /\ AggregationInv(H, id, A)
       /\ A.result \in Natives
  BY <1>9, <1>10, AggregationTypes
<1>12. aggs' = [aggs EXCEPT ![id] = A]
  BY <1>10, <1>11
<1>13. A.result \notin {t} /\ {t} \cap AggregateResults = {}
  BY <1>1, <1>11 DEF Natives
<1>14. AggregationInv(g, id, A)
  <2>1. ~A.live
    BY <1>10
  <2> QED BY <1>6, <1>11, <1>13, <2>1, AggregationKept
<1>15. AggsInv' /\ AggregateResults' = AggregateResults
  <2>1. i \in Nat
    BY <1>9, <1>10, <1>11
  <2>2. /\ {t} \cap AggregateResults \subseteq {aggs[id].result}
        /\ A.result = aggs[id].result /\ A.elements = aggs[id].elements
        /\ A.total = aggs[id].total /\ settlers' = settlers
    BY <1>10, <1>13
  <2> QED BY <1>5, <1>6, <1>8, <1>9, <1>12, <1>14, <2>1, <2>2, ElementAnswered
<1>16. Len(g.promises) <= MaxPromises
  <2>1. Len(g.promises) = Len(h.promises)
    BY <1>1, <1>4, <1>5, Lengths DEF WellFormed
  <2> QED BY <1>1, <2>1, BaseFacts
<1> QED BY <1>5, <1>6, <1>8, <1>11, <1>15, <1>16, ElementStep

\* Its verdict is a value.
LEMMA VerdictValue ==
    ASSUME JobsInv, NEW id \in 1..MaxAggs, NEW agg,
           NEW answer \in Answered(Values)
    PROVE  Verdict(id, agg, answer).value \in Values
<1>1. answer.value \in Values
  BY DEF Answered
<1>2. Array(id) \in Values /\ AggregateError(id) \in Values
  BY DEF Values
<1>3. \/ Verdict(id, agg, answer) = Outcome(TRUE, Array(id))
      \/ Verdict(id, agg, answer) = Outcome(FALSE, AggregateError(id))
      \/ Verdict(id, agg, answer) = answer
  BY DEF Verdict
<1> QED BY <1>1, <1>2, <1>3 DEF Outcome
\* What the answer makes of the result, before the reaction's own child.
ResultSettled(h, m, q, t, s, v) ==
    /\ WellFormed(Values, m, Owners \cup {t}, Natives)
    /\ Keeps(H, m, {q}) /\ DOMAIN m.promises = DOMAIN h.promises
    /\ Outstanding(m) = Outstanding(h)
    /\ m.promises[q].state = s /\ m.promises[q].value = v

LEMMA ResultStep ==
    ASSUME JobsInv, NEW h, NEW job, NEW t, Picked(h, job, t),
           NEW q \in AggregateResults, Pending(H, q), NEW v \in Values,
           NEW s \in {"Fulfilled", "Rejected"}, NEW m, m = Settle(h, q, s, v)
    PROVE  ResultSettled(h, m, q, t, s, v)
<1>1. /\ WellFormed(Values, h, Owners \cup {t}, Natives)
      /\ h.promises = promises /\ Keeps(H, h, {})
      /\ t \notin Owners /\ t \notin Natives
  BY DEF Picked
<1>2. q \in Natives /\ q \notin Owners /\ q # t
  BY <1>1, StackFacts DEF Natives
<1>3. Settled(Values, h, m, Owners \cup {t}, Natives, q, s, v)
  BY <1>1, <1>2, SettleStep
<1>4. Pending(h, q)
  <2>1. H.promises = promises
    BY BaseFacts
  <2> QED BY <1>1, <2>1 DEF Pending
<1>5. (Owners \cup {t}) \ {q} = Owners \cup {t}
  BY <1>2
<1>6. /\ WellFormed(Values, m, (Owners \cup {t}) \ {q}, Natives)
      /\ Keeps(h, m, {q}) /\ DOMAIN m.promises = DOMAIN h.promises
      /\ Outstanding(m) = Outstanding(h)
      /\ m.promises[q].state = s /\ m.promises[q].value = v
  BY <1>3, <1>4 DEF Settled
<1>7. Keeps(H, m, {q})
  BY <1>1, <1>6, KeepsTransitive
<1>8. WellFormed(Values, m, Owners \cup {t}, Natives)
  BY <1>5, <1>6
<1> QED BY <1>6, <1>7, <1>8 DEF ResultSettled

\* An element that answers a live aggregation.
LEMMA ElementInTime ==
    ASSUME JobsInv, NEW h, NEW job, NEW r, Picked(h, job, r.target),
           NEW id, NEW i, NEW answer \in Answered(Values),
           Asked(h, r, id, i, answer), NEW agg, agg = aggs[id], agg.live,
           NEW verdict, verdict = Verdict(id, agg, answer), NEW m,
           m = IF Answers(agg, answer)
               THEN Settle(h, agg.result,
                           IF verdict.fulfilled THEN "Fulfilled" ELSE "Rejected",
                           verdict.value)
               ELSE h,
           Becomes(Settle(m, r.target, "Fulfilled", Undefined)),
           aggs' = [aggs EXCEPT ![id] = Noted(agg, i, answer)],
           UNCHANGED <<stack, settlers, known, abandoned, limits>>
    PROVE  StepInv
<1> DEFINE T == {q \in {agg.result} : Answers(agg, answer)}
<1>0. PICK t : t = r.target
  OBVIOUS
<1>1. /\ WellFormed(Values, h, Owners \cup {t}, Natives)
      /\ h.promises = promises /\ Keeps(H, h, {})
      /\ t \notin Owners /\ t \notin Natives
      /\ Picked(h, job, t)
  BY <1>0 DEF Picked
<1>2. Becomes(Settle(m, t, "Fulfilled", Undefined))
  BY <1>0
<1>3. /\ id \in DOMAIN aggs /\ i \in 1..agg.total
      /\ r.on_fulfilled = Element(id, i) /\ Had(H, agg, i, answer)
      /\ ElementReactions(H) = ElementReactions(h) \cup {r}
      /\ r \notin ElementReactions(h)
  BY DEF Asked
<1>4. /\ aggs \in Seq(Aggregations) /\ Len(aggs) \in Nat
      /\ Len(aggs) <= MaxAggs /\ id \in Nat /\ id \in 1..MaxAggs
      /\ agg \in Aggregations /\ agg.kind \in Kinds /\ agg.total \in Nat
      /\ agg.remaining \in Nat /\ agg.rejections \in Nat
      /\ AggregationInv(H, id, agg) /\ agg.result \in Natives
      /\ agg.result \in AggregateResults
  BY <1>3, AggregationTypes
<1>5. /\ Len(agg.values) = agg.total /\ Pending(H, agg.result)
      /\ Cardinality(Open(H, id, agg)) = IF agg.kind = "any"
                                         THEN agg.total - agg.rejections
                                         ELSE agg.remaining
  BY <1>4 DEF AggregationInv, Counted
<1>6. /\ WellFormed(Values, m, Owners \cup {t}, Natives)
      /\ Keeps(H, m, T) /\ DOMAIN m.promises = DOMAIN h.promises
      /\ Outstanding(m) = Outstanding(h)
      /\ Answers(agg, answer) =>
            /\ m.promises[agg.result].value = verdict.value
            /\ m.promises[agg.result].state =
                  IF verdict.fulfilled THEN "Fulfilled" ELSE "Rejected"
  <2>1. CASE Answers(agg, answer)
    <3>1. PICK s \in {"Fulfilled", "Rejected"} :
             s = IF verdict.fulfilled THEN "Fulfilled" ELSE "Rejected"
      OBVIOUS
    <3>2. PICK v \in Values : v = verdict.value
      BY <1>4, VerdictValue
    <3>3. m = Settle(h, agg.result, s, v)
      BY <2>1, <3>1, <3>2
    <3>4. T = {agg.result}
      BY <2>1
    <3>5. PICK q \in AggregateResults : q = agg.result
      BY <1>4
    <3>6. Pending(H, q) /\ m = Settle(h, q, s, v)
      BY <1>5, <3>3, <3>5
    <3>7. ResultSettled(h, m, q, t, s, v)
      BY ONLY JobsInv, <1>1, <3>6, ResultStep
    <3> QED BY <3>1, <3>2, <3>4, <3>5, <3>7 DEF ResultSettled
  <2>2. CASE ~Answers(agg, answer)
    BY <1>1, <2>2
  <2> QED BY <2>1, <2>2
<1>7. T \subseteq {agg.result} /\ (agg.result \in T <=> Answers(agg, answer))
  OBVIOUS
<1> HIDE DEF T
<1>8. PICK g : g = Settle(m, t, "Fulfilled", Undefined)
  OBVIOUS
<1>9. Settled(Values, m, g, Owners \cup {t}, Natives, t, "Fulfilled", Undefined)
  <2>1. Undefined \in Values
    BY BaseFacts DEF Closed
  <2> QED BY <1>6, <1>8, <2>1, SettleStep
<1>10. /\ WellFormed(Values, g, (Owners \cup {t}) \ {t}, Natives)
       /\ Keeps(m, g, {t}) /\ DOMAIN g.promises = DOMAIN m.promises
       /\ Outstanding(g) = Outstanding(m)
  BY <1>9 DEF Settled
<1>11. WellFormed(Values, g, Owners, Natives) /\ g \in Heaps(Values)
  <2>1. (Owners \cup {t}) \ {t} = Owners
    BY <1>1
  <2> QED BY <1>10, <2>1 DEF WellFormed
<1>12. Keeps(H, g, T \cup {t})
  <2>1. Keeps(H, m, T) /\ Keeps(m, g, {t})
    BY <1>6, <1>10
  <2>2. (T \cup {t}) \cap DOMAIN H.promises \subseteq T \cup {t}
    OBVIOUS
  <2> QED BY ONLY <2>1, <2>2, KeepsTransitive
<1>13. ElementReactions(g) = ElementReactions(h)
  BY <1>6, <1>10 DEF ElementReactions
<1>14. Becomes(g)
  BY <1>2, <1>8
<1>15. PICK A : A = Noted(agg, i, answer)
  OBVIOUS
<1>16. /\ ElementReactions(H) = ElementReactions(g) \cup {r}
       /\ r \notin ElementReactions(g)
       /\ \A x, y \in ElementReactions(H) :
             x.on_fulfilled = y.on_fulfilled => x = y
  <2>1. ElementsInv(H, aggs)
    BY DEF JobsInv, AggsInv
  <2> QED BY <1>3, <1>13, <2>1 DEF ElementsInv
<1>17. A.total = agg.total
  BY <1>4, <1>15 DEF Noted, Aggregations
<1>18. Shrunk(H, g, id, agg, A, i)
  BY <1>3, <1>4, <1>16, <1>17, OneLessOpen DEF Shrunk
<1>19. agg.kind \in {"all", "allSettled"} => agg.remaining > 0
  <2>1. /\ IsFiniteSet(Open(H, id, agg)) /\ i \in Open(H, id, agg)
        /\ Cardinality(Open(H, id, agg)) \in Nat
    BY <1>3, <1>4, <1>16, <1>17, OneLessOpen
  <2>2. Cardinality(Open(H, id, agg)) # 0
    BY <2>1, FS_EmptySet
  <2> QED BY <1>4, <1>5, <2>1, <2>2
<1>20. /\ A \in Aggregations /\ A.kind = agg.kind /\ A.result = agg.result
       /\ A.elements = agg.elements
  BY <1>3, <1>4, <1>5, <1>15, <1>19, NotedFacts
<1>21. agg.result # t /\ agg.result \in DOMAIN m.promises
  <2>1. agg.result \in DOMAIN H.promises
    BY <1>4 DEF AggregationInv
  <2> QED BY <1>1, <1>4, <1>6, <2>1 DEF Keeps
<1>22. AggregationInv(g, id, A)
  <2>1. CASE Answers(agg, answer)
    <3>1. PICK result : result = g.promises[agg.result]
      OBVIOUS
    <3>2. /\ m.promises[agg.result].value = verdict.value
          /\ m.promises[agg.result].state =
                IF verdict.fulfilled THEN "Fulfilled" ELSE "Rejected"
      BY <1>6, <2>1
    <3>3. ~Pending(m, agg.result)
      BY <3>2 DEF Pending
    <3>4. result = m.promises[agg.result]
      BY <1>10, <1>21, <3>1, <3>3 DEF Keeps
    <3>5. /\ result.value = verdict.value
          /\ result.state = IF verdict.fulfilled THEN "Fulfilled" ELSE "Rejected"
      BY <3>2, <3>4
    <3> QED BY <1>3, <1>4, <1>12, <1>15, <1>18, <1>19, <2>1, <3>1, <3>5,
               AnswerDecides
  <2>2. CASE ~Answers(agg, answer)
    <3>1. agg.result \notin T \cup {t}
      BY <1>7, <1>21, <2>2
    <3> QED BY <1>3, <1>4, <1>12, <1>15, <1>18, <1>19, <2>2, <3>1, AnswerNoticed
  <2> QED BY <2>1, <2>2
<1>23. AggsInv' /\ AggregateResults' = AggregateResults
  <2>1. i \in Nat
    BY <1>3, <1>4
  <2>2. (T \cup {t}) \cap AggregateResults \subseteq {aggs[id].result}
    BY <1>1, <1>7 DEF Natives
  <2>3. /\ A.result = aggs[id].result /\ A.elements = aggs[id].elements
        /\ A.total = aggs[id].total /\ settlers' = settlers
    BY <1>17, <1>20
  <2>4. aggs' = [aggs EXCEPT ![id] = A]
    BY <1>15
  <2>5. PICK U : U = T \cup {t}
    OBVIOUS
  <2>6. Keeps(H, g, U) /\ U \cap AggregateResults \subseteq {aggs[id].result}
    BY <1>12, <2>2, <2>5
  <2>7. g \in Heaps(Values) /\ Becomes(g) /\ AggregationInv(g, id, A)
    BY <1>11, <1>14, <1>22
  <2>8. /\ ElementReactions(H) = ElementReactions(g) \cup {r}
        /\ r \notin ElementReactions(g) /\ id \in DOMAIN aggs
        /\ r.on_fulfilled = Element(id, i)
    BY <1>3, <1>16
  <2> QED BY ONLY JobsInv, <2>1, <2>3, <2>4, <2>6, <2>7, <2>8, ElementAnswered
<1>24. Len(g.promises) <= MaxPromises
  <2>1. Len(g.promises) = Len(h.promises)
    <3>1. h \in Heaps(Values) /\ g \in Heaps(Values)
      BY <1>1, <1>11 DEF WellFormed
    <3>2. DOMAIN g.promises = DOMAIN h.promises
      BY <1>6, <1>10
    <3> QED BY ONLY <3>1, <3>2, Lengths
  <2> QED BY <1>1, <2>1, BaseFacts
<1>25. aggs' \in Seq(Aggregations) /\ Len(aggs') = Len(aggs)
  BY <1>3, <1>4, <1>15, <1>20
<1> QED BY <1>4, <1>11, <1>12, <1>14, <1>23, <1>24, <1>25, ElementStep
\* One turn of the loop.
LEMMA StepRunJob ==
    ASSUME JobsInv, RunJob
    PROVE  StepInv
<1>1. PICK h : h = [H EXCEPT !.jobs = Tail(@)]
  OBVIOUS
<1>2. PICK job : job = Head(jobs)
  OBVIOUS
<1>3. PICK t : t = JobTarget(job)
  OBVIOUS
<1>4. /\ stack # <<>> /\ Top.kind = "drain" /\ jobs # <<>>
      /\ UNCHANGED <<known, abandoned, limits>>
  BY DEF RunJob
<1>5. Picked(h, job, t)
  BY <1>1, <1>2, <1>3, <1>4, PickStep
<1>6. PassesOn
  BY <1>4, NoPass
<1>7. job \in Jobs(Values)
  BY <1>5 DEF Picked
<1>8. CASE job.kind = "thenable"
  <2>1. /\ Becomes(h) /\ aggs' = aggs
        /\ stack' = Callee(Activation("thenable", job.promise, Nothing))
        /\ settlers' = settlers \cup {job.promise}
    BY <1>1, <1>2, <1>8 DEF RunJob
  <2>2. t = job.promise
    BY <1>3, <1>8 DEF JobTarget
  <2> QED BY <1>4, <1>5, <1>6, <1>8, <2>1, <2>2, RunThenable DEF StepInv
<1>9. CASE job.kind # "thenable"
  <2>1. /\ job.kind = "reaction" /\ job.reaction \in Reactions
        /\ job.fulfilled \in BOOLEAN /\ job.argument \in Values
    BY <1>7, <1>9 DEF Jobs
  <2>2. PICK r \in Reactions : r = job.reaction
    BY <2>1
  <2>3. PICK handler : handler = IF job.fulfilled THEN r.on_fulfilled
                                 ELSE r.on_rejected
    OBVIOUS
  <2>4. PICK answer : answer = Outcome(job.fulfilled, job.argument)
    OBVIOUS
  <2>5. handler.kind \in {"none", "code", "finally", "element"}
    BY <2>2, <2>3 DEF Reactions, Handlers
  <2>6. t = r.target
    BY <1>3, <1>9, <2>2 DEF JobTarget
  <2>7. settlers' = settlers
    BY <1>1, <1>2, <1>9 DEF RunJob
  <2>8. CASE handler.kind = "none"
    <3>1. PICK s \in {"Fulfilled", "Rejected"} :
             s = IF job.fulfilled THEN "Fulfilled" ELSE "Rejected"
      OBVIOUS
    <3>2. Becomes(Settle(h, t, s, job.argument)) /\ UNCHANGED <<aggs, stack>>
      BY <1>1, <1>2, <1>9, <2>2, <2>3, <2>6, <2>8, <3>1 DEF RunJob
    <3>3. ElementReactions(h) = ElementReactions(H)
      BY <1>5, <2>1, <2>2, <2>3, <2>8, PlainReaction
    <3> QED BY <1>4, <1>5, <2>1, <2>7, <3>2, <3>3, RunPassThrough
  <2>9. CASE handler.kind = "element"
    <3>1. RunElement(h, r, answer) /\ stack' = stack
      BY <1>1, <1>2, <1>9, <2>2, <2>3, <2>4, <2>9 DEF RunJob
    <3>2. Picked(h, job, r.target)
      BY <1>5, <2>6
    <3>3. PICK id : id = r.on_fulfilled.agg
      OBVIOUS
    <3>4. PICK i : i = r.on_fulfilled.index
      OBVIOUS
    <3>5. answer \in Answered(Values) /\ Asked(h, r, id, i, answer)
      BY <2>1, <2>2, <2>3, <2>4, <2>9, <3>2, <3>3, <3>4, ElementAsked
    <3>6. UNCHANGED <<stack, settlers, known, abandoned, limits>>
      BY <1>4, <2>7, <3>1
    <3>7. CASE ~aggs[id].live
      <4>1. /\ Becomes(Settle(h, r.target, "Rejected", NoAggregate))
            /\ aggs' = aggs
        BY <3>1, <3>3, <3>7 DEF RunElement
      <4> QED BY <3>2, <3>5, <3>6, <3>7, <4>1, ElementLate
    <3>8. CASE aggs[id].live
      <4>1. PICK agg : agg = aggs[id]
        OBVIOUS
      <4>2. PICK verdict : verdict = Verdict(id, agg, answer)
        OBVIOUS
      <4>3. PICK m : m = IF Answers(agg, answer)
                         THEN Settle(h, agg.result,
                                     IF verdict.fulfilled THEN "Fulfilled"
                                     ELSE "Rejected", verdict.value)
                         ELSE h
        OBVIOUS
      <4>4. /\ Becomes(Settle(m, r.target, "Fulfilled", Undefined))
            /\ aggs' = [aggs EXCEPT ![id] = Noted(agg, i, answer)]
        BY <3>1, <3>3, <3>4, <3>8, <4>1, <4>2, <4>3 DEF RunElement
      <4> QED BY <3>2, <3>5, <3>6, <3>8, <4>1, <4>2, <4>3, <4>4, ElementInTime
    <3> QED BY <3>7, <3>8
  <2>10. CASE handler.kind \in {"code", "finally"}
    <3>1. PICK kind \in {"handler", "finally"} :
             kind = IF handler.kind = "code" THEN "handler" ELSE "finally"
      OBVIOUS
    <3>2. PICK pass : pass = IF handler.kind = "code" THEN Nothing ELSE answer
      OBVIOUS
    <3>3. /\ Becomes(h) /\ aggs' = aggs
          /\ stack' = Callee(Activation(kind, t, pass))
      BY <1>1, <1>2, <1>9, <2>2, <2>3, <2>4, <2>6, <2>10, <3>1, <3>2 DEF RunJob
    <3>4. pass \in Answered(Values)
      <4>1. answer \in Answered(Values)
        BY <2>1, <2>4 DEF Answered, Outcome
      <4>2. Nothing \in Answered(Values)
        BY BaseFacts DEF Answered, Outcome, Nothing, Closed
      <4> QED BY <3>2, <4>1, <4>2
    <3>5. ElementReactions(h) = ElementReactions(H)
      BY <1>5, <2>1, <2>2, <2>3, <2>10, PlainReaction
    <3>6. JobsInv' /\ KeepsOutcomes
      BY <1>4, <1>5, <2>7, <3>3, <3>4, <3>5, RunHandler
    <3> QED BY <1>6, <3>6 DEF StepInv
  <2> QED BY <2>5, <2>8, <2>9, <2>10
<1> QED BY <1>8, <1>9
-----------------------------------------------------------------------------
(* A new aggregation.                                                      *)

\* A step that makes an aggregation, with the promise NewId for a result.
LEMMA AggregateStep ==
    ASSUME JobsInv, NEW g, WellFormed(Values, g, Owners, Natives \cup {NewId}),
           Keeps(H, g, {}), NewId \in DOMAIN g.promises,
           Len(g.promises) <= MaxPromises, Becomes(g),
           NEW A \in Aggregations, A.result = NewId, aggs' = Append(aggs, A),
           NEW id, id = Len(aggs) + 1, Len(aggs) < MaxAggs,
           AggregationInv(g, id, A), ElementsInv(g, aggs'),
           ElementReactions(H) \subseteq ElementReactions(g),
           \A r \in ElementReactions(g) \ ElementReactions(H) :
              \E i \in Nat : r.on_fulfilled = Element(id, i),
           known' = known \cup {NewId},
           UNCHANGED <<stack, settlers, abandoned, limits>>
    PROVE  StepInv
<1>1. g \in Heaps(Values)
  BY DEF WellFormed
<1>2. H' = g /\ promises' = g.promises
  BY <1>1, NextHeap
<1>3. Promise \subseteq DOMAIN promises'
  BY <1>2 DEF Keeps, Promise, H
<1>4. StackStep /\ Owners' = Owners
  BY <1>3, SameStack
<1>5. /\ aggs \in Seq(Aggregations) /\ Len(aggs) \in Nat /\ MaxAggs \in Nat
      /\ DOMAIN aggs = 1..Len(aggs)
  <2>1. aggs \in Seq(Aggregations)
    BY DEF JobsInv, TypeOK
  <2> QED BY <2>1, BaseFacts
<1>6. /\ aggs' \in Seq(Aggregations) /\ Len(aggs') = id /\ id \in Nat
      /\ DOMAIN aggs' = DOMAIN aggs \cup {id} /\ id \notin DOMAIN aggs
      /\ aggs'[id] = A /\ \A other \in DOMAIN aggs : aggs'[other] = aggs[other]
  BY <1>5
<1>7. Len(aggs') <= MaxAggs
  BY <1>5, <1>6
<1>8. AggregateResults' = AggregateResults \cup {NewId}
  <2>1. \A q : q \in AggregateResults' <=> q \in AggregateResults \cup {NewId}
    <3>1. \A q : q \in AggregateResults' <=> \E k \in DOMAIN aggs' : q = aggs'[k].result
      BY DEF AggregateResults
    <3>2. \A q : q \in AggregateResults <=> \E k \in DOMAIN aggs : q = aggs[k].result
      BY DEF AggregateResults
    <3> QED BY <1>6, <3>1, <3>2
  <2> QED BY <2>1
<1>9. Natives' = Natives \cup {NewId}
  BY <1>8 DEF Natives
<1>10. RestStep
  BY <1>2, <1>3, BaseFacts DEF RestStep
<1>11. TypeOK' /\ Owed(H', Owners', Natives')
  BY <1>4, <1>6, <1>7, <1>9, <1>10, TypeKept
<1>12. KeepsOutcomes
  BY <1>1, OutcomesKept
<1>13. ASSUME NEW other \in DOMAIN aggs
       PROVE  /\ AggregationInv(g, other, aggs[other])
              /\ aggs[other].result # NewId
  <2>1. PICK agg : agg = aggs[other]
    OBVIOUS
  <2>2. /\ agg.kind \in Kinds /\ agg.total \in Nat /\ other \in Nat
        /\ AggregationInv(H, other, agg) /\ agg.result \in Natives
    BY <2>1, AggregationTypes
  <2>3. other # id
    BY <1>6
  <2>4. Open(g, other, agg) = Open(H, other, agg)
    <3>1. \A j : j \in Open(g, other, agg) <=> j \in Open(H, other, agg)
      <4> SUFFICES ASSUME NEW j
                   PROVE  j \in Open(g, other, agg) <=> j \in Open(H, other, agg)
        OBVIOUS
      <4>1. j \in Open(g, other, agg) <=>
              /\ j \in 1..agg.total
              /\ \E x \in ElementReactions(g) : x.on_fulfilled = Element(other, j)
        BY <2>2, OpenFacts
      <4>2. j \in Open(H, other, agg) <=>
              /\ j \in 1..agg.total
              /\ \E x \in ElementReactions(H) : x.on_fulfilled = Element(other, j)
        BY <2>2, OpenFacts
      <4>3. ASSUME NEW x \in ElementReactions(g) \ ElementReactions(H)
            PROVE  x.on_fulfilled # Element(other, j)
        <5>1. PICK i \in Nat : x.on_fulfilled = Element(id, i)
          OBVIOUS
        <5> QED BY <1>6, <2>3, <5>1, ElementFacts
      <4> QED BY <4>1, <4>2, <4>3
    <3> QED BY <3>1
  <2>5. AggregationInv(g, other, agg)
    BY <2>2, <2>4, AggregationKept
  <2> QED BY <2>1, <2>2, <2>5, NativeFacts
<1>14. \A k \in DOMAIN aggs' : AggregationInv(H', k, aggs'[k])
  BY <1>2, <1>6, <1>13
<1>15. \A k, other \in DOMAIN aggs' :
          aggs'[k].result = aggs'[other].result => k = other
  <2>1. \A k, other \in DOMAIN aggs :
          aggs[k].result = aggs[other].result => k = other
    BY DEF JobsInv, AggsInv
  <2> QED BY <1>6, <1>13, <2>1
<1>16. settlers' \cap AggregateResults' = {}
  BY <1>8, NativeFacts DEF Natives
<1>17. AggsInv'
  BY <1>2, <1>14, <1>15, <1>16 DEF AggsInv
<1>18. JobsInv'
  BY <1>4, <1>11, <1>17 DEF JobsInv, StackStep, Natives
<1>19. PassesOn
  BY NoPass
<1> QED BY <1>12, <1>18, <1>19 DEF StepInv
\* Its result is made.
LEMMA ResultMade ==
    ASSUME JobsInv, NEW m, m = New(H)
    PROVE  /\ WellFormed(Values, m, Owners, Natives \cup {NewId})
           /\ Keeps(H, m, {}) /\ Pending(m, NewId)
           /\ NewId \in DOMAIN m.promises /\ Len(m.promises) = NewId
           /\ ElementReactions(m) = ElementReactions(H)
<1>1. /\ WellFormed(Values, H, Owners, Natives) /\ Undefined \in Values
      /\ H.promises = promises
  BY BaseFacts DEF Closed
<1>2. Made(Values, H, m, Owners, Natives)
  BY <1>1, NewStep
<1>3. /\ WellFormed(Values, m, Owners \cup {NewId}, Natives) /\ Keeps(H, m, {})
      /\ NewId \notin Owners /\ Pending(m, NewId)
      /\ NewId \in DOMAIN m.promises /\ Len(m.promises) = NewId
      /\ Outstanding(m) = Outstanding(H)
  BY <1>1, <1>2, NativeFacts DEF Made, NewId
<1>4. WellFormed(Values, m, Owners, Natives \cup {NewId})
  <2>1. NewId \in Owners \cup {NewId} /\ (Owners \cup {NewId}) \ {NewId} = Owners
    BY <1>3
  <2>2. PICK O : O = Owners \cup {NewId}
    OBVIOUS
  <2>3. WellFormed(Values, m, O \ {NewId}, Natives \cup {NewId})
    BY <1>3, <2>1, <2>2, OwnerMoves
  <2> QED BY <2>1, <2>2, <2>3
<1>5. ElementReactions(m) = ElementReactions(H)
  BY <1>3 DEF ElementReactions
<1> QED BY <1>3, <1>4, <1>5

\* Every element of a new aggregation is open.
LEMMA NewOpen ==
    ASSUME NEW g, NEW id \in Nat, NEW n \in Nat, NEW A, A.total = n,
           \A i \in 1..n : \E r \in ElementReactions(g) :
              r.on_fulfilled = Element(id, i)
    PROVE  Open(g, id, A) = 1..n /\ Cardinality(Open(g, id, A)) = n
<1>1. \A j : j \in Open(g, id, A) <=> j \in 1..n
  BY OpenFacts
<1>2. Open(g, id, A) = 1..n
  BY <1>1
<1>3. Cardinality(1..n) = n
  BY FS_Interval
<1> QED BY <1>2, <1>3

\* The reactions of a new aggregation are those of its elements.
LEMMA NewElements ==
    ASSUME JobsInv, NEW id, id = Len(aggs) + 1, NEW m,
           ElementReactions(m) = ElementReactions(H), NEW O, NEW X, NEW acc,
           NEW n \in Nat, Added(Values, m, O, X, id, acc, n),
           NEW A, A.total = n, A.elements = acc.promises, aggs' = Append(aggs, A)
    PROVE  ElementsInv(acc.h, aggs')
<1> DEFINE new == ElementReactions(acc.h) \ ElementReactions(H)
<1>1. /\ aggs \in Seq(Aggregations) /\ Len(aggs) \in Nat
      /\ DOMAIN aggs = 1..Len(aggs) /\ ElementsInv(H, aggs)
  <2>1. aggs \in Seq(Aggregations) /\ ElementsInv(H, aggs)
    BY DEF JobsInv, TypeOK, AggsInv
  <2> QED BY <2>1
<1>2. /\ id \in DOMAIN aggs' /\ id \notin DOMAIN aggs /\ id \in Nat
      /\ aggs'[id] = A /\ DOMAIN aggs \subseteq DOMAIN aggs'
      /\ \A other \in DOMAIN aggs : aggs'[other] = aggs[other]
  BY <1>1
<1>3. \A r \in ElementReactions(H) :
         /\ r.on_fulfilled = r.on_rejected
         /\ \E k \in DOMAIN aggs : \E i \in 1..aggs[k].total :
               r.on_fulfilled = Element(k, i) /\ r.source = aggs[k].elements[i]
  BY <1>1 DEF ElementsInv
<1>4. \A r \in new :
         /\ r.on_fulfilled = r.on_rejected
         /\ \E i \in 1..n : /\ r.on_fulfilled = Element(id, i)
                            /\ r.source = acc.promises[i]
  BY DEF Added
<1> HIDE DEF new
<1>5. ElementReactions(acc.h) \subseteq ElementReactions(H) \cup new
  BY DEF new
<1>6. ASSUME NEW r \in ElementReactions(acc.h)
      PROVE  /\ r.on_fulfilled = r.on_rejected
             /\ \E k \in DOMAIN aggs' : \E i \in 1..aggs'[k].total :
                   /\ r.on_fulfilled = Element(k, i)
                   /\ r.source = aggs'[k].elements[i]
  <2>1. CASE r \in ElementReactions(H)
    <3>1. PICK k \in DOMAIN aggs : \E i \in 1..aggs[k].total :
             r.on_fulfilled = Element(k, i) /\ r.source = aggs[k].elements[i]
      BY <1>3, <2>1
    <3>2. k \in DOMAIN aggs' /\ aggs'[k] = aggs[k]
      BY <1>2
    <3> QED BY <1>3, <2>1, <3>1, <3>2
  <2>2. CASE r \in new
    <3>1. PICK i \in 1..n : /\ r.on_fulfilled = Element(id, i)
                            /\ r.source = acc.promises[i]
      BY <1>4, <2>2
    <3>2. /\ i \in 1..aggs'[id].total
          /\ r.source = aggs'[id].elements[i]
      BY <1>2, <3>1
    <3> QED BY <1>2, <1>4, <2>2, <3>1, <3>2
  <2> QED BY <1>5, <2>1, <2>2
<1>7. ASSUME NEW r \in ElementReactions(H), NEW s \in new
      PROVE  r.on_fulfilled # s.on_fulfilled
  <2>1. PICK k \in DOMAIN aggs : \E i \in 1..aggs[k].total :
           r.on_fulfilled = Element(k, i)
    BY <1>3
  <2>2. PICK i \in 1..aggs[k].total : r.on_fulfilled = Element(k, i)
    BY <2>1
  <2>3. PICK j \in 1..n : s.on_fulfilled = Element(id, j)
    BY <1>4
  <2>4. k \in Nat /\ i \in Nat /\ j \in Nat /\ k # id
    <3>1. aggs[k].total \in Nat /\ k \in Nat
      BY AggregationTypes
    <3> QED BY <1>2, <3>1
  <2> QED BY <1>2, <2>2, <2>3, <2>4, ElementFacts
<1>8. \A r, s \in ElementReactions(H) :
         r.on_fulfilled = s.on_fulfilled => r = s
  BY <1>1 DEF ElementsInv
<1>9. \A r, s \in new : r.on_fulfilled = s.on_fulfilled => r = s
  BY DEF Added, new
<1>10. \A r, s \in ElementReactions(acc.h) :
          r.on_fulfilled = s.on_fulfilled => r = s
  BY <1>5, <1>7, <1>8, <1>9
<1> QED BY <1>6, <1>10 DEF ElementsInv
\* A new aggregation, as PromiseAggregate makes it.
NewAggregation(kind, promised, n, live) ==
    [kind |-> kind, result |-> NewId, elements |-> promised, remaining |-> n,
     values |-> [i \in 1..n |-> Nothing], rejections |-> 0, total |-> n,
     live |-> live]

LEMMA NewAggregationFacts ==
    ASSUME JobsInv, NEW kind \in Kinds, NEW promised \in Seq(Nat),
           NEW n \in Nat, NEW live \in BOOLEAN,
           NEW A, A = NewAggregation(kind, promised, n, live)
    PROVE  /\ A \in Aggregations /\ A.kind = kind /\ A.result = NewId
           /\ A.elements = promised /\ A.remaining = n /\ Len(A.values) = n
           /\ A.rejections = 0 /\ A.total = n
           /\ (live => A.live) /\ (~live => ~A.live)
<1>1. Nothing \in Answered(Values)
  BY BaseFacts DEF Answered, Outcome, Nothing, Closed
<1>2. PICK values : values = [i \in 1..n |-> Nothing]
  OBVIOUS
<1>3. values \in Seq(Answered(Values)) /\ Len(values) = n
  BY <1>1, <1>2
<1>4. A = [kind |-> kind, result |-> NewId, elements |-> promised,
           remaining |-> n, values |-> values, rejections |-> 0, total |-> n,
           live |-> live]
  BY <1>2 DEF NewAggregation
<1>5. NewId \in Nat
  BY NativeFacts
<1>6. A \in Aggregations
  BY <1>3, <1>4, <1>5 DEF Aggregations
<1>7. A.live = live
  BY <1>4
<1> QED BY <1>3, <1>4, <1>6, <1>7

\* ... over some elements.
LEMMA AggregateSome ==
    ASSUME JobsInv, NEW kind \in Kinds, NEW elements \in Seq(Values),
           Len(elements) # 0, NEW id, id = Len(aggs) + 1, Len(aggs) < MaxAggs,
           NEW acc, acc = AddElements(New(H), id, elements),
           Room(Len(acc.h.promises) - Len(promises)), Becomes(acc.h),
           NEW live \in BOOLEAN, live,
           NEW A, A = NewAggregation(kind, acc.promises, Len(elements), live),
           aggs' = Append(aggs, A), known' = known \cup {NewId},
           UNCHANGED <<stack, settlers, abandoned, limits>>
    PROVE  StepInv
<1>1. PICK m : m = New(H)
  OBVIOUS
<1>2. /\ WellFormed(Values, m, Owners, Natives \cup {NewId})
      /\ Keeps(H, m, {}) /\ Pending(m, NewId)
      /\ NewId \in DOMAIN m.promises
      /\ ElementReactions(m) = ElementReactions(H)
  BY <1>1, ResultMade
<1>3. PICK n \in Nat : n = Len(elements)
  OBVIOUS
<1>4. id \in Nat /\ Closed(Values) /\ Len(promises) \in Nat /\ MaxPromises \in Nat
  <2>1. Len(aggs) \in Nat
    BY DEF JobsInv, TypeOK
  <2> QED BY <2>1, BaseFacts
<1>5. PICK X : X = Natives \cup {NewId}
  OBVIOUS
<1>6. Added(Values, m, Owners, X, id, acc, n)
  <2>1. acc = AddElements(m, id, elements) /\ WellFormed(Values, m, Owners, X)
    BY <1>1, <1>2, <1>5
  <2>2. Added(Values, m, Owners, X, id, AddElements(m, id, elements), Len(elements))
    BY <1>4, <2>1, AddElementsStep
  <2> QED BY <1>3, <2>1, <2>2
<1>7. PICK g : g = acc.h
  OBVIOUS
<1>8. /\ WellFormed(Values, g, Owners, X) /\ Keeps(m, g, {})
      /\ acc.promises \in Seq(Nat) /\ Len(acc.promises) = n
      /\ \A i \in 1..n : acc.promises[i] \in DOMAIN g.promises
      /\ ElementReactions(m) \subseteq ElementReactions(g)
      /\ \A r \in ElementReactions(g) \ ElementReactions(m) :
            \E i \in 1..n : r.on_fulfilled = Element(id, i)
      /\ \A i \in 1..n : \E r \in ElementReactions(g) :
            r.on_fulfilled = Element(id, i)
  BY <1>6, <1>7 DEF Added
<1>9. Keeps(H, g, {}) /\ NewId \in DOMAIN g.promises /\ Pending(g, NewId)
  <2>1. Keeps(H, g, {} \cup {})
    BY <1>2, <1>8, KeepsTransitive
  <2> QED BY <1>2, <1>8, <2>1 DEF Keeps
<1>10. /\ A \in Aggregations /\ A.kind = kind /\ A.result = NewId
       /\ A.elements = acc.promises /\ A.remaining = n /\ Len(A.values) = n
       /\ A.rejections = 0 /\ A.total = n /\ A.live
  <2>1. PICK promised \in Seq(Nat) : promised = acc.promises
    BY <1>8
  <2>2. A = NewAggregation(kind, promised, n, live)
    BY <1>3, <2>1
  <2>3. /\ A \in Aggregations /\ A.kind = kind /\ A.result = NewId
        /\ A.elements = promised /\ A.remaining = n /\ Len(A.values) = n
        /\ A.rejections = 0 /\ A.total = n
    BY ONLY JobsInv, <2>2, NewAggregationFacts
  <2>4. A.live
    BY ONLY JobsInv, <2>2, live, NewAggregationFacts
  <2> QED BY ONLY <2>1, <2>3, <2>4
<1>11. Open(g, id, A) = 1..n /\ Cardinality(Open(g, id, A)) = n
  <2>1. /\ id \in Nat /\ A.total = n
        /\ \A i \in 1..n : \E r \in ElementReactions(g) :
              r.on_fulfilled = Element(id, i)
    BY <1>4, <1>8, <1>10
  <2> QED BY ONLY <2>1, NewOpen
<1>12. AggregationInv(g, id, A)
  <2>1. Counted(g, id, A)
    <3>1. 1 \in Open(g, id, A)
      <4>1. n # 0 /\ n \in Nat
        BY <1>3
      <4>2. 1 \in 1..n
        BY ONLY <4>1
      <4> QED BY <1>11, <4>2
    <3>2. Cardinality(Open(g, id, A)) = IF A.kind = "any"
                                        THEN A.total - A.rejections
                                        ELSE A.remaining
      <4>1. A.total - A.rejections = n /\ A.remaining = n
        BY ONLY <1>10, n \in Nat
      <4> QED BY <1>11, <4>1
    <3> QED BY <1>9, <1>10, <3>1, <3>2 DEF Counted
  <2>2. Noticed(g, id, A)
    BY <1>10, <1>11 DEF Noticed
  <2> QED BY <1>8, <1>9, <1>10, <2>1, <2>2 DEF AggregationInv
<1>13. ElementsInv(g, aggs')
  BY <1>2, <1>6, <1>7, <1>10, NewElements
<1>14. Len(g.promises) <= MaxPromises
  <2>1. Len(g.promises) \in Nat
    BY <1>8, HeapFacts DEF WellFormed
  <2> QED BY <1>4, <1>7, <2>1 DEF Room
<1>15. \A r \in ElementReactions(g) \ ElementReactions(H) :
          \E i \in Nat : r.on_fulfilled = Element(id, i)
  BY <1>2, <1>3, <1>8
<1>16. ElementReactions(H) \subseteq ElementReactions(g)
  BY <1>2, <1>8
<1>17. WellFormed(Values, g, Owners, Natives \cup {NewId}) /\ Becomes(g)
  BY <1>5, <1>7, <1>8
<1> QED BY <1>9, <1>10, <1>12, <1>13, <1>14, <1>15, <1>16, <1>17, AggregateStep
\* ... over none.
LEMMA AggregateNone ==
    ASSUME JobsInv, NEW kind \in Kinds, NEW elements \in Seq(Values),
           Len(elements) = 0, NEW id, id = Len(aggs) + 1, Len(aggs) < MaxAggs,
           NEW acc, acc = AddElements(New(H), id, elements),
           Room(Len(acc.h.promises) - Len(promises)),
           NEW g, Becomes(g),
           kind \in {"all", "allSettled"} =>
              g = Settle(New(H), NewId, "Fulfilled", Array(id)),
           kind = "race" => g = New(H),
           kind = "any" => g = Settle(New(H), NewId, "Rejected", AggregateError(id)),
           NEW live \in BOOLEAN, ~live,
           NEW A, A = NewAggregation(kind, acc.promises, Len(elements), live),
           aggs' = Append(aggs, A), known' = known \cup {NewId},
           UNCHANGED <<stack, settlers, abandoned, limits>>
    PROVE  StepInv
<1>1. PICK m : m = New(H)
  OBVIOUS
<1>2. PICK X : X = Natives \cup {NewId}
  OBVIOUS
<1>3. /\ WellFormed(Values, m, Owners, X) /\ Keeps(H, m, {})
      /\ Pending(m, NewId) /\ NewId \in DOMAIN m.promises
      /\ Len(m.promises) = NewId /\ ElementReactions(m) = ElementReactions(H)
  BY <1>1, <1>2, ResultMade
<1>4. /\ id \in Nat /\ id \in 1..MaxAggs /\ Closed(Values)
      /\ Len(promises) \in Nat /\ MaxPromises \in Nat /\ H.promises = promises
  <2>1. Len(aggs) \in Nat /\ MaxAggs \in Nat
    BY BaseFacts DEF JobsInv, TypeOK
  <2> QED BY <2>1, BaseFacts
<1>5. NewId \notin Owners /\ NewId \notin DOMAIN H.promises /\ NewId \in X
  <2>1. NewId \notin Promise
    BY BaseFacts DEF NewId
  <2> QED BY <1>2, <1>4, <2>1, NativeFacts DEF Promise
<1>6. Added(Values, m, Owners, X, id, acc, 0)
  <2>1. acc = AddElements(m, id, elements)
    BY <1>1
  <2>2. Added(Values, m, Owners, X, id, AddElements(m, id, elements), Len(elements))
    BY <1>3, <1>4, AddElementsStep
  <2> QED BY <2>1, <2>2
<1>7. PICK promised \in Seq(Nat) : promised = acc.promises
  BY <1>6 DEF Added
<1>8. Len(promised) = 0
  BY <1>6, <1>7 DEF Added
<1>9. NewId <= MaxPromises
  <2>1. NewId \in DOMAIN acc.h.promises
    BY <1>3, <1>6 DEF Added, Keeps
  <2>2. /\ Len(acc.h.promises) \in Nat
        /\ DOMAIN acc.h.promises = 1..Len(acc.h.promises)
    BY <1>6, HeapFacts DEF Added, WellFormed
  <2> QED BY <1>4, <2>1, <2>2 DEF Room
<1>10. Array(id) \in Values /\ AggregateError(id) \in Values
  BY <1>4 DEF Values
<1>11. /\ WellFormed(Values, g, Owners, X) /\ Keeps(H, g, {})
       /\ DOMAIN g.promises = DOMAIN m.promises
       /\ ElementReactions(g) = ElementReactions(H)
       /\ kind = "race" => Pending(g, NewId)
       /\ kind \in {"all", "allSettled"} =>
             /\ g.promises[NewId].state = "Fulfilled"
             /\ g.promises[NewId].value = Array(id)
       /\ kind = "any" =>
             /\ g.promises[NewId].state = "Rejected"
             /\ g.promises[NewId].value = AggregateError(id)
  <2>1. CASE kind = "race"
    BY <1>1, <1>3, <2>1
  <2>2. ASSUME NEW s \in {"Fulfilled", "Rejected"}, NEW v \in Values,
               g = Settle(m, NewId, s, v)
        PROVE  /\ WellFormed(Values, g, Owners, X) /\ Keeps(H, g, {})
               /\ DOMAIN g.promises = DOMAIN m.promises
               /\ ElementReactions(g) = ElementReactions(H)
               /\ g.promises[NewId].state = s /\ g.promises[NewId].value = v
    <3>1. Settled(Values, m, g, Owners, X, NewId, s, v)
      BY <1>3, <1>5, <2>2, SettleStep
    <3>2. /\ WellFormed(Values, g, Owners \ {NewId}, X) /\ Keeps(m, g, {NewId})
          /\ DOMAIN g.promises = DOMAIN m.promises
          /\ Outstanding(g) = Outstanding(m)
          /\ g.promises[NewId].state = s /\ g.promises[NewId].value = v
      BY <1>3, <3>1 DEF Settled
    <3>3. Owners \ {NewId} = Owners
      BY <1>5
    <3>4. Keeps(H, g, {})
      BY <1>3, <1>5, <3>2, KeepsTransitive
    <3>5. ElementReactions(g) = ElementReactions(H)
      BY <1>3, <3>2 DEF ElementReactions
    <3> QED BY <3>2, <3>3, <3>4, <3>5
  <2>3. CASE kind \in {"all", "allSettled"}
    <3>1. g = Settle(m, NewId, "Fulfilled", Array(id))
      BY <1>1, <2>3
    <3> QED BY <1>10, <2>2, <2>3, <3>1
  <2>4. CASE kind = "any"
    <3>1. g = Settle(m, NewId, "Rejected", AggregateError(id))
      BY <1>1, <2>4
    <3> QED BY <1>10, <2>2, <2>4, <3>1
  <2> QED BY <2>1, <2>3, <2>4 DEF Kinds
<1>12. /\ A \in Aggregations /\ A.kind = kind /\ A.result = NewId
       /\ A.elements = promised /\ Len(A.values) = 0 /\ A.total = 0
       /\ ~A.live
  <2>1. A = NewAggregation(kind, promised, 0, live)
    BY <1>7
  <2>2. /\ A \in Aggregations /\ A.kind = kind /\ A.result = NewId
        /\ A.elements = promised /\ Len(A.values) = 0 /\ A.total = 0
    BY ONLY JobsInv, <2>1, NewAggregationFacts
  <2>3. ~A.live
    BY ONLY JobsInv, <2>1, ~live, NewAggregationFacts
  <2> QED BY ONLY <2>2, <2>3
<1>13. AggregationInv(g, id, A)
  <2>1. A.result \in DOMAIN g.promises
    BY <1>3, <1>11, <1>12
  <2>2. PICK r : r = g.promises[A.result]
    OBVIOUS
  <2>3. \A outcomes : Every(g, A, outcomes)
    BY <1>12 DEF Every
  <2>4. A.kind # "race" => Verified(g, id, A)
    <3>1. CASE A.kind = "all"
      BY <1>11, <1>12, <2>2, <2>3, <3>1, VerifiedFacts
    <3>2. CASE A.kind = "any"
      BY <1>11, <1>12, <2>2, <2>3, <3>2, VerifiedFacts
    <3>3. CASE A.kind = "allSettled"
      BY <1>11, <1>12, <2>2, <2>3, <3>3, VerifiedFacts
    <3> QED BY <1>12, <3>1, <3>2, <3>3 DEF Kinds
  <2>5. A.kind # "race" => ~Pending(g, A.result)
    BY <1>11, <1>12 DEF Kinds, Pending
  <2>6. A.kind = "race" => Pending(g, A.result)
    BY <1>11, <1>12
  <2> QED BY <1>8, <1>12, <2>1, <2>4, <2>5, <2>6 DEF AggregationInv
<1>14. ElementsInv(g, aggs')
  <2>1. PICK none : none = [h |-> g, promises |-> promised]
    OBVIOUS
  <2>2. none.h = g /\ none.promises = promised
    BY <2>1
  <2>3. Added(Values, H, Owners, X, id, none, 0)
    BY <1>8, <1>11, <2>2 DEF Added
  <2>4. ElementsInv(none.h, aggs')
    <3>1. PICK n \in Nat : n = 0
      OBVIOUS
    <3>2. /\ Added(Values, H, Owners, X, id, none, n)
          /\ A.total = n /\ A.elements = none.promises
      BY <1>12, <2>2, <2>3, <3>1
    <3>3. id = Len(aggs) + 1 /\ aggs' = Append(aggs, A)
      OBVIOUS
    <3>4. ElementReactions(H) = ElementReactions(H)
      OBVIOUS
    <3> QED BY ONLY JobsInv, <3>2, <3>3, <3>4, NewElements
  <2> QED BY <2>2, <2>4
<1>15. Len(g.promises) <= MaxPromises
  <2>1. Len(g.promises) = Len(m.promises)
    BY <1>3, <1>11, Lengths DEF WellFormed
  <2> QED BY <1>3, <1>9, <2>1
<1>16. NewId \in DOMAIN g.promises
  BY <1>3, <1>11
<1>17. WellFormed(Values, g, Owners, Natives \cup {NewId})
  BY <1>2, <1>11
<1> QED BY <1>11, <1>12, <1>13, <1>14, <1>15, <1>16, <1>17, AggregateStep
LEMMA StepAggregate ==
    ASSUME JobsInv, NEW kind \in Kinds, NEW n \in Nat,
           NEW elements \in [1..n -> Arg], PromiseAggregate(kind, elements)
    PROVE  StepInv
<1>1. elements \in Seq(Values) /\ Len(elements) = n
  BY BaseFacts
<1>2. PICK id : id = Len(aggs) + 1
  OBVIOUS
<1>3. PICK acc : acc = AddElements(New(H), id, elements)
  OBVIOUS
<1>4. PICK g : g = CASE kind \in {"all", "allSettled"} ->
                          Settle(New(H), NewId, "Fulfilled", Array(id))
                     [] kind = "race" -> New(H)
                     [] kind = "any" ->
                          Settle(New(H), NewId, "Rejected", AggregateError(id))
  OBVIOUS
<1>5. /\ kind \in {"all", "allSettled"} =>
            g = Settle(New(H), NewId, "Fulfilled", Array(id))
      /\ kind = "race" => g = New(H)
      /\ kind = "any" =>
            g = Settle(New(H), NewId, "Rejected", AggregateError(id))
  BY <1>4
<1>6. PICK live \in BOOLEAN : live = (n > 0)
  <2>1. CASE n > 0
    <3>1. TRUE \in BOOLEAN /\ TRUE = (n > 0)
      BY <2>1
    <3> QED BY <3>1
  <2>2. CASE ~(n > 0)
    <3>1. FALSE \in BOOLEAN /\ FALSE = (n > 0)
      BY <2>2
    <3> QED BY <3>1
  <2> QED BY <2>1, <2>2
<1>7. PICK A : A = NewAggregation(kind, acc.promises, n, live)
  OBVIOUS
<1>8. /\ Len(aggs) < MaxAggs /\ Room(Len(acc.h.promises) - Len(promises))
      /\ Becomes(IF n = 0 THEN g ELSE acc.h)
      /\ known' = known \cup {NewId}
      /\ UNCHANGED <<stack, settlers, abandoned, limits>>
  BY <1>1, <1>2, <1>3, <1>4 DEF PromiseAggregate
<1>9. aggs' = Append(aggs, A)
  BY <1>1, <1>2, <1>3, <1>6, <1>7 DEF PromiseAggregate, NewAggregation
<1>10. CASE n = 0
  <2>0. ~(n > 0)
    BY <1>10
  <2>1. ~live
    BY ONLY <1>6, <2>0, Zenon
  <2>2. Becomes(g)
    BY <1>8, <1>10
  <2>3. A = NewAggregation(kind, acc.promises, Len(elements), live)
    BY <1>1, <1>7
  <2> QED BY <1>1, <1>2, <1>3, <1>5, <1>8, <1>9, <1>10, <2>1, <2>2, <2>3,
             AggregateNone
<1>11. CASE n # 0
  <2>0. n > 0
    BY <1>11
  <2>1. live
    BY ONLY <1>6, <2>0, Zenon
  <2>2. Becomes(acc.h)
    BY <1>8, <1>11
  <2>3. A = NewAggregation(kind, acc.promises, Len(elements), live)
    BY <1>1, <1>7
  <2> QED BY <1>1, <1>2, <1>3, <1>8, <1>9, <1>11, <2>1, <2>2, <2>3,
             AggregateSome
<1> QED BY <1>10, <1>11
-----------------------------------------------------------------------------
(* JobsInv is inductive.                                                   *)

LEMMA InitInv == Init => JobsInv
<1> SUFFICES ASSUME Init PROVE JobsInv
  OBVIOUS
<1>1. /\ promises = <<>> /\ jobs = <<>> /\ aggs = <<>>
      /\ stack = <<Activation("script", 0, Nothing)>>
      /\ settlers = {} /\ known = {} /\ abandoned = {} /\ limits \in Setups
  BY DEF Init
<1>2. H.promises = <<>> /\ H.jobs = <<>> /\ H \in Heaps(Values)
  BY <1>1 DEF H, Heaps
<1>3. /\ MaxPromises \in Nat /\ MaxAggs \in Nat
  BY <1>1, PromiseJobsAssumption DEF MaxPromises, MaxAggs
<1>4. PICK a : a = Activation("script", 0, Nothing)
  OBVIOUS
<1>5. a \in Activations /\ a.kind = "script" /\ ~Settles(a)
  <2>1. Nothing \in Answered(Values)
    BY DEF Nothing, Outcome, Answered, Values
  <2>2. "script" \in CodeKinds \cup {"await", "drain"} /\ 0 \in Nat
    BY DEF CodeKinds
  <2> QED BY <1>4, <2>1, <2>2, ActivationFacts DEF Settles
<1>6. /\ stack \in Seq(Activations) /\ DOMAIN stack = {1} /\ stack[1] = a
  BY <1>1, <1>4, <1>5
<1>7. Waits(H) = {} /\ DOMAIN H.jobs = {} /\ DOMAIN H.promises = {}
  <2>1. DOMAIN H.promises = {} /\ DOMAIN H.jobs = {}
    BY <1>2
  <2> QED BY <2>1, WaitsFacts
<1>8. Owners = {} /\ AggregateResults = {}
  BY <1>1, <1>5, <1>6 DEF Owners, AggregateResults
<1>9. TypeOK
  <2>1. Promise = {} /\ Len(promises) <= MaxPromises
    BY <1>1, <1>3 DEF Promise
  <2>2. aggs \in Seq(Aggregations) /\ Len(aggs) <= MaxAggs
    BY <1>1, <1>3
  <2> QED BY <1>1, <1>2, <1>6, <2>1, <2>2 DEF TypeOK
<1>10. StackInv
  BY <1>5, <1>6 DEF StackInv
<1>11. Owed(H, {}, {})
  <2>1. Queue(H) = {}
    BY <1>7 DEF Queue
  <2> QED BY <1>7, <2>1 DEF Owed, WaitsFit, QueueFits, OneTarget, Covered, Carried
<1>12. AggsInv
  <2>1. Outstanding(H) = {}
    BY <1>7 DEF Outstanding, Queue
  <2>2. ElementsInv(H, aggs)
    BY <2>1 DEF ElementsInv, ElementReactions
  <2> QED BY <1>1, <1>8, <2>2 DEF AggsInv
<1>13. settlers \cup AggregateResults = {}
  BY <1>1, <1>8
<1> QED BY <1>8, <1>9, <1>10, <1>11, <1>12, <1>13 DEF JobsInv

LEMMA StepRun ==
    ASSUME JobsInv, Run
    PROVE  StepInv
<1>1. Init'
  BY DEF JobsInv, TypeOK, Run, Init, Nothing
<1>2. (Init => JobsInv)'
  BY InitInv, PTL
<1>3. stack = <<>>
  BY DEF Run
<1>4. KeepsOutcomes /\ PassesOn
  BY <1>3 DEF KeepsOutcomes, PassesOn, CodeRuns
<1> QED BY <1>1, <1>2, <1>4 DEF StepInv

LEMMA StepProgram ==
    ASSUME JobsInv, Program
    PROVE  StepInv
<1>1. CASE \E v \in Arg : PromiseResolve(v)
  BY <1>1, StepResolve
<1>2. CASE \E v \in Arg : PromiseReject(v)
  BY <1>2, StepReject
<1>3. CASE \E v \in Arg : AwaitValue(v)
  BY <1>3, StepAwait
<1>4. CASE \E p \in known : \E f, r \in {None, Code, Finally} : PromiseThen(p, f, r)
  <2>1. PICK p \in known : \E f, r \in {None, Code, Finally} : PromiseThen(p, f, r)
    BY <1>4
  <2>2. PICK f \in {None, Code, Finally}, r \in {None, Code, Finally} :
           PromiseThen(p, f, r)
    BY <2>1
  <2>3. \A x \in {None, Code, Finally} : x \in Handlers /\ x.kind # "element"
    BY DEF None, Code, Finally, Handler, Handlers
  <2> QED BY <2>2, <2>3, StepThen
<1>5. CASE PromiseConstruct
  BY <1>5, StepConstruct
<1>6. CASE CallAsync
  BY <1>6, StepAsync
<1>7. CASE \E p \in settlers, v \in Arg, state \in {"Fulfilled", "Rejected"} :
              CallSettler(p, state, v)
  BY <1>7, StepSettler
<1>8. CASE \E kind \in Kinds \cap Uses, n \in 0..MaxElements :
              \E elements \in [1..n -> Arg] : PromiseAggregate(kind, elements)
  BY <1>8, StepAggregate
<1>9. CASE \E v \in Plain : AggregateThrows(v)
  <2>1. PICK v \in Plain : AggregateThrows(v)
    BY <1>9
  <2>2. v \in Arg /\ PromiseReject(v)
    BY <2>1 DEF Arg, AggregateThrows
  <2> QED BY <2>2, StepReject
<1> QED BY <1>1, <1>2, <1>3, <1>4, <1>5, <1>6, <1>7, <1>8, <1>9 DEF Program

LEMMA StepEnd ==
    ASSUME JobsInv, End
    PROVE  StepInv
<1>1. CASE \E v \in Results : Return(v)
  <2>1. PICK v \in Results : Return(v)
    BY <1>1
  <2>2. v \in Arg \cup {Undefined}
    BY DEF Results
  <2> QED BY <2>1, <2>2, StepReturn
<1>2. CASE \E v \in Arg : Throw(v)
  BY <1>2, StepThrow
<1> QED BY <1>1, <1>2 DEF End

LEMMA StepStutter ==
    ASSUME JobsInv, UNCHANGED vars
    PROVE  StepInv
<1>1. /\ promises' = promises /\ jobs' = jobs /\ aggs' = aggs
      /\ stack' = stack /\ settlers' = settlers /\ known' = known
      /\ abandoned' = abandoned /\ limits' = limits
  BY DEF vars
<1>2. WellFormed(Values, H, Owners, Natives) /\ H.promises = promises
      /\ H.jobs = jobs /\ Len(promises) <= MaxPromises
  BY BaseFacts
<1>3. PICK g : g = H
  OBVIOUS
<1>4. Keeps(H, g, {})
  BY <1>3 DEF Keeps
<1>5. Moved(Values, H, g, Owners, Natives, {}, {})
  BY <1>2, <1>3, <1>4 DEF Moved
<1>6. /\ {} \cap AggregateResults = {} /\ Len(g.promises) <= MaxPromises
      /\ {} \subseteq DOMAIN g.promises /\ Becomes(g) /\ known' = known \cup {}
      /\ UNCHANGED <<aggs, stack, settlers, abandoned, limits>>
  BY <1>1, <1>2, <1>3 DEF Becomes
<1> QED BY <1>5, <1>6, QuietStep

LEMMA NextInv ==
    ASSUME JobsInv, [Next]_vars
    PROVE  StepInv
<1>1. CASE Program
  BY <1>1, StepProgram
<1>2. CASE End
  BY <1>2, StepEnd
<1>3. CASE RunJob
  BY <1>3, StepRunJob
<1>4. CASE DrainDone
  BY <1>4, StepDrainDone
<1>5. CASE AwaitTest
  BY <1>5, StepAwaitTest
<1>6. CASE Run
  BY <1>6, StepRun
<1>7. CASE UNCHANGED vars
  BY <1>7, StepStutter
<1> QED BY <1>1, <1>2, <1>3, <1>4, <1>5, <1>6, <1>7 DEF Next
-----------------------------------------------------------------------------
(* The theorems.                                                           *)

\* What is owed comes from one place: from an activation if it is in Owners,
\* from one reaction or job otherwise.
LEMMA OwedOnce ==
    ASSUME JobsInv
    PROVE  OneSource
<1>1. /\ WellFormed(Values, H, Owners, Natives) /\ H.promises = promises
      /\ H.jobs = jobs
  BY BaseFacts
<1>2. /\ WaitsFit(H, Owners, Natives) /\ QueueFits(H, Owners, Natives)
      /\ OneTarget(H) /\ Covered(H, Owners, Natives)
      /\ \A q \in Owners : Pending(H, q)
  BY <1>1 DEF WellFormed, Owed
<1>3. /\ \A q : q \in Owners <=>
            \E i \in DOMAIN stack : Settles(stack[i]) /\ stack[i].promise = q
      /\ StackInv
  BY StackFacts
<1> SUFFICES ASSUME NEW p \in Promise, p \notin Natives
             PROVE  Cardinality(Sources(p)) =
                       IF promises[p].state = "Pending" THEN 1 ELSE 0
  BY DEF OneSource, Natives, AggregateResults
<1>4. p \in DOMAIN H.promises /\ (Pending(H, p) <=> promises[p].state = "Pending")
  BY <1>1 DEF Promise, Pending
<1>5. /\ \A w : w \in Waiting(p) <=> w \in Waits(H) /\ WaitTarget(H, w) = p
      /\ \A k : k \in Queued(p) <=> k \in DOMAIN H.jobs /\ QueueTarget(H, k) = p
      /\ \A i : i \in Active(p) <=>
            i \in DOMAIN stack /\ Settles(stack[i]) /\ stack[i].promise = p
  BY <1>1 DEF Waiting, Queued, Active, WaitTarget, QueueTarget
<1>6. \A x : x \in Sources(p) <=>
         \/ \E w \in Waiting(p) : x = <<"waiting", w>>
         \/ \E k \in Queued(p) : x = <<"queued", k>>
         \/ \E i \in Active(p) : x = <<"active", i>>
  BY DEF Sources
<1>7. p \in Owners => Waiting(p) = {} /\ Queued(p) = {}
  BY <1>2, <1>5 DEF WaitsFit, QueueFits, IsOwed
<1>8. p \notin Owners => Active(p) = {}
  BY <1>3, <1>5
<1>9. \A i, j \in Active(p) : i = j
  BY <1>3, <1>5 DEF StackInv
<1>10. /\ \A v, w \in Waiting(p) : v = w
       /\ \A k, m \in Queued(p) : k = m
       /\ Waiting(p) = {} \/ Queued(p) = {}
  BY <1>2, <1>5 DEF OneTarget
<1>11. CASE Pending(H, p)
  <2>1. \E x : x \in Sources(p)
    <3>1. CASE p \in Owners
      BY <1>3, <1>5, <1>6, <3>1
    <3>2. CASE p \notin Owners
      <4>1. IsOwed(H, Owners, Natives, p)
        BY <1>4, <1>11, <3>2 DEF IsOwed
      <4> QED BY <1>2, <1>4, <1>5, <1>6, <4>1 DEF Covered
    <3> QED BY <3>1, <3>2
  <2>2. \A x, y \in Sources(p) : x = y
    BY <1>6, <1>7, <1>8, <1>9, <1>10
  <2>3. PICK x : Sources(p) = {x}
    BY <2>1, <2>2
  <2> QED BY <1>4, <1>11, <2>3, FS_Singleton
<1>12. CASE ~Pending(H, p)
  <2>1. p \notin Owners
    BY <1>2, <1>12
  <2>2. Waiting(p) = {} /\ Queued(p) = {}
    BY <1>2, <1>5, <1>12 DEF WaitsFit, QueueFits, IsOwed
  <2>3. Sources(p) = {}
    BY <1>6, <1>8, <2>1, <2>2
  <2> QED BY <1>4, <1>12, <2>3, FS_EmptySet
<1> QED BY <1>11, <1>12

\* JobsInv implies what the runs check of states.
LEMMA InvFacts ==
    ASSUME JobsInv
    PROVE  TypeOK /\ PromiseInv /\ AggregationCorrect
<1>1. OneSource
  BY OwedOnce
<1>2. JobsCarryOutcomes
  BY BaseFacts DEF JobsCarryOutcomes, WellFormed, Owed
<1>3. \A id \in DOMAIN aggs : AggregationInv(H, id, aggs[id])
  BY DEF JobsInv, AggsInv
<1>4. AggregationExact
  BY <1>3 DEF AggregationExact, AggregationInv
<1>5. AggregationCorrect
  <2> SUFFICES ASSUME NEW id \in DOMAIN aggs, ~Pending(H, aggs[id].result)
               PROVE  Verified(H, id, aggs[id])
    BY DEF AggregationCorrect
  <2>1. AggregationInv(H, id, aggs[id])
    BY <1>3
  <2>2. ~aggs[id].live
    BY <2>1 DEF AggregationInv, Counted
  <2> QED BY <2>1, <2>2 DEF AggregationInv
<1> QED BY <1>1, <1>2, <1>4, <1>5 DEF JobsInv, PromiseInv

\* The invariant: every pending promise is owed one outcome, by a reaction, a job,
\* an activation or a native, and aggregations know what they are waiting for.
THEOREM JobsInvariance == Spec => []JobsInv
<1>1. Init => JobsInv
  BY InitInv
<1>2. JobsInv /\ [Next]_vars => JobsInv'
  BY NextInv DEF StepInv
<1> QED BY <1>1, <1>2, PTL DEF Spec

\* Whatever programs do, the state has its types: reactions are on pending
\* promises only, each with another promise for its target.
THEOREM PromiseTypes == Spec => []TypeOK
<1>1. JobsInv => TypeOK
  BY InvFacts
<1> QED BY <1>1, JobsInvariance, PTL

\* A derived promise is pending exactly as long as one reaction, job or
\* activation is on its way to settle it; a job carries the outcome of its
\* source; the counters of an aggregation are exact.
THEOREM PromisesOwed == Spec => []PromiseInv
<1>1. JobsInv => PromiseInv
  BY InvFacts
<1> QED BY <1>1, JobsInvariance, PTL

\* all, race, allSettled and any settle as their definitions say, over any
\* number of elements, answering in any order.
THEOREM AggregationsCorrect == Spec => []AggregationCorrect
<1>1. JobsInv => AggregationCorrect
  BY InvFacts
<1> QED BY <1>1, JobsInvariance, PTL

\* No step changes the outcome of a settled promise.
THEOREM OutcomesFinal == Spec => SettledOnce
<1>1. JobsInv /\ [Next]_vars => [KeepsOutcomes]_vars
  BY NextInv DEF StepInv
<1> QED BY <1>1, JobsInvariance, PTL DEF Spec, SettledOnce, KeepsOutcomes

\* A finally callback that does not throw changes no outcome.
THEOREM FinallyTransparent == Spec => FinallyPasses
<1>1. JobsInv /\ [Next]_vars => [PassesOn]_vars
  BY NextInv DEF StepInv
<1> QED BY <1>1, JobsInvariance, PTL DEF Spec, FinallyPasses, PassesOn
=============================================================================
