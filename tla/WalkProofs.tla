----------------------------- MODULE WalkProofs -----------------------------
(***************************************************************************)
(* The theorems about ArrayWalks, for every world that WorldAssumption     *)
(* admits, every number of slots, kinds and byte values.                   *)
(***************************************************************************)
EXTENDS ArrayWalks, ViewProofs

-----------------------------------------------------------------------------
(* Rows: sequences of values of any kind.                                   *)

LEMMA RowSeq ==
    ASSUME NEW s, IsRow(s)
    PROVE  /\ Len(s) \in Nat /\ DOMAIN s = 1..Len(s)
           /\ s \in Seq({s[n] : n \in 1..Len(s)})
<1> DEFINE S == {s[n] : n \in 1..Len(s)}
<1>1. Len(s) \in Nat /\ s = [n \in 1..Len(s) |-> s[n]]
  BY DEF IsRow
<1>2. s \in [1..Len(s) -> S]
  BY <1>1
<1>3. \A n \in Nat : \A f \in [1..n -> S] : f \in Seq(S)
  BY RowFacts
<1> HIDE DEF S
<1>4. s \in Seq(S)
  BY <1>1, <1>2, <1>3
<1> QED BY <1>1, <1>2, <1>4 DEF S

LEMMA SeqRow ==
    ASSUME NEW S, NEW s \in Seq(S)
    PROVE  IsRow(s)
BY DEF IsRow

\* A function on 1..n is a row.
LEMMA FunctionRow ==
    ASSUME NEW n \in Nat, NEW f, f = [k \in 1..n |-> f[k]]
    PROVE  IsRow(f) /\ Len(f) = n
<1> DEFINE S == {f[k] : k \in 1..n}
<1>1. f \in [1..n -> S]
  OBVIOUS
<1>2. f \in Seq(S) /\ Len(f) = n
  BY <1>1, RowFacts
<1> QED BY <1>2, SeqRow

\* Two rows have a set in common.
LEMMA RowsSeq ==
    ASSUME NEW s, NEW t, IsRow(s), IsRow(t)
    PROVE  \E S : s \in Seq(S) /\ t \in Seq(S)
<1> DEFINE S == {s[n] : n \in 1..Len(s)}
           T == {t[n] : n \in 1..Len(t)}
<1>1. s \in Seq(S) /\ t \in Seq(T)
  BY RowSeq
<1> HIDE DEF S, T
<1>2. s \in Seq(S \cup T) /\ t \in Seq(S \cup T)
  BY <1>1
<1> QED BY <1>2

LEMMA AppendRow ==
    ASSUME NEW s, NEW e, IsRow(s)
    PROVE  /\ IsRow(Append(s, e)) /\ Len(Append(s, e)) = Len(s) + 1
           /\ Append(s, e)[Len(s) + 1] = e
           /\ \A n \in 1..Len(s) : Append(s, e)[n] = s[n]
<1> DEFINE S == {s[n] : n \in 1..Len(s)} \cup {e}
<1>1. s \in Seq({s[n] : n \in 1..Len(s)})
  BY RowSeq
<1>2. s \in Seq(S) /\ e \in S
  BY <1>1
<1> HIDE DEF S
<1>3. /\ Append(s, e) \in Seq(S) /\ Len(Append(s, e)) = Len(s) + 1
      /\ Append(s, e)[Len(s) + 1] = e
      /\ \A n \in 1..Len(s) : Append(s, e)[n] = s[n]
  BY <1>2, AppendFacts
<1>4. IsRow(Append(s, e))
  BY <1>3, SeqRow
<1> QED BY <1>3, <1>4

LEMMA JoinRow ==
    ASSUME NEW s, NEW t, IsRow(s), IsRow(t)
    PROVE  /\ IsRow(s \o t) /\ Len(s \o t) = Len(s) + Len(t)
           /\ \A i \in 1..Len(s) : (s \o t)[i] = s[i]
           /\ \A i \in 1..Len(t) : (s \o t)[Len(s) + i] = t[i]
<1>1. PICK S : s \in Seq(S) /\ t \in Seq(S)
  BY RowsSeq
<1>2. /\ s \o t \in Seq(S) /\ Len(s \o t) = Len(s) + Len(t)
      /\ \A i \in 1..Len(s) : (s \o t)[i] = s[i]
      /\ \A i \in 1..Len(t) : (s \o t)[Len(s) + i] = t[i]
  BY <1>1, JoinFacts
<1>3. IsRow(s \o t)
  BY <1>2, SeqRow
<1> QED BY <1>2, <1>3

\* A stretch of a row.
LEMMA StretchRow ==
    ASSUME NEW s, IsRow(s), NEW m \in Nat, NEW n \in 0..Len(s)
    PROVE  /\ IsRow(SubSeq(s, m + 1, n)) /\ Len(SubSeq(s, m + 1, n)) = Span(m, n)
           /\ \A i \in 1..Span(m, n) : SubSeq(s, m + 1, n)[i] = s[m + i]
<1>1. PICK S : s \in Seq(S)
  BY RowSeq
<1> QED BY <1>1, StretchFacts, SeqRow

\* An element replaced.
LEMMA ExceptRow ==
    ASSUME NEW s, IsRow(s), NEW n, NEW v
    PROVE  /\ IsRow([s EXCEPT ![n] = v]) /\ Len([s EXCEPT ![n] = v]) = Len(s)
           /\ \A k \in 1..Len(s) : [s EXCEPT ![n] = v][k] = IF k = n THEN v ELSE s[k]
<1>1. Len(s) \in Nat /\ DOMAIN s = 1..Len(s)
  BY RowSeq
<1>2. [s EXCEPT ![n] = v] = [k \in 1..Len(s) |-> IF k = n THEN v ELSE s[k]]
  BY <1>1
<1>3. [s EXCEPT ![n] = v] = [k \in 1..Len(s) |-> [s EXCEPT ![n] = v][k]]
  BY <1>2
<1> QED BY <1>1, <1>2, <1>3, FunctionRow
-----------------------------------------------------------------------------
(* Receivers.                                                               *)

LEMMA KeyFacts ==
    /\ MaxDenseElements \in Nat /\ MaxDenseElements < Len(Indices) /\ Len(Indices) \in Nat
    /\ DOMAIN Indices = 1..Len(Indices)
    /\ \A k \in IndexKeys : IndexOf(k) \in 0..(Len(Indices) - 1) /\ IndexKey(IndexOf(k)) = k
    /\ \A i \in 0..(Len(Indices) - 1) : IndexKey(i) \in IndexKeys /\ IndexOf(IndexKey(i)) = i
    /\ "length" \notin IndexKeys
<1>1. /\ IsRow(Indices) /\ "length" \notin IndexKeys
  BY WorldAssumption
<1>2. Len(Indices) \in Nat /\ DOMAIN Indices = 1..Len(Indices)
  BY <1>1, RowSeq
<1>3. MaxDenseElements \in Nat /\ MaxDenseElements < Len(Indices)
  BY <1>2, DenseAssumption
<1>4. ASSUME NEW k \in IndexKeys
      PROVE  IndexOf(k) \in 0..(Len(Indices) - 1) /\ IndexKey(IndexOf(k)) = k
  <2>1. \E n \in DOMAIN Indices : Indices[n] = k
    BY DEF IndexKeys
  <2>2. PICK n \in DOMAIN Indices : n = IndexOf(k) + 1 /\ Indices[n] = k
    <3> DEFINE n == CHOOSE m \in DOMAIN Indices : Indices[m] = k
    <3>1. n \in DOMAIN Indices /\ Indices[n] = k
      BY <2>1
    <3>2. n \in 1..Len(Indices) /\ IndexOf(k) = n - 1
      BY <1>2, <3>1 DEF IndexOf
    <3>3. n = IndexOf(k) + 1
      BY <1>2, <3>2
    <3> QED BY <3>1, <3>3
  <2>3. IndexOf(k) = n - 1
    <3> DEFINE m == CHOOSE m \in DOMAIN Indices : Indices[m] = k
    <3>1. m \in DOMAIN Indices
      BY <2>1
    <3>2. m \in 1..Len(Indices) /\ IndexOf(k) = m - 1
      BY <1>2, <3>1 DEF IndexOf
    <3> QED BY <1>2, <2>2, <3>2
  <2> QED BY <1>2, <2>2, <2>3 DEF IndexKey
<1>5. ASSUME NEW i \in 0..(Len(Indices) - 1)
      PROVE  IndexKey(i) \in IndexKeys /\ IndexOf(IndexKey(i)) = i
  <2>1. i + 1 \in DOMAIN Indices /\ IndexKey(i) = Indices[i + 1]
    BY <1>2 DEF IndexKey
  <2>2. IndexKey(i) \in IndexKeys
    BY <2>1 DEF IndexKeys
  <2>3. IndexOf(IndexKey(i)) \in 0..(Len(Indices) - 1) /\ IndexKey(IndexOf(IndexKey(i))) = IndexKey(i)
    BY <1>4, <2>2
  <2>4. IndexOf(IndexKey(i)) + 1 \in DOMAIN Indices
    BY <1>2, <2>3
  <2>5. Indices[IndexOf(IndexKey(i)) + 1] = Indices[i + 1]
    BY <2>3 DEF IndexKey
  <2>6. IndexOf(IndexKey(i)) + 1 = i + 1
    BY <2>1, <2>4, <2>5, KeyAssumption
  <2> QED BY <1>2, <2>2, <2>3, <2>6
<1> QED BY <1>1, <1>2, <1>3, <1>4, <1>5

ArrayFields ==
    {"kind", "elements", "properties", "holes", "lengthWritable",
     "proto", "extensible", "frozen", "sealed"}

LEMMA ArrayShape ==
    ASSUME NEW r, IsArrayObject(r)
    PROVE  /\ DOMAIN r = ArrayFields /\ DOMAIN r.properties = {"values", "order"}
           /\ IsRow(r.elements) /\ Length(r) = Len(r.elements)
           /\ Length(r) \in Nat /\ Length(r) <= MaxDenseElements
           /\ DOMAIN r.elements = 1..Length(r)
<1>1. DOMAIN NewArray(NoObject, <<>>) = ArrayFields
  BY DEF NewArray, Overlaid, Header, ArrayFields
<1>2. DOMAIN EmptyTable = {"values", "order"}
  BY DEF EmptyTable
<1>3. IsRow(r.elements)
  BY DEF IsArrayObject, Coherent
<1> QED BY <1>1, <1>2, <1>3, RowSeq DEF IsArrayObject, Coherent, Length

\* Its parts show that it is one.
LEMMA ArrayMade ==
    ASSUME NEW r, DOMAIN r = ArrayFields, DOMAIN r.properties = {"values", "order"},
           IsRow(r.elements), Len(r.elements) <= MaxDenseElements,
           \A k \in DOMAIN r.properties.values \cap IndexKeys :
              IsAccessor(r.properties.values[k]) /\ IndexOf(k) \in r.holes
    PROVE  IsArrayObject(r)
<1>1. DOMAIN NewArray(NoObject, <<>>) = ArrayFields
  BY DEF NewArray, Overlaid, Header, ArrayFields
<1>2. DOMAIN EmptyTable = {"values", "order"}
  BY DEF EmptyTable
<1> QED BY <1>1, <1>2 DEF IsArrayObject, Coherent, Length

LEMMA ElementsKeep ==
    ASSUME NEW r, IsArrayObject(r), NEW elements, IsRow(elements),
           Len(elements) <= MaxDenseElements
    PROVE  /\ IsArrayObject(WithElements(r, elements)) /\ WithElements(r, elements).kind = r.kind
           /\ WithElements(r, elements).elements = elements
           /\ WithElements(r, elements).properties = r.properties
           /\ WithElements(r, elements).holes = r.holes
<1> DEFINE new == WithElements(r, elements)
<1>1. DOMAIN r = ArrayFields /\ DOMAIN r.properties = {"values", "order"}
  BY ArrayShape
<1>2. /\ DOMAIN new = ArrayFields /\ new.elements = elements /\ new.properties = r.properties
      /\ new.holes = r.holes /\ new.kind = r.kind
  BY <1>1 DEF WithElements, ArrayFields
<1>3. \A k \in DOMAIN r.properties.values \cap IndexKeys :
         IsAccessor(r.properties.values[k]) /\ IndexOf(k) \in r.holes
  BY DEF IsArrayObject, Coherent
<1> HIDE DEF new
<1> QED BY <1>1, <1>2, <1>3, ArrayMade DEF new

LEMMA DropKeeps ==
    ASSUME NEW r, IsArrayObject(r)
    PROVE  /\ IsArrayObject(DropIndexEntries(r)) /\ DropIndexEntries(r).kind = r.kind
           /\ DropIndexEntries(r).elements = r.elements /\ DropIndexEntries(r).holes = {}
<1> DEFINE new == DropIndexEntries(r)
<1>1. DOMAIN r = ArrayFields /\ IsRow(r.elements) /\ Len(r.elements) <= MaxDenseElements
  BY ArrayShape
<1>2. /\ DOMAIN new = ArrayFields /\ new.elements = r.elements /\ new.holes = {}
      /\ new.properties = TableRemove(r.properties, IndexKeys) /\ new.kind = r.kind
  BY <1>1 DEF DropIndexEntries, ArrayFields
<1>3. /\ DOMAIN new.properties = {"values", "order"}
      /\ DOMAIN new.properties.values \cap IndexKeys = {}
  BY <1>2 DEF TableRemove
<1> HIDE DEF new
<1> QED BY <1>1, <1>2, <1>3, ArrayMade DEF new

\* A bounded set of natural numbers has a greatest element.
LEMMA GreatestElement ==
    ASSUME NEW n \in Nat, NEW S \in SUBSET (0..n), S # {}
    PROVE  \E x \in S : \A y \in S : y <= x
<1> DEFINE T == {n - x : x \in S}
<1>0. \A x \in S : n - x \in Nat
  OBVIOUS
<1>1. T \in SUBSET Nat /\ T # {}
  BY <1>0
<1>2. PICK m \in T : \A k \in T : m <= k
  BY <1>1, LeastElement
<1>3. PICK x \in S : m = n - x
  OBVIOUS
<1>4. \A y \in S : n - x <= n - y
  BY <1>2, <1>3
<1>5. \A y \in S : y <= x
  BY <1>4
<1> QED BY <1>5

LEMMA ResizedRow ==
    ASSUME NEW elements, NEW n \in Nat
    PROVE  IsRow(Resized(elements, n)) /\ Len(Resized(elements, n)) = n
<1> DEFINE f == Resized(elements, n)
<1>1. f = [m \in 1..n |-> IF m <= Len(elements) THEN elements[m] ELSE Undefined]
  BY DEF Resized
<1>2. f = [m \in 1..n |-> f[m]]
  BY <1>1
<1> HIDE DEF f
<1> QED BY <1>2, FunctionRow DEF f

\* Up to which index an array is cut.
Clamped(r, n) ==
    LET stuck == {i \in n..(Length(r) - 1) :
                    \/ r.frozen \/ r.sealed
                    \/ \E d \in TableGet(r.properties, IndexKey(i)) : ~d.configurable}
    IN  IF stuck = {} THEN n ELSE 1 + CHOOSE i \in stuck : \A j \in stuck : j <= i

LEMMA ClampedFacts ==
    ASSUME NEW r, Length(r) \in Nat, NEW n \in Nat
    PROVE  Clamped(r, n) \in Nat /\ (Clamped(r, n) = n \/ Clamped(r, n) \in (n + 1)..Length(r))
<1> DEFINE stuck == {i \in n..(Length(r) - 1) :
                       \/ r.frozen \/ r.sealed
                       \/ \E d \in TableGet(r.properties, IndexKey(i)) : ~d.configurable}
           top == CHOOSE i \in stuck : \A j \in stuck : j <= i
<1>1. Clamped(r, n) = IF stuck = {} THEN n ELSE 1 + top
  BY DEF Clamped
<1>2. stuck \in SUBSET (0..Length(r)) /\ stuck \subseteq n..(Length(r) - 1)
  OBVIOUS
<1> HIDE DEF stuck
<1>3. ASSUME stuck # {} PROVE top \in stuck
  <2>1. \E i \in stuck : \A j \in stuck : j <= i
    BY <1>2, <1>3, GreatestElement
  <2> QED BY <2>1
<1> HIDE DEF top
<1>4. stuck # {} => top \in n..(Length(r) - 1)
  BY <1>2, <1>3
<1> QED BY <1>1, <1>4

LEMMA ResizeKeeps ==
    ASSUME NEW r, IsArrayObject(r), NEW n \in 0..MaxDenseElements
    PROVE  /\ IsArrayObject(ResizeLength(r, n).rep) /\ ResizeLength(r, n).rep.kind = r.kind
<1> DEFINE new == ResizeLength(r, n).rep
           c == Clamped(r, n)
           gone == TableIndices(r, c..Len(Indices))
<1>1. /\ DOMAIN r = ArrayFields /\ DOMAIN r.properties = {"values", "order"}
      /\ Length(r) \in Nat /\ Length(r) <= MaxDenseElements /\ MaxDenseElements \in Nat
  BY ArrayShape, KeyFacts
<1>2. n \in Nat /\ c \in Nat /\ c <= MaxDenseElements
  <2>1. n \in Nat /\ n <= MaxDenseElements
    BY <1>1
  <2>2. c \in Nat /\ (c = n \/ c \in (n + 1)..Length(r))
    BY <1>1, <2>1, ClampedFacts
  <2> HIDE DEF c
  <2> QED BY <1>1, <2>1, <2>2
<1>3. new = [r EXCEPT !.elements = Resized(@, c),
                      !.holes = IF n >= Length(r) THEN @ ELSE @ \cap 0..(c - 1),
                      !.properties = IF n >= Length(r) THEN @ ELSE TableRemove(@, gone)]
  BY DEF ResizeLength, Clamped
<1> HIDE DEF new, c
<1>4. /\ DOMAIN new = ArrayFields /\ new.kind = r.kind
      /\ new.elements = Resized(r.elements, c)
      /\ new.holes = IF n >= Length(r) THEN r.holes ELSE r.holes \cap 0..(c - 1)
      /\ new.properties = IF n >= Length(r) THEN r.properties ELSE TableRemove(r.properties, gone)
  BY <1>1, <1>3 DEF ArrayFields
<1>5. IsRow(new.elements) /\ Len(new.elements) <= MaxDenseElements
  BY <1>2, <1>4, ResizedRow
<1>6. /\ DOMAIN TableRemove(r.properties, gone) = {"values", "order"}
      /\ DOMAIN TableRemove(r.properties, gone).values = DOMAIN r.properties.values \ gone
      /\ \A k \in DOMAIN r.properties.values \ gone :
            TableRemove(r.properties, gone).values[k] = r.properties.values[k]
  BY DEF TableRemove
<1>7. \A k \in DOMAIN r.properties.values \cap IndexKeys :
         IsAccessor(r.properties.values[k]) /\ IndexOf(k) \in r.holes
  BY DEF IsArrayObject, Coherent
<1>8. ASSUME NEW k \in DOMAIN new.properties.values \cap IndexKeys
      PROVE  IsAccessor(new.properties.values[k]) /\ IndexOf(k) \in new.holes
  <2>1. CASE n >= Length(r)
    BY <1>4, <1>7, <2>1
  <2>2. CASE ~ (n >= Length(r))
    <3>1. k \in DOMAIN r.properties.values /\ k \notin gone
      BY <1>4, <1>6, <2>2
    <3>2. IndexOf(k) \notin c..Len(Indices)
      BY <3>1 DEF TableIndices
    <3>3. IndexOf(k) \in 0..(Len(Indices) - 1) /\ Len(Indices) \in Nat
      BY KeyFacts
    <3>4. IndexOf(k) \in 0..(c - 1)
      BY <1>2, <3>2, <3>3
    <3> QED BY <1>4, <1>6, <1>7, <2>2, <3>1, <3>4
  <2> QED BY <2>1, <2>2
<1>9. DOMAIN new.properties = {"values", "order"}
  BY <1>1, <1>4, <1>6
<1>10. IsArrayObject(new)
  BY <1>4, <1>5, <1>8, <1>9, ArrayMade
<1> QED BY <1>4, <1>10 DEF new

LEMMA PlacedFacts ==
    ASSUME NEW r, IsArrayObject(r), NEW i \in Nat, i < MaxDenseElements, NEW v
    PROVE  /\ DOMAIN Placed(r, i, v) = ArrayFields /\ IsRow(Placed(r, i, v).elements)
           /\ Len(Placed(r, i, v).elements) <= MaxDenseElements
           /\ \A f \in ArrayFields \ {"elements"} : Placed(r, i, v)[f] = r[f]
<1> DEFINE new == Placed(r, i, v)
           n == IF i >= Len(r.elements) THEN i + 1 ELSE Len(r.elements)
<1>1. /\ DOMAIN r = ArrayFields /\ Len(r.elements) \in Nat
      /\ Len(r.elements) <= MaxDenseElements /\ MaxDenseElements \in Nat
  BY ArrayShape, KeyFacts
<1>2. new = [r EXCEPT !.elements = [Resized(r.elements, n) EXCEPT ![i + 1] = v]]
  BY <1>1 DEF Placed
<1>3. n \in Nat /\ n <= MaxDenseElements
  BY <1>1
<1> HIDE DEF n
<1>4. IsRow(Resized(r.elements, n)) /\ Len(Resized(r.elements, n)) = n
  BY <1>3, ResizedRow
<1>5. /\ IsRow([Resized(r.elements, n) EXCEPT ![i + 1] = v])
      /\ Len([Resized(r.elements, n) EXCEPT ![i + 1] = v]) = n
  BY <1>4, ExceptRow
<1>6. /\ DOMAIN new = ArrayFields /\ new.elements = [Resized(r.elements, n) EXCEPT ![i + 1] = v]
      /\ \A f \in ArrayFields \ {"elements"} : new[f] = r[f]
  BY <1>1, <1>2 DEF ArrayFields
<1> HIDE DEF new
<1> QED BY <1>3, <1>5, <1>6 DEF new

\* Assignment, deletion and the definition of a getter.
LEMMA SetKeeps ==
    ASSUME NEW r, IsArrayObject(r), NEW v, NEW k, k \in IndexKeys \cup {"length"}
    PROVE  IsArrayObject(ArraySet(r, k, v).rep) /\ ArraySet(r, k, v).rep.kind = r.kind
<1> DEFINE i == IndexOf(k)
           new == ArraySet(r, k, v).rep
<1>0. \A o, x : Answer(o, x).rep = x
  BY DEF Answer
<1>1. CASE r.frozen
  BY <1>0, <1>1 DEF ArraySet
<1>2. CASE ~r.frozen /\ k = "length"
  <2>1. new = SetLength(r, v).rep
    BY <1>2 DEF ArraySet
  <2>2. AsLength(v) # {} => (CHOOSE n \in AsLength(v) : TRUE) \in 0..MaxDenseElements
    <3>1. ASSUME AsLength(v) # {} PROVE AsLength(v) = {IndexOf(v)} /\ IndexOf(v) \in 0..MaxDenseElements
      <4>1. v \in IndexKeys /\ IndexOf(v) <= MaxDenseElements /\ AsLength(v) = {IndexOf(v)}
        BY <3>1 DEF AsLength
      <4>2. IndexOf(v) \in 0..(Len(Indices) - 1) /\ Len(Indices) \in Nat /\ MaxDenseElements \in Nat
        BY <4>1, KeyFacts
      <4> QED BY <4>1, <4>2
    <3> QED BY <3>1
  <2>3. CASE ~r.lengthWritable \/ AsLength(v) = {}
    <3>1. new = r
      BY <1>0, <2>1, <2>3 DEF SetLength
    <3> QED BY <3>1
  <2>4. CASE ~ (~r.lengthWritable \/ AsLength(v) = {})
    <3>1. PICK n \in 0..MaxDenseElements : n = CHOOSE m \in AsLength(v) : TRUE
      BY <2>2, <2>4
    <3>2. new = ResizeLength(r, n).rep
      BY <1>0, <2>1, <2>4, <3>1 DEF SetLength
    <3> QED BY <3>2, ResizeKeeps
  <2> QED BY <2>3, <2>4
<1>3. CASE ~r.frozen /\ k \in IndexKeys
  <2>1. new = SetElement(r, k, v).rep /\ k # "length"
    BY <1>3, KeyFacts DEF ArraySet
  <2>2. i \in Nat /\ MaxDenseElements \in Nat
    BY <1>3, KeyFacts
  <2>3. /\ DOMAIN r = ArrayFields /\ DOMAIN r.properties = {"values", "order"}
        /\ IsRow(r.elements) /\ Length(r) = Len(r.elements) /\ DOMAIN r.elements = 1..Length(r)
        /\ Length(r) \in Nat /\ Length(r) <= MaxDenseElements
    BY ArrayShape
  <2>4. \A x \in DOMAIN r.properties.values \cap IndexKeys :
           IsAccessor(r.properties.values[x]) /\ IndexOf(x) \in r.holes
    BY DEF IsArrayObject, Coherent
  <2>5. CASE TableHas(r.properties, k)
    <3>1. CASE ~r.properties.values[k].writable
      <4>1. new = r
        BY <1>0, <2>1, <2>5, <3>1 DEF SetElement
      <4> QED BY <4>1
    <3>2. CASE r.properties.values[k].writable
      <4> DEFINE elements == [n \in DOMAIN r.elements |-> IF n = i + 1 THEN v ELSE r.elements[n]]
      <4>1. new = [r EXCEPT !.properties.values[k].value = v, !.elements = elements]
        BY <1>0, <2>1, <2>5, <3>2 DEF SetElement
      <4>2. IsRow(elements) /\ Len(elements) = Length(r)
        <5>1. elements = [n \in 1..Length(r) |-> elements[n]]
          BY <2>3
        <5> HIDE DEF elements
        <5> QED BY <2>3, <5>1, FunctionRow
      <4> HIDE DEF elements
      <4>3. /\ DOMAIN new = ArrayFields /\ new.kind = r.kind /\ new.elements = elements
            /\ new.holes = r.holes
            /\ new.properties = [r.properties EXCEPT !.values[k].value = v]
        BY <2>3, <4>1 DEF ArrayFields
      <4>4. /\ DOMAIN new.properties = {"values", "order"}
            /\ new.properties.values = [r.properties.values EXCEPT ![k].value = v]
        BY <2>3, <4>3
      <4>5. DOMAIN new.properties.values = DOMAIN r.properties.values
        BY <4>4
      <4>6. ASSUME NEW x \in DOMAIN new.properties.values \cap IndexKeys
            PROVE  IsAccessor(new.properties.values[x]) /\ IndexOf(x) \in new.holes
        <5>1. x \in DOMAIN r.properties.values \cap IndexKeys
          BY <4>5
        <5>2. IsAccessor(r.properties.values[x]) /\ IndexOf(x) \in r.holes
          BY <2>4, <5>1
        <5>3. /\ new.properties.values[x].getter = r.properties.values[x].getter
              /\ new.properties.values[x].setter = r.properties.values[x].setter
          BY <4>4, <5>1
        <5> QED BY <4>3, <5>2, <5>3 DEF IsAccessor
      <4>7. IsArrayObject(new)
        BY <2>3, <4>2, <4>3, <4>4, <4>6, ArrayMade
      <4> QED BY <4>3, <4>7
    <3> QED BY <3>1, <3>2
  <2>6. CASE ~TableHas(r.properties, k) /\ (i >= MaxDenseElements \/ (i >= Length(r) /\ ~r.lengthWritable))
    <3>1. new = r
      BY <1>0, <2>1, <2>6 DEF SetElement
    <3> QED BY <3>1
  <2>7. CASE /\ ~TableHas(r.properties, k)
             /\ ~ (i >= MaxDenseElements \/ (i >= Length(r) /\ ~r.lengthWritable))
    <3> DEFINE placed == Placed(r, i, v)
    <3>1. new = [placed EXCEPT !.holes = @ \ {i}]
      BY <1>0, <2>1, <2>7 DEF SetElement
    <3>2. i < MaxDenseElements
      BY <2>2, <2>7
    <3>3. /\ DOMAIN placed = ArrayFields /\ IsRow(placed.elements)
          /\ Len(placed.elements) <= MaxDenseElements
          /\ \A f \in ArrayFields \ {"elements"} : placed[f] = r[f]
      BY <2>2, <3>2, PlacedFacts
    <3> HIDE DEF placed
    <3>4. /\ DOMAIN new = ArrayFields /\ new.elements = placed.elements
          /\ new.properties = r.properties /\ new.holes = r.holes \ {i} /\ new.kind = r.kind
      BY <3>1, <3>3 DEF ArrayFields
    <3>5. ASSUME NEW x \in DOMAIN r.properties.values \cap IndexKeys
          PROVE  IsAccessor(r.properties.values[x]) /\ IndexOf(x) \in r.holes \ {i}
      <4>1. x # k
        BY <2>7 DEF TableHas
      <4>2. IndexKey(IndexOf(x)) = x /\ IndexKey(i) = k
        BY <1>3, KeyFacts
      <4> QED BY <2>4, <4>1, <4>2
    <3>6. IsArrayObject(new)
      BY <2>3, <3>3, <3>4, <3>5, ArrayMade
    <3> QED BY <3>4, <3>6
  <2> QED BY <2>5, <2>6, <2>7
<1> QED BY <1>1, <1>2, <1>3

LEMMA DeleteKeeps ==
    ASSUME NEW r, IsArrayObject(r), NEW k \in IndexKeys
    PROVE  IsArrayObject(ArrayDelete(r, k).rep) /\ ArrayDelete(r, k).rep.kind = r.kind
<1> DEFINE new == ArrayDelete(r, k).rep
           removed == [r EXCEPT !.properties = TableRemove(@, {k})]
           table == TableRemove(r.properties, {k})
<1>0. \A o, x : Answer(o, x).rep = x
  BY DEF Answer
<1>1. /\ DOMAIN r = ArrayFields /\ DOMAIN r.properties = {"values", "order"}
      /\ IsRow(r.elements) /\ Length(r) = Len(r.elements) /\ Len(r.elements) <= MaxDenseElements
  BY ArrayShape
<1>2. /\ DOMAIN table = {"values", "order"} /\ DOMAIN table.values = DOMAIN r.properties.values \ {k}
      /\ \A x \in DOMAIN table.values : table.values[x] = r.properties.values[x]
  BY DEF TableRemove
<1> HIDE DEF table
<1>3. \A x \in DOMAIN table.values \cap IndexKeys : IsAccessor(table.values[x]) /\ IndexOf(x) \in r.holes
  BY <1>2 DEF IsArrayObject, Coherent
<1>4. CASE new = r
  BY <1>4
<1>5. CASE new = removed
  <2>1. /\ DOMAIN new = ArrayFields /\ new.elements = r.elements /\ new.holes = r.holes
        /\ new.properties = table /\ new.kind = r.kind
    BY <1>1, <1>5 DEF ArrayFields, table
  <2>2. IsArrayObject(new)
    BY <1>1, <1>2, <1>3, <2>1, ArrayMade
  <2> QED BY <2>1, <2>2
<1>6. CASE new = [removed EXCEPT !.elements[IndexOf(k) + 1] = Undefined, !.holes = @ \cup {IndexOf(k)}]
  <2> DEFINE elements == [r.elements EXCEPT ![IndexOf(k) + 1] = Undefined]
  <2>1. IsRow(elements) /\ Len(elements) = Len(r.elements)
    BY <1>1, ExceptRow
  <2> HIDE DEF elements
  <2>2. /\ DOMAIN new = ArrayFields /\ new.elements = elements /\ new.holes = r.holes \cup {IndexOf(k)}
        /\ new.properties = table /\ new.kind = r.kind
    BY <1>1, <1>6 DEF ArrayFields, table, elements
  <2>3. IsArrayObject(new)
    BY <1>1, <1>2, <1>3, <2>1, <2>2, ArrayMade
  <2> QED BY <2>2, <2>3
<1>7. \/ new = r \/ new = removed
      \/ new = [removed EXCEPT !.elements[IndexOf(k) + 1] = Undefined, !.holes = @ \cup {IndexOf(k)}]
  BY <1>0 DEF ArrayDelete
<1> QED BY <1>4, <1>5, <1>6, <1>7

LEMMA GetterKeeps ==
    ASSUME NEW r, IsArrayObject(r), NEW k \in IndexKeys
    PROVE  /\ IsArrayObject(ArrayDefine(r, k, GetterDescriptor).rep)
           /\ ArrayDefine(r, k, GetterDescriptor).rep.kind = r.kind
<1> DEFINE new == ArrayDefine(r, k, GetterDescriptor).rep
           i == IndexOf(k)
           placed == Placed(r, i, Undefined)
           table == TableInsert(r.properties, k, GetterDescriptor)
<1>0. \A o, x : Answer(o, x).rep = x
  BY DEF Answer
<1>1. /\ DOMAIN r = ArrayFields /\ DOMAIN r.properties = {"values", "order"}
  BY ArrayShape
<1>2. IsAccessor(GetterDescriptor) /\ ~IsDefault(GetterDescriptor)
  <2>1. GetterDescriptor.getter = "f"
    BY DEF GetterDescriptor, DataDescriptor
  <2> QED BY <2>1 DEF IsAccessor, IsDefault, IsData, None
<1>3. \/ new = r
      \/ i < MaxDenseElements /\ new = [placed EXCEPT !.properties = TableInsert(@, k, GetterDescriptor),
                                                      !.holes = @ \cup {i}]
  <2>1. k # "length" /\ i \in Nat /\ MaxDenseElements \in Nat
    BY KeyFacts
  <2>2. r.frozen => new = r
    BY <1>0 DEF ArrayDefine
  <2>3. ~r.frozen => new = DefineElement(r, k, GetterDescriptor).rep
    BY <2>1 DEF ArrayDefine
  <2>4. \/ DefineElement(r, k, GetterDescriptor).rep = r
        \/ /\ ~ (i >= MaxDenseElements)
           /\ DefineElement(r, k, GetterDescriptor).rep =
                 [placed EXCEPT !.properties = TableInsert(@, k, GetterDescriptor), !.holes = @ \cup {i}]
    BY <1>0, <1>2 DEF DefineElement
  <2> QED BY <2>1, <2>2, <2>3, <2>4
<1>4. CASE new = r
  BY <1>4
<1>5. CASE /\ i < MaxDenseElements
           /\ new = [placed EXCEPT !.properties = TableInsert(@, k, GetterDescriptor),
                                   !.holes = @ \cup {i}]
  <2>1. i \in Nat
    BY KeyFacts
  <2>2. /\ DOMAIN placed = ArrayFields /\ IsRow(placed.elements)
        /\ Len(placed.elements) <= MaxDenseElements
        /\ \A f \in ArrayFields \ {"elements"} : placed[f] = r[f]
    BY <1>5, <2>1, PlacedFacts
  <2> HIDE DEF placed, i
  <2>3. /\ DOMAIN new = ArrayFields /\ new.elements = placed.elements
        /\ new.properties = table /\ new.holes = r.holes \cup {i} /\ new.kind = r.kind
    BY <1>5, <2>2 DEF ArrayFields, table
  <2>4. /\ DOMAIN table = {"values", "order"} /\ DOMAIN table.values = {k} \cup DOMAIN r.properties.values
        /\ \A x \in DOMAIN table.values :
              table.values[x] = IF x = k THEN GetterDescriptor ELSE r.properties.values[x]
    BY DEF TableInsert, Overlaid, table
  <2> HIDE DEF table
  <2>5. ASSUME NEW x \in DOMAIN table.values \cap IndexKeys
        PROVE  IsAccessor(table.values[x]) /\ IndexOf(x) \in r.holes \cup {i}
    <3>1. CASE x = k
      BY <1>2, <2>4, <3>1 DEF i
    <3>2. CASE x # k
      BY <2>4, <3>2 DEF IsArrayObject, Coherent
    <3> QED BY <3>1, <3>2
  <2>6. IsArrayObject(new)
    BY <2>2, <2>3, <2>4, <2>5, ArrayMade
  <2> QED BY <2>3, <2>6
<1> QED BY <1>3, <1>4, <1>5

LEMMA DenseMethodsKeep ==
    ASSUME NEW r, IsArrayObject(r)
    PROVE  /\ \A v : Length(r) + 1 <= MaxDenseElements =>
                 IsArrayObject(ArrayPush(r, v)) /\ ArrayPush(r, v).kind = r.kind
           /\ IsArrayObject(ArrayPop(r)) /\ ArrayPop(r).kind = r.kind
           /\ IsArrayObject(ArrayShift(r)) /\ ArrayShift(r).kind = r.kind
           /\ \A v : Length(r) + 1 <= MaxDenseElements =>
                 IsArrayObject(ArrayUnshift(r, v)) /\ ArrayUnshift(r, v).kind = r.kind
<1>1. /\ IsRow(r.elements) /\ Length(r) = Len(r.elements) /\ Length(r) \in Nat
      /\ Length(r) <= MaxDenseElements /\ MaxDenseElements \in Nat
  BY ArrayShape, KeyFacts
<1>2. ASSUME NEW v, Length(r) + 1 <= MaxDenseElements
      PROVE  IsArrayObject(ArrayPush(r, v)) /\ ArrayPush(r, v).kind = r.kind
  <2>1. IsRow(Append(r.elements, v)) /\ Len(Append(r.elements, v)) = Length(r) + 1
    BY <1>1, AppendRow
  <2>2. Len(Append(r.elements, v)) <= MaxDenseElements
    BY <1>2, <2>1
  <2> QED BY <2>1, <2>2, ElementsKeep DEF ArrayPush
<1>3. IsArrayObject(ArrayPop(r)) /\ ArrayPop(r).kind = r.kind
  <2>1. CASE r.elements = <<>>
    <3>1. IsRow(<<>>) /\ Len(<<>>) <= MaxDenseElements
      BY <1>1, <2>1
    <3> QED BY <2>1, <3>1, ElementsKeep DEF ArrayPop
  <2>2. CASE r.elements # <<>>
    <3> DEFINE cut == SubSeq(r.elements, 1, Length(r) - 1)
    <3>1. Length(r) > 0
      <4>1. PICK S : r.elements \in Seq(S)
        BY <1>1, RowSeq
      <4> QED BY <1>1, <2>2, <4>1
    <3>2. PICK n \in 0..Length(r) : n = Length(r) - 1
      <4>1. Length(r) - 1 \in 0..Length(r)
        BY <1>1, <3>1
      <4> QED BY <4>1
    <3>3. IsRow(SubSeq(r.elements, 0 + 1, n)) /\ Len(SubSeq(r.elements, 0 + 1, n)) = Span(0, n)
      BY <1>1, StretchRow
    <3>4. Span(0, n) = n /\ 0 + 1 = 1
      BY <1>1 DEF Span
    <3>5. IsRow(cut) /\ Len(cut) <= MaxDenseElements
      BY <1>1, <3>2, <3>3, <3>4
    <3>6. ArrayPop(r) = WithElements(r, cut)
      BY <2>2 DEF ArrayPop
    <3> HIDE DEF cut
    <3> QED BY <3>5, <3>6, ElementsKeep
  <2> QED BY <2>1, <2>2
<1>4. IsArrayObject(ArrayShift(r)) /\ ArrayShift(r).kind = r.kind
  <2>1. CASE r.elements = <<>>
    BY <2>1 DEF ArrayShift
  <2>2. CASE r.elements # <<>>
    <3>1. PICK S : r.elements \in Seq(S)
      BY <1>1, RowSeq
    <3>2. Tail(r.elements) \in Seq(S) /\ Len(Tail(r.elements)) = Length(r) - 1
      BY <1>1, <2>2, <3>1, TailFacts
    <3>3. IsRow(Tail(r.elements)) /\ Len(Tail(r.elements)) <= MaxDenseElements
      <4>1. IsRow(Tail(r.elements))
        BY <3>2, SeqRow
      <4>2. Length(r) - 1 <= MaxDenseElements
        BY <1>1
      <4> QED BY <3>2, <4>1, <4>2
    <3>4. ArrayShift(r) = DropIndexEntries(WithElements(r, Tail(r.elements)))
      BY <2>2 DEF ArrayShift
    <3>5. /\ IsArrayObject(WithElements(r, Tail(r.elements)))
          /\ WithElements(r, Tail(r.elements)).kind = r.kind
      BY <3>3, ElementsKeep
    <3> QED BY <3>4, <3>5, DropKeeps
  <2> QED BY <2>1, <2>2
<1>5. ASSUME NEW v, Length(r) + 1 <= MaxDenseElements
      PROVE  IsArrayObject(ArrayUnshift(r, v)) /\ ArrayUnshift(r, v).kind = r.kind
  <2>1. IsRow(<<v>>) /\ Len(<<v>>) = 1
    BY DEF IsRow
  <2>2. IsRow(<<v>> \o r.elements) /\ Len(<<v>> \o r.elements) = 1 + Length(r)
    BY <1>1, <2>1, JoinRow
  <2>3. Len(<<v>> \o r.elements) <= MaxDenseElements
    BY <1>1, <1>5, <2>2
  <2>4. /\ IsArrayObject(WithElements(r, <<v>> \o r.elements))
        /\ WithElements(r, <<v>> \o r.elements).kind = r.kind
    BY <2>2, <2>3, ElementsKeep
  <2> QED BY <2>4, DropKeeps DEF ArrayUnshift
<1> QED BY <1>2, <1>3, <1>4, <1>5

LEMMA SpliceKeeps ==
    ASSUME NEW r, IsArrayObject(r), NEW start \in Nat, NEW count \in Nat,
           start + count <= Length(r), NEW items, IsRow(items),
           Length(r) + (Len(items) - count) <= MaxDenseElements
    PROVE  /\ IsArrayObject(ArraySplice(r, start, count, items))
           /\ ArraySplice(r, start, count, items).kind = r.kind
<1> DEFINE before == SubSeq(r.elements, 1, start)
           after == SubSeq(r.elements, start + count + 1, Length(r))
           all == before \o items \o after
<1>1. /\ IsRow(r.elements) /\ Length(r) = Len(r.elements) /\ Length(r) \in Nat
      /\ Len(items) \in Nat /\ MaxDenseElements \in Nat
  BY ArrayShape, KeyFacts, RowSeq
<1>2. IsRow(before) /\ Len(before) = start
  <2>1. start \in 0..Len(r.elements)
    BY <1>1
  <2>2. PICK m \in Nat : m = 0
    OBVIOUS
  <2>3. IsRow(SubSeq(r.elements, m + 1, start)) /\ Len(SubSeq(r.elements, m + 1, start)) = Span(m, start)
    BY <1>1, <2>1, StretchRow
  <2>4. Span(m, start) = start /\ m + 1 = 1
    BY <2>2 DEF Span
  <2> QED BY <2>3, <2>4
<1>3. IsRow(after) /\ Len(after) = Length(r) - (start + count)
  <2>1. PICK m \in Nat : m = start + count
    OBVIOUS
  <2>2. Length(r) \in 0..Len(r.elements)
    BY <1>1
  <2>3. /\ IsRow(SubSeq(r.elements, m + 1, Length(r)))
        /\ Len(SubSeq(r.elements, m + 1, Length(r))) = Span(m, Length(r))
    BY <1>1, <2>2, StretchRow
  <2>4. Span(m, Length(r)) = Length(r) - m
    BY <1>1, <2>1 DEF Span
  <2> QED BY <2>1, <2>3, <2>4
<1> HIDE DEF before, after
<1>4. IsRow(before \o items) /\ Len(before \o items) = start + Len(items)
  BY <1>2, JoinRow
<1>5. IsRow(all) /\ Len(all) = start + Len(items) + (Length(r) - (start + count))
  BY <1>3, <1>4, JoinRow
<1>6. Len(all) <= MaxDenseElements
  <2>1. \A m, n, s, c \in Nat : s + m + (n - (s + c)) = n + (m - c)
    OBVIOUS
  <2>2. Len(items) \in Nat /\ Length(r) \in Nat
    BY <1>1
  <2>3. start + Len(items) + (Length(r) - (start + count)) = Length(r) + (Len(items) - count)
    BY <2>1, <2>2
  <2> QED BY <1>5, <2>3
<1> HIDE DEF all
<1>7. IsArrayObject(WithElements(r, all)) /\ WithElements(r, all).kind = r.kind
  BY <1>5, <1>6, ElementsKeep
<1>8. ArraySplice(r, start, count, items) = DropIndexEntries(WithElements(r, all))
  BY DEF ArraySplice, all, before, after
<1> QED BY <1>7, <1>8, DropKeeps

-----------------------------------------------------------------------------
(* Array-likes.                                                             *)

\* The content of one: the values of some indices.
IsContent(c) == c = [i \in DOMAIN c |-> c[i]] /\ DOMAIN c \subseteq Nat

LEMMA LikeMade ==
    ASSUME NEW n \in Nat, NEW c, IsContent(c)
    PROVE  /\ IsArrayLike(ArrayLike(n, c)) /\ ArrayLike(n, c).kind = "like"
           /\ ArrayLike(n, c).length = n /\ ArrayLike(n, c).content = c
BY DEF IsArrayLike, IsContent, ArrayLike

LEMMA LikeShape ==
    ASSUME NEW r, IsArrayLike(r)
    PROVE  /\ r.length \in Nat /\ IsContent(r.content) /\ r.kind = "like"
           /\ r = ArrayLike(r.length, r.content)
<1>1. r = ArrayLike(r.length, r.content)
  BY DEF IsArrayLike
<1>2. ArrayLike(r.length, r.content).kind = "like"
  BY DEF ArrayLike
<1> QED BY <1>1, <1>2 DEF IsArrayLike, IsContent

LEMMA OverlaidContent ==
    ASSUME NEW c, IsContent(c), NEW f, DOMAIN f \subseteq Nat
    PROVE  /\ IsContent(Overlaid(f, c)) /\ DOMAIN Overlaid(f, c) = DOMAIN f \cup DOMAIN c
           /\ \A i \in DOMAIN f : Overlaid(f, c)[i] = f[i]
           /\ \A i \in DOMAIN c \ DOMAIN f : Overlaid(f, c)[i] = c[i]
BY DEF IsContent, Overlaid

\* The pieces the methods are made of.
LEMMA GenericFacts ==
    ASSUME NEW n \in Nat, NEW c, IsContent(c)
    PROVE  /\ \A i, v : GenericSet(ArrayLike(n, c), i, v) = ArrayLike(n, Overlaid([k \in {i} |-> v], c))
           /\ \A is : GenericDelete(ArrayLike(n, c), is) = ArrayLike(n, [i \in DOMAIN c \ is |-> c[i]])
           /\ \A m : GenericSetLength(ArrayLike(n, c), m) = ArrayLike(m, c)
           /\ \A i, values : GenericSetAll(ArrayLike(n, c), i, values) =
                 ArrayLike(n, Overlaid([m \in i..(i + Len(values) - 1) |-> values[m - i + 1]], c))
           /\ \A is : IsContent([i \in DOMAIN c \ is |-> c[i]])
<1>1. \A i, v : GenericSet(ArrayLike(n, c), i, v) = ArrayLike(n, Overlaid([k \in {i} |-> v], c))
  BY DEF GenericSet, ArrayLike
<1>2. \A is : GenericDelete(ArrayLike(n, c), is) = ArrayLike(n, [i \in DOMAIN c \ is |-> c[i]])
  BY DEF GenericDelete, ArrayLike
<1>3. \A m : GenericSetLength(ArrayLike(n, c), m) = ArrayLike(m, c)
  BY DEF GenericSetLength, ArrayLike
<1>4. \A i, values : GenericSetAll(ArrayLike(n, c), i, values) =
         ArrayLike(n, Overlaid([m \in i..(i + Len(values) - 1) |-> values[m - i + 1]], c))
  BY DEF GenericSetAll, ArrayLike
<1>5. \A is : IsContent([i \in DOMAIN c \ is |-> c[i]])
  BY DEF IsContent
<1> QED BY <1>1, <1>2, <1>3, <1>4, <1>5

LEMMA ContentSame ==
    ASSUME NEW c, IsContent(c), NEW d, IsContent(d), DOMAIN c = DOMAIN d,
           \A i \in DOMAIN c : c[i] = d[i]
    PROVE  c = d
BY DEF IsContent

\* What a move of a window leaves.
LEMMA MoveKeeps ==
    ASSUME NEW n \in Nat, NEW c, IsContent(c), NEW from \in Nat, NEW to \in Nat,
           NEW delta \in Int, from + delta >= 0
    PROVE  \E d : /\ IsContent(d)
                  /\ WindowMove(ArrayLike(n, c), from, to, delta, n) = ArrayLike(n, d)
<1> DEFINE a == ArrayLike(n, c)
           moved == {k \in OwnIndicesBelow(a, n) : from <= k /\ k < to}
           destinations == {k + delta : k \in moved}
           vacated == {k \in OwnIndicesBelow(a, n) :
                         from + delta <= k /\ k < to + delta /\ k \notin destinations}
           d == Overlaid([k \in destinations |-> c[k - delta]], [k \in DOMAIN c \ vacated |-> c[k]])
<1>1. CASE to <= from \/ delta = 0
  BY <1>1 DEF WindowMove
<1>2. CASE ~ (to <= from \/ delta = 0)
  <2>1. a.content = c /\ OwnIndicesBelow(a, n) = {k \in DOMAIN c : k < n}
    BY DEF ArrayLike, OwnIndicesBelow
  <2>2. WindowMove(a, from, to, delta, n) = [a EXCEPT !.content = d]
    BY <1>2, <2>1 DEF WindowMove
  <2>3. [a EXCEPT !.content = d] = ArrayLike(n, d)
    BY DEF ArrayLike
  <2>4. destinations \subseteq Nat
    BY <2>1 DEF IsContent
  <2>5. IsContent([k \in DOMAIN c \ vacated |-> c[k]])
    BY GenericFacts
  <2> HIDE DEF destinations, vacated, moved
  <2>6. IsContent(d)
    BY <2>4, <2>5, OverlaidContent
  <2> QED BY <2>2, <2>3, <2>6
<1> QED BY <1>1, <1>2

\* ... of an array-like with no index past its length: the indices of the
\* destination are as those of the window were, and the others as before.
IsMoved(d, c, from, to, delta) ==
    /\ IsContent(d)
    /\ \A i \in Nat :
          LET k == IF from + delta <= i /\ i < to + delta THEN i - delta ELSE i
          IN  /\ i \in DOMAIN d <=> k \in DOMAIN c
              /\ i \in DOMAIN d => d[i] = c[k]

LEMMA MoveFacts ==
    ASSUME NEW n \in Nat, NEW c, IsContent(c), DOMAIN c \subseteq 0..(n - 1),
           NEW from \in Nat, NEW to \in Nat, to <= n, NEW delta \in Int, from + delta >= 0
    PROVE  \E d : /\ WindowMove(ArrayLike(n, c), from, to, delta, n) = ArrayLike(n, d)
                  /\ IsMoved(d, c, from, to, delta)
<1> DEFINE a == ArrayLike(n, c)
           moved == {k \in OwnIndicesBelow(a, n) : from <= k /\ k < to}
           destinations == {k + delta : k \in moved}
           vacated == {k \in OwnIndicesBelow(a, n) :
                         from + delta <= k /\ k < to + delta /\ k \notin destinations}
           f == [k \in destinations |-> c[k - delta]]
           g == [k \in DOMAIN c \ vacated |-> c[k]]
           d == Overlaid(f, g)
           at(i) == IF from + delta <= i /\ i < to + delta THEN i - delta ELSE i
<1>1. CASE to <= from \/ delta = 0
  <2>1. WindowMove(ArrayLike(n, c), from, to, delta, n) = ArrayLike(n, c)
    BY <1>1 DEF WindowMove
  <2>2. \A i \in Nat : at(i) = i
    BY <1>1
  <2>3. IsMoved(c, c, from, to, delta)
    BY <2>2 DEF IsMoved
  <2> QED BY <2>1, <2>3
<1>2. CASE ~ (to <= from \/ delta = 0)
  <2>1. a.content = c /\ OwnIndicesBelow(a, n) = DOMAIN c
    BY DEF ArrayLike, OwnIndicesBelow, IsContent
  <2>2. WindowMove(a, from, to, delta, n) = [a EXCEPT !.content = d]
    BY <1>2, <2>1 DEF WindowMove
  <2>3. [a EXCEPT !.content = d] = ArrayLike(n, d)
    BY DEF ArrayLike
  <2>4. destinations \subseteq Nat /\ DOMAIN c \subseteq Nat
    BY <2>1 DEF IsContent
  <2>5. \A i \in Nat : i \in destinations <=> from + delta <= i /\ i < to + delta /\ i - delta \in DOMAIN c
    BY <2>1, <2>4
  <2>6. \A i \in Nat : i \in vacated <=>
           /\ i \in DOMAIN c /\ from + delta <= i /\ i < to + delta /\ i - delta \notin DOMAIN c
    BY <2>1, <2>4, <2>5
  <2>7. IsContent(g)
    BY GenericFacts
  <2>8. /\ DOMAIN f = destinations /\ DOMAIN g = DOMAIN c \ vacated
        /\ \A i \in destinations : f[i] = c[i - delta]
        /\ \A i \in DOMAIN g : g[i] = c[i]
    OBVIOUS
  <2> HIDE DEF destinations, vacated, moved, f, g
  <2>9. /\ IsContent(d) /\ DOMAIN d = destinations \cup (DOMAIN c \ vacated)
        /\ \A i \in destinations : d[i] = c[i - delta]
        /\ \A i \in (DOMAIN c \ vacated) \ destinations : d[i] = c[i]
    <3>1. DOMAIN f \subseteq Nat
      BY <2>4, <2>8
    <3>2. /\ IsContent(d) /\ DOMAIN d = DOMAIN f \cup DOMAIN g
          /\ \A i \in DOMAIN f : d[i] = f[i]
          /\ \A i \in DOMAIN g \ DOMAIN f : d[i] = g[i]
      BY <2>7, <3>1, OverlaidContent
    <3> HIDE DEF d
    <3> QED BY <2>8, <3>2
  <2> HIDE DEF d
  <2>10. ASSUME NEW i \in Nat
         PROVE  /\ i \in DOMAIN d <=> at(i) \in DOMAIN c
                /\ i \in DOMAIN d => d[i] = c[at(i)]
    <3>1. CASE from + delta <= i /\ i < to + delta
      BY <2>5, <2>6, <2>9, <3>1
    <3>2. CASE ~ (from + delta <= i /\ i < to + delta)
      BY <2>5, <2>6, <2>9, <3>2
    <3> QED BY <3>1, <3>2
  <2>11. IsMoved(d, c, from, to, delta)
    BY <2>9, <2>10 DEF IsMoved
  <2> QED BY <2>2, <2>3, <2>11
<1> QED BY <1>1, <1>2

\* What splice leaves of an array-like that owns all it has.
OwnSpliced(a, start, count, items) ==
    LET n == Len(items)
        from(i) == IF i < start THEN i ELSE i - n + count
        inserted(i) == start <= i /\ i < start + n
        there == {i \in 0..(a.length - count + n - 1) : inserted(i) \/ from(i) \in DOMAIN a.content}
    IN  [i \in there |-> IF inserted(i) THEN items[i - start + 1] ELSE a.content[from(i)]]

\* splice as the language defines it, index by index: d is the content c of
\* length n with count values from start on replaced by k items.
IsSpliced(d, c, n, start, count, items, k) ==
    /\ IsContent(d) /\ DOMAIN d \subseteq 0..(n - count + k - 1)
    /\ \A i \in 0..(n - count + k - 1) :
          /\ i < start => (i \in DOMAIN d <=> i \in DOMAIN c) /\ (i \in DOMAIN d => d[i] = c[i])
          /\ start <= i /\ i < start + k => i \in DOMAIN d /\ d[i] = items[i - start + 1]
          /\ start + k <= i => /\ i \in DOMAIN d <=> i - k + count \in DOMAIN c
                               /\ i \in DOMAIN d => d[i] = c[i - k + count]

LEMMA SplicedFacts ==
    ASSUME NEW n \in Nat, NEW c, IsContent(c), NEW start \in Nat, NEW count \in Nat,
           start + count <= n, NEW items, NEW k \in Nat, Len(items) = k
    PROVE  IsSpliced(OwnSpliced(ArrayLike(n, c), start, count, items), c, n, start, count, items, k)
<1> DEFINE e == OwnSpliced(ArrayLike(n, c), start, count, items)
           from(i) == IF i < start THEN i ELSE i - k + count
           inserted(i) == start <= i /\ i < start + k
           there == {i \in 0..(n - count + k - 1) : inserted(i) \/ from(i) \in DOMAIN c}
<1>1. e = [i \in there |-> IF inserted(i) THEN items[i - start + 1] ELSE c[from(i)]]
  BY DEF OwnSpliced, ArrayLike
<1>2. there \subseteq Nat /\ DOMAIN e = there
  BY <1>1
<1>3. IsContent(e)
  BY <1>1, <1>2 DEF IsContent
<1> HIDE DEF e
<1>4. ASSUME NEW i \in 0..(n - count + k - 1)
      PROVE  /\ i < start => (i \in DOMAIN e <=> i \in DOMAIN c) /\ (i \in DOMAIN e => e[i] = c[i])
             /\ start <= i /\ i < start + k => i \in DOMAIN e /\ e[i] = items[i - start + 1]
             /\ start + k <= i => /\ i \in DOMAIN e <=> i - k + count \in DOMAIN c
                                  /\ i \in DOMAIN e => e[i] = c[i - k + count]
  <2>1. i \in Int
    OBVIOUS
  <2> QED BY <1>1, <2>1
<1>5. DOMAIN e \subseteq 0..(n - count + k - 1)
  BY <1>2
<1>6. IsSpliced(e, c, n, start, count, items, k)
  BY <1>3, <1>4, <1>5 DEF IsSpliced
<1> QED BY <1>6 DEF e

\* A method that reads like splice, index by index, splices.
LEMMA SplicedSame ==
    ASSUME NEW n \in Nat, NEW c, IsContent(c), NEW start \in Nat, NEW count \in Nat,
           start + count <= n, NEW items, NEW k \in Nat, Len(items) = k,
           NEW d, IsSpliced(d, c, n, start, count, items, k)
    PROVE  d = OwnSpliced(ArrayLike(n, c), start, count, items)
<1> DEFINE e == OwnSpliced(ArrayLike(n, c), start, count, items)
<1>1. IsSpliced(e, c, n, start, count, items, k)
  BY SplicedFacts
<1> HIDE DEF e
<1>2. ASSUME NEW i \in 0..(n - count + k - 1)
      PROVE  (i \in DOMAIN d <=> i \in DOMAIN e) /\ (i \in DOMAIN d => d[i] = e[i])
  <2>1. CASE i < start
    BY <1>1, <2>1 DEF IsSpliced
  <2>2. CASE start <= i /\ i < start + k
    BY <1>1, <2>2 DEF IsSpliced
  <2>3. CASE start + k <= i
    BY <1>1, <2>3 DEF IsSpliced
  <2> QED BY <2>1, <2>2, <2>3
<1>3. DOMAIN d = DOMAIN e
  BY <1>1, <1>2 DEF IsSpliced
<1>4. IsContent(d) /\ IsContent(e)
  BY <1>1 DEF IsSpliced
<1>5. \A i \in DOMAIN d : d[i] = e[i]
  BY <1>2 DEF IsSpliced
<1>6. d = e
  BY <1>3, <1>4, <1>5, ContentSame
<1> QED BY <1>6 DEF e

\* Items put where a splice puts them.
IsPut(d, c, start, items, k) ==
    /\ IsContent(d)
    /\ \A i \in Nat :
          IF start <= i /\ i < start + k THEN i \in DOMAIN d /\ d[i] = items[i - start + 1]
          ELSE (i \in DOMAIN d <=> i \in DOMAIN c) /\ (i \in DOMAIN d => d[i] = c[i])

LEMMA PutsAll ==
    ASSUME NEW n \in Nat, NEW c, IsContent(c), NEW start \in Nat, NEW items,
           NEW k \in Nat, Len(items) = k
    PROVE  \E d : /\ GenericSetAll(ArrayLike(n, c), start, items) = ArrayLike(n, d)
                  /\ IsPut(d, c, start, items, k)
<1> DEFINE f == [m \in start..(start + Len(items) - 1) |-> items[m - start + 1]]
           d == Overlaid(f, c)
<1>1. GenericSetAll(ArrayLike(n, c), start, items) = ArrayLike(n, d)
  BY DEF GenericSetAll, ArrayLike
<1>2. /\ DOMAIN f \subseteq Nat /\ \A i \in Nat : i \in DOMAIN f <=> start <= i /\ i < start + k
      /\ \A i \in DOMAIN f : f[i] = items[i - start + 1]
  OBVIOUS
<1> HIDE DEF f
<1>3. /\ IsContent(d) /\ DOMAIN d = DOMAIN f \cup DOMAIN c
      /\ \A i \in DOMAIN f : d[i] = f[i]
      /\ \A i \in DOMAIN c \ DOMAIN f : d[i] = c[i]
  BY <1>2, OverlaidContent
<1> HIDE DEF d
<1>4. IsPut(d, c, start, items, k)
  BY <1>2, <1>3 DEF IsPut
<1> QED BY <1>1, <1>4

IsCut(d, c, from, to, n) ==
    /\ IsContent(d)
    /\ \A i \in Nat :
          /\ i \in DOMAIN d <=> i \in DOMAIN c /\ ~ (i < n /\ from <= i /\ i < to)
          /\ i \in DOMAIN d => d[i] = c[i]

LEMMA DeletesRange ==
    ASSUME NEW n \in Nat, NEW c, IsContent(c), NEW from \in Nat, NEW to \in Nat
    PROVE  \E d : /\ DeleteRange(ArrayLike(n, c), from, to, n) = ArrayLike(n, d)
                  /\ IsCut(d, c, from, to, n)
<1> DEFINE is == {k \in OwnIndicesBelow(ArrayLike(n, c), n) : from <= k /\ k < to}
           d == [i \in DOMAIN c \ is |-> c[i]]
<1>1. DeleteRange(ArrayLike(n, c), from, to, n) = ArrayLike(n, d)
  BY DEF DeleteRange, GenericDelete, ArrayLike
<1>2. IsContent(d)
  BY DEF IsContent
<1>3. \A i : i \in is <=> i \in DOMAIN c /\ i < n /\ from <= i /\ i < to
  BY DEF OwnIndicesBelow, ArrayLike
<1>4. \A i \in Nat :
         /\ i \in DOMAIN d <=> i \in DOMAIN c /\ ~ (i < n /\ from <= i /\ i < to)
         /\ i \in DOMAIN d => d[i] = c[i]
  BY <1>3
<1>5. IsCut(d, c, from, to, n)
  BY <1>2, <1>4 DEF IsCut
<1> QED BY <1>1, <1>5

\* push, pop, shift and unshift, for any content.
LEMMA LikeMethodsKeep ==
    ASSUME NEW r, IsArrayLike(r)
    PROVE  /\ \A v : IsArrayLike(LikePush(r, v)) /\ LikePush(r, v).kind = r.kind
           /\ IsArrayLike(LikePop(r)) /\ LikePop(r).kind = r.kind
           /\ IsArrayLike(LikeShift(r)) /\ LikeShift(r).kind = r.kind
           /\ \A v : IsArrayLike(LikeUnshift(r, <<v>>)) /\ LikeUnshift(r, <<v>>).kind = r.kind
<1>1. PICK n \in Nat : n = r.length
  BY LikeShape
<1>2. PICK c : c = r.content /\ IsContent(c)
  BY LikeShape
<1>3. r = ArrayLike(n, c) /\ r.kind = "like" /\ r.length = n
  BY <1>1, <1>2, LikeShape
<1>4. ASSUME NEW v PROVE IsArrayLike(LikePush(r, v)) /\ LikePush(r, v).kind = r.kind
  <2> DEFINE d == Overlaid([k \in {n} |-> v], c)
  <2>1. IsContent(d)
    BY <1>2, OverlaidContent
  <2>2. GenericSet(r, n, v) = ArrayLike(n, d)
    <3>1. GenericSet(ArrayLike(n, c), n, v) = ArrayLike(n, d)
      BY DEF GenericSet, ArrayLike
    <3> QED BY <1>3, <3>1
  <2> HIDE DEF d
  <2>3. LikePush(r, v) = ArrayLike(n + 1, d)
    BY <1>3, <2>1, <2>2, GenericFacts DEF LikePush
  <2> QED BY <1>3, <2>1, <2>3, LikeMade
<1>5. IsArrayLike(LikePop(r)) /\ LikePop(r).kind = r.kind
  <2>1. CASE n = 0
    BY <1>3, <2>1 DEF LikePop
  <2>2. CASE n # 0
    <3> DEFINE d == [i \in DOMAIN c \ {n - 1} |-> c[i]]
    <3>1. IsContent(d) /\ GenericDelete(r, {n - 1}) = ArrayLike(n, d)
      <4>1. GenericDelete(ArrayLike(n, c), {n - 1}) = ArrayLike(n, d)
        BY DEF GenericDelete, ArrayLike
      <4>2. IsContent(d)
        BY <1>2 DEF IsContent
      <4> QED BY <1>3, <4>1, <4>2
    <3> HIDE DEF d
    <3>2. LikePop(r) = ArrayLike(n - 1, d) /\ n - 1 \in Nat
      BY <1>3, <2>2, <3>1, GenericFacts DEF LikePop
    <3> QED BY <1>3, <3>1, <3>2, LikeMade
  <2> QED BY <2>1, <2>2
<1>6. IsArrayLike(LikeShift(r)) /\ LikeShift(r).kind = r.kind
  <2>1. CASE n = 0
    BY <1>3, <2>1 DEF LikeShift
  <2>2. CASE n # 0
    <3>1. PICK d : IsContent(d) /\ WindowMove(r, 1, n, -1, n) = ArrayLike(n, d)
      BY <1>2, <1>3, MoveKeeps
    <3>2. PICK e : IsContent(e) /\ DeleteRange(ArrayLike(n, d), n - 1, n, n) = ArrayLike(n, e)
      <4>1. n - 1 \in Nat
        BY <2>2
      <4> QED BY <3>1, <4>1, DeletesRange DEF IsCut
    <3>3. LikeShift(r) = ArrayLike(n - 1, e) /\ n - 1 \in Nat
      BY <1>3, <2>2, <3>1, <3>2, GenericFacts DEF LikeShift
    <3> QED BY <1>3, <3>2, <3>3, LikeMade
  <2> QED BY <2>1, <2>2
<1>7. ASSUME NEW v PROVE IsArrayLike(LikeUnshift(r, <<v>>)) /\ LikeUnshift(r, <<v>>).kind = r.kind
  <2>1. PICK d : IsContent(d) /\ WindowMove(r, 0, n, 1, n) = ArrayLike(n, d)
    BY <1>2, <1>3, MoveKeeps
  <2>2. Len(<<v>>) = 1
    OBVIOUS
  <2>3. PICK e : GenericSetAll(ArrayLike(n, d), 0, <<v>>) = ArrayLike(n, e) /\ IsPut(e, d, 0, <<v>>, 1)
    BY <2>1, <2>2, PutsAll
  <2>4. IsContent(e)
    BY <2>3 DEF IsPut
  <2>5. LikeUnshift(r, <<v>>) = GenericSetLength(ArrayLike(n, e), n + 1)
    BY <1>3, <2>1, <2>2, <2>3 DEF LikeUnshift
  <2>6. LikeUnshift(r, <<v>>) = ArrayLike(n + 1, e)
    BY <2>4, <2>5, GenericFacts
  <2> QED BY <1>3, <2>4, <2>6, LikeMade
<1> QED BY <1>4, <1>5, <1>6, <1>7

LEMMA LikeSetsKeep ==
    ASSUME NEW r, IsArrayLike(r)
    PROVE  /\ \A i \in Nat : \A v : IsArrayLike(GenericSet(r, i, v)) /\ GenericSet(r, i, v).kind = r.kind
           /\ \A is : IsArrayLike(GenericDelete(r, is)) /\ GenericDelete(r, is).kind = r.kind
           /\ \A n \in Nat : IsArrayLike(GenericSetLength(r, n)) /\ GenericSetLength(r, n).kind = r.kind
           /\ \A i \in Nat : \A items : IsRow(items) =>
                 IsArrayLike(GenericSetAll(r, i, items)) /\ GenericSetAll(r, i, items).kind = r.kind
<1>1. PICK n \in Nat : n = r.length
  BY LikeShape
<1>2. PICK c : c = r.content /\ IsContent(c)
  BY LikeShape
<1>3. r = ArrayLike(n, c) /\ r.kind = "like" /\ r.length = n
  BY <1>1, <1>2, LikeShape
<1>4. ASSUME NEW i \in Nat, NEW v
      PROVE  IsArrayLike(GenericSet(r, i, v)) /\ GenericSet(r, i, v).kind = r.kind
  <2> DEFINE d == Overlaid([k \in {i} |-> v], c)
  <2>1. GenericSet(ArrayLike(n, c), i, v) = ArrayLike(n, d)
    BY DEF GenericSet, ArrayLike
  <2>2. IsContent(d)
    BY <1>2, OverlaidContent
  <2> HIDE DEF d
  <2> QED BY <1>3, <2>1, <2>2, LikeMade
<1>5. ASSUME NEW is
      PROVE  IsArrayLike(GenericDelete(r, is)) /\ GenericDelete(r, is).kind = r.kind
  <2> DEFINE d == [i \in DOMAIN c \ is |-> c[i]]
  <2>1. GenericDelete(ArrayLike(n, c), is) = ArrayLike(n, d)
    BY DEF GenericDelete, ArrayLike
  <2>2. IsContent(d)
    BY <1>2 DEF IsContent
  <2> HIDE DEF d
  <2> QED BY <1>3, <2>1, <2>2, LikeMade
<1>6. ASSUME NEW m \in Nat
      PROVE  IsArrayLike(GenericSetLength(r, m)) /\ GenericSetLength(r, m).kind = r.kind
  <2>1. GenericSetLength(ArrayLike(n, c), m) = ArrayLike(m, c)
    BY DEF GenericSetLength, ArrayLike
  <2>2. IsArrayLike(ArrayLike(m, c)) /\ ArrayLike(m, c).kind = "like"
    BY <1>2, LikeMade
  <2> QED BY <1>3, <2>1, <2>2
<1>7. ASSUME NEW i \in Nat, NEW items, IsRow(items)
      PROVE  IsArrayLike(GenericSetAll(r, i, items)) /\ GenericSetAll(r, i, items).kind = r.kind
  <2>1. PICK k \in Nat : Len(items) = k
    BY <1>7, RowSeq
  <2>2. PICK d : GenericSetAll(ArrayLike(n, c), i, items) = ArrayLike(n, d) /\ IsPut(d, c, i, items, k)
    BY <1>2, <2>1, PutsAll
  <2>3. IsContent(d)
    BY <2>2 DEF IsPut
  <2> QED BY <1>3, <2>2, <2>3, LikeMade
<1> QED BY <1>4, <1>5, <1>6, <1>7

\* splice, fill and copyWithin, for any content.
LEMMA LikeSplicesKeep ==
    ASSUME NEW r, IsArrayLike(r), NEW start \in Nat, NEW count \in Nat,
           start + count <= r.length, NEW items, IsRow(items)
    PROVE  /\ IsArrayLike(LikeSplice(r, start, count, items))
           /\ LikeSplice(r, start, count, items).kind = r.kind
<1>1. PICK n \in Nat : n = r.length
  BY LikeShape
<1>2. PICK c : c = r.content /\ IsContent(c)
  BY LikeShape
<1>3. r = ArrayLike(n, c) /\ r.kind = "like" /\ r.length = n
  BY <1>1, <1>2, LikeShape
<1>4. PICK k \in Nat : Len(items) = k
  BY RowSeq
<1>5. PICK m \in Nat : m = n - count + k
  <2>1. n - count + k \in Nat
    BY <1>1, <1>4
  <2> QED BY <2>1
<1>6. PICK d : IsContent(d) /\ WindowMove(r, start + count, n, k - count, n) = ArrayLike(n, d)
  <2>1. start + count \in Nat /\ k - count \in Int /\ start + count + (k - count) >= 0
    BY <1>4
  <2> QED BY <1>2, <1>3, <2>1, MoveKeeps
<1>7. PICK e : IsContent(e) /\ DeleteRange(ArrayLike(n, d), m, n, n) = ArrayLike(n, e)
  BY <1>6, DeletesRange DEF IsCut
<1>8. PICK f : IsContent(f) /\ (IF k < count THEN ArrayLike(n, e) ELSE ArrayLike(n, d)) = ArrayLike(n, f)
  BY <1>6, <1>7
<1> DEFINE g == GenericSetAll(ArrayLike(n, f), start, items)
<1>9. IsArrayLike(ArrayLike(n, f)) /\ ArrayLike(n, f).kind = "like"
  BY <1>8, LikeMade
<1>10. IsArrayLike(g) /\ g.kind = "like"
  <2>1. PICK b : b = ArrayLike(n, f)
    OBVIOUS
  <2>2. IsArrayLike(b) /\ b.kind = "like"
    BY <1>9, <2>1
  <2>3. IsArrayLike(GenericSetAll(b, start, items)) /\ GenericSetAll(b, start, items).kind = b.kind
    BY <2>2, LikeSetsKeep
  <2> QED BY <2>1, <2>2, <2>3
<1>11. LikeSplice(r, start, count, items) = GenericSetLength(g, m)
  BY <1>3, <1>4, <1>5, <1>6, <1>7, <1>8 DEF LikeSplice
<1> HIDE DEF g
<1>12. IsArrayLike(GenericSetLength(g, m)) /\ GenericSetLength(g, m).kind = g.kind
  BY <1>10, LikeSetsKeep
<1> QED BY <1>3, <1>10, <1>11, <1>12

LEMMA LikeFillsKeep ==
    ASSUME NEW r, IsArrayLike(r)
    PROVE  /\ \A start, end \in Nat : \A v :
                 IsArrayLike(LikeFill(r, v, start, end)) /\ LikeFill(r, v, start, end).kind = r.kind
           /\ \A to, from, count \in Nat :
                 /\ IsArrayLike(LikeCopyWithin(r, to, from, count))
                 /\ LikeCopyWithin(r, to, from, count).kind = r.kind
<1>1. ASSUME NEW start \in Nat, NEW end \in Nat, NEW v
      PROVE  IsArrayLike(LikeFill(r, v, start, end)) /\ LikeFill(r, v, start, end).kind = r.kind
  <2> DEFINE row == [n \in 1..(end - start) |-> v]
  <2>1. IsRow(row)
    <3>1. CASE start <= end
      <4>1. PICK m \in Nat : m = end - start
        BY <3>1
      <4>2. row = [k \in 1..m |-> row[k]]
        BY <4>1
      <4> HIDE DEF row
      <4> QED BY <4>2, FunctionRow
    <3>2. CASE end < start
      <4>1. PICK m \in Nat : m = 0
        OBVIOUS
      <4>2. row = [k \in 1..m |-> row[k]]
        BY <3>2, <4>1
      <4> HIDE DEF row
      <4> QED BY <4>2, FunctionRow
    <3> QED BY <3>1, <3>2
  <2>2. LikeFill(r, v, start, end) = GenericSetAll(r, start, row)
    BY DEF LikeFill
  <2> HIDE DEF row
  <2> QED BY <2>1, <2>2, LikeSetsKeep
<1>2. ASSUME NEW to \in Nat, NEW from \in Nat, NEW count \in Nat
      PROVE  /\ IsArrayLike(LikeCopyWithin(r, to, from, count))
             /\ LikeCopyWithin(r, to, from, count).kind = r.kind
  <2> DEFINE row == [n \in 1..count |-> GenericGet(r, from + n - 1)]
  <2>1. row = [k \in 1..count |-> row[k]]
    OBVIOUS
  <2>2. LikeCopyWithin(r, to, from, count) = GenericSetAll(r, to, row)
    BY DEF LikeCopyWithin
  <2> HIDE DEF row
  <2>3. IsRow(row)
    BY <2>1, FunctionRow
  <2> QED BY <2>2, <2>3, LikeSetsKeep
<1> QED BY <1>1, <1>2
-----------------------------------------------------------------------------
(* reverse.                                                                 *)

\* A receiver whose elements are stored.
Plain(r) == (r.kind = "array" /\ IsArrayObject(r)) \/ (r.kind = "like" /\ IsArrayLike(r))

LEMMA PutKeeps ==
    ASSUME NEW r, Plain(r), NEW i \in Nat, r.kind = "array" => i < MaxDenseElements, NEW entry
    PROVE  Plain(PutEntry(r, i, entry)) /\ PutEntry(r, i, entry).kind = r.kind
<1>1. CASE r.kind = "array"
  <2>1. IsArrayObject(r)
    BY <1>1 DEF Plain
  <2>2. IndexKey(i) \in IndexKeys
    <3>1. i \in 0..(Len(Indices) - 1)
      BY <1>1, KeyFacts
    <3> QED BY <3>1, KeyFacts
  <2>3. CASE entry = {}
    <3>1. IsArrayObject(ArrayDelete(r, IndexKey(i)).rep) /\ ArrayDelete(r, IndexKey(i)).rep.kind = r.kind
      BY <2>1, <2>2, DeleteKeeps
    <3>2. PutEntry(r, i, entry) = ArrayDelete(r, IndexKey(i)).rep
      BY <1>1, <2>3 DEF PutEntry
    <3>3. PICK b : b = ArrayDelete(r, IndexKey(i)).rep
      OBVIOUS
    <3>4. Plain(b) /\ b.kind = r.kind
      BY <1>1, <3>1, <3>3 DEF Plain
    <3> QED BY <3>2, <3>3, <3>4
  <2>4. CASE entry # {}
    <3> DEFINE v == CHOOSE v \in entry : TRUE
    <3>1. IsArrayObject(ArraySet(r, IndexKey(i), v).rep) /\ ArraySet(r, IndexKey(i), v).rep.kind = r.kind
      <4> HIDE DEF v
      <4> QED BY <2>1, <2>2, SetKeeps
    <3>2. PutEntry(r, i, entry) = ArraySet(r, IndexKey(i), v).rep
      BY <1>1, <2>4 DEF PutEntry
    <3>3. PICK b : b = ArraySet(r, IndexKey(i), v).rep
      OBVIOUS
    <3> HIDE DEF v
    <3>4. Plain(b) /\ b.kind = r.kind
      BY <1>1, <3>1, <3>3 DEF Plain
    <3> QED BY <3>2, <3>3, <3>4
  <2> QED BY <2>3, <2>4
<1>2. CASE r.kind = "like"
  <2>1. IsArrayLike(r)
    BY <1>2 DEF Plain
  <2>2. CASE entry = {}
    <3>1. PutEntry(r, i, entry) = GenericDelete(r, {i})
      BY <1>2, <2>2 DEF PutEntry
    <3>2. IsArrayLike(GenericDelete(r, {i})) /\ GenericDelete(r, {i}).kind = r.kind
      BY <2>1, LikeSetsKeep
    <3> QED BY <1>2, <3>1, <3>2 DEF Plain
  <2>3. CASE entry # {}
    <3> DEFINE v == CHOOSE v \in entry : TRUE
    <3>1. PutEntry(r, i, entry) = GenericSet(r, i, v)
      BY <1>2, <2>3 DEF PutEntry
    <3> HIDE DEF v
    <3>2. IsArrayLike(GenericSet(r, i, v)) /\ GenericSet(r, i, v).kind = r.kind
      BY <2>1, LikeSetsKeep
    <3> QED BY <1>2, <3>1, <3>2 DEF Plain
  <2> QED BY <2>2, <2>3
<1> QED BY <1>1, <1>2 DEF Plain

\* A function defined step by step exists.
PutPair(r, w, n) ==
    PutEntry(PutEntry(r, n - 1, Entry(w, w.len - n)), w.len - n, Entry(w, n - 1))

ArePairs(f, r, w, m) == f = [n \in 0..m |-> IF n = 0 THEN r ELSE PutPair(f[n - 1], w, n)]

LEMMA PairsExist ==
    ASSUME NEW r, NEW w, NEW m \in Nat
    PROVE  \E f : ArePairs(f, r, w, m)
<1> DEFINE Good(k, f) == f = [n \in 0..k |-> IF n = 0 THEN r ELSE PutPair(f[n - 1], w, n)]
           T == {k \in Nat : ~ \E f : Good(k, f)}
<1>1. SUFFICES ASSUME T # {} PROVE FALSE
  BY DEF ArePairs
<1>2. PICK k \in T : \A j \in T : k <= j
  BY <1>1, LeastElement
<1>3. k \in Nat
  OBVIOUS
<1>4. k # 0
  <2> DEFINE f == [n \in 0..0 |-> r]
  <2>1. Good(0, f)
    OBVIOUS
  <2> QED BY <2>1
<1>5. PICK f : Good(k - 1, f)
  <2>1. k - 1 \in Nat /\ ~ (k <= k - 1)
    BY <1>3, <1>4
  <2> QED BY <1>2, <2>1
<1>6. k - 1 \in Nat
  BY <1>3, <1>4
<1> DEFINE g == [n \in 0..k |-> IF n = k THEN PutPair(f[k - 1], w, k) ELSE f[n]]
<1>7. \A n \in 0..k : g[n] = IF n = 0 THEN r ELSE PutPair(g[n - 1], w, n)
  <2> TAKE n \in 0..k
  <2>1. CASE n = k
    <3>1. g[n] = PutPair(f[k - 1], w, k)
      BY <1>3, <2>1
    <3>2. g[k - 1] = f[k - 1]
      BY <1>3, <1>4
    <3> HIDE DEF g
    <3> QED BY <1>4, <2>1, <3>1, <3>2
  <2>2. CASE n # k
    <3>1. n \in 0..(k - 1) /\ g[n] = f[n]
      BY <1>3, <2>2
    <3>2. f[n] = IF n = 0 THEN r ELSE PutPair(f[n - 1], w, n)
      BY <1>5, <3>1
    <3>3. n # 0 => g[n - 1] = f[n - 1]
      BY <1>3, <3>1
    <3> HIDE DEF g
    <3> QED BY <3>1, <3>2, <3>3
  <2> QED BY <2>1, <2>2
<1>8. g = [n \in 0..k |-> g[n]]
  OBVIOUS
<1> HIDE DEF g
<1>9. Good(k, g)
  BY <1>7, <1>8
<1> QED BY <1>9

LEMMA PairsKeep ==
    ASSUME NEW r, Plain(r), NEW w, NEW m \in Nat, w.len \in Nat, 2 * m <= w.len,
           r.kind = "array" => w.len <= MaxDenseElements,
           NEW f, f = [n \in 0..m |-> IF n = 0 THEN r ELSE PutPair(f[n - 1], w, n)]
    PROVE  Plain(f[m]) /\ f[m].kind = r.kind
<1> DEFINE T == {k \in 0..m : ~ (Plain(f[k]) /\ f[k].kind = r.kind)}
<1>0. m \in 0..m /\ T \in SUBSET Nat /\ (m \notin T => Plain(f[m]) /\ f[m].kind = r.kind)
  OBVIOUS
<1>1. SUFFICES ASSUME T # {} PROVE FALSE
  <2> HIDE DEF T
  <2> QED BY <1>0
<1>2. PICK k \in T : \A j \in T : k <= j
  <2> HIDE DEF T
  <2> QED BY <1>0, <1>1, LeastElement
<1>3. k \in 0..m /\ f[k] = IF k = 0 THEN r ELSE PutPair(f[k - 1], w, k)
  OBVIOUS
<1>4. k # 0
  BY <1>3
<1>5. k - 1 \in 0..m /\ Plain(f[k - 1]) /\ f[k - 1].kind = r.kind
  <2>1. k - 1 \in 0..m /\ ~ (k <= k - 1)
    BY <1>3, <1>4
  <2> QED BY <1>2, <2>1
<1>6. k - 1 \in Nat /\ w.len - k \in Nat /\ k - 1 < w.len /\ w.len - k < w.len
  BY <1>3, <1>4
<1>7. r.kind = "array" => k - 1 < MaxDenseElements /\ w.len - k < MaxDenseElements
  BY <1>6, KeyFacts
<1> DEFINE g == PutEntry(f[k - 1], k - 1, Entry(w, w.len - k))
<1>8. Plain(g) /\ g.kind = r.kind
  BY <1>5, <1>6, <1>7, PutKeeps
<1> HIDE DEF g
<1>9. Plain(PutEntry(g, w.len - k, Entry(w, k - 1))) /\ PutEntry(g, w.len - k, Entry(w, k - 1)).kind = r.kind
  BY <1>6, <1>7, <1>8, PutKeeps
<1>10. f[k] = PutEntry(g, w.len - k, Entry(w, k - 1))
  BY <1>3, <1>4 DEF PutPair, g
<1> QED BY <1>9, <1>10

LEMMA ReverseKeeps ==
    ASSUME Plain(recv), walk.len \in Nat, recv.kind = "array" => walk.len <= MaxDenseElements,
           ReverseReceiver
    PROVE  Plain(recv') /\ recv'.kind = recv.kind
<1> DEFINE m == walk.len \div 2
           f == CHOOSE f : f = [n \in 0..m |-> IF n = 0 THEN recv ELSE PutPair(f[n - 1], walk, n)]
<1>1. m \in Nat /\ 2 * m <= walk.len
  OBVIOUS
<1>2. recv' = f[m]
  BY DEF ReverseReceiver, PutPair
<1> HIDE DEF m
<1>3. f = [n \in 0..m |-> IF n = 0 THEN recv ELSE PutPair(f[n - 1], walk, n)]
  <2>1. \E g : g = [n \in 0..m |-> IF n = 0 THEN recv ELSE PutPair(g[n - 1], walk, n)]
    <3>1. PICK r0 : r0 = recv
      OBVIOUS
    <3>2. PICK w0 : w0 = walk
      OBVIOUS
    <3>3. PICK g : ArePairs(g, r0, w0, m)
      BY <1>1, PairsExist
    <3>4. g = [n \in 0..m |-> IF n = 0 THEN recv ELSE PutPair(g[n - 1], walk, n)]
      BY <3>1, <3>2, <3>3 DEF ArePairs
    <3> QED BY <3>4
  <2> QED BY <2>1
<1> HIDE DEF f
<1>4. Plain(f[m]) /\ f[m].kind = recv.kind
  BY <1>1, <1>3, PairsKeep
<1> QED BY <1>2, <1>4
-----------------------------------------------------------------------------
(* The inductive invariant.                                                 *)

WalkFields ==
    {"phase", "method", "then", "len", "from", "next", "snapshot", "view", "elem", "values", "sort",
     "args", "result", "answer"}

Calling == {"getter", "callback"}
Phases == {"idle", "species", "walking", "getter", "callback", "entries", "comparing", "done"}

\* How many indices the walk has passed.
Passed(w) == IF w.method \in Backward THEN w.len - 1 - w.next ELSE w.next

WalkShape(w, v, r) ==
    /\ DOMAIN w = WalkFields /\ w.phase \in Phases
    /\ w.len \in Nat /\ w.next \in Int
    /\ IsRow(v) /\ Len(v) <= w.len
    /\ r.kind = "array" => w.len <= MaxDenseElements

\* A visit for an index passed, at most, and one for the index it is at.
Progress(w, v) ==
    /\ w.phase \in {"species", "walking"} => Passed(w) \in Nat /\ Len(v) <= Passed(w)
    /\ w.phase \in Calling => Passed(w) \in Nat /\ Len(v) <= Passed(w) + 1 /\ ~Over(w)

\* The runs and the rows that a sort of a typed array merges.
MergeShape(s) ==
    /\ DOMAIN s = {"items", "buf", "width", "i", "a", "b", "k"}
    /\ s.items \in Seq(ElementNumbers) /\ s.buf \in Seq(ElementNumbers)
    /\ s.width \in Nat /\ s.i \in Nat /\ s.a \in Nat /\ s.b \in Nat /\ s.k \in Nat

\* What a sort keeps between two comparisons.
SortItems(s, merges, len) ==
    IF merges THEN MergeShape(s)
    ELSE DOMAIN s = {"items", "i", "j"} /\ IsRow(s.items) /\ Len(s.items) = len

SortShape(w, r) ==
    w.phase = "comparing" =>
        w.then \in Sorting /\ SortItems(w.sort, w.then = "sort" /\ r.kind = "typed", w.len)

\* The elements a walk over a typed array has read.
ReadShape(w) ==
    /\ w.phase \in {"walking", "entries", "comparing", "done"}
    /\ IsRow(w.values) /\ Len(w.values) <= w.len
    /\ \A n \in 1..Len(w.values) : w.values[n].index = n - 1 /\ w.values[n].value \in ElementNumbers
    /\ w.phase = "walking" => w.next = Len(w.values)
    /\ w.phase = "entries" => Len(w.values) = w.len

TypedShape(w, r) ==
    r.kind = "typed" /\ w.phase # "idle" =>
        /\ w.view \in ViewSet /\ w.then # "reverse"
        /\ w.snapshot \in Seq(ElementNumbers) /\ Len(w.snapshot) = w.len
        /\ w.method = "entries" => ReadShape(w)
        /\ w.phase \in {"entries", "comparing"} => w.method = "entries"

Receives(world, r, vs) ==
    /\ r.kind \in {"array", "like", "typed"} /\ IsReceiver(world, r)
    /\ r.kind = "typed" => vs[r.slot].kind # "none"

WalkInv ==
    /\ setup \in DOMAIN Setup
    /\ Sound(buffers, views)
    /\ Receives(World, recv, views)
    /\ WalkShape(walk, visits, recv)
    /\ Progress(walk, visits)
    /\ SortShape(walk, recv)
    /\ TypedShape(walk, recv)

LEMMA InvFacts ==
    ASSUME WalkInv
    PROVE  /\ setup \in DOMAIN Setup /\ IsWorld(World)
           /\ Sound(buffers, views) /\ Receives(World, recv, views)
           /\ WalkShape(walk, visits, recv) /\ Progress(walk, visits)
           /\ SortShape(walk, recv) /\ TypedShape(walk, recv)
BY WorldAssumption DEF WalkInv, World

LEMMA IdleFields ==
    /\ DOMAIN Idle = WalkFields /\ Idle.phase = "idle" /\ Idle.len = 0 /\ Idle.next = 0
    /\ Idle.values = <<>> /\ Idle.method = "none"
BY DEF Idle, WalkFields

LEMMA EmptyRow == IsRow(<<>>) /\ Len(<<>>) = 0
<1>1. <<>> \in Seq({})
  OBVIOUS
<1> QED BY <1>1, SeqRow

\* What the helpers of the walk change.
LEMMA AdvancedFacts ==
    ASSUME NEW w, DOMAIN w = WalkFields
    PROVE  /\ DOMAIN Advanced(w) = WalkFields /\ Advanced(w).phase = "walking"
           /\ Advanced(w).next = IF w.method \in Backward THEN w.next - 1 ELSE w.next + 1
           /\ \A f \in WalkFields \ {"phase", "next"} : Advanced(w)[f] = w[f]
BY DEF Advanced, WalkFields

LEMMA KeptFacts ==
    ASSUME NEW w, DOMAIN w = WalkFields, NEW v
    PROVE  /\ DOMAIN Kept(w, v) = WalkFields
           /\ Kept(w, v).values = Append(w.values, [index |-> w.next, value |-> v])
           /\ \A f \in WalkFields \ {"values"} : Kept(w, v)[f] = w[f]
BY DEF Kept, WalkFields

LEMMA FinishedFacts ==
    ASSUME NEW w, DOMAIN w = WalkFields, NEW result
    PROVE  /\ DOMAIN Finished(w, result) = WalkFields /\ Finished(w, result).phase = "done"
           /\ \A f \in WalkFields \ {"phase", "result"} : Finished(w, result)[f] = w[f]
BY DEF Finished, WalkFields

\* The fields that a walk keeps from its beginning.
Fixed == {"method", "then", "len", "from", "snapshot", "view", "args"}

LEMMA FixedFields == Fixed \subseteq WalkFields \ {"phase", "next", "values", "result", "elem"}
BY DEF Fixed, WalkFields

LEMMA TookFacts ==
    ASSUME NEW w, DOMAIN w = WalkFields, NEW v
    PROVE  LET t == Took(w, v)
           IN  /\ DOMAIN t = WalkFields /\ t.phase \in {"walking", "callback", "done"}
               /\ \A f \in Fixed : t[f] = w[f]
               /\ t.next = IF t.phase = "walking"
                           THEN IF w.method \in Backward THEN w.next - 1 ELSE w.next + 1 ELSE w.next
               /\ w.method = "entries" =>
                     /\ t.phase = "walking"
                     /\ t.values = Append(w.values, [index |-> w.next, value |-> v])
<1> DEFINE k == Kept(w, v)
           a == Advanced(k)
           b == Advanced(w)
           f == Finished(w, <<"index", w.next>>)
           c == [w EXCEPT !.phase = "callback", !.elem = v]
<1>1. /\ DOMAIN k = WalkFields /\ k.next = w.next /\ k.method = w.method
      /\ k.values = Append(w.values, [index |-> w.next, value |-> v])
      /\ \A g \in Fixed : k[g] = w[g]
  BY KeptFacts, FixedFields DEF WalkFields
<1>2. /\ DOMAIN a = WalkFields /\ a.phase = "walking"
      /\ a.next = IF w.method \in Backward THEN w.next - 1 ELSE w.next + 1
      /\ a.values = Append(w.values, [index |-> w.next, value |-> v])
      /\ \A g \in Fixed : a[g] = w[g]
  <2> HIDE DEF k
  <2>1. /\ DOMAIN Advanced(k) = WalkFields /\ Advanced(k).phase = "walking"
        /\ Advanced(k).next = IF k.method \in Backward THEN k.next - 1 ELSE k.next + 1
        /\ \A g \in WalkFields \ {"phase", "next"} : Advanced(k)[g] = k[g]
    BY <1>1, AdvancedFacts
  <2> HIDE DEF a
  <2> QED BY <1>1, <2>1, FixedFields DEF WalkFields, a
<1>3. /\ DOMAIN b = WalkFields /\ b.phase = "walking"
      /\ b.next = IF w.method \in Backward THEN w.next - 1 ELSE w.next + 1
      /\ \A g \in Fixed : b[g] = w[g]
  BY AdvancedFacts, FixedFields
<1>4. DOMAIN f = WalkFields /\ f.phase = "done" /\ f.next = w.next /\ \A g \in Fixed : f[g] = w[g]
  BY FinishedFacts, FixedFields DEF WalkFields
<1>5. DOMAIN c = WalkFields /\ c.phase = "callback" /\ c.next = w.next /\ \A g \in Fixed : c[g] = w[g]
  BY FixedFields DEF WalkFields
<1>6. Took(w, v) \in {a, b, f, c} /\ (w.method = "entries" => Took(w, v) = a)
  BY DEF Took, Searching
<1> HIDE DEF k, a, b, f, c
<1> QED BY <1>2, <1>3, <1>4, <1>5, <1>6

LEMMA AnsweredFacts ==
    ASSUME NEW w, DOMAIN w = WalkFields, NEW yes
    PROVE  LET t == Answered(w, yes)
           IN  /\ DOMAIN t = WalkFields /\ t.phase \in {"walking", "done"}
               /\ \A f \in Fixed : t[f] = w[f]
               /\ t.next = IF t.phase = "walking"
                           THEN IF w.method \in Backward THEN w.next - 1 ELSE w.next + 1 ELSE w.next
<1>1. \A v : /\ DOMAIN Kept(w, v) = WalkFields /\ Kept(w, v).next = w.next /\ Kept(w, v).method = w.method
             /\ \A g \in Fixed : Kept(w, v)[g] = w[g]
  <2> TAKE v
  <2>1. DOMAIN Kept(w, v) = WalkFields /\ \A g \in WalkFields \ {"values"} : Kept(w, v)[g] = w[g]
    BY KeptFacts
  <2>2. "next" \in WalkFields \ {"values"} /\ "method" \in WalkFields \ {"values"}
    BY DEF WalkFields
  <2> QED BY <2>1, <2>2, FixedFields
<1>2. ASSUME NEW k, DOMAIN k = WalkFields, k.next = w.next, k.method = w.method,
             \A g \in Fixed : k[g] = w[g]
      PROVE  /\ DOMAIN Advanced(k) = WalkFields /\ Advanced(k).phase = "walking"
             /\ Advanced(k).next = IF w.method \in Backward THEN w.next - 1 ELSE w.next + 1
             /\ \A g \in Fixed : Advanced(k)[g] = w[g]
  BY <1>2, AdvancedFacts, FixedFields
<1>3. \A result : /\ DOMAIN Finished(w, result) = WalkFields /\ Finished(w, result).phase = "done"
                  /\ Finished(w, result).next = w.next
                  /\ \A g \in Fixed : Finished(w, result)[g] = w[g]
  BY FinishedFacts, FixedFields DEF WalkFields
<1>4. \/ \E v : Answered(w, yes) = Advanced(Kept(w, v))
      \/ Answered(w, yes) = Advanced(w)
      \/ \E result : Answered(w, yes) = Finished(w, result)
  BY DEF Answered
<1>5. CASE \E v : Answered(w, yes) = Advanced(Kept(w, v))
  <2>1. PICK v : Answered(w, yes) = Advanced(Kept(w, v))
    BY <1>5
  <2>2. PICK k : k = Kept(w, v)
    OBVIOUS
  <2> QED BY <1>1, <1>2, <2>1, <2>2
<1>6. CASE Answered(w, yes) = Advanced(w)
  BY <1>2, <1>6
<1>7. CASE \E result : Answered(w, yes) = Finished(w, result)
  BY <1>3, <1>7
<1> QED BY <1>4, <1>5, <1>6, <1>7
-----------------------------------------------------------------------------
(* Steps of the methods.                                                    *)

\* A step that leaves everything but the method alone.
LEMMA WalkSteps ==
    ASSUME WalkInv, Untouched, Unmoved,
           WalkShape(walk', visits', recv), Progress(walk', visits'),
           SortShape(walk', recv), TypedShape(walk', recv)
    PROVE  WalkInv'
<1>1. setup' = setup /\ recv' = recv /\ buffers' = buffers /\ views' = views
  BY DEF Untouched, Unmoved
<1>2. World' = World
  BY <1>1 DEF World
<1> QED BY <1>1, <1>2 DEF WalkInv

LEMMA SeqWiden ==
    ASSUME NEW S, NEW T, S \subseteq T, NEW s \in Seq(S)
    PROVE  s \in Seq(T)
OBVIOUS

LEMMA ReplacedSeq ==
    ASSUME NEW S, NEW s \in Seq(S), NEW n, NEW v \in S
    PROVE  [s EXCEPT ![n] = v] \in Seq(S)
<1> DEFINE t == [s EXCEPT ![n] = v]
<1>1. t = [k \in 1..Len(s) |-> IF k = n THEN v ELSE s[k]] /\ Len(s) \in Nat
  OBVIOUS
<1>2. \A k \in 1..Len(s) : (IF k = n THEN v ELSE s[k]) \in S
  OBVIOUS
<1> HIDE DEF t
<1>3. t \in [1..Len(s) -> S]
  BY <1>1, <1>2
<1> QED BY <1>1, <1>3, RowFacts DEF t

LEMMA ElementsInt == ElementNumbers \subseteq Int /\ ElementNumbers \subseteq Value
<1>1. \A kind : Lowest(kind)..Highest(kind) \subseteq Int
  OBVIOUS
<1> QED BY <1>1 DEF ElementNumbers, Value

\* What a method finds when it is called.
LEMMA ReceiverFacts ==
    ASSUME WalkInv
    PROVE  /\ LengthOf \in Nat /\ (IsArray => LengthOf <= MaxDenseElements)
           /\ IsView => /\ views[recv.slot] \in ViewSet
                        /\ Elements(buffers, views[recv.slot]) \in Seq(ElementNumbers)
                        /\ Len(Elements(buffers, views[recv.slot])) = LengthOf
                        /\ \A call \in World.calls : call.then # "reverse"
<1>1. CASE IsArray
  <2>1. IsArrayObject(recv)
    BY <1>1, InvFacts DEF Receives, IsReceiver, IsArray
  <2> QED BY <1>1, <2>1, ArrayShape DEF LengthOf, IsArray, IsView
<1>2. CASE recv.kind = "like"
  <2>1. IsArrayLike(recv)
    BY <1>2, InvFacts DEF Receives, IsReceiver
  <2> QED BY <1>2, <2>1, LikeShape DEF LengthOf, IsArray, IsView
<1>3. CASE IsView
  <2> DEFINE view == views[recv.slot]
  <2>1. recv.slot \in Slots /\ view.kind # "none" /\ \A call \in World.calls : call.then # "reverse"
    BY <1>3, InvFacts DEF Receives, IsReceiver, IsTypedIn, IsView
  <2>2. view \in ViewSet /\ InBounds(buffers, view) /\ buffers \in Seq(Seq(Byte))
    BY <2>1, InvFacts DEF Sound
  <2>3. view.length \in Nat /\ view.kind \in Kinds \cup {"DataView"}
    BY <2>1, <2>2, ViewTyped
  <2>4. /\ Elements(buffers, view) \in Seq(Lowest(view.kind)..Highest(view.kind))
        /\ Len(Elements(buffers, view)) = view.length
    BY <2>2, ElementsFacts
  <2>5. Lowest(view.kind)..Highest(view.kind) \subseteq ElementNumbers
    BY <2>3 DEF ElementNumbers
  <2>6. Elements(buffers, view) \in Seq(ElementNumbers)
    <3>1. PICK e : e = Elements(buffers, view)
      OBVIOUS
    <3>2. PICK S : S = Lowest(view.kind)..Highest(view.kind)
      OBVIOUS
    <3>3. e \in Seq(S) /\ S \subseteq ElementNumbers
      BY <2>4, <2>5, <3>1, <3>2
    <3>4. e \in Seq(ElementNumbers)
      BY <3>3
    <3> QED BY <3>1, <3>4
  <2>7. LengthOf = view.length
    BY <1>3 DEF LengthOf, IsArray, IsView
  <2> HIDE DEF view
  <2> QED BY <1>3, <2>1, <2>2, <2>3, <2>4, <2>6, <2>7 DEF IsArray, IsView, view
<1> QED BY <1>1, <1>2, <1>3, InvFacts DEF Receives, IsArray, IsView

LEMMA StartOfFacts ==
    ASSUME NEW method \in Methods, NEW args, method \in Searching => args[1] \in Int, NEW len \in Nat
    PROVE  /\ StartOf(method, args, len) \in Int
           /\ IF method \in Backward THEN StartOf(method, args, len) <= len - 1
              ELSE StartOf(method, args, len) >= 0
           /\ method = "entries" => StartOf(method, args, len) = 0
<1>1. CASE method = "indexOf"
  BY <1>1 DEF StartOf, Searching, Backward
<1>2. CASE method = "lastIndexOf"
  <2>0. args[1] \in Int
    BY <1>2 DEF Searching
  <2>1. StartOf(method, args, len) = IF args[1] < 0 THEN -1 ELSE Lesser(args[1], len - 1)
    <3> DEFINE m == Lesser(args[1], len - 1)
    <3> HIDE DEF m
    <3>1. StartOf(method, args, len) = IF args[1] < 0 THEN -1 ELSE m
      BY <1>2 DEF StartOf, m
    <3> QED BY <3>1 DEF m
  <2>2. StartOf(method, args, len) \in Int /\ StartOf(method, args, len) <= len - 1
    BY <2>0, <2>1 DEF Lesser
  <2> QED BY <1>2, <2>2 DEF Backward
<1>3. CASE method \notin {"indexOf", "lastIndexOf"}
  <2>1. StartOf(method, args, len) = IF method \in Backward THEN len - 1 ELSE 0
    BY <1>3 DEF StartOf
  <2> QED BY <2>1 DEF Backward
<1> QED BY <1>1, <1>2, <1>3

LEMMA BeginKeeps ==
    ASSUME WalkInv, NEW call \in World.calls, Begin(call)
    PROVE  WalkInv'
<1> DEFINE start == StartOf(call.method, call.args, LengthOf)
<1>1. call.method \in Methods /\ (call.method \in Searching => call.args[1] \in Int)
  BY InvFacts DEF IsWorld, Searching
<1>2. /\ start \in Int /\ (call.method = "entries" => start = 0)
      /\ IF call.method \in Backward THEN start <= LengthOf - 1 ELSE start >= 0
  <2>1. PICK len \in Nat : len = LengthOf
    BY ReceiverFacts
  <2> QED BY <1>1, <2>1, StartOfFacts
<1> HIDE DEF start
<1>3. visits' = <<>> /\ IsRow(visits') /\ Len(visits') = 0
  BY EmptyRow DEF Begin
<1>4. /\ DOMAIN walk' = WalkFields /\ walk'.len = LengthOf /\ walk'.next = start
      /\ walk'.phase = (IF IsArray /\ call.method \in Species THEN "species" ELSE "walking")
      /\ walk'.method = call.method /\ walk'.then = call.then /\ walk'.values = <<>>
      /\ IsView => /\ walk'.snapshot = Elements(buffers, views[recv.slot])
                   /\ walk'.view = views[recv.slot]
  <2> DEFINE phase == IF IsArray /\ call.method \in Species THEN "species" ELSE "walking"
             snapshot == IF IsView THEN Elements(buffers, views[recv.slot]) ELSE Idle.snapshot
             view == IF IsView THEN views[recv.slot] ELSE Idle.view
  <2>1. walk' = [Idle EXCEPT
              !.phase = phase, !.method = call.method, !.then = call.then, !.args = call.args,
              !.len = LengthOf, !.from = start, !.next = start, !.snapshot = snapshot, !.view = view]
    BY DEF Begin, start
  <2>2. phase = (IF IsArray /\ call.method \in Species THEN "species" ELSE "walking")
    OBVIOUS
  <2>3. IsView => snapshot = Elements(buffers, views[recv.slot]) /\ view = views[recv.slot]
    OBVIOUS
  <2> HIDE DEF phase, snapshot, view
  <2>4. /\ DOMAIN walk' = WalkFields /\ walk'.len = LengthOf /\ walk'.next = start
        /\ walk'.phase = phase /\ walk'.method = call.method /\ walk'.then = call.then
        /\ walk'.values = <<>> /\ walk'.snapshot = snapshot /\ walk'.view = view
    <3> DEFINE a == [Idle EXCEPT !.phase = phase, !.method = call.method, !.then = call.then]
               b == [a EXCEPT !.args = call.args, !.len = LengthOf, !.from = start]
    <3>1. walk' = [b EXCEPT !.next = start, !.snapshot = snapshot, !.view = view]
      BY <2>1
    <3>2. DOMAIN Idle = WalkFields /\ Idle.values = <<>>
      BY IdleFields
    <3>3. /\ DOMAIN a = WalkFields /\ a.phase = phase /\ a.method = call.method /\ a.then = call.then
          /\ a.values = <<>>
      BY <3>2 DEF WalkFields
    <3> HIDE DEF a
    <3>4. /\ DOMAIN b = WalkFields /\ b.phase = phase /\ b.method = call.method /\ b.then = call.then
          /\ b.values = <<>> /\ b.len = LengthOf
      BY <3>3 DEF WalkFields
    <3> HIDE DEF b
    <3> QED BY <3>1, <3>4 DEF WalkFields
  <2> QED BY <2>2, <2>3, <2>4
<1>5. LengthOf \in Nat /\ (IsArray => LengthOf <= MaxDenseElements)
  BY ReceiverFacts
<1>6. WalkShape(walk', visits', recv)
  BY <1>2, <1>3, <1>4, <1>5 DEF WalkShape, Phases, IsArray
<1>7. Progress(walk', visits')
  <2>1. Passed(walk') \in Nat
    BY <1>2, <1>4, <1>5 DEF Passed
  <2> QED BY <1>3, <1>4, <2>1 DEF Progress, Calling
<1>8. SortShape(walk', recv)
  BY <1>4 DEF SortShape
<1>9. TypedShape(walk', recv)
  <2> SUFFICES ASSUME IsView PROVE TypedShape(walk', recv)
    BY DEF TypedShape, IsView
  <2>1. /\ walk'.view \in ViewSet /\ walk'.snapshot \in Seq(ElementNumbers)
        /\ Len(walk'.snapshot) = walk'.len /\ walk'.then # "reverse"
    BY <1>4, ReceiverFacts
  <2>2. walk'.phase = "walking"
    BY <1>4 DEF IsView, IsArray
  <2>3. walk'.method = "entries" => ReadShape(walk')
    <3>1. IsRow(walk'.values) /\ Len(walk'.values) = 0
      BY <1>4, EmptyRow
    <3> QED BY <1>2, <1>4, <1>5, <2>2, <3>1 DEF ReadShape
  <2> QED BY <2>1, <2>2, <2>3 DEF TypedShape
<1> QED BY <1>6, <1>7, <1>8, <1>9, WalkSteps DEF Begin

\* The walk goes on to the next index, calls the callback, or has its answer.
LEMMA MovesOn ==
    ASSUME WalkInv, NEW w, NEW v, Untouched, Unmoved,
           DOMAIN w = WalkFields, \A f \in Fixed : w[f] = walk[f],
           w.phase \in {"walking", "callback", "done"},
           w.next = IF w.phase = "walking"
                    THEN IF walk.method \in Backward THEN walk.next - 1 ELSE walk.next + 1 ELSE walk.next,
           walk.phase # "idle", ~Over(walk), Passed(walk) \in Nat, IsRow(v), Len(v) <= Passed(walk) + 1,
           IsView /\ walk.method = "entries" => ReadShape(w),
           walk' = w, visits' = v
    PROVE  WalkInv'
<1>1. walk.len \in Nat /\ walk.next \in Int /\ (IsArray => walk.len <= MaxDenseElements)
  BY InvFacts DEF WalkShape, IsArray
<1>2. w.method = walk.method /\ w.len = walk.len /\ w.then = walk.then /\ w.view = walk.view /\ w.snapshot = walk.snapshot
  BY DEF Fixed
<1>3. Passed(walk) + 1 <= walk.len
  BY <1>1 DEF Over, Passed
<1>4. WalkShape(w, v, recv)
  <2>1. w.next \in Int
    BY <1>1
  <2>2. Len(v) \in Nat /\ Len(v) <= walk.len
    BY <1>1, <1>3 DEF IsRow
  <2> QED BY <1>1, <1>2, <2>1, <2>2 DEF WalkShape, Phases, IsArray
<1>5. Progress(w, v)
  <2>1. CASE w.phase = "walking"
    <3>1. Passed(w) = Passed(walk) + 1
      BY <1>1, <1>2, <2>1 DEF Passed
    <3> QED BY <2>1, <3>1 DEF Progress, Calling
  <2>2. CASE w.phase = "callback"
    <3>1. Passed(w) = Passed(walk) /\ ~Over(w)
      BY <1>1, <1>2, <2>2 DEF Passed, Over
    <3> QED BY <2>2, <3>1 DEF Progress, Calling
  <2>3. CASE w.phase = "done"
    BY <2>3 DEF Progress, Calling
  <2> QED BY <2>1, <2>2, <2>3
<1>6. SortShape(w, recv)
  BY DEF SortShape
<1>7. TypedShape(w, recv)
  <2>1. TypedShape(walk, recv)
    BY InvFacts
  <2> QED BY <1>2, <2>1 DEF TypedShape, IsView
<1> QED BY <1>4, <1>5, <1>6, <1>7, WalkSteps

\* The step ends the walk, or what the method does with its result.
LEMMA Ends ==
    ASSUME WalkInv, NEW w, Untouched, Unmoved,
           DOMAIN w = WalkFields, \A f \in Fixed : w[f] = walk[f], w.next = walk.next,
           walk.phase # "idle", w.phase \in {"entries", "done"},
           w.phase = "entries" => walk.method = "entries",
           IsView /\ walk.method = "entries" => ReadShape(w),
           walk' = w, visits' = visits
    PROVE  WalkInv'
<1>1. w.method = walk.method /\ w.len = walk.len /\ w.then = walk.then /\ w.view = walk.view /\ w.snapshot = walk.snapshot
  BY DEF Fixed
<1>2. WalkShape(w, visits, recv)
  BY <1>1, InvFacts DEF WalkShape, Phases
<1>3. Progress(w, visits) /\ SortShape(w, recv)
  BY DEF Progress, SortShape, Calling
<1>4. TypedShape(w, recv)
  <2>1. TypedShape(walk, recv)
    BY InvFacts
  <2> QED BY <1>1, <2>1 DEF TypedShape, IsView
<1> QED BY <1>2, <1>3, <1>4, WalkSteps

LEMMA WalkKeeps ==
    ASSUME WalkInv
    PROVE  /\ SpeciesDone \/ Skip \/ Take \/ CallGetter \/ GetterReturns => WalkInv'
           /\ \A yes \in BOOLEAN : CallbackReturns(yes) => WalkInv'
<1>1. /\ DOMAIN walk = WalkFields /\ walk.len \in Nat /\ walk.next \in Int
      /\ IsRow(visits) /\ Len(visits) \in Nat /\ Len(visits) <= walk.len
  BY InvFacts DEF WalkShape, IsRow
<1>2. walk.phase = "walking" => Passed(walk) \in Nat /\ Len(visits) <= Passed(walk)
  BY InvFacts DEF Progress
<1>3. walk.phase \in Calling => Passed(walk) \in Nat /\ Len(visits) <= Passed(walk) + 1 /\ ~Over(walk)
  BY InvFacts DEF Progress
<1>4. IsView /\ walk.phase # "idle" /\ walk.method = "entries" => ReadShape(walk)
  BY InvFacts DEF TypedShape, IsView
<1>5. ASSUME SpeciesDone PROVE WalkInv'
  <2> DEFINE w == [walk EXCEPT !.phase = "walking"]
  <2>1. DOMAIN w = WalkFields /\ w.phase = "walking" /\ \A f \in WalkFields \ {"phase"} : w[f] = walk[f]
    BY <1>1 DEF WalkFields
  <2>2. walk' = w /\ visits' = visits /\ walk.phase = "species"
    BY <1>5 DEF SpeciesDone
  <2> HIDE DEF w
  <2>3. w.method = walk.method /\ w.len = walk.len /\ w.next = walk.next /\ w.view = walk.view
        /\ w.then = walk.then /\ w.snapshot = walk.snapshot
    BY <2>1 DEF WalkFields
  <2>4. WalkShape(w, visits, recv)
    BY <2>1, <2>3, InvFacts DEF WalkShape, Phases
  <2>5. Progress(w, visits)
    BY <2>1, <2>2, <2>3, InvFacts DEF Progress, Passed, Calling
  <2>6. SortShape(w, recv)
    BY <2>1 DEF SortShape
  <2>7. TypedShape(w, recv)
    <3>1. IsView => walk.method # "entries"
      BY <1>4, <2>2 DEF ReadShape
    <3>2. TypedShape(walk, recv)
      BY InvFacts
    <3> QED BY <2>1, <2>2, <2>3, <3>1, <3>2 DEF TypedShape, IsView
  <2> QED BY <1>5, <2>2, <2>4, <2>5, <2>6, <2>7, WalkSteps DEF SpeciesDone
<1>6. ASSUME Skip PROVE WalkInv'
  <2> DEFINE w == Advanced(walk)
  <2>1. /\ DOMAIN w = WalkFields /\ w.phase = "walking" /\ \A f \in Fixed : w[f] = walk[f]
        /\ w.next = IF walk.method \in Backward THEN walk.next - 1 ELSE walk.next + 1
    BY <1>1, AdvancedFacts, FixedFields
  <2>2. walk' = w /\ visits' = visits /\ walk.phase = "walking" /\ ~Over(walk) /\ Untouched /\ Unmoved
    BY <1>6 DEF Skip
  <2> HIDE DEF w
  <2>3. ~IsView
    BY <1>6 DEF Skip, LiveAt
  <2> QED BY <1>1, <1>2, <2>1, <2>2, <2>3, MovesOn
<1>7. ASSUME Take PROVE WalkInv'
  <2>1. PICK v \in LiveAt(walk.next) \ {Getter} :
              walk' = Took(walk, v) /\ visits' = Visited(walk.next, v)
    BY <1>7 DEF Take
  <2>2. walk.phase = "walking" /\ ~Over(walk) /\ Untouched /\ Unmoved
    BY <1>7 DEF Take
  <2> DEFINE w == Took(walk, v)
  <2>3. /\ DOMAIN w = WalkFields /\ w.phase \in {"walking", "callback", "done"}
        /\ \A f \in Fixed : w[f] = walk[f]
        /\ w.next = IF w.phase = "walking"
                    THEN IF walk.method \in Backward THEN walk.next - 1 ELSE walk.next + 1 ELSE walk.next
        /\ walk.method = "entries" =>
              /\ w.phase = "walking"
              /\ w.values = Append(walk.values, [index |-> walk.next, value |-> v])
    BY <1>1, TookFacts
  <2>4. walk' = w
    BY <2>1
  <2> HIDE DEF w
  <2>5. IsRow(visits') /\ Len(visits') = Len(visits) + 1
    BY <1>1, <2>1, AppendRow DEF Visited
  <2>6. IsView /\ walk.method = "entries" => ReadShape(w)
    <3> SUFFICES ASSUME IsView, walk.method = "entries" PROVE ReadShape(w)
      OBVIOUS
    <3>1. /\ IsRow(walk.values) /\ Len(walk.values) \in Nat /\ walk.next = Len(walk.values)
          /\ \A n \in 1..Len(walk.values) :
                walk.values[n].index = n - 1 /\ walk.values[n].value \in ElementNumbers
      BY <1>4, <2>2 DEF ReadShape, IsRow
    <3>2. walk.snapshot \in Seq(ElementNumbers) /\ Len(walk.snapshot) = walk.len
      BY <2>2, InvFacts DEF TypedShape, IsView
    <3>3. walk.next < walk.len
      BY <1>1, <2>2 DEF Over
    <3>4. v = walk.snapshot[walk.next + 1]
      BY <2>1 DEF LiveAt
    <3>5. v \in ElementNumbers
      <4>1. walk.next + 1 \in 1..Len(walk.snapshot)
        BY <3>1, <3>2, <3>3
      <4> QED BY <3>2, <3>4, <4>1
    <3>6. w.phase = "walking" /\ w.next = walk.next + 1 /\ w.len = walk.len
      BY <2>3 DEF Backward, Fixed
    <3> DEFINE e == [index |-> walk.next, value |-> v]
    <3>7. e.index = walk.next /\ e.value = v /\ w.values = Append(walk.values, e)
      BY <2>3
    <3> HIDE DEF e
    <3>8. /\ IsRow(w.values) /\ Len(w.values) = Len(walk.values) + 1
          /\ w.values[Len(walk.values) + 1] = e
          /\ \A n \in 1..Len(walk.values) : w.values[n] = walk.values[n]
      BY <3>1, <3>7, AppendRow
    <3>9. PICK m \in Nat : m = Len(walk.values)
      BY <3>1
    <3>10. ASSUME NEW n \in 1..(m + 1)
           PROVE  w.values[n].index = n - 1 /\ w.values[n].value \in ElementNumbers
      <4>1. CASE n = m + 1
        BY <3>1, <3>5, <3>7, <3>8, <3>9, <4>1
      <4>2. CASE n # m + 1
        <5>1. n \in 1..m
          BY <3>9, <4>2
        <5> QED BY <3>1, <3>8, <3>9, <5>1
      <4> QED BY <4>1, <4>2
    <3> QED BY <1>1, <3>1, <3>3, <3>6, <3>8, <3>9, <3>10 DEF ReadShape
  <2>7. Len(visits') <= Passed(walk) + 1 /\ Passed(walk) \in Nat
    BY <1>1, <1>2, <2>2, <2>5
  <2> QED BY <2>2, <2>3, <2>4, <2>5, <2>6, <2>7, MovesOn
<1>8. ASSUME CallGetter PROVE WalkInv'
  <2> DEFINE w == [walk EXCEPT !.phase = "getter"]
  <2>1. DOMAIN w = WalkFields /\ w.phase = "getter" /\ \A f \in WalkFields \ {"phase"} : w[f] = walk[f]
    BY <1>1 DEF WalkFields
  <2>2. walk' = w /\ visits' = Visited(walk.next, Got) /\ walk.phase = "walking" /\ ~Over(walk)
    BY <1>8 DEF CallGetter
  <2> HIDE DEF w
  <2>3. w.method = walk.method /\ w.len = walk.len /\ w.next = walk.next /\ w.view = walk.view
        /\ w.then = walk.then /\ w.snapshot = walk.snapshot
    BY <2>1 DEF WalkFields
  <2>4. IsRow(visits') /\ Len(visits') = Len(visits) + 1
    BY <1>1, <2>2, AppendRow DEF Visited
  <2>5. Passed(walk) + 1 <= walk.len /\ Passed(walk) \in Nat /\ Len(visits) <= Passed(walk)
    BY <1>1, <1>2, <2>2 DEF Over, Passed
  <2>6. WalkShape(w, visits', recv)
    BY <1>1, <2>1, <2>3, <2>4, <2>5, InvFacts DEF WalkShape, Phases
  <2>7. Progress(w, visits')
    <3>1. Passed(w) = Passed(walk) /\ ~Over(w)
      BY <2>2, <2>3 DEF Passed, Over
    <3> QED BY <1>1, <2>1, <2>4, <2>5, <3>1 DEF Progress, Calling
  <2>8. SortShape(w, recv)
    BY <2>1 DEF SortShape
  <2>9. TypedShape(w, recv)
    <3>1. ~IsView
      <4> SUFFICES ASSUME IsView PROVE FALSE
        OBVIOUS
      <4>1. walk.snapshot \in Seq(ElementNumbers) /\ Len(walk.snapshot) = walk.len
        BY <2>2, InvFacts DEF TypedShape, IsView
      <4>2. walk.next + 1 \in 1..Len(walk.snapshot)
        BY <1>1, <2>2, <4>1 DEF Over
      <4>3. walk.snapshot[walk.next + 1] \in Int
        <5>1. walk.snapshot[walk.next + 1] \in ElementNumbers
          BY <4>1, <4>2
        <5> QED BY <5>1, ElementsInt
      <4>4. Getter = walk.snapshot[walk.next + 1]
        BY <1>8 DEF CallGetter, LiveAt
      <4> QED BY <4>3, <4>4, WorldAssumption
    <3> QED BY <3>1 DEF TypedShape, IsView
  <2> QED BY <1>8, <2>2, <2>6, <2>7, <2>8, <2>9, WalkSteps DEF CallGetter
<1>9. ASSUME GetterReturns PROVE WalkInv'
  <2>1. walk.phase = "getter" /\ Untouched /\ Unmoved /\ visits' = visits
    BY <1>9 DEF GetterReturns
  <2> DEFINE w == Took(walk, Got)
  <2>2. /\ DOMAIN w = WalkFields /\ w.phase \in {"walking", "callback", "done"}
        /\ \A f \in Fixed : w[f] = walk[f]
        /\ w.next = IF w.phase = "walking"
                    THEN IF walk.method \in Backward THEN walk.next - 1 ELSE walk.next + 1 ELSE walk.next
    BY <1>1, TookFacts
  <2>3. walk' = w
    BY <1>9 DEF GetterReturns
  <2> HIDE DEF w
  <2>4. IsView => walk.method # "entries"
    BY <1>4, <2>1 DEF ReadShape
  <2>5. Passed(walk) \in Nat /\ Len(visits) <= Passed(walk) + 1 /\ ~Over(walk)
    BY <1>3, <2>1 DEF Calling
  <2> QED BY <1>1, <2>1, <2>2, <2>3, <2>4, <2>5, MovesOn
<1>10. ASSUME NEW yes \in BOOLEAN, CallbackReturns(yes) PROVE WalkInv'
  <2>1. walk.phase = "callback" /\ Untouched /\ Unmoved
    BY <1>10 DEF CallbackReturns
  <2> DEFINE w == Answered(walk, yes)
             v == [visits EXCEPT ![Len(visits)].answer = IF yes THEN "yes" ELSE "no"]
  <2>2. /\ DOMAIN w = WalkFields /\ w.phase \in {"walking", "done"} /\ \A f \in Fixed : w[f] = walk[f]
        /\ w.next = IF w.phase = "walking"
                    THEN IF walk.method \in Backward THEN walk.next - 1 ELSE walk.next + 1 ELSE walk.next
    BY <1>1, AnsweredFacts
  <2>3. walk' = w /\ visits' = v
    BY <1>10 DEF CallbackReturns
  <2>4. IsRow(v) /\ Len(v) = Len(visits)
    <3> DEFINE e == [visits[Len(visits)] EXCEPT !.answer = IF yes THEN "yes" ELSE "no"]
    <3>1. v = [visits EXCEPT ![Len(visits)] = e]
      OBVIOUS
    <3> HIDE DEF v, e
    <3> QED BY <1>1, <3>1, ExceptRow
  <2> HIDE DEF w, v
  <2>5. IsView => walk.method # "entries"
    BY <1>4, <2>1 DEF ReadShape
  <2>6. Passed(walk) \in Nat /\ Len(v) <= Passed(walk) + 1 /\ ~Over(walk)
    BY <1>3, <2>1, <2>4 DEF Calling
  <2> QED BY <1>1, <2>1, <2>2, <2>3, <2>4, <2>5, <2>6, MovesOn
<1> QED BY <1>5, <1>6, <1>7, <1>8, <1>9, <1>10

LEMMA EndsKeep ==
    ASSUME WalkInv
    PROVE  ScriptThrows \/ WalkEnds \/ Return \/ TakeAnswer => WalkInv'
<1>1. DOMAIN walk = WalkFields /\ IsRow(visits) /\ walk.len \in Nat /\ walk.next \in Int
  BY InvFacts DEF WalkShape
<1>2. IsView /\ walk.phase # "idle" /\ walk.method = "entries" => ReadShape(walk)
  BY InvFacts DEF TypedShape, IsView
<1>3. Fixed \subseteq WalkFields
  BY DEF Fixed, WalkFields
<1>4. ASSUME ScriptThrows PROVE WalkInv'
  <2>1. walk.phase # "idle" /\ Untouched /\ Unmoved /\ visits' = visits
    BY <1>4 DEF ScriptThrows, Comparing
  <2>2. CASE walk.phase = "comparing"
    <3> DEFINE w == [walk EXCEPT !.phase = "done", !.answer = <<"threw">>]
    <3>1. /\ DOMAIN w = WalkFields /\ w.phase = "done" /\ w.next = walk.next /\ w.values = walk.values
          /\ \A f \in Fixed : w[f] = walk[f]
      BY <1>1, <1>3 DEF WalkFields, Fixed
    <3>2. walk' = w
      BY <1>4, <2>2 DEF ScriptThrows
    <3> HIDE DEF w
    <3>3. IsView /\ walk.method = "entries" => ReadShape(w)
      BY <1>2, <2>1, <3>1 DEF ReadShape, Fixed
    <3> QED BY <2>1, <3>1, <3>2, <3>3, Ends
  <2>3. CASE walk.phase # "comparing"
    <3> DEFINE w == Abrupt(walk)
    <3>1. /\ DOMAIN w = WalkFields /\ w.phase = "done" /\ w.next = walk.next /\ w.values = walk.values
          /\ \A f \in Fixed : w[f] = walk[f]
      BY <1>1, <1>3, FinishedFacts DEF WalkFields, Fixed, Abrupt
    <3>2. walk' = w
      BY <1>4, <2>3 DEF ScriptThrows
    <3> HIDE DEF w
    <3>3. IsView /\ walk.method = "entries" => ReadShape(w)
      BY <1>2, <2>1, <3>1 DEF ReadShape, Fixed
    <3> QED BY <2>1, <3>1, <3>2, <3>3, Ends
  <2> QED BY <2>2, <2>3
<1>5. ASSUME WalkEnds PROVE WalkInv'
  <2> DEFINE phase == IF walk.method = "entries" THEN "entries" ELSE "done"
             result == AtEnd(walk)
             w == [walk EXCEPT !.phase = phase, !.result = result]
  <2>1. /\ walk.phase = "walking" /\ Over(walk) /\ Untouched /\ Unmoved /\ visits' = visits
        /\ walk' = w
    BY <1>5 DEF WalkEnds
  <2>2. phase \in {"entries", "done"} /\ (phase = "entries" => walk.method = "entries")
    OBVIOUS
  <2> HIDE DEF phase, result
  <2>3. /\ DOMAIN w = WalkFields /\ w.phase = phase /\ w.next = walk.next /\ w.values = walk.values
        /\ \A f \in Fixed : w[f] = walk[f]
    BY <1>1, <1>3 DEF WalkFields, Fixed
  <2> HIDE DEF w
  <2>4. IsView /\ walk.method = "entries" => ReadShape(w)
    <3> SUFFICES ASSUME IsView, walk.method = "entries" PROVE ReadShape(w)
      OBVIOUS
    <3>1. ReadShape(walk) /\ w.len = walk.len
      BY <1>2, <2>1, <2>3 DEF Fixed
    <3>2. Len(walk.values) \in Nat /\ Len(walk.values) <= walk.len /\ walk.next = Len(walk.values)
      BY <2>1, <3>1 DEF ReadShape, IsRow
    <3>3. Len(walk.values) = walk.len
      BY <1>1, <2>1, <3>2 DEF Over
    <3> QED BY <2>2, <2>3, <3>1, <3>3 DEF ReadShape
  <2> QED BY <2>1, <2>2, <2>3, <2>4, Ends
<1>6. ASSUME Return PROVE WalkInv'
  <2>1. Untouched /\ Unmoved /\ walk' = Idle /\ visits' = <<>>
    BY <1>6 DEF Return
  <2>2. WalkShape(Idle, <<>>, recv)
    BY IdleFields, EmptyRow, KeyFacts DEF WalkShape, Phases
  <2>3. Progress(Idle, <<>>) /\ SortShape(Idle, recv) /\ TypedShape(Idle, recv)
    BY IdleFields DEF Progress, SortShape, TypedShape, Calling
  <2> QED BY <2>1, <2>2, <2>3, WalkSteps
<1>7. ASSUME TakeAnswer PROVE WalkInv'
  <2> DEFINE answer == TakenAnswer(walk)
             w == [walk EXCEPT !.phase = "done", !.answer = answer]
  <2>1. walk.phase = "entries" /\ walk' = w /\ Untouched /\ Unmoved /\ visits' = visits
    BY <1>7 DEF TakeAnswer
  <2> HIDE DEF answer
  <2>2. /\ DOMAIN w = WalkFields /\ w.phase = "done" /\ w.next = walk.next /\ w.values = walk.values
        /\ \A f \in Fixed : w[f] = walk[f]
    BY <1>1, <1>3 DEF WalkFields, Fixed
  <2> HIDE DEF w
  <2>3. IsView /\ walk.method = "entries" => ReadShape(w)
    BY <1>2, <2>1, <2>2 DEF ReadShape, Fixed
  <2> QED BY <2>1, <2>2, <2>3, Ends
<1> QED BY <1>4, <1>5, <1>6, <1>7

\* The method changes the receiver, and is done.
LEMMA DoneSteps ==
    ASSUME WalkInv, Unmoved, visits' = visits, Sound(buffers', views'), Receives(World, recv', views'),
           recv'.kind = recv.kind, walk.phase \in {"entries", "comparing"},
           DOMAIN walk' = WalkFields, walk'.phase = "done", walk'.next = walk.next,
           walk'.values = walk.values, \A f \in Fixed : walk'[f] = walk[f]
    PROVE  WalkInv'
<1>1. setup' = setup /\ World' = World
  BY DEF Unmoved, World
<1>2. /\ walk'.method = walk.method /\ walk'.len = walk.len /\ walk'.then = walk.then
      /\ walk'.view = walk.view /\ walk'.snapshot = walk.snapshot
  BY DEF Fixed
<1>3. WalkShape(walk', visits', recv')
  BY <1>2, InvFacts DEF WalkShape, Phases
<1>4. Progress(walk', visits') /\ SortShape(walk', recv')
  BY DEF Progress, SortShape, Calling
<1>5. TypedShape(walk', recv')
  <2>1. TypedShape(walk, recv)
    BY InvFacts
  <2> QED BY <1>2, <2>1 DEF TypedShape, ReadShape
<1>6. setup' \in DOMAIN Setup
  BY <1>1, InvFacts
<1> QED BY <1>1, <1>3, <1>4, <1>5, <1>6 DEF WalkInv

LEMMA ReversesKeep ==
    ASSUME WalkInv, ReverseReceiver
    PROVE  WalkInv'
<1>1. /\ walk.phase = "entries" /\ walk.then = "reverse" /\ Unmoved /\ visits' = visits
      /\ buffers' = buffers /\ views' = views
      /\ walk' = [walk EXCEPT !.phase = "done"]
  BY DEF ReverseReceiver
<1>2. recv.kind # "typed"
  BY <1>1, InvFacts DEF TypedShape
<1>3. Plain(recv) /\ walk.len \in Nat /\ (recv.kind = "array" => walk.len <= MaxDenseElements)
  BY <1>2, InvFacts DEF Receives, IsReceiver, Plain, WalkShape
<1>4. Plain(recv') /\ recv'.kind = recv.kind
  BY <1>3, ReverseKeeps
<1>5. Receives(World, recv', views')
  BY <1>1, <1>2, <1>4, InvFacts DEF Receives, IsReceiver, Plain
<1>6. DOMAIN walk = WalkFields /\ Fixed \subseteq WalkFields
  BY InvFacts DEF WalkShape, Fixed, WalkFields
<1>7. /\ DOMAIN walk' = WalkFields /\ walk'.phase = "done" /\ walk'.next = walk.next
      /\ walk'.values = walk.values /\ \A f \in Fixed : walk'[f] = walk[f]
  BY <1>1, <1>6 DEF WalkFields, Fixed
<1>8. Sound(buffers', views')
  BY <1>1, InvFacts
<1> QED BY <1>1, <1>4, <1>5, <1>7, <1>8, DoneSteps
-----------------------------------------------------------------------------
(* Sorting.                                                                 *)

Before(items, m, n) ==
    \/ Rank(items[m]) < Rank(items[n])
    \/ Rank(items[m]) = Rank(items[n]) /\ m < n

Below(items, n) == {m \in DOMAIN items : Before(items, m, n)}
Place(items, n) == 1 + Cardinality(Below(items, n))

LEMMA SortedIs ==
    ASSUME NEW items
    PROVE  SortedNow(items) = [p \in DOMAIN items |-> items[CHOOSE n \in DOMAIN items : Place(items, n) = p]]
BY DEF SortedNow, Place, Below, Before

\* Items that are numbered by their place have one for each place.
LEMMA PlacesFill ==
    ASSUME NEW items, NEW n \in Nat, DOMAIN items = 1..n, \A m \in 1..n : Rank(items[m]) \in Int,
           NEW p \in 1..n
    PROVE  \E m \in 1..n : Place(items, m) = p
<1> DEFINE D == 1..n
<1>1. IsFiniteSet(D) /\ Cardinality(D) = n
  <2>1. IsFiniteSet(1..n) /\ Cardinality(1..n) = IF 1 > n THEN 0 ELSE n - 1 + 1
    BY FS_Interval
  <2> QED BY <2>1
<1>2. ASSUME NEW m \in D
      PROVE  /\ Below(items, m) \in SUBSET D /\ m \notin Below(items, m)
             /\ IsFiniteSet(Below(items, m)) /\ Cardinality(Below(items, m)) \in Nat
             /\ Cardinality(Below(items, m)) < n
  <2>1. Below(items, m) \in SUBSET D /\ m \notin Below(items, m)
    BY DEF Below, Before
  <2> DEFINE B == Below(items, m)
  <2> HIDE DEF D, B
  <2>2. IsFiniteSet(B) /\ Cardinality(B) <= n /\ (Cardinality(D) = Cardinality(B) => D = B)
    BY <1>1, <2>1, FS_Subset DEF B
  <2>3. Cardinality(B) \in Nat
    BY <2>2, FS_CardinalityType
  <2>4. Cardinality(B) # n
    BY <1>1, <2>1, <2>2 DEF B
  <2> QED BY <2>1, <2>2, <2>3, <2>4 DEF B
<1>3. ASSUME NEW m \in D, NEW k \in D, Before(items, m, k)
      PROVE  Place(items, m) # Place(items, k)
  <2> DEFINE B == Below(items, m)
             C == Below(items, k)
  <2>1. B \cup {m} \subseteq C
    BY <1>3 DEF Below, Before
  <2>2. IsFiniteSet(B) /\ m \notin B /\ Cardinality(B) \in Nat /\ IsFiniteSet(C) /\ Cardinality(C) \in Nat
    BY <1>2
  <2> HIDE DEF B, C, D
  <2>3. Cardinality(B \cup {m}) = Cardinality(B) + 1
    BY <2>2, FS_AddElement
  <2>4. Cardinality(B \cup {m}) <= Cardinality(C)
    BY <2>1, <2>2, FS_Subset
  <2> QED BY <2>2, <2>3, <2>4 DEF Place, B, C
<1>4. ASSUME NEW m \in D, NEW k \in D, m # k
      PROVE  Before(items, m, k) \/ Before(items, k, m)
  BY <1>4 DEF Before
<1> DEFINE f == [m \in D |-> Place(items, m)]
<1>5. \A m \in D : Place(items, m) \in D
  <2> SUFFICES ASSUME NEW m \in D PROVE Place(items, m) \in 1..n
    OBVIOUS
  <2>1. PICK c \in Nat : c = Cardinality(Below(items, m)) /\ c < n
    BY <1>2
  <2> QED BY <2>1 DEF Place
<1>6. f \in Injection(D, D)
  <2>1. f \in [D -> D]
    BY <1>5
  <2>2. \A m, k \in D : f[m] = f[k] => m = k
    BY <1>3, <1>4
  <2> HIDE DEF f, D
  <2> QED BY <2>1, <2>2 DEF Injection, IsInjective
<1>7. f \in Surjection(D, D)
  <2> HIDE DEF f, D
  <2> QED BY <1>1, <1>6, FS_Injection
<1>8. \E m \in D : f[m] = p
  <2>1. p \in D
    OBVIOUS
  <2> HIDE DEF f, D
  <2> QED BY <1>7, <2>1 DEF Surjection
<1> QED BY <1>8

LEMMA SortedRow ==
    ASSUME NEW items, IsRow(items)
    PROVE  IsRow(SortedNow(items)) /\ Len(SortedNow(items)) = Len(items)
<1> DEFINE s == SortedNow(items)
<1>1. Len(items) \in Nat /\ DOMAIN items = 1..Len(items)
  BY RowSeq
<1>2. s = [p \in 1..Len(items) |-> s[p]]
  BY <1>1, SortedIs
<1> HIDE DEF s
<1>3. IsRow(s) /\ Len(s) = Len(items)
  BY <1>1, <1>2, FunctionRow
<1> QED BY <1>3 DEF s

LEMMA SortedNumbers ==
    ASSUME NEW items \in Seq(ElementNumbers), \A v \in ElementNumbers : Rank(v) \in Int
    PROVE  SortedNow(items) \in Seq(ElementNumbers)
<1>1. PICK n \in Nat : n = Len(items)
  OBVIOUS
<1>2. DOMAIN items = 1..n /\ \A m \in 1..n : items[m] \in ElementNumbers
  BY <1>1
<1>3. ASSUME NEW p \in 1..n
      PROVE  items[CHOOSE m \in DOMAIN items : Place(items, m) = p] \in ElementNumbers
  <2>1. \E m \in DOMAIN items : Place(items, m) = p
    <3>1. \A m \in 1..n : Rank(items[m]) \in Int
      BY <1>2
    <3>2. DOMAIN items = 1..n
      BY <1>2
    <3>3. \E m \in 1..n : Place(items, m) = p
      BY <3>1, <3>2, PlacesFill
    <3> QED BY <3>2, <3>3
  <2>2. PICK m \in DOMAIN items : m = CHOOSE k \in DOMAIN items : Place(items, k) = p
    BY <2>1
  <2> QED BY <1>2, <2>2
<1>4. SortedNow(items) \in [1..n -> ElementNumbers]
  BY <1>2, <1>3, SortedIs
<1> QED BY <1>4, RowFacts

LEMMA SortedKeeps ==
    ASSUME WalkInv, NEW items, Sorted(walk, items), Unmoved, visits' = visits,
           walk.phase \in {"entries", "comparing"}, IsRow(items), IsArray => Len(items) = walk.len,
           walk.then = "sort" /\ IsView => items \in Seq(ElementNumbers)
    PROVE  WalkInv'
<1>1. DOMAIN walk = WalkFields /\ Fixed \subseteq WalkFields
  BY InvFacts DEF WalkShape, Fixed, WalkFields
<1>2. /\ DOMAIN walk' = WalkFields /\ walk'.phase = "done" /\ walk'.next = walk.next
      /\ walk'.values = walk.values /\ \A f \in Fixed : walk'[f] = walk[f]
  <2> DEFINE answer == IF walk.then = "sort" THEN <<"self">> ELSE <<"list", items>>
  <2>1. walk' = [walk EXCEPT !.phase = "done", !.answer = answer]
    BY DEF Sorted
  <2> HIDE DEF answer
  <2> QED BY <1>1, <2>1 DEF WalkFields, Fixed
<1>3. CASE walk.then = "sort" /\ IsView
  <2>1. Stores(walk.view, 0, items) /\ recv' = recv
    BY <1>3 DEF Sorted, IsView, IsArray
  <2>2. walk.view \in ViewSet
    BY <1>3, InvFacts DEF TypedShape, IsView
  <2>3. items \in Seq(Value)
    <3>1. items \in Seq(ElementNumbers)
      BY <1>3
    <3> QED BY <3>1, ElementsInt, SeqWiden
  <2>4. Sound(buffers', views')
    <3>1. PICK z \in Nat : z = 0
      OBVIOUS
    <3>2. Stores(walk.view, z, items)
      BY <2>1, <3>1
    <3> QED BY <2>2, <2>3, <3>2, InvFacts, StoresSound
  <2>5. views' = views
    BY <2>1 DEF Stores
  <2>6. Receives(World, recv', views')
    BY <2>1, <2>5, InvFacts
  <2> QED BY <1>2, <2>1, <2>4, <2>6, DoneSteps
<1>4. CASE walk.then = "sort" /\ IsArray
  <2>1. recv' = DropIndexEntries(WithElements(recv, items)) /\ buffers' = buffers /\ views' = views
    BY <1>4 DEF Sorted, viewVars, IsArray, IsView
  <2>2. IsArrayObject(recv) /\ Len(items) <= MaxDenseElements
    BY <1>4, InvFacts DEF Receives, IsReceiver, WalkShape, IsArray
  <2>3. PICK r : r = WithElements(recv, items)
    OBVIOUS
  <2>4. IsArrayObject(r) /\ r.kind = "array"
    BY <1>4, <2>2, <2>3, ElementsKeep DEF IsArray
  <2>5. IsArrayObject(recv') /\ recv'.kind = "array"
    BY <2>1, <2>3, <2>4, DropKeeps
  <2>6. Receives(World, recv', views')
    BY <2>5 DEF Receives, IsReceiver
  <2>7. recv'.kind = recv.kind
    BY <1>4, <2>5 DEF IsArray
  <2> QED BY <1>2, <2>1, <2>6, <2>7, InvFacts, DoneSteps
<1>5. CASE ~ (walk.then = "sort" /\ IsView) /\ ~ (walk.then = "sort" /\ IsArray)
  <2>1. recv' = recv /\ buffers' = buffers /\ views' = views
    BY <1>5 DEF Sorted, Untouched
  <2> QED BY <1>2, <2>1, InvFacts, DoneSteps
<1> QED BY <1>3, <1>4, <1>5

LEMMA ListFacts ==
    ASSUME WalkInv, walk.phase = "entries"
    PROVE  /\ IsRow(DenseEntries(walk)) /\ Len(DenseEntries(walk)) = walk.len
           /\ IsView => DenseEntries(walk) \in Seq(ElementNumbers)
<1> DEFINE d == DenseEntries(walk)
<1>1. PICK len \in Nat : len = walk.len
  BY InvFacts DEF WalkShape
<1>2. d = [n \in 1..len |-> IF Entry(walk, n - 1) = {} THEN Undefined
                            ELSE CHOOSE v \in Entry(walk, n - 1) : TRUE]
  BY <1>1 DEF DenseEntries
<1>3. d = [n \in 1..len |-> d[n]]
  BY <1>2
<1>4. IsRow(d) /\ Len(d) = len
  <2> HIDE DEF d
  <2> QED BY <1>3, FunctionRow
<1>5. ASSUME IsView PROVE d \in Seq(ElementNumbers)
  <2>1. ReadShape(walk)
    BY <1>5, InvFacts DEF TypedShape, IsView
  <2>2. /\ DOMAIN walk.values = 1..len
        /\ \A n \in 1..len : walk.values[n].index = n - 1 /\ walk.values[n].value \in ElementNumbers
    BY <1>1, <2>1, RowSeq DEF ReadShape
  <2>3. ASSUME NEW n \in 1..len PROVE d[n] \in ElementNumbers
    <3>1. Entry(walk, n - 1) \subseteq ElementNumbers
      BY <2>2 DEF Entry
    <3>2. walk.values[n].value \in Entry(walk, n - 1)
      BY <2>2 DEF Entry
    <3>3. d[n] = CHOOSE v \in Entry(walk, n - 1) : TRUE
      BY <1>2, <3>2
    <3>4. (CHOOSE v \in Entry(walk, n - 1) : TRUE) \in Entry(walk, n - 1)
      BY <3>2
    <3> HIDE DEF d
    <3> QED BY <3>1, <3>3, <3>4
  <2>4. d \in [1..len -> ElementNumbers]
    <3> HIDE DEF d
    <3> QED BY <1>3, <2>3
  <2> HIDE DEF d
  <2> QED BY <2>4, RowFacts
<1> HIDE DEF d
<1> QED BY <1>1, <1>4, <1>5 DEF d

\* The sort goes on.
LEMMA SortsOn ==
    ASSUME WalkInv, NEW s, Untouched, Unmoved, visits' = visits,
           walk.phase \in {"entries", "comparing"}, walk.then \in Sorting,
           SortItems(s, Merges(walk), walk.len),
           DOMAIN walk' = WalkFields, walk'.phase = "comparing", walk'.sort = s,
           \A f \in WalkFields \ {"phase", "sort"} : walk'[f] = walk[f]
    PROVE  WalkInv'
<1>2. /\ DOMAIN walk' = WalkFields /\ walk'.phase = "comparing" /\ walk'.sort = s
      /\ walk'.next = walk.next /\ walk'.values = walk.values /\ walk'.then = walk.then
      /\ walk'.method = walk.method /\ walk'.len = walk.len /\ walk'.view = walk.view
      /\ walk'.snapshot = walk.snapshot
  BY DEF WalkFields
<1>3. WalkShape(walk', visits', recv) /\ Progress(walk', visits')
  BY <1>2, InvFacts DEF WalkShape, Progress, Phases, Calling
<1>4. SortShape(walk', recv)
  BY <1>2 DEF SortShape, SortItems, Merges, IsView
<1>5. TypedShape(walk', recv)
  <2>1. TypedShape(walk, recv)
    BY InvFacts
  <2> QED BY <1>2, <2>1 DEF TypedShape, ReadShape
<1> QED BY <1>3, <1>4, <1>5, WalkSteps

LEMMA StartSortKeeps ==
    ASSUME WalkInv, StartSort
    PROVE  WalkInv'
<1> DEFINE items == DenseEntries(walk)
           state == SortState(walk)
<1>1. walk.phase = "entries" /\ walk.then \in Sorting /\ Unmoved /\ visits' = visits
  BY DEF StartSort
<1>2. /\ IsRow(items) /\ Len(items) = walk.len
      /\ IsView => items \in Seq(ElementNumbers)
  BY <1>1, ListFacts
<1>3. CASE walk' = [walk EXCEPT !.phase = "comparing", !.sort = state] /\ Untouched
  <2>1. SortItems(state, Merges(walk), walk.len)
    <3>1. CASE Merges(walk)
      <4>1. state = [items |-> items, buf |-> items, width |-> 1, i |-> 0, a |-> 0, b |-> 1, k |-> 0]
        BY <3>1 DEF SortState
      <4>2. items \in Seq(ElementNumbers)
        BY <1>2, <3>1 DEF Merges
      <4> HIDE DEF items, state
      <4>3. MergeShape(state)
        BY <4>1, <4>2 DEF MergeShape
      <4> QED BY <3>1, <4>3 DEF SortItems
    <3>2. CASE ~Merges(walk)
      <4>1. state = [items |-> items, i |-> 1, j |-> 1]
        BY <3>2 DEF SortState
      <4> HIDE DEF items, state
      <4> QED BY <1>2, <3>2, <4>1 DEF SortItems
    <3> QED BY <3>1, <3>2
  <2>2. /\ DOMAIN walk' = WalkFields /\ walk'.phase = "comparing" /\ walk'.sort = state
        /\ \A f \in WalkFields \ {"phase", "sort"} : walk'[f] = walk[f]
    <3> HIDE DEF items, state
    <3>1. DOMAIN walk = WalkFields
      BY InvFacts DEF WalkShape
    <3> QED BY <1>3, <3>1 DEF WalkFields
  <2> HIDE DEF items, state
  <2> QED BY <1>1, <1>3, <2>1, <2>2, SortsOn
<1>4. CASE walk' = [walk EXCEPT !.phase = "done", !.answer = <<"threw">>] /\ Untouched
  <2>1. DOMAIN walk = WalkFields /\ Fixed \subseteq WalkFields
    BY InvFacts DEF WalkShape, Fixed, WalkFields
  <2>2. /\ DOMAIN walk' = WalkFields /\ walk'.phase = "done" /\ walk'.next = walk.next
        /\ walk'.values = walk.values /\ \A f \in Fixed : walk'[f] = walk[f]
    BY <1>4, <2>1 DEF WalkFields, Fixed
  <2>3. recv' = recv /\ buffers' = buffers /\ views' = views
    BY <1>4 DEF Untouched
  <2> QED BY <1>1, <2>2, <2>3, InvFacts, DoneSteps
<1>5. CASE Sorted(walk, SortedNow(items))
  <2>1. IsRow(SortedNow(items)) /\ Len(SortedNow(items)) = walk.len
    BY <1>2, SortedRow
  <2>2. walk.then = "sort" /\ IsView => SortedNow(items) \in Seq(ElementNumbers)
    <3> SUFFICES ASSUME IsView PROVE SortedNow(items) \in Seq(ElementNumbers)
      OBVIOUS
    <3>1. \A v \in ElementNumbers : Rank(v) \in Int
      BY InvFacts DEF Receives, IsReceiver, IsTypedIn, IsView, Rank
    <3> HIDE DEF items
    <3> QED BY <1>2, <3>1, SortedNumbers
  <2> HIDE DEF items
  <2> QED BY <1>1, <1>5, <2>1, <2>2, SortedKeeps
<1>6. \/ walk' = [walk EXCEPT !.phase = "comparing", !.sort = state] /\ Untouched
      \/ walk' = [walk EXCEPT !.phase = "done", !.answer = <<"threw">>] /\ Untouched
      \/ Sorted(walk, SortedNow(items))
  BY DEF StartSort
<1> QED BY <1>3, <1>4, <1>5, <1>6

LEMMA InsertsKeep ==
    ASSUME WalkInv, NEW greater \in BOOLEAN, InsertionCompared(greater)
    PROVE  WalkInv'
<1> DEFINE s == walk.sort
           items == IF greater THEN Swapped(s.items, s.j) ELSE s.items
           inPlace == ~greater \/ s.j = 1
           next == IF inPlace THEN [items |-> items, i |-> s.i + 1, j |-> s.i + 1]
                   ELSE [s EXCEPT !.items = items, !.j = @ - 1]
<1>1. walk.phase = "comparing" /\ ~Merges(walk) /\ Unmoved /\ visits' = visits
  BY DEF InsertionCompared
<1>2. /\ walk.then \in Sorting
      /\ DOMAIN s = {"items", "i", "j"} /\ IsRow(s.items) /\ Len(s.items) = walk.len
  BY <1>1, InvFacts DEF SortShape, SortItems, Merges, IsView
<1>3. IsRow(items) /\ Len(items) = walk.len
  <2>1. PICK row : row = s.items
    OBVIOUS
  <2>2. PICK m, n, x, y : m = s.j /\ n = s.j + 1 /\ x = row[n] /\ y = row[m]
    OBVIOUS
  <2> DEFINE t == [row EXCEPT ![m] = x]
             u == [t EXCEPT ![n] = y]
  <2>0. IsRow(row) /\ Len(row) = walk.len
    BY <1>2, <2>1
  <2>3. IsRow(t) /\ Len(t) = walk.len
    BY <2>0, ExceptRow
  <2>4. IsRow(u) /\ Len(u) = walk.len
    <3> HIDE DEF t
    <3> QED BY <2>3, ExceptRow
  <2>5. Swapped(s.items, s.j) = u
    BY <2>1, <2>2 DEF Swapped
  <2> HIDE DEF u
  <2> QED BY <1>2, <2>4, <2>5
<1>4. \/ Sorted(walk, items)
      \/ walk' = [walk EXCEPT !.sort = next] /\ Untouched
  BY DEF InsertionCompared
<1>5. CASE Sorted(walk, items)
  <2> HIDE DEF items
  <2> QED BY <1>1, <1>3, <1>5, SortedKeeps DEF Merges
<1>6. CASE walk' = [walk EXCEPT !.sort = next] /\ Untouched
  <2>1. DOMAIN next = {"items", "i", "j"} /\ next.items = items
    <3> HIDE DEF items
    <3> QED BY <1>2
  <2>2. /\ DOMAIN walk' = WalkFields /\ walk'.phase = "comparing" /\ walk'.sort = next
        /\ \A f \in WalkFields \ {"phase", "sort"} : walk'[f] = walk[f]
    <3> HIDE DEF next
    <3>1. walk' = [walk EXCEPT !.sort = next] /\ DOMAIN walk = WalkFields
      BY <1>6, InvFacts DEF WalkShape
    <3> QED BY <1>1, <3>1 DEF WalkFields
  <2>3. SortItems(next, Merges(walk), walk.len)
    <3> HIDE DEF next, items
    <3> QED BY <1>1, <1>3, <2>1 DEF SortItems
  <2> HIDE DEF next, items
  <2> QED BY <1>1, <1>2, <1>6, <2>2, <2>3, SortsOn
<1> QED BY <1>4, <1>5, <1>6

LEMMA RunFacts ==
    ASSUME NEW s, MergeShape(s)
    PROVE  /\ Len(s.items) \in Nat /\ Mid(s) \in 0..Len(s.items) /\ End(s) \in 0..Len(s.items)
<1>1. Len(s.items) \in Nat /\ s.i \in Nat /\ s.width \in Nat
  BY DEF MergeShape
<1>2. PICK n \in Nat, i \in Nat, w \in Nat : n = Len(s.items) /\ i = s.i /\ w = s.width
  BY <1>1
<1>3. Lesser(i + w, n) \in 0..n /\ Lesser(i + 2 * w, n) \in 0..n
  BY DEF Lesser
<1>4. Mid(s) = Lesser(i + w, n) /\ End(s) = Lesser(i + 2 * w, n)
  BY <1>2 DEF Mid, End
<1> QED BY <1>1, <1>2, <1>3, <1>4

LEMMA MergesKeep ==
    ASSUME WalkInv
    PROVE  /\ \A greater \in BOOLEAN : MergeCompared(greater) => WalkInv'
           /\ MergeNext => WalkInv'
<1> DEFINE s == walk.sort
           fields == {"items", "buf", "width", "i", "a", "b", "k"}
<1>1. walk.phase = "comparing" /\ Merges(walk) => MergeShape(s) /\ walk.then \in Sorting
  BY InvFacts DEF SortShape, SortItems, Merges, IsView
<1>2. DOMAIN walk = WalkFields
  BY InvFacts DEF WalkShape
<1>3. ASSUME NEW t, walk' = [walk EXCEPT !.sort = t], MergeShape(t), Untouched, Unmoved,
             visits' = visits, walk.phase = "comparing", Merges(walk)
      PROVE  WalkInv'
  <2>1. /\ DOMAIN walk' = WalkFields /\ walk'.phase = "comparing" /\ walk'.sort = t
        /\ \A f \in WalkFields \ {"phase", "sort"} : walk'[f] = walk[f]
    BY <1>2, <1>3 DEF WalkFields
  <2>2. SortItems(t, Merges(walk), walk.len)
    BY <1>3 DEF SortItems
  <2> QED BY <1>1, <1>3, <2>1, <2>2, SortsOn
<1>4. ASSUME NEW greater \in BOOLEAN, MergeCompared(greater) PROVE WalkInv'
  <2> DEFINE left == [s EXCEPT !.buf[s.k + 1] = s.items[s.a + 1], !.a = @ + 1, !.k = @ + 1]
             right == [s EXCEPT !.buf[s.k + 1] = s.items[s.b + 1], !.b = @ + 1, !.k = @ + 1]
  <2>1. /\ walk.phase = "comparing" /\ Merges(walk) /\ BothRuns(s) /\ Untouched /\ Unmoved
        /\ visits' = visits
        /\ walk' = [walk EXCEPT !.sort = left] \/ walk' = [walk EXCEPT !.sort = right]
    BY <1>4 DEF MergeCompared
  <2>2. MergeShape(s)
    BY <1>1, <2>1
  <2>3. DOMAIN s = fields /\ s.items \in Seq(ElementNumbers) /\ s.buf \in Seq(ElementNumbers)
        /\ s.width \in Nat /\ s.i \in Nat /\ s.a \in Nat /\ s.b \in Nat /\ s.k \in Nat
    BY <2>2 DEF MergeShape
  <2>4. s.a + 1 \in 1..Len(s.items) /\ s.b + 1 \in 1..Len(s.items)
    <3>1. s.a < Mid(s) /\ s.b < End(s)
      BY <2>1 DEF BothRuns
    <3>2. Mid(s) \in 0..Len(s.items) /\ End(s) \in 0..Len(s.items) /\ Len(s.items) \in Nat
      BY <2>2, RunFacts
    <3>3. PICK n, mid, end \in Nat : n = Len(s.items) /\ mid = Mid(s) /\ end = End(s)
      BY <3>2
    <3> HIDE DEF s
    <3> QED BY <2>3, <3>1, <3>2, <3>3
  <2>5. s.items[s.a + 1] \in ElementNumbers /\ s.items[s.b + 1] \in ElementNumbers
    BY <2>3, <2>4
  <2>6. PICK buf, n, x, y : buf = s.buf /\ n = s.k + 1 /\ x = s.items[s.a + 1] /\ y = s.items[s.b + 1]
    OBVIOUS
  <2>7. [buf EXCEPT ![n] = x] \in Seq(ElementNumbers) /\ [buf EXCEPT ![n] = y] \in Seq(ElementNumbers)
    <3>1. buf \in Seq(ElementNumbers) /\ x \in ElementNumbers /\ y \in ElementNumbers
      BY <2>3, <2>5, <2>6
    <3> HIDE DEF s
    <3> QED BY <3>1, ReplacedSeq
  <2>8. CASE walk' = [walk EXCEPT !.sort = left]
    <3> DEFINE row == [buf EXCEPT ![n] = x]
    <3>1. left = [s EXCEPT !.buf = row, !.a = s.a + 1, !.k = s.k + 1]
      BY <2>3, <2>6
    <3> HIDE DEF row, s
    <3>2. MergeShape(left)
      <4> HIDE DEF left
      <4>1. row \in Seq(ElementNumbers)
        BY <2>7 DEF row
      <4>2. /\ DOMAIN left = fields /\ left.items = s.items /\ left.buf = row /\ left.width = s.width
            /\ left.i = s.i /\ left.a = s.a + 1 /\ left.b = s.b /\ left.k = s.k + 1
        BY <2>3, <3>1
      <4> QED BY <2>3, <4>1, <4>2 DEF MergeShape
    <3> HIDE DEF left
    <3> QED BY <1>3, <2>1, <2>8, <3>2
  <2>9. CASE walk' = [walk EXCEPT !.sort = right]
    <3> DEFINE row == [buf EXCEPT ![n] = y]
    <3>1. right = [s EXCEPT !.buf = row, !.b = s.b + 1, !.k = s.k + 1]
      BY <2>3, <2>6
    <3> HIDE DEF row, s
    <3>2. MergeShape(right)
      <4> HIDE DEF right
      <4>1. row \in Seq(ElementNumbers)
        BY <2>7 DEF row
      <4>2. /\ DOMAIN right = fields /\ right.items = s.items /\ right.buf = row /\ right.width = s.width
            /\ right.i = s.i /\ right.a = s.a /\ right.b = s.b + 1 /\ right.k = s.k + 1
        BY <2>3, <3>1
      <4> QED BY <2>3, <4>1, <4>2 DEF MergeShape
    <3> HIDE DEF right
    <3> QED BY <1>3, <2>1, <2>9, <3>2
  <2> QED BY <2>1, <2>8, <2>9
<1>5. ASSUME MergeNext PROVE WalkInv'
  <2> DEFINE left == SubSeq(s.items, s.a + 1, Mid(s))
             right == SubSeq(s.items, s.b + 1, End(s))
             buf == Overwritten(s.buf, s.k, left \o right)
             through == End(s) = Len(s.items)
             width == IF through THEN 2 * s.width ELSE s.width
             from == IF through THEN 0 ELSE End(s)
             next == [items |-> IF through THEN buf ELSE s.items, buf |-> IF through THEN s.items ELSE buf,
                      width |-> width, i |-> from, a |-> from, k |-> from,
                      b |-> Lesser(from + width, Len(s.items))]
  <2>1. /\ walk.phase = "comparing" /\ Merges(walk) /\ Unmoved /\ visits' = visits
        /\ \/ width >= Len(s.items) /\ Sorted(walk, next.items)
           \/ walk' = [walk EXCEPT !.sort = next] /\ Untouched
    BY <1>5 DEF MergeNext
  <2>2. MergeShape(s)
    BY <1>1, <2>1
  <2>3. s.items \in Seq(ElementNumbers) /\ s.buf \in Seq(ElementNumbers)
        /\ s.width \in Nat /\ s.i \in Nat /\ s.a \in Nat /\ s.b \in Nat /\ s.k \in Nat
    BY <2>2 DEF MergeShape
  <2>4. Mid(s) \in 0..Len(s.items) /\ End(s) \in 0..Len(s.items) /\ Len(s.items) \in Nat
    BY <2>2, RunFacts
  <2>5. left \in Seq(ElementNumbers) /\ right \in Seq(ElementNumbers)
    <3> HIDE DEF s
    <3> QED BY <2>3, <2>4, StretchFacts
  <2>6. left \o right \in Seq(ElementNumbers)
    <3> HIDE DEF left, right
    <3> QED BY <2>5
  <2>7. buf \in Seq(ElementNumbers)
    <3>1. PICK rest : rest = left \o right
      OBVIOUS
    <3> HIDE DEF left, right, s
    <3> QED BY <2>3, <2>6, <3>1, OverwrittenFacts
  <2>8. width \in Nat /\ from \in Nat
    <3> HIDE DEF s
    <3> QED BY <2>3, <2>4
  <2>9. Lesser(from + width, Len(s.items)) \in Nat
    <3> HIDE DEF from, width, s
    <3> QED BY <2>4, <2>8 DEF Lesser
  <2>10. MergeShape(next) /\ next.items \in Seq(ElementNumbers)
    <3>1. PICK items, rest \in Seq(ElementNumbers) :
                items = (IF through THEN buf ELSE s.items) /\ rest = (IF through THEN s.items ELSE buf)
      <4> HIDE DEF buf, s
      <4> QED BY <2>3, <2>7
    <3>2. PICK b \in Nat : b = Lesser(from + width, Len(s.items))
      BY <2>9
    <3>3. next = [items |-> items, buf |-> rest, width |-> width, i |-> from, a |-> from, k |-> from, b |-> b]
      BY <3>1, <3>2
    <3> HIDE DEF next, width, from, s
    <3> QED BY <2>8, <3>1, <3>3 DEF MergeShape
  <2>11. CASE walk' = [walk EXCEPT !.sort = next] /\ Untouched
    <3> HIDE DEF next
    <3> QED BY <1>3, <2>1, <2>10, <2>11
  <2>12. CASE Sorted(walk, next.items)
    <3>1. PICK items \in Seq(ElementNumbers) : items = next.items
      BY <2>10
    <3>2. IsRow(items)
      BY SeqRow
    <3> HIDE DEF next
    <3>3. Sorted(walk, items)
      BY <2>12, <3>1
    <3>4. ~IsArray
      BY <2>1 DEF Merges, IsView, IsArray
    <3> QED BY <2>1, <3>2, <3>3, <3>4, SortedKeeps
  <2> QED BY <2>1, <2>11, <2>12
<1> QED BY <1>4, <1>5
-----------------------------------------------------------------------------
(* Changes of the script.                                                   *)

\* A slot that holds a view holds one from then on.
Assigned(s, view) == views' = [views EXCEPT ![s] = view]

LEMMA SlotsAssigned ==
    ASSUME NEW s \in Slots
    PROVE  /\ \A kind, b, o, n : ConstructView(s, kind, b, o, n) =>
                 \E view : Assigned(s, view) /\ view.kind = kind
           /\ \A b, o, n : ConstructDataView(s, b, o, n) =>
                 \E view : Assigned(s, view) /\ view.kind = "DataView"
           /\ \A kind, values : Allocates(s, kind, values) =>
                 \E view : Assigned(s, view) /\ view.kind = kind
           /\ \A t, b, e : Subarray(s, t, b, e) =>
                 \E view : Assigned(s, view) /\ view.kind = views[t].kind
<1>1. \A kind, b, o, n : View(kind, b, o, n).kind = kind
  BY DEF View
<1>2. ASSUME NEW kind, NEW b, NEW o, NEW n, ConstructView(s, kind, b, o, n)
      PROVE  \E view : Assigned(s, view) /\ view.kind = kind
  <2> DEFINE m == CASE n = Absent -> Room(kind, b, OrZero(o)) [] n = NaN -> 0 [] OTHER -> n
  <2>1. views' = [views EXCEPT ![s] = View(kind, b, OrZero(o), m)]
    BY <1>2 DEF ConstructView
  <2> HIDE DEF m
  <2> QED BY <1>1, <2>1 DEF Assigned
<1>3. ASSUME NEW b, NEW o, NEW n, ConstructDataView(s, b, o, n)
      PROVE  \E view : Assigned(s, view) /\ view.kind = "DataView"
  <2> DEFINE m == IF n = Absent THEN Len(buffers[b]) - OrZero(o) ELSE OrZero(n)
  <2>1. views' = [views EXCEPT ![s] = View("DataView", b, OrZero(o), m)]
    BY <1>3 DEF ConstructDataView
  <2> HIDE DEF m
  <2> QED BY <1>1, <2>1 DEF Assigned
<1>4. ASSUME NEW kind, NEW values, Allocates(s, kind, values)
      PROVE  \E view : Assigned(s, view) /\ view.kind = kind
  <2>1. views' = [views EXCEPT ![s] = View(kind, Len(buffers) + 1, 0, Len(values))]
    BY <1>4 DEF Allocates
  <2> QED BY <1>1, <2>1 DEF Assigned
<1>5. ASSUME NEW t, NEW b, NEW e, Subarray(s, t, b, e)
      PROVE  \E view : Assigned(s, view) /\ view.kind = views[t].kind
  <2> DEFINE first == RelativeIndex(b, 0, views[t].length)
             start == Start(views[t], first)
             n == Span(first, RelativeIndex(e, views[t].length, views[t].length))
  <2>1. views' = [views EXCEPT ![s] = View(views[t].kind, views[t].buffer, start, n)]
    BY <1>5 DEF Subarray
  <2> HIDE DEF start, n
  <2>2. PICK view : view = View(views[t].kind, views[t].buffer, start, n)
    OBVIOUS
  <2>3. Assigned(s, view) /\ view.kind = views[t].kind
    BY <1>1, <2>1, <2>2 DEF Assigned
  <2> QED BY <2>3
<1> QED BY <1>2, <1>3, <1>4, <1>5

LEMMA SlotsStay ==
    ASSUME ViewNext, Sound(buffers, views), NEW slot \in Slots, views[slot].kind # "none"
    PROVE  views'[slot].kind # "none"
<1>1. ASSUME NEW s \in Slots, NEW view, Assigned(s, view), view.kind # "none"
      PROVE  views'[slot].kind # "none"
  <2>1. views \in [Slots -> ViewSet]
    BY DEF Sound
  <2> QED BY <1>1, <2>1 DEF Assigned
<1>2. CASE views' = views
  BY <1>2
<1>3. \A kind \in Kinds \cup {"DataView"} : kind # "none"
  BY KindFacts
<1>4. CASE \E s \in Slots, b \in DOMAIN buffers, o, n \in Optional \cup {NaN} :
              \/ \E kind \in Kinds : ConstructView(s, kind, b, o, n)
              \/ ConstructDataView(s, b, o, n)
  <2>1. PICK s \in Slots, b \in DOMAIN buffers, o \in Optional \cup {NaN}, n \in Optional \cup {NaN} :
              \/ \E kind \in Kinds : ConstructView(s, kind, b, o, n)
              \/ ConstructDataView(s, b, o, n)
    BY <1>4
  <2>2. \E view : Assigned(s, view) /\ view.kind # "none"
    BY <1>3, <2>1, SlotsAssigned
  <2> QED BY <1>1, <2>2
<1>5. CASE \E s \in Slots, kind \in Kinds :
              \/ \E n \in Args : ConstructLength(s, kind, n)
              \/ \E t \in Slots : ConstructCopy(s, kind, t)
  <2>1. PICK s \in Slots, kind \in Kinds :
              \/ \E n \in Args : ConstructLength(s, kind, n)
              \/ \E t \in Slots : ConstructCopy(s, kind, t)
    BY <1>5
  <2>2. \E values : Allocates(s, kind, values)
    BY <2>1 DEF ConstructLength, ConstructCopy
  <2>3. \E view : Assigned(s, view) /\ view.kind = kind
    BY <2>2, SlotsAssigned
  <2> QED BY <1>1, <1>3, <2>3
<1>6. CASE \E s, t \in Slots :
              \/ \E o \in Optional : SetFrom(s, t, o)
              \/ \E b, e \in Optional : Subarray(s, t, b, e) \/ Slice(s, t, b, e)
  <2>1. PICK s \in Slots, t \in Slots :
              \/ \E o \in Optional : SetFrom(s, t, o)
              \/ \E b, e \in Optional : Subarray(s, t, b, e)
              \/ \E b, e \in Optional : Slice(s, t, b, e)
    BY <1>6
  <2>2. CASE \E o \in Optional : SetFrom(s, t, o)
    BY <1>2, <2>2 DEF SetFrom, Stores
  <2>3. CASE \E b, e \in Optional : Subarray(s, t, b, e)
    <3>1. views[t].kind \in Kinds
      BY <2>3 DEF Subarray, IsTyped
    <3>2. \E view : Assigned(s, view) /\ view.kind = views[t].kind
      BY <2>3, SlotsAssigned
    <3> QED BY <1>1, <1>3, <3>1, <3>2
  <2>4. CASE \E b, e \in Optional : Slice(s, t, b, e)
    <3>1. views[t].kind \in Kinds /\ \E values : Allocates(s, views[t].kind, values)
      BY <2>4 DEF Slice, IsTyped
    <3>2. \E view : Assigned(s, view) /\ view.kind = views[t].kind
      BY <3>1, SlotsAssigned
    <3> QED BY <1>1, <1>3, <3>1, <3>2
  <2> QED BY <2>1, <2>2, <2>3, <2>4
<1>7. CASE \E s \in Slots :
              \/ \E v \in Stored, b, e \in Optional : Fill(s, v, b, e)
              \/ \E to, b, e \in Optional : CopyWithin(s, to, b, e)
              \/ ReverseView(s)
              \/ \E i \in Args, v \in Stored : AssignElement(s, i, v)
              \/ \E at \in Args, kind \in Kinds, v \in Stored, little \in BOOLEAN :
                    DataViewSet(s, at, kind, v, little)
  <2>1. views' = views
    BY <1>7 DEF Fill, CopyWithin, ReverseView, AssignElement, DataViewSet, Stores
  <2> QED BY <1>2, <2>1
<1>8. CASE (\E n \in Args : ConstructBuffer(n)) \/ \E b \in DOMAIN buffers, f, e \in Optional : SliceBuffer(b, f, e)
  <2>1. views' = views
    BY <1>8 DEF ConstructBuffer, SliceBuffer
  <2> QED BY <1>2, <2>1
<1> QED BY <1>4, <1>5, <1>6, <1>7, <1>8 DEF ViewNext

LEMMA ReceiverSteps ==
    ASSUME WalkInv, NEW op, Changes(op), recv'.kind = recv.kind,
           Sound(buffers', views'), Receives(World, recv', views')
    PROVE  WalkInv'
<1>1. setup' = setup /\ walk' = walk /\ visits' = visits /\ World' = World
  BY DEF Changes, World
<1>2. /\ WalkShape(walk', visits', recv') /\ Progress(walk', visits')
      /\ SortShape(walk', recv') /\ TypedShape(walk', recv')
  BY <1>1, InvFacts DEF WalkShape, SortShape, TypedShape
<1>3. setup' \in DOMAIN Setup
  BY <1>1, InvFacts
<1> QED BY <1>1, <1>2, <1>3 DEF WalkInv

\* A change of an array, or of an array-like.
LEMMA BecomesKeeps ==
    ASSUME WalkInv, NEW op, Changes(op), ~IsView, NEW r, Becomes(r),
           IsArray => IsArrayObject(r) /\ r.kind = recv.kind,
           ~IsArray => IsArrayLike(r) /\ r.kind = recv.kind
    PROVE  WalkInv'
<1>1. recv' = r /\ buffers' = buffers /\ views' = views
  BY DEF Becomes, viewVars
<1>2. recv.kind \in {"array", "like"}
  BY InvFacts DEF Receives, IsView
<1>3. Receives(World, r, views)
  BY <1>2 DEF Receives, IsReceiver, IsArray
<1> QED BY <1>1, <1>2, <1>3, InvFacts, ReceiverSteps DEF IsArray

LEMMA ChangesKeep ==
    ASSUME WalkInv, ScriptChanges
    PROVE  WalkInv'
<1>1. ~IsView => /\ IsArray => IsArrayObject(recv) /\ recv.kind = "array"
                 /\ ~IsArray => IsArrayLike(recv) /\ recv.kind = "like"
  BY InvFacts DEF Receives, IsReceiver, IsArray, IsView
<1>2. /\ IsArray => LengthOf = Length(recv)
      /\ ~IsArray /\ ~IsView => LengthOf = recv.length
      /\ LengthOf \in Nat
  BY ReceiverFacts DEF LengthOf, IsArray, IsView
<1>3. \A i \in InRange : i \in Nat /\ IndexKey(i) \in IndexKeys
  BY KeyFacts DEF InRange
<1>4. MaxDenseElements \in Nat
  BY KeyFacts
<1>5. ASSUME NEW i \in InRange, DeleteIndex(i) PROVE WalkInv'
  <2>1. Changes("delete") /\ ~IsView
    BY <1>5 DEF DeleteIndex
  <2>2. CASE IsArray
    <3>1. Becomes(ArrayDelete(recv, IndexKey(i)).rep)
      BY <1>5, <2>2 DEF DeleteIndex
    <3>2. /\ IsArrayObject(ArrayDelete(recv, IndexKey(i)).rep)
          /\ ArrayDelete(recv, IndexKey(i)).rep.kind = recv.kind
      BY <1>1, <1>3, <2>1, <2>2, DeleteKeeps
    <3> QED BY <2>1, <2>2, <3>1, <3>2, BecomesKeeps
  <2>3. CASE ~IsArray
    <3>1. Becomes(GenericDelete(recv, {i}))
      BY <1>5, <2>3 DEF DeleteIndex
    <3>2. IsArrayLike(GenericDelete(recv, {i})) /\ GenericDelete(recv, {i}).kind = recv.kind
      BY <1>1, <2>1, <2>3, LikeSetsKeep
    <3> QED BY <2>1, <2>3, <3>1, <3>2, BecomesKeeps
  <2> QED BY <2>2, <2>3
<1>6. ASSUME NEW i \in InRange, DefineGetter(i) PROVE WalkInv'
  <2>1. Changes("getter") /\ IsArray /\ ~IsView /\ Becomes(ArrayDefine(recv, IndexKey(i), GetterDescriptor).rep)
    BY <1>6 DEF DefineGetter, IsArray, IsView
  <2>2. /\ IsArrayObject(ArrayDefine(recv, IndexKey(i), GetterDescriptor).rep)
        /\ ArrayDefine(recv, IndexKey(i), GetterDescriptor).rep.kind = recv.kind
    BY <1>1, <1>3, <2>1, GetterKeeps
  <2> QED BY <2>1, <2>2, BecomesKeeps
<1>7. ASSUME NEW i \in InRange, NEW v, AssignIndex(i, v) PROVE WalkInv'
  <2>1. Changes("assign") /\ ~IsView
    BY <1>7 DEF AssignIndex
  <2>2. CASE IsArray
    <3>1. Becomes(ArraySet(recv, IndexKey(i), v).rep)
      BY <1>7, <2>2 DEF AssignIndex
    <3>2. /\ IsArrayObject(ArraySet(recv, IndexKey(i), v).rep)
          /\ ArraySet(recv, IndexKey(i), v).rep.kind = recv.kind
      BY <1>1, <1>3, <2>1, <2>2, SetKeeps
    <3> QED BY <2>1, <2>2, <3>1, <3>2, BecomesKeeps
  <2>3. CASE ~IsArray
    <3>1. Becomes(GenericSet(recv, i, v))
      BY <1>7, <2>3 DEF AssignIndex
    <3>2. IsArrayLike(GenericSet(recv, i, v)) /\ GenericSet(recv, i, v).kind = recv.kind
      BY <1>1, <1>3, <2>1, <2>3, LikeSetsKeep
    <3> QED BY <2>1, <2>3, <3>1, <3>2, BecomesKeeps
  <2> QED BY <2>2, <2>3
<1>8. ASSUME NEW n \in 0..MaxDenseElements, AssignLength(n) PROVE WalkInv'
  <2>1. Changes("length") /\ ~IsView
    BY <1>8 DEF AssignLength
  <2>2. CASE IsArray
    <3>1. Becomes(ArraySet(recv, "length", IndexKey(n)).rep)
      BY <1>8, <2>2 DEF AssignLength
    <3>2. /\ IsArrayObject(ArraySet(recv, "length", IndexKey(n)).rep)
          /\ ArraySet(recv, "length", IndexKey(n)).rep.kind = recv.kind
      BY <1>1, <2>1, <2>2, SetKeeps
    <3> QED BY <2>1, <2>2, <3>1, <3>2, BecomesKeeps
  <2>3. CASE ~IsArray
    <3>1. Becomes(GenericSetLength(recv, n))
      BY <1>8, <2>3 DEF AssignLength
    <3>2. IsArrayLike(GenericSetLength(recv, n)) /\ GenericSetLength(recv, n).kind = recv.kind
      BY <1>1, <1>4, <2>1, <2>3, LikeSetsKeep
    <3> QED BY <2>1, <2>3, <3>1, <3>2, BecomesKeeps
  <2> QED BY <2>2, <2>3
<1>9. ASSUME NEW v, Push(v) \/ Unshift(v) PROVE WalkInv'
  <2>1. PICK op \in {"push", "unshift"} : Changes(op)
    BY <1>9 DEF Push, Unshift
  <2>2. ~IsView /\ LengthOf + 1 <= MaxDenseElements
    BY <1>9 DEF Push, Unshift, Grows
  <2>3. CASE IsArray
    <3>1. Becomes(ArrayPush(recv, v)) \/ Becomes(ArrayUnshift(recv, v))
      BY <1>9, <2>3 DEF Push, Unshift
    <3>2. /\ IsArrayObject(ArrayPush(recv, v)) /\ ArrayPush(recv, v).kind = recv.kind
          /\ IsArrayObject(ArrayUnshift(recv, v)) /\ ArrayUnshift(recv, v).kind = recv.kind
      BY <1>1, <1>2, <2>2, <2>3, DenseMethodsKeep
    <3> QED BY <2>1, <2>2, <2>3, <3>1, <3>2, BecomesKeeps
  <2>4. CASE ~IsArray
    <3>1. Becomes(LikePush(recv, v)) \/ Becomes(LikeUnshift(recv, <<v>>))
      BY <1>9, <2>4 DEF Push, Unshift
    <3>2. /\ IsArrayLike(LikePush(recv, v)) /\ LikePush(recv, v).kind = recv.kind
          /\ IsArrayLike(LikeUnshift(recv, <<v>>)) /\ LikeUnshift(recv, <<v>>).kind = recv.kind
      BY <1>1, <2>2, <2>4, LikeMethodsKeep
    <3> QED BY <2>1, <2>2, <2>4, <3>1, <3>2, BecomesKeeps
  <2> QED BY <2>3, <2>4
<1>10. ASSUME Pop \/ Shift PROVE WalkInv'
  <2>1. PICK op \in {"pop", "shift"} : Changes(op)
    BY <1>10 DEF Pop, Shift
  <2>2. ~IsView
    BY <1>10 DEF Pop, Shift
  <2>3. CASE IsArray
    <3>1. Becomes(ArrayPop(recv)) \/ Becomes(ArrayShift(recv))
      BY <1>10, <2>3 DEF Pop, Shift
    <3>2. /\ IsArrayObject(ArrayPop(recv)) /\ ArrayPop(recv).kind = recv.kind
          /\ IsArrayObject(ArrayShift(recv)) /\ ArrayShift(recv).kind = recv.kind
      BY <1>1, <2>2, <2>3, DenseMethodsKeep
    <3> QED BY <2>1, <2>2, <2>3, <3>1, <3>2, BecomesKeeps
  <2>4. CASE ~IsArray
    <3>1. Becomes(LikePop(recv)) \/ Becomes(LikeShift(recv))
      BY <1>10, <2>4 DEF Pop, Shift
    <3>2. /\ IsArrayLike(LikePop(recv)) /\ LikePop(recv).kind = recv.kind
          /\ IsArrayLike(LikeShift(recv)) /\ LikeShift(recv).kind = recv.kind
      BY <1>1, <2>2, <2>4, LikeMethodsKeep
    <3> QED BY <2>1, <2>2, <2>4, <3>1, <3>2, BecomesKeeps
  <2> QED BY <2>3, <2>4
<1>11. ASSUME NEW start \in Nat, NEW count \in Nat, NEW items, IsRow(items), Splice(start, count, items)
       PROVE  WalkInv'
  <2>1. Changes("splice") /\ ~IsView /\ start + count <= LengthOf
        /\ LengthOf + (Len(items) - count) <= MaxDenseElements
    BY <1>11 DEF Splice, Grows
  <2>2. CASE IsArray
    <3>1. Becomes(ArraySplice(recv, start, count, items))
      BY <1>11, <2>2 DEF Splice
    <3>2. /\ IsArrayObject(ArraySplice(recv, start, count, items))
          /\ ArraySplice(recv, start, count, items).kind = recv.kind
      BY <1>1, <1>2, <1>11, <2>1, <2>2, SpliceKeeps
    <3> QED BY <2>1, <2>2, <3>1, <3>2, BecomesKeeps
  <2>3. CASE ~IsArray
    <3>1. Becomes(LikeSplice(recv, start, count, items))
      BY <1>11, <2>3 DEF Splice
    <3>2. /\ IsArrayLike(LikeSplice(recv, start, count, items))
          /\ LikeSplice(recv, start, count, items).kind = recv.kind
      BY <1>1, <1>2, <1>11, <2>1, <2>3, LikeSplicesKeep
    <3> QED BY <2>1, <2>3, <3>1, <3>2, BecomesKeeps
  <2> QED BY <2>2, <2>3
<1>12. ASSUME NEW v, NEW start \in Nat, NEW end \in Nat, FillLike(v, start, end) PROVE WalkInv'
  <2>1. Changes("fill") /\ ~IsView /\ ~IsArray /\ Becomes(LikeFill(recv, v, start, end))
    BY <1>12 DEF FillLike
  <2>2. IsArrayLike(LikeFill(recv, v, start, end)) /\ LikeFill(recv, v, start, end).kind = recv.kind
    BY <1>1, <2>1, LikeFillsKeep
  <2> QED BY <2>1, <2>2, BecomesKeeps
<1>13. ASSUME NEW to \in Nat, NEW from \in Nat, NEW count \in Nat, CopyWithinLike(to, from, count)
       PROVE  WalkInv'
  <2>1. Changes("copyWithin") /\ ~IsView /\ ~IsArray /\ Becomes(LikeCopyWithin(recv, to, from, count))
    BY <1>13 DEF CopyWithinLike
  <2>2. /\ IsArrayLike(LikeCopyWithin(recv, to, from, count))
        /\ LikeCopyWithin(recv, to, from, count).kind = recv.kind
    BY <1>1, <2>1, LikeFillsKeep
  <2> QED BY <2>1, <2>2, BecomesKeeps
<1>14. ASSUME UseViews PROVE WalkInv'
  <2>1. PICK op \in {"store", "views"} : Changes(op)
    BY <1>14 DEF UseViews
  <2>2. recv' = recv /\ (StoreElement \/ (\E s \in Slots : ReverseView(s)) \/ ViewNext)
    BY <1>14 DEF UseViews
  <2>3. Sound(buffers, views) /\ Receives(World, recv, views)
    BY InvFacts
  <2>4. CASE StoreElement \/ \E s \in Slots : ReverseView(s)
    <3>1. views' = views
      BY <2>4 DEF StoreElement, ReverseView, AssignElement, Stores
    <3>2. Sound(buffers', views')
      BY <2>3, <2>4, InputFacts, MovesSound DEF StoreElement
    <3> QED BY <2>1, <2>2, <2>3, <3>1, <3>2, ReceiverSteps
  <2>5. CASE ViewNext
    <3>1. Sound(buffers', views')
      BY <2>3, <2>5, ViewStepSound
    <3>2. Receives(World, recv', views')
      <4>1. recv.kind = "typed" => recv.slot \in Slots
        BY <2>3 DEF Receives, IsReceiver, IsTypedIn
      <4> QED BY <2>2, <2>3, <2>5, <4>1, SlotsStay DEF Receives
    <3> QED BY <2>1, <2>2, <3>1, <3>2, ReceiverSteps
  <2> QED BY <2>2, <2>4, <2>5
<1>15. \A items \in {<<>>} \cup {<<v>> : v \in World.values} : IsRow(items)
  <2>1. ASSUME NEW v PROVE IsRow(<<v>>)
    <3>1. <<v>> \in Seq({v})
      OBVIOUS
    <3> QED BY <3>1, SeqRow
  <2> QED BY <2>1, EmptyRow
<1>16. 0..MaxDenseElements \subseteq Nat
  BY <1>4
<1>17. CASE \E start, count \in 0..MaxDenseElements, items \in {<<>>} \cup {<<v>> : v \in World.values} :
               Splice(start, count, items)
  BY <1>11, <1>15, <1>16, <1>17
<1>18. CASE \E v \in World.values, start, end \in 0..MaxDenseElements : FillLike(v, start, end)
  BY <1>12, <1>16, <1>18
<1>19. CASE \E to, from, count \in 0..MaxDenseElements : CopyWithinLike(to, from, count)
  BY <1>13, <1>16, <1>19
<1>20. \/ \E i \in InRange : DeleteIndex(i)
       \/ \E i \in InRange : DefineGetter(i)
       \/ \E i \in InRange, v \in World.values : AssignIndex(i, v)
       \/ \E n \in 0..MaxDenseElements : AssignLength(n)
       \/ \E v \in World.values : Push(v) \/ Unshift(v)
       \/ Pop \/ Shift
       \/ \E start, count \in 0..MaxDenseElements, items \in {<<>>} \cup {<<v>> : v \in World.values} :
             Splice(start, count, items)
       \/ \E v \in World.values, start, end \in 0..MaxDenseElements : FillLike(v, start, end)
       \/ \E to, from, count \in 0..MaxDenseElements : CopyWithinLike(to, from, count)
       \/ UseViews
  BY DEF ScriptChanges
<1> QED BY <1>5, <1>6, <1>7, <1>8, <1>9, <1>10, <1>14, <1>17, <1>18, <1>19, <1>20
-----------------------------------------------------------------------------
LEMMA StepsKeep ==
    ASSUME WalkInv, [Next]_vars
    PROVE  WalkInv'
<1>1. CASE UNCHANGED vars
  BY <1>1 DEF vars, WalkInv, World
<1>2. CASE ScriptChanges
  BY <1>2, ChangesKeep
<1>3. CASE MethodStep
  <2>1. CASE \E call \in World.calls : Begin(call)
    BY <2>1, BeginKeeps
  <2>2. CASE SpeciesDone \/ Skip \/ Take \/ CallGetter \/ GetterReturns \/ \E yes \in BOOLEAN : CallbackReturns(yes)
    BY <2>2, WalkKeeps
  <2>3. CASE ScriptThrows \/ WalkEnds \/ Return \/ TakeAnswer
    BY <2>3, EndsKeep
  <2>4. CASE ReverseReceiver
    BY <2>4, ReversesKeep
  <2>5. CASE StartSort
    BY <2>5, StartSortKeeps
  <2>6. CASE \E greater \in BOOLEAN : InsertionCompared(greater) \/ MergeCompared(greater)
    BY <2>6, InsertsKeep, MergesKeep
  <2>7. CASE MergeNext
    BY <2>7, MergesKeep
  <2> QED BY <1>3, <2>1, <2>2, <2>3, <2>4, <2>5, <2>6, <2>7 DEF MethodStep
<1> QED BY <1>1, <1>2, <1>3 DEF Next

LEMMA StartsSound ==
    ASSUME Init
    PROVE  WalkInv
<1>1. setup \in DOMAIN Setup /\ recv \in World.receivers /\ walk = Idle /\ visits = <<>>
      /\ buffers = World.buffers /\ views = World.views
  BY DEF Init
<1>2. IsWorld(World)
  BY <1>1, WorldAssumption DEF World
<1>3. Sound(buffers, views)
  BY <1>1, <1>2 DEF IsWorld, Sound, ViewSet, InBounds, Byte
<1>4. Receives(World, recv, views)
  <2>1. recv.kind \in {"array", "like", "typed"} /\ IsReceiver(World, recv)
    BY <1>1, <1>2 DEF IsWorld
  <2>2. recv.kind = "typed" => views[recv.slot].kind # "none"
    BY <1>1, <2>1, KindFacts DEF IsReceiver, IsTypedIn
  <2> QED BY <2>1, <2>2 DEF Receives
<1>5. WalkShape(walk, visits, recv)
  BY <1>1, IdleFields, EmptyRow, KeyFacts DEF WalkShape, Phases
<1>6. Progress(walk, visits) /\ SortShape(walk, recv) /\ TypedShape(walk, recv)
  BY <1>1, IdleFields DEF Progress, SortShape, TypedShape, Calling
<1> QED BY <1>1, <1>3, <1>4, <1>5, <1>6 DEF WalkInv

(* Whatever a script does to the receiver while a method walks it: the      *)
(* receiver stays an object of its kind whose indices, holes and accessors  *)
(* agree (object.rs:990, 1244), the walk visits no more indices than the    *)
(* length it read, and buffers hold bytes, also when the items a comparator *)
(* ordered are stored into a buffer it has changed (builtins_dispatch.rs).  *)
THEOREM ReceiversStayCoherent == Spec => []TypeOK
<1>1. Init => WalkInv
  BY StartsSound
<1>2. WalkInv /\ [Next]_vars => WalkInv'
  BY StepsKeep
<1>3. WalkInv => TypeOK
  <2> SUFFICES ASSUME WalkInv PROVE TypeOK
    OBVIOUS
  <2>1. ViewTypeOK
    BY InvFacts, SoundMeans
  <2> QED BY <2>1, InvFacts DEF TypeOK, Receives, WalkShape, SortShape, Phases
<1> QED BY <1>1, <1>2, <1>3, PTL DEF Spec

(* A view that a script keeps while it walks, sorts or reverses another one *)
(* of the same buffer stays within that buffer (object.rs:3113).            *)
THEOREM ViewsStayInBoundsMeanwhile == Spec => []ViewsInBounds
<1>1. Init => WalkInv
  BY StartsSound
<1>2. WalkInv /\ [Next]_vars => WalkInv'
  BY StepsKeep
<1>3. WalkInv => ViewsInBounds
  BY InvFacts, SoundMeans
<1> QED BY <1>1, <1>2, <1>3, PTL DEF Spec
-----------------------------------------------------------------------------
(* The methods of array-likes move what they owe.                           *)

IsSplice(r, new, start, count, items) ==
    new = ArrayLike(r.length - count + Len(items), OwnSpliced(r, start, count, items))

LEMMA LikeSplicesExactly ==
    ASSUME NEW n \in Nat, NEW c, IsContent(c), DOMAIN c \subseteq 0..(n - 1),
           NEW start \in Nat, NEW count \in Nat, start + count <= n,
           NEW items, Len(items) \in Nat
    PROVE  IsSplice(ArrayLike(n, c), LikeSplice(ArrayLike(n, c), start, count, items), start, count, items)
<1> DEFINE r == ArrayLike(n, c)
<1>0. PICK k \in Nat : k = Len(items)
  OBVIOUS
<1>1. PICK m \in Nat : m = n - count + k
  <2>1. n - count + k \in Nat
    OBVIOUS
  <2> QED BY <2>1
<1>2. PICK from \in Nat, delta \in Int : from = start + count /\ delta = k - count
  <2>1. start + count \in Nat /\ k - count \in Int
    OBVIOUS
  <2> QED BY <2>1
<1>3. PICK d : WindowMove(r, from, n, delta, n) = ArrayLike(n, d) /\ IsMoved(d, c, from, n, delta)
  <2>1. n <= n /\ from + delta >= 0
    BY <1>2
  <2> QED BY <2>1, MoveFacts
<1>4. PICK e : DeleteRange(ArrayLike(n, d), m, n, n) = ArrayLike(n, e) /\ IsCut(e, d, m, n, n)
  BY <1>3, DeletesRange DEF IsMoved
<1>5. PICK f : f = IF k < count THEN e ELSE d
  OBVIOUS
<1>6. IsContent(f) /\ (IF k < count THEN ArrayLike(n, e) ELSE ArrayLike(n, d)) = ArrayLike(n, f)
  BY <1>3, <1>4, <1>5 DEF IsMoved, IsCut
<1>7. PICK g : GenericSetAll(ArrayLike(n, f), start, items) = ArrayLike(n, g) /\ IsPut(g, f, start, items, k)
  BY <1>0, <1>6, PutsAll
<1>8. IsContent(g)
  BY <1>7 DEF IsPut
<1>9. LikeSplice(r, start, count, items) = GenericSetLength(ArrayLike(n, g), m)
  <2>1. r.length = n
    BY LikeMade
  <2> HIDE DEF r
  <2> QED BY <1>0, <1>1, <1>2, <1>3, <1>4, <1>6, <1>7, <2>1 DEF LikeSplice
<1>10. LikeSplice(r, start, count, items) = ArrayLike(m, g)
  BY <1>8, <1>9, GenericFacts
<1>11. ASSUME NEW i \in Nat, i \in DOMAIN f
       PROVE  i < m
  <2>1. CASE k < count
    BY <1>1, <1>2, <1>3, <1>4, <1>5, <1>11, <2>1 DEF IsMoved, IsCut
  <2>2. CASE ~ (k < count)
    BY <1>1, <1>2, <1>3, <1>5, <1>11, <2>2 DEF IsMoved
  <2> QED BY <2>1, <2>2
<1>12. ASSUME NEW i \in Nat, i < m, i < start
       PROVE  (i \in DOMAIN g <=> i \in DOMAIN c) /\ (i \in DOMAIN g => g[i] = c[i])
  <2>1. (i \in DOMAIN g <=> i \in DOMAIN f) /\ (i \in DOMAIN g => g[i] = f[i])
    BY <1>7, <1>12 DEF IsPut
  <2>2. (i \in DOMAIN d <=> i \in DOMAIN c) /\ (i \in DOMAIN d => d[i] = c[i])
    BY <1>2, <1>3, <1>12 DEF IsMoved
  <2> QED BY <1>4, <1>5, <1>12, <2>1, <2>2 DEF IsCut
<1>13. ASSUME NEW i \in Nat, i < m, start + k <= i
       PROVE  /\ i \in DOMAIN g <=> i - k + count \in DOMAIN c
              /\ i \in DOMAIN g => g[i] = c[i - k + count]
  <2>1. (i \in DOMAIN g <=> i \in DOMAIN f) /\ (i \in DOMAIN g => g[i] = f[i])
    BY <1>7, <1>13 DEF IsPut
  <2>2. from + delta <= i /\ i < n + delta /\ i - delta = i - k + count
    BY <1>1, <1>2, <1>13
  <2>3. (i \in DOMAIN d <=> i - k + count \in DOMAIN c) /\ (i \in DOMAIN d => d[i] = c[i - k + count])
    BY <1>3, <2>2 DEF IsMoved
  <2> QED BY <1>4, <1>5, <1>13, <2>1, <2>3 DEF IsCut
<1>14. DOMAIN g \subseteq 0..(m - 1)
  <2> SUFFICES ASSUME NEW i \in DOMAIN g PROVE i \in 0..(m - 1)
    OBVIOUS
  <2>1. i \in Nat
    BY <1>8 DEF IsContent
  <2>2. CASE start <= i /\ i < start + k
    BY <1>1, <2>1, <2>2
  <2>3. CASE ~ (start <= i /\ i < start + k)
    <3>1. i \in DOMAIN f
      BY <1>7, <2>1, <2>3 DEF IsPut
    <3> QED BY <1>1, <1>11, <2>1, <3>1
  <2> QED BY <2>2, <2>3
<1>15. ASSUME NEW i \in 0..(m - 1), start <= i, i < start + k
       PROVE  i \in DOMAIN g /\ g[i] = items[i - start + 1]
  BY <1>7, <1>15 DEF IsPut
<1>16. IsSpliced(g, c, n, start, count, items, k)
  BY <1>1, <1>8, <1>12, <1>13, <1>14, <1>15 DEF IsSpliced
<1>17. g = OwnSpliced(r, start, count, items)
  BY <1>0, <1>16, SplicedSame
<1>18. r.length = n
  BY LikeMade
<1> QED BY <1>0, <1>1, <1>10, <1>17, <1>18 DEF IsSplice

\* The other methods are splices.
LEMMA LikeMethodsExactly ==
    ASSUME NEW n \in Nat, NEW c, IsContent(c), DOMAIN c \subseteq 0..(n - 1)
    PROVE  LET r == ArrayLike(n, c)
               spliced(start, count, items) ==
                   ArrayLike(n - count + Len(items), OwnSpliced(r, start, count, items))
           IN  /\ LikeShift(r) = spliced(0, Lesser(1, n), <<>>)
               /\ LikePop(r) = spliced(IF n - 1 < 0 THEN 0 ELSE n - 1, Lesser(1, n), <<>>)
               /\ \A v : LikePush(r, v) = spliced(n, 0, <<v>>)
               /\ \A v : LikeUnshift(r, <<v>>) = spliced(0, 0, <<v>>)
<1> DEFINE r == ArrayLike(n, c)
           spliced(start, count, items) ==
               ArrayLike(n - count + Len(items), OwnSpliced(r, start, count, items))
<1>1. r.length = n
  BY LikeMade
<1>2. Len(<<>>) = 0 /\ \A v : Len(<<v>>) = 1 /\ <<v>>[1] = v
  OBVIOUS
<1>3. ASSUME n = 0, NEW d, IsContent(d), DOMAIN d = {}
      PROVE  d = OwnSpliced(r, 0, 0, <<>>)
  <2>1. IsSpliced(d, c, n, 0, 0, <<>>, 0)
    BY <1>3 DEF IsSpliced
  <2> QED BY <1>2, <1>3, <2>1, SplicedSame
<1>4. ASSUME n = 0 PROVE r = ArrayLike(0, OwnSpliced(r, 0, 0, <<>>))
  <2>1. DOMAIN c = {}
    BY <1>4
  <2>2. c = OwnSpliced(r, 0, 0, <<>>)
    BY <1>3, <1>4, <2>1
  <2>3. r = ArrayLike(0, c)
    BY <1>4
  <2> QED BY <2>2, <2>3
<1>5. LikeShift(r) = spliced(0, Lesser(1, n), <<>>)
  <2>1. CASE n = 0
    <3>1. LikeShift(r) = r /\ Lesser(1, n) = 0 /\ n - 0 + Len(<<>>) = 0
      BY <1>1, <1>2, <2>1 DEF LikeShift, Lesser
    <3> QED BY <1>4, <2>1, <3>1
  <2>2. CASE n # 0
    <3>1. PICK d : WindowMove(r, 1, n, -1, n) = ArrayLike(n, d) /\ IsMoved(d, c, 1, n, -1)
      <4>1. 1 \in Nat /\ n <= n /\ -1 \in Int /\ 1 + (-1) >= 0
        OBVIOUS
      <4> QED BY <4>1, MoveFacts
    <3>2. PICK m \in Nat : m = n - 1
      <4>1. n - 1 \in Nat
        BY <2>2
      <4> QED BY <4>1
    <3>3. PICK e : DeleteRange(ArrayLike(n, d), m, n, n) = ArrayLike(n, e) /\ IsCut(e, d, m, n, n)
      BY <3>1, DeletesRange DEF IsMoved
    <3>4. LikeShift(r) = ArrayLike(m, e)
      <4>1. IsContent(e)
        BY <3>3 DEF IsCut
      <4> HIDE DEF r
      <4> QED BY <1>1, <2>2, <3>1, <3>2, <3>3, <4>1, GenericFacts DEF LikeShift
    <3>5. \A i \in Nat : i < m =>
             (i \in DOMAIN e <=> i + 1 \in DOMAIN c) /\ (i \in DOMAIN e => e[i] = c[i + 1])
      <4> SUFFICES ASSUME NEW i \in Nat, i < m
                   PROVE  (i \in DOMAIN e <=> i + 1 \in DOMAIN c) /\ (i \in DOMAIN e => e[i] = c[i + 1])
        OBVIOUS
      <4>1. 1 + (-1) <= i /\ i < n + (-1) /\ i - (-1) = i + 1
        BY <3>2
      <4>2. (i \in DOMAIN d <=> i + 1 \in DOMAIN c) /\ (i \in DOMAIN d => d[i] = c[i + 1])
        BY <3>1, <4>1 DEF IsMoved
      <4> QED BY <3>2, <3>3, <4>2 DEF IsCut
    <3>6. DOMAIN e \subseteq 0..(m - 1)
      <4> SUFFICES ASSUME NEW i \in DOMAIN e PROVE i \in 0..(m - 1)
        OBVIOUS
      <4>1. i \in Nat
        BY <3>3 DEF IsCut, IsContent
      <4>2. i \in DOMAIN d /\ ~ (m <= i /\ i < n)
        BY <3>3, <4>1 DEF IsCut
      <4>3. CASE i < m
        BY <3>2, <4>1, <4>3
      <4>4. CASE n <= i
        BY <3>1, <3>2, <4>1, <4>2, <4>4 DEF IsMoved
      <4> QED BY <3>2, <4>1, <4>2, <4>3, <4>4
    <3>7. IsSpliced(e, c, n, 0, 1, <<>>, 0)
      <4>1. IsContent(e) /\ m - 1 = n - 1 + 0 - 1
        BY <3>2, <3>3 DEF IsCut
      <4>2. \A i \in 0..(m - 1) : i + 1 = i - 0 + 1 /\ i < m
        BY <3>2
      <4> QED BY <3>2, <3>5, <3>6, <4>1, <4>2 DEF IsSpliced
    <3>8. e = OwnSpliced(r, 0, 1, <<>>)
      <4>1. 0 + 1 <= n /\ 1 \in Nat /\ 0 \in Nat
        BY <2>2
      <4> QED BY <1>2, <3>7, <4>1, SplicedSame
    <3>9. Lesser(1, n) = 1 /\ n - 1 + Len(<<>>) = m
      BY <1>2, <2>2, <3>2 DEF Lesser
    <3> QED BY <3>4, <3>8, <3>9
  <2> QED BY <2>1, <2>2
<1>6. LikePop(r) = spliced(IF n - 1 < 0 THEN 0 ELSE n - 1, Lesser(1, n), <<>>)
  <2>1. CASE n = 0
    <3>1. LikePop(r) = r /\ Lesser(1, n) = 0 /\ n - 0 + Len(<<>>) = 0 /\ n - 1 < 0
      BY <1>1, <1>2, <2>1 DEF LikePop, Lesser
    <3> QED BY <1>4, <2>1, <3>1
  <2>2. CASE n # 0
    <3>1. PICK m \in Nat : m = n - 1
      <4>1. n - 1 \in Nat
        BY <2>2
      <4> QED BY <4>1
    <3> DEFINE d == [i \in DOMAIN c \ {m} |-> c[i]]
    <3>2. GenericDelete(r, {m}) = ArrayLike(n, d) /\ IsContent(d)
      <4>1. GenericDelete(r, {m}) = ArrayLike(n, d)
        BY DEF GenericDelete, ArrayLike
      <4>2. IsContent(d)
        BY DEF IsContent
      <4> QED BY <4>1, <4>2
    <3>3. DOMAIN d = DOMAIN c \ {m} /\ \A i \in DOMAIN d : d[i] = c[i]
      OBVIOUS
    <3> HIDE DEF d
    <3>4. LikePop(r) = ArrayLike(m, d)
      <4> HIDE DEF r
      <4> QED BY <1>1, <2>2, <3>1, <3>2, GenericFacts DEF LikePop
    <3>5. DOMAIN d \subseteq 0..(n - 1 + 0 - 1)
      BY <3>1, <3>3 DEF IsContent
    <3>6. IsSpliced(d, c, n, m, 1, <<>>, 0)
      BY <3>1, <3>2, <3>3, <3>5 DEF IsSpliced
    <3>7. d = OwnSpliced(r, m, 1, <<>>)
      <4>1. m + 1 <= n /\ 1 \in Nat /\ 0 \in Nat
        BY <3>1
      <4> QED BY <1>2, <3>6, <4>1, SplicedSame
    <3>8. Lesser(1, n) = 1 /\ n - 1 + Len(<<>>) = m /\ ~ (n - 1 < 0)
      BY <1>2, <2>2, <3>1 DEF Lesser
    <3> QED BY <3>1, <3>4, <3>7, <3>8
  <2> QED BY <2>1, <2>2
<1>7. ASSUME NEW v PROVE LikePush(r, v) = spliced(n, 0, <<v>>)
  <2> DEFINE f == [k \in {n} |-> v]
             d == Overlaid(f, c)
  <2>1. GenericSet(r, n, v) = ArrayLike(n, d)
    BY DEF GenericSet, ArrayLike
  <2>2. DOMAIN f = {n} /\ f[n] = v
    OBVIOUS
  <2> HIDE DEF f
  <2>3. /\ IsContent(d) /\ DOMAIN d = {n} \cup DOMAIN c /\ d[n] = v
        /\ \A i \in DOMAIN c \ {n} : d[i] = c[i]
    <3>1. DOMAIN f \subseteq Nat
      BY <2>2
    <3>2. /\ IsContent(d) /\ DOMAIN d = DOMAIN f \cup DOMAIN c
          /\ \A i \in DOMAIN f : d[i] = f[i]
          /\ \A i \in DOMAIN c \ DOMAIN f : d[i] = c[i]
      BY <3>1, OverlaidContent
    <3> HIDE DEF d
    <3> QED BY <2>2, <3>2
  <2> HIDE DEF d
  <2>4. LikePush(r, v) = ArrayLike(n + 1, d)
    <3> HIDE DEF r
    <3> QED BY <1>1, <2>1, <2>3, GenericFacts DEF LikePush
  <2>5. DOMAIN d \subseteq 0..(n - 0 + 1 - 1)
    BY <2>3
  <2>6. \A i \in 0..(n - 0 + 1 - 1) :
           /\ i < n => (i \in DOMAIN d <=> i \in DOMAIN c) /\ (i \in DOMAIN d => d[i] = c[i])
           /\ n <= i /\ i < n + 1 => i \in DOMAIN d /\ d[i] = <<v>>[i - n + 1]
           /\ n + 1 <= i => /\ i \in DOMAIN d <=> i - 1 + 0 \in DOMAIN c
                            /\ i \in DOMAIN d => d[i] = c[i - 1 + 0]
    <3> SUFFICES ASSUME NEW i \in 0..n
                 PROVE  /\ i < n => (i \in DOMAIN d <=> i \in DOMAIN c) /\ (i \in DOMAIN d => d[i] = c[i])
                        /\ n <= i /\ i < n + 1 => i \in DOMAIN d /\ d[i] = <<v>>[i - n + 1]
                        /\ ~ (n + 1 <= i)
      OBVIOUS
    <3>1. CASE i < n
      BY <2>3, <3>1
    <3>2. CASE i = n
      <4>1. i - n + 1 = 1
        BY <3>2
      <4> QED BY <1>2, <2>3, <3>2, <4>1
    <3> QED BY <3>1, <3>2
  <2>7. d = OwnSpliced(r, n, 0, <<v>>)
    <3>1. n + 0 <= n /\ 0 \in Nat /\ 1 \in Nat
      OBVIOUS
    <3>2. IsSpliced(d, c, n, n, 0, <<v>>, 1)
      BY <2>3, <2>5, <2>6 DEF IsSpliced
    <3> QED BY <1>2, <3>1, <3>2, SplicedSame
  <2>8. n - 0 + Len(<<v>>) = n + 1
    BY <1>2
  <2> QED BY <2>4, <2>7, <2>8
<1>8. ASSUME NEW v PROVE LikeUnshift(r, <<v>>) = spliced(0, 0, <<v>>)
  <2>1. PICK d : WindowMove(r, 0, n, 1, n) = ArrayLike(n, d) /\ IsMoved(d, c, 0, n, 1)
    <3>1. 0 \in Nat /\ n <= n /\ 1 \in Int /\ 0 + 1 >= 0
      OBVIOUS
    <3> QED BY <3>1, MoveFacts
  <2>2. PICK e : GenericSetAll(ArrayLike(n, d), 0, <<v>>) = ArrayLike(n, e) /\ IsPut(e, d, 0, <<v>>, 1)
    <3>1. 0 \in Nat /\ 1 \in Nat /\ Len(<<v>>) = 1
      OBVIOUS
    <3> QED BY <2>1, <3>1, PutsAll DEF IsMoved
  <2>3. IsContent(e)
    BY <2>2 DEF IsPut
  <2>4. LikeUnshift(r, <<v>>) = ArrayLike(n + 1, e)
    <3> HIDE DEF r
    <3> QED BY <1>1, <1>2, <2>1, <2>2, <2>3, GenericFacts DEF LikeUnshift
  <2>5. ASSUME NEW i \in Nat, 1 <= i
        PROVE  /\ i \in DOMAIN e <=> i - 1 \in DOMAIN c
               /\ i \in DOMAIN e => e[i] = c[i - 1]
    <3>1. (i \in DOMAIN e <=> i \in DOMAIN d) /\ (i \in DOMAIN e => e[i] = d[i])
      BY <2>2, <2>5 DEF IsPut
    <3>2. CASE i < n + 1
      BY <2>1, <2>5, <3>1, <3>2 DEF IsMoved
    <3>3. CASE n + 1 <= i
      <4>1. i \notin DOMAIN d /\ i - 1 \notin DOMAIN c
        BY <2>1, <3>3 DEF IsMoved
      <4> QED BY <3>1, <4>1
    <3> QED BY <3>2, <3>3
  <2>6. DOMAIN e \subseteq 0..(n - 0 + 1 - 1)
    <3> SUFFICES ASSUME NEW i \in DOMAIN e PROVE i \in 0..n
      OBVIOUS
    <3>1. i \in Nat
      BY <2>3 DEF IsContent
    <3>2. 1 <= i => i - 1 \in 0..(n - 1)
      BY <2>5, <3>1
    <3> QED BY <3>1, <3>2
  <2>7. IsSpliced(e, c, n, 0, 0, <<v>>, 1)
    <3>1. \A i \in 0..(n - 0 + 1 - 1) : 0 <= i /\ i < 0 + 1 => i \in DOMAIN e /\ e[i] = <<v>>[i - 0 + 1]
      BY <2>2 DEF IsPut
    <3>2. \A i \in 0..(n - 0 + 1 - 1) :
             /\ ~ (i < 0)
             /\ 0 + 1 <= i => /\ i \in DOMAIN e <=> i - 1 + 0 \in DOMAIN c
                              /\ i \in DOMAIN e => e[i] = c[i - 1 + 0]
      BY <2>5
    <3> QED BY <2>3, <2>6, <3>1, <3>2 DEF IsSpliced
  <2>8. e = OwnSpliced(r, 0, 0, <<v>>)
    <3>1. 0 + 0 <= n /\ 0 \in Nat /\ 1 \in Nat
      OBVIOUS
    <3> QED BY <1>2, <2>7, <3>1, SplicedSame
  <2>9. n - 0 + Len(<<v>>) = n + 1
    BY <1>2
  <2> QED BY <2>4, <2>8, <2>9
<1> QED BY <1>5, <1>6, <1>7, <1>8

\* Where nothing is inherited, that is what the language asks for.
LEMMA SplicedOwn ==
    ASSUME NEW n \in Nat, NEW c, IsContent(c),
           \A i \in DOMAIN World.inherited : i < n => i \in DOMAIN c,
           NEW start \in Nat, NEW count \in Nat, start + count <= n, NEW items, Len(items) \in Nat
    PROVE  SplicedContent(ArrayLike(n, c), start, count, items) =
               OwnSpliced(ArrayLike(n, c), start, count, items)
<1>1. PICK k \in Nat : k = Len(items)
  OBVIOUS
<1> DEFINE had == Overlaid(c, World.inherited)
           origin(i) == i - k + count
           inserted(i) == start <= i /\ i < start + k
           moved(i) == start + k <= i /\ k # count
           stays(i) == ~inserted(i) /\ ~moved(i)
           from(i) == IF i < start THEN i ELSE i - k + count
           there == {i \in 0..(n - count + k - 1) :
                        \/ inserted(i)
                        \/ moved(i) /\ origin(i) \in DOMAIN had
                        \/ stays(i) /\ i \in DOMAIN c}
           owned == {i \in 0..(n - count + k - 1) : inserted(i) \/ from(i) \in DOMAIN c}
           value(i) == IF inserted(i) THEN items[i - start + 1]
                       ELSE IF moved(i) THEN had[origin(i)] ELSE c[i]
           own(i) == IF inserted(i) THEN items[i - start + 1] ELSE c[from(i)]
<1>2. SplicedContent(ArrayLike(n, c), start, count, items) = [i \in there |-> value(i)]
  BY <1>1 DEF SplicedContent, ArrayLike
<1>3. OwnSpliced(ArrayLike(n, c), start, count, items) = [i \in owned |-> own(i)]
  BY <1>1 DEF OwnSpliced, ArrayLike
<1>4. /\ \A i : i < n => (i \in DOMAIN had <=> i \in DOMAIN c)
      /\ \A i \in DOMAIN c : had[i] = c[i]
  BY DEF Overlaid
<1> HIDE DEF had
<1>5. ASSUME NEW i \in 0..(n - count + k - 1)
      PROVE  (i \in there <=> i \in owned) /\ (i \in there => value(i) = own(i))
  <2>1. CASE inserted(i)
    BY <2>1
  <2>2. CASE moved(i)
    <3>1. ~inserted(i) /\ ~stays(i) /\ from(i) = origin(i) /\ origin(i) < n
      BY <2>2
    <3> QED BY <1>4, <2>2, <3>1
  <2>3. CASE stays(i)
    <3>1. from(i) = i
      BY <2>3
    <3> QED BY <2>3, <3>1
  <2> QED BY <2>1, <2>2, <2>3
<1>6. there = owned
  BY <1>5
<1>7. \A i \in there : value(i) = own(i)
  BY <1>5
<1> QED BY <1>2, <1>3, <1>6, <1>7

LEMMA LikesMoveExactly ==
    ASSUME WalkInv, recv.kind = "like"
    PROVE  LikesMoveAsOwed
<1>1. IsArrayLike(recv) /\ ~IsArray /\ LengthOf = recv.length /\ MaxDenseElements \in Nat
  BY InvFacts, KeyFacts DEF Receives, IsReceiver, IsArray, IsView, LengthOf
<1>2. PICK n \in Nat : n = recv.length
  BY <1>1, LikeShape
<1>3. PICK c : c = recv.content /\ IsContent(c) /\ recv = ArrayLike(n, c)
  BY <1>1, <1>2, LikeShape
<1> DEFINE splices(start, count, items) ==
               recv' = ArrayLike(recv.length - count + Len(items),
                                 OwnSpliced(recv, start, count, items))
           owed(start, count, items) ==
               recv' = ArrayLike(recv.length - count + Len(items),
                                 SplicedContent(recv, start, count, items))
<1> SUFFICES ASSUME Contiguous, InheritsNone
             PROVE  /\ Shift => owed(0, Lesser(1, n), <<>>)
                    /\ Pop => owed(IF n - 1 < 0 THEN 0 ELSE n - 1, Lesser(1, n), <<>>)
                    /\ \A v \in World.values : Push(v) => owed(n, 0, <<v>>)
                    /\ \A v \in World.values : Unshift(v) => owed(0, 0, <<v>>)
                    /\ \A start, count \in 0..MaxDenseElements,
                          items \in {<<>>} \cup {<<v>> : v \in World.values} :
                          Splice(start, count, items) => owed(start, count, items)
  BY <1>2, <1>3 DEF LikesMoveAsOwed, LikesSplice
<1>4. DOMAIN c \subseteq 0..(n - 1)
  BY <1>2, <1>3 DEF Contiguous
<1>5. Shift => splices(0, Lesser(1, n), <<>>)
  BY <1>1, <1>2, <1>3, <1>4, LikeMethodsExactly DEF Shift, Becomes
<1>6. Pop => splices(IF n - 1 < 0 THEN 0 ELSE n - 1, Lesser(1, n), <<>>)
  BY <1>1, <1>2, <1>3, <1>4, LikeMethodsExactly DEF Pop, Becomes
<1>7. ASSUME NEW v PROVE Push(v) => splices(n, 0, <<v>>)
  BY <1>1, <1>2, <1>3, <1>4, LikeMethodsExactly DEF Push, Becomes
<1>8. ASSUME NEW v PROVE Unshift(v) => splices(0, 0, <<v>>)
  BY <1>1, <1>2, <1>3, <1>4, LikeMethodsExactly DEF Unshift, Becomes
<1>9. ASSUME NEW start \in Nat, NEW count \in Nat, start + count <= n,
             NEW items, Len(items) \in Nat
      PROVE  IsSplice(ArrayLike(n, c), LikeSplice(ArrayLike(n, c), start, count, items), start, count, items)
  BY <1>3, <1>4, <1>9, LikeSplicesExactly
<1>10. ASSUME NEW start \in Nat, NEW count \in Nat, start + count <= n,
              NEW items, Len(items) \in Nat, splices(start, count, items)
       PROVE  owed(start, count, items)
  <2>1. \A i \in DOMAIN World.inherited : i < n => i \in DOMAIN c
    BY <1>2, <1>3 DEF InheritsNone
  <2>2. SplicedContent(recv, start, count, items) = OwnSpliced(recv, start, count, items)
    BY <1>3, <1>10, <2>1, SplicedOwn
  <2> QED BY <1>10, <2>2
<1>11. /\ Len(<<>>) \in Nat /\ \A v : Len(<<v>>) \in Nat
       /\ Lesser(1, n) \in Nat /\ 0 + Lesser(1, n) <= n /\ n + 0 <= n /\ 0 + 0 <= n
       /\ (IF n - 1 < 0 THEN 0 ELSE n - 1) + Lesser(1, n) <= n
       /\ (IF n - 1 < 0 THEN 0 ELSE n - 1) \in Nat
  BY DEF Lesser
<1>12. /\ Shift => owed(0, Lesser(1, n), <<>>)
       /\ Pop => owed(IF n - 1 < 0 THEN 0 ELSE n - 1, Lesser(1, n), <<>>)
       /\ \A v : Push(v) => owed(n, 0, <<v>>)
       /\ \A v : Unshift(v) => owed(0, 0, <<v>>)
  <2> HIDE DEF splices, owed
  <2> QED BY <1>5, <1>6, <1>7, <1>8, <1>10, <1>11
<1>13. ASSUME NEW start \in 0..MaxDenseElements, NEW count \in 0..MaxDenseElements,
              NEW items \in {<<>>} \cup {<<v>> : v \in World.values}
       PROVE  Splice(start, count, items) => owed(start, count, items)
  <2>1. Len(items) \in Nat
    <3>1. CASE items = <<>>
      BY <3>1
    <3>2. CASE items # <<>>
      <4>1. PICK v : items = <<v>>
        BY <3>2
      <4>2. Len(<<v>>) = 1 /\ 1 \in Nat
        OBVIOUS
      <4> QED BY <4>1, <4>2
    <3> QED BY <3>1, <3>2
  <2>2. start \in Nat /\ count \in Nat
    BY <1>1
  <2>3. Splice(start, count, items) =>
           start + count <= n /\ recv' = LikeSplice(recv, start, count, items)
    BY <1>1, <1>2 DEF Splice, Becomes
  <2>4. start + count <= n =>
           IsSplice(ArrayLike(n, c), LikeSplice(ArrayLike(n, c), start, count, items), start, count, items)
    BY <1>9, <2>1, <2>2
  <2>5. Splice(start, count, items) => splices(start, count, items)
    BY <1>3, <2>3, <2>4 DEF IsSplice
  <2> HIDE DEF splices, owed
  <2> QED BY <1>10, <2>1, <2>2, <2>3, <2>5
<1> QED BY <1>12, <1>13

(* pop, push, shift, unshift and splice of an array-like that inherits no   *)
(* element move the values that were there before the call, whatever        *)
(* overlaps, and copies within or between views move the elements they had, *)
(* even when the script calls them while a method walks the receiver        *)
(* (builtins/array.rs:401, typedarray.rs:670, 933).                         *)
THEOREM MethodsMoveAsOwed == Spec => MovesAsOwed
<1>1. Init => WalkInv
  BY StartsSound
<1>2. WalkInv /\ [Next]_vars => WalkInv'
  BY StepsKeep
<1>3. WalkInv => /\ buffers' # buffers \/ views' # views => ViewMovesExact
                 /\ recv.kind = "like" /\ recv' # recv => LikesMoveAsOwed
  <2>1. WalkInv => ViewMovesExact
    BY InvFacts, MovesExact
  <2> QED BY <2>1, LikesMoveExactly
<1> QED BY <1>1, <1>2, <1>3, PTL DEF Spec, MovesAsOwed
=============================================================================
