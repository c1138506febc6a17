------------------------------ MODULE TypedViews ------------------------------
(***************************************************************************)
(* ArrayBuffer, the typed arrays and DataView (builtins/typedarray.rs, and  *)
(* TypedArrayKind and TypedArrayObject of vm/object.rs).  The elements of a *)
(* view are not stored: they are decoded from the bytes of its buffer, so   *)
(* views of one buffer alias.                                               *)
(*                                                                         *)
(* A call that throws changes nothing and is no step.  Kinds of integers    *)
(* only; a byte has ByteValues values.                                      *)
(***************************************************************************)
EXTENDS Integers, Sequences, FiniteSets

CONSTANTS
    ByteValues,       \* 256
    MaxBufferBytes,   \* MAX_BUFFER_BYTES
    MaxBuffers,       \* bound: buffers allocated
    Slots,            \* the variables of the script that hold views
    Kinds,            \* the kinds of element in use
    Args,             \* integers the script passes as indices and lengths
    Numbers,          \* integers the script stores
    Absent,           \* an argument that is not passed
    NaN

ASSUME ViewAssumption ==
    /\ ByteValues \in Nat /\ ByteValues > 1 /\ ByteValues % 2 = 0
    /\ MaxBufferBytes \in Nat /\ MaxBuffers \in Nat
    /\ Kinds \subseteq {"Int8", "Uint8", "Uint8Clamped", "Int16", "Uint16", "Int32", "Uint32"}
    /\ Args \subseteq Int /\ Numbers \subseteq Int
    /\ Absent \notin Int /\ NaN \notin Int /\ Absent # NaN

VARIABLES
    buffers,   \* the bytes of each buffer, in the order of their allocation
    views      \* what each slot holds: a view, or none yet

viewVars == <<buffers, views>>

-----------------------------------------------------------------------------
(* Numbers as bytes.                                                        *)

\* bytes_per_element; a DataView is measured in bytes.
Width(kind) ==
    CASE kind \in {"Int16", "Uint16"} -> 2
      [] kind \in {"Int32", "Uint32"} -> 4
      [] OTHER -> 1

Signed(kind) == kind \in {"Int8", "Int16", "Int32"}

\* What byte n of a number counts for, the lowest being byte 0.
Weight(n) ==
    CASE n = 0 -> 1
      [] n = 1 -> ByteValues
      [] n = 2 -> ByteValues * ByteValues
      [] n = 3 -> ByteValues * ByteValues * ByteValues
      [] n = 4 -> ByteValues * ByteValues * ByteValues * ByteValues

Modulus(kind) == Weight(Width(kind))
Lowest(kind) == IF Signed(kind) THEN -(Modulus(kind) \div 2) ELSE 0
Highest(kind) == Lowest(kind) + Modulus(kind) - 1

\* The bits TypedArrayKind::write stores: an `as` cast, which saturates.
Saturated(kind, v) ==
    IF v = NaN THEN 0
    ELSE (IF v < Lowest(kind) THEN Lowest(kind)
          ELSE IF v > Highest(kind) THEN Highest(kind) ELSE v) % Modulus(kind)

\* to_int_n, for DataView: modulo.
Wrapped(kind, v) == IF v = NaN THEN 0 ELSE v % Modulus(kind)

\* Mutant: the low byte keeps what belongs to the high one.
UncutBytes(kind, bits) == [n \in 1..Width(kind) |-> bits \div Weight(n - 1)]

\* to_le_bytes and from_le_bytes.
Bytes(kind, bits) == [n \in 1..Width(kind) |-> (bits \div Weight(n - 1)) % ByteValues]

Bits(bytes) ==
    LET at(n) == IF n < Len(bytes) THEN bytes[n + 1] * Weight(n) ELSE 0
    IN  at(0) + at(1) + at(2) + at(3)

\* TypedArrayKind::read
Decoded(kind, bytes) ==
    LET bits == Bits(bytes)
    IN  IF bits > Highest(kind) THEN bits - Modulus(kind) ELSE bits

\* What an element of this kind holds after v was stored in it.
Converted(kind, v) == Decoded(kind, Bytes(kind, Saturated(kind, v)))

\* The bytes from at on are replaced.
Overwritten(data, at, bytes) ==
    [n \in DOMAIN data |-> IF n \in (at + 1)..(at + Len(bytes)) THEN bytes[n - at] ELSE data[n]]

\* TypedArrayKind::write for a row of elements; one that does not fit is
\* dropped.
WrittenAll(kind, data, at, values) ==
    LET element(n) == ((n - 1 - at) \div Width(kind)) + 1
        byte(n) == ((n - 1 - at) % Width(kind)) + 1
    IN  [n \in DOMAIN data |->
            IF n > at /\ element(n) <= Len(values) /\ at + element(n) * Width(kind) <= Len(data)
            THEN Bytes(kind, Saturated(kind, values[element(n)]))[byte(n)]
            ELSE data[n]]

-----------------------------------------------------------------------------
(* Views.                                                                   *)

NoView == [kind |-> "none", buffer |-> 0, offset |-> 0, length |-> 0]

View(kind, b, offset, length) ==
    [kind |-> kind, buffer |-> b, offset |-> offset, length |-> length]

IsTyped(s) == views[s].kind \in Kinds

\* Where element i of a view starts.
Start(view, i) == view.offset + i * Width(view.kind)

\* get_element: undefined, a NaN once it is a number, outside of the buffer.
Element(bufs, view, i) ==
    LET data == bufs[view.buffer]
    IN  IF i >= view.length \/ Start(view, i) + Width(view.kind) > Len(data) THEN NaN
        ELSE Decoded(view.kind,
                     SubSeq(data, Start(view, i) + 1, Start(view, i) + Width(view.kind)))

\* source_numbers of a view, and the snapshot its callback methods walk.
Elements(bufs, view) == [n \in 1..view.length |-> Element(bufs, view, n - 1)]

\* relative_index
RelativeIndex(arg, default, length) ==
    IF arg \in {Absent, NaN} THEN default
    ELSE IF arg < 0 THEN (IF length + arg < 0 THEN 0 ELSE length + arg)
    ELSE IF arg > length THEN length ELSE arg

\* A count that saturating_sub gives.
Span(begin, end) == IF end > begin THEN end - begin ELSE 0

OrZero(arg) == IF arg \in {Absent, NaN} THEN 0 ELSE arg

\* The elements of a view from index first on are replaced.
Stores(view, first, values) ==
    /\ buffers' = [buffers EXCEPT
            ![view.buffer] = WrittenAll(view.kind, @, Start(view, first), values)]
    /\ UNCHANGED views

\* make_buffer and make_view: a buffer of their own for these elements.
Allocates(s, kind, values) ==
    /\ Len(buffers) < MaxBuffers
    /\ buffers' = Append(buffers,
            WrittenAll(kind, [n \in 1..(Len(values) * Width(kind)) |-> 0], 0, values))
    /\ views' = [views EXCEPT ![s] = View(kind, Len(buffers) + 1, 0, Len(values))]

-----------------------------------------------------------------------------
(* Constructors.                                                            *)

\* Mutant: the room is counted in bytes.
RoomInBytes(kind, b, at) == Len(buffers[b]) - at

\* The elements that fit from byte at on.
Room(kind, b, at) == (Len(buffers[b]) - at) \div Width(kind)

\* new ArrayBuffer(length)
ConstructBuffer(n) ==
    /\ 0 <= n /\ n <= MaxBufferBytes
    /\ Len(buffers) < MaxBuffers
    /\ buffers' = Append(buffers, [m \in 1..n |-> 0])
    /\ UNCHANGED views

\* new Uint16Array(buffer, byteOffset, length)
ConstructView(s, kind, b, offset, length) ==
    LET at == OrZero(offset)
        n == CASE length = Absent -> Room(kind, b, at) [] length = NaN -> 0 [] OTHER -> length
    IN  /\ 0 <= at /\ at <= Len(buffers[b]) /\ at % Width(kind) = 0
        /\ 0 <= n /\ n <= Room(kind, b, at)
        /\ views' = [views EXCEPT ![s] = View(kind, b, at, n)]
        /\ UNCHANGED buffers

\* new Uint16Array(length)
ConstructLength(s, kind, n) ==
    /\ n >= 0 /\ n * Width(kind) <= MaxBufferBytes
    /\ Allocates(s, kind, [m \in 1..n |-> 0])

\* new Uint16Array(typedArray); the limit is not checked.
ConstructCopy(s, kind, t) == IsTyped(t) /\ Allocates(s, kind, Elements(buffers, views[t]))

\* new DataView(buffer, byteOffset, byteLength)
ConstructDataView(s, b, offset, length) ==
    LET at == OrZero(offset)
        n == IF length = Absent THEN Len(buffers[b]) - at ELSE OrZero(length)
    IN  /\ 0 <= at /\ 0 <= n /\ at + n <= Len(buffers[b])
        /\ views' = [views EXCEPT ![s] = View("DataView", b, at, n)]
        /\ UNCHANGED buffers

-----------------------------------------------------------------------------
(* Methods.                                                                 *)

\* Mutant: each element is read when its turn comes.
SetInPlace(s, t, offset) ==
    /\ IsTyped(s) /\ IsTyped(t)
    /\ OrZero(offset) >= 0 /\ OrZero(offset) + views[t].length <= views[s].length
    /\ UNCHANGED views
    /\ LET to == views[s]
           upTo[n \in 0..views[t].length] ==
                IF n = 0 THEN buffers
                ELSE [upTo[n - 1] EXCEPT ![to.buffer] =
                        WrittenAll(to.kind, @, Start(to, OrZero(offset) + n - 1),
                                   <<Element(upTo[n - 1], views[t], n - 1)>>)]
       IN  buffers' = upTo[views[t].length]

\* set(source, offset)
SetFrom(s, t, offset) ==
    /\ IsTyped(s) /\ IsTyped(t)
    /\ OrZero(offset) >= 0 /\ OrZero(offset) + views[t].length <= views[s].length
    /\ Stores(views[s], OrZero(offset), Elements(buffers, views[t]))

\* subarray(begin, end): another view of the same buffer.
Subarray(s, t, begin, end) ==
    LET view == views[t]
        first == RelativeIndex(begin, 0, view.length)
    IN  /\ IsTyped(t)
        /\ views' = [views EXCEPT ![s] =
                View(view.kind, view.buffer, Start(view, first),
                     Span(first, RelativeIndex(end, view.length, view.length)))]
        /\ UNCHANGED buffers

\* slice(begin, end): a copy.
Slice(s, t, begin, end) ==
    LET view == views[t]
        first == RelativeIndex(begin, 0, view.length)
    IN  /\ IsTyped(t)
        /\ Allocates(s, view.kind,
                     SubSeq(Elements(buffers, view), first + 1,
                            RelativeIndex(end, view.length, view.length)))

\* fill(value, start, end)
Fill(s, v, start, end) ==
    LET length == views[s].length
        first == RelativeIndex(start, 0, length)
    IN  /\ IsTyped(s)
        /\ Stores(views[s], first,
                  [n \in 1..Span(first, RelativeIndex(end, length, length)) |-> v])

\* copyWithin(target, start, end)
CopyWithin(s, target, start, end) ==
    LET length == views[s].length
        to == RelativeIndex(target, 0, length)
        from == RelativeIndex(start, 0, length)
        span == Span(from, RelativeIndex(end, length, length))
        count == IF span > length - to THEN length - to ELSE span
    IN  /\ IsTyped(s)
        /\ Stores(views[s], to, SubSeq(Elements(buffers, views[s]), from + 1, from + count))

Reversed(values) == [n \in DOMAIN values |-> values[Len(values) + 1 - n]]

\* reverse()
ReverseView(s) == IsTyped(s) /\ Stores(views[s], 0, Reversed(Elements(buffers, views[s])))

\* view[i] = v: dropped when there is no element i.
AssignElement(s, i, v) ==
    IsTyped(s) /\ 0 <= i /\ i < views[s].length /\ Stores(views[s], i, <<v>>)

\* The set* methods of a DataView; big-endian unless asked.
DataViewSet(s, at, kind, v, little) ==
    LET view == views[s]
        bytes == Bytes(kind, Wrapped(kind, v))
    IN  /\ view.kind = "DataView"
        /\ 0 <= at /\ at + Width(kind) <= view.length
        /\ buffers' = [buffers EXCEPT ![view.buffer] =
                Overwritten(@, view.offset + at, IF little THEN bytes ELSE Reversed(bytes))]
        /\ UNCHANGED views

\* ArrayBuffer.prototype.slice
SliceBuffer(b, start, end) ==
    LET length == Len(buffers[b])
    IN  /\ Len(buffers) < MaxBuffers
        /\ buffers' = Append(buffers,
                SubSeq(buffers[b], RelativeIndex(start, 0, length) + 1,
                       RelativeIndex(end, length, length)))
        /\ UNCHANGED views

-----------------------------------------------------------------------------
Optional == Args \cup {Absent}
Stored == Numbers \cup {NaN}

ViewInit ==
    /\ buffers = <<>>
    /\ views = [s \in Slots |-> NoView]

ViewNext ==
    \/ \E n \in Args : ConstructBuffer(n)
    \/ \E s \in Slots, b \in DOMAIN buffers, o, n \in Optional \cup {NaN} :
          \/ \E kind \in Kinds : ConstructView(s, kind, b, o, n)
          \/ ConstructDataView(s, b, o, n)
    \/ \E s \in Slots, kind \in Kinds :
          \/ \E n \in Args : ConstructLength(s, kind, n)
          \/ \E t \in Slots : ConstructCopy(s, kind, t)
    \/ \E s, t \in Slots :
          \/ \E o \in Optional : SetFrom(s, t, o)
          \/ \E b, e \in Optional : Subarray(s, t, b, e) \/ Slice(s, t, b, e)
    \/ \E s \in Slots :
          \/ \E v \in Stored, b, e \in Optional : Fill(s, v, b, e)
          \/ \E to, b, e \in Optional : CopyWithin(s, to, b, e)
          \/ ReverseView(s)
          \/ \E i \in Args, v \in Stored : AssignElement(s, i, v)
          \/ \E at \in Args, kind \in Kinds, v \in Stored, little \in BOOLEAN :
                DataViewSet(s, at, kind, v, little)
    \/ \E b \in DOMAIN buffers, f, e \in Optional : SliceBuffer(b, f, e)

ViewSpec == ViewInit /\ [][ViewNext]_viewVars

-----------------------------------------------------------------------------
ViewTypeOK ==
    /\ \A b \in DOMAIN buffers : \A n \in DOMAIN buffers[b] : buffers[b][n] \in 0..(ByteValues - 1)
    /\ \A s \in Slots : views[s].kind \in Kinds \cup {"DataView", "none"}

(* Every view lies within its buffer and is aligned for its elements, so    *)
(* the checks that get_element, set_element and the loops of set and fill   *)
(* make against the buffer never cut an operation short (object.rs:3113,    *)
(* typedarray.rs:716).                                                      *)
ViewsInBounds ==
    \A s \in Slots :
        LET view == views[s]
        IN  view.kind # "none" =>
                /\ view.buffer \in DOMAIN buffers
                /\ view.offset % Width(view.kind) = 0
                /\ Start(view, view.length) <= Len(buffers[view.buffer])

\* What a method owes that stores these values from element first of s on:
\* they read back converted, and no other byte of any buffer changed.
StoresExactly(s, first, values) ==
    LET view == views[s]
        window == (Start(view, first) + 1)..Start(view, first + Len(values))
    IN  /\ \A n \in DOMAIN values :
              Element(buffers', view, first + n - 1) = Converted(view.kind, values[n])
        /\ \A b \in DOMAIN buffers : \A n \in DOMAIN buffers[b] :
              b # view.buffer \/ n \notin window => buffers'[b][n] = buffers[b][n]

\* Methods that move elements move those the views had when they were called,
\* whatever overlaps.
ViewMovesExact ==
    /\ \A s, t \in Slots, o \in Optional :
          SetFrom(s, t, o) => StoresExactly(s, OrZero(o), Elements(buffers, views[t]))
    /\ \A s \in Slots, to, b, e \in Args \cap Nat : CopyWithin(s, to, b, e) =>
          \A i \in b..(e - 1) :
             i < views[s].length /\ to + i - b < views[s].length =>
                Element(buffers', views[s], to + i - b) = Element(buffers, views[s], i)
    /\ \A s \in Slots : ReverseView(s) =>
          \A i \in 0..(views[s].length - 1) :
             Element(buffers', views[s], views[s].length - 1 - i) = Element(buffers, views[s], i)
    /\ \A s, t \in Slots, b, e \in Optional :
          Subarray(s, t, b, e) /\ b \in Nat /\ e \in Nat =>
             \A i \in 0..(views'[s].length - 1) :
                Element(buffers', views'[s], i) = Element(buffers, views[t], b + i)
=============================================================================
