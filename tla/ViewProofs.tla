------------------------------ MODULE ViewProofs ------------------------------
(***************************************************************************)
(* Theorems about TypedViews: what a number becomes when it is stored and   *)
(* read back, and that every view stays within its buffer.                  *)
(***************************************************************************)
EXTENDS TypedViews, StackLemmas

Byte == 0..(ByteValues - 1)
IntKinds == {"Int8", "Uint8", "Uint8Clamped", "Int16", "Uint16", "Int32", "Uint32"}

-----------------------------------------------------------------------------
(* Numbers as bytes.                                                        *)

\* Division has one answer.
LEMMA DivUnique ==
    ASSUME NEW d \in Nat \ {0}, NEW q \in Int, NEW r \in 0..(d - 1), NEW a \in Int, a = d * q + r
    PROVE  (a \div d) = q /\ (a % d) = r
<1>1. a = d * (a \div d) + (a % d) /\ (a % d) \in 0..(d - 1) /\ (a \div d) \in Int
  OBVIOUS
<1> DEFINE p == a \div d
           s == a % d
<1>2. p \in Int /\ s \in 0..(d - 1) /\ d * (q - p) = s - r
  <2>1. d * (q - p) = d * q - d * p
    BY <1>1
  <2> QED BY <1>1, <2>1
<1> HIDE DEF p, s
<1>3. ~ (q - p >= 1)
  <2> SUFFICES ASSUME q - p >= 1 PROVE FALSE
    OBVIOUS
  <2>1. d * (q - p) >= d
    BY <1>2
  <2> QED BY <1>2, <2>1
<1>4. ~ (q - p <= -1)
  <2> SUFFICES ASSUME q - p <= -1 PROVE FALSE
    OBVIOUS
  <2>1. d * (q - p) <= -d
    BY <1>2
  <2> QED BY <1>2, <2>1
<1>5. q - p = 0
  BY <1>2, <1>3, <1>4
<1>6. d * (q - p) = 0
  BY <1>5
<1> QED BY <1>2, <1>5, <1>6 DEF p, s

\* Dividing twice is dividing by the product.
LEMMA DivDiv ==
    ASSUME NEW a \in Nat, NEW b \in Nat \ {0}, NEW c \in Nat \ {0}
    PROVE  (a \div (b * c)) = ((a \div b) \div c)
<1> DEFINE q == a \div b
           r == a % b
           t == q \div c
           s == q % c
<1>1. q \in Int /\ r \in 0..(b - 1) /\ a = b * q + r
  OBVIOUS
<1>2. t \in Int /\ s \in 0..(c - 1) /\ q = c * t + s
  BY <1>1
<1> HIDE DEF q, r, t, s
<1>3. b * q = b * c * t + b * s
  BY <1>1, <1>2
<1>4. b * s >= 0 /\ b * s <= b * (c - 1)
  BY <1>2
<1>5. b * (c - 1) = b * c - b /\ b * c \in Nat \ {0}
  OBVIOUS
<1>6. b * s + r \in 0..(b * c - 1)
  BY <1>1, <1>2, <1>4, <1>5
<1>7. a = (b * c) * t + (b * s + r)
  <2>1. b * q \in Int /\ b * c * t \in Int /\ b * s \in Int /\ r \in Int
    BY <1>1, <1>2
  <2> QED BY <1>1, <1>3, <2>1
<1>8. (a \div (b * c)) = t
  BY <1>2, <1>5, <1>6, <1>7, DivUnique
<1> QED BY <1>8 DEF q, t

LEMMA WidthFacts ==
    \A kind : Width(kind) \in {1, 2, 4}
BY DEF Width

LEMMA WeightFacts ==
    /\ Weight(0) = 1 /\ Weight(1) = ByteValues /\ Weight(2) = ByteValues * ByteValues
    /\ Weight(3) = ByteValues * Weight(2) /\ Weight(4) = ByteValues * Weight(3)
    /\ \A n \in 0..4 : Weight(n) \in Nat \ {0}
    /\ ByteValues \in Nat /\ ByteValues > 1
<1>1. ByteValues \in Nat /\ ByteValues > 1
  BY ViewAssumption
<1>2. ByteValues * ByteValues \in Nat \ {0}
  BY <1>1
<1>3. ByteValues * ByteValues * ByteValues \in Nat \ {0}
  BY <1>1, <1>2
<1>4. ByteValues * ByteValues * ByteValues * ByteValues \in Nat \ {0}
  BY <1>1, <1>3
<1> QED BY <1>1, <1>2, <1>3, <1>4 DEF Weight

LEMMA ModulusFacts ==
    ASSUME NEW kind
    PROVE  /\ Modulus(kind) \in Nat \ {0}
           /\ Lowest(kind) \in Int /\ Highest(kind) \in Int
           /\ Highest(kind) = Lowest(kind) + Modulus(kind) - 1
           /\ Lowest(kind) <= 0 /\ -1 <= Highest(kind) /\ Highest(kind) <= Modulus(kind) - 1
<1>1. Modulus(kind) \in Nat \ {0}
  BY WidthFacts, WeightFacts DEF Modulus
<1>2. (Modulus(kind) \div 2) \in Nat /\ (Modulus(kind) \div 2) <= Modulus(kind)
  BY <1>1
<1> QED BY <1>1, <1>2 DEF Lowest, Highest

\* What is stored of a number fits the element.
LEMMA StoredFits ==
    ASSUME NEW kind, NEW v \in Int \cup {NaN}
    PROVE  /\ Saturated(kind, v) \in 0..(Modulus(kind) - 1)
           /\ Wrapped(kind, v) \in 0..(Modulus(kind) - 1)
<1>1. CASE v = NaN
  BY <1>1, ModulusFacts DEF Saturated, Wrapped
<1>2. CASE v # NaN
  <2> DEFINE x == IF v < Lowest(kind) THEN Lowest(kind)
                  ELSE IF v > Highest(kind) THEN Highest(kind) ELSE v
  <2>1. v \in Int /\ x \in Int
    BY <1>2, ModulusFacts
  <2>2. Saturated(kind, v) = (x % Modulus(kind)) /\ Wrapped(kind, v) = (v % Modulus(kind))
    BY <1>2 DEF Saturated, Wrapped
  <2> HIDE DEF x
  <2> QED BY <2>1, <2>2, ModulusFacts
<1> QED BY <1>1, <1>2

LEMMA BytesFacts ==
    ASSUME NEW kind, NEW bits \in Int
    PROVE  /\ Bytes(kind, bits) \in Seq(Byte)
           /\ Len(Bytes(kind, bits)) = Width(kind)
           /\ \A n \in 1..Width(kind) :
                 Bytes(kind, bits)[n] = ((bits \div Weight(n - 1)) % ByteValues)
<1>1. \A n \in 1..Width(kind) : n - 1 \in 0..4
  BY WidthFacts
<1>2. \A n \in 1..Width(kind) : (bits \div Weight(n - 1)) \in Int
  BY <1>1, WeightFacts
<1>3. \A n \in 1..Width(kind) : ((bits \div Weight(n - 1)) % ByteValues) \in Byte
  BY <1>2, WeightFacts DEF Byte
<1>4. Bytes(kind, bits) \in [1..Width(kind) -> Byte]
  BY <1>3 DEF Bytes
<1>5. Width(kind) \in Nat
  BY WidthFacts
<1> QED BY <1>4, <1>5 DEF Bytes

\* One more digit.
LEMMA DigitFits ==
    ASSUME NEW m \in Nat \ {0}, NEW low \in 0..(m - 1), NEW d \in Byte
    PROVE  low + d * m \in 0..(ByteValues * m - 1)
<1>1. d \in Nat /\ d <= ByteValues - 1 /\ ByteValues \in Nat
  BY WeightFacts DEF Byte
<1>2. d * m \in Nat /\ d * m <= (ByteValues - 1) * m
  BY <1>1
<1>3. (ByteValues - 1) * m = ByteValues * m - m /\ ByteValues * m \in Nat
  BY <1>1
<1> QED BY <1>2, <1>3

\* What a row of bytes stands for, by its length.
LEMMA BitsSum ==
    ASSUME NEW kind, NEW bytes \in Seq(Byte), Len(bytes) = Width(kind)
    PROVE  /\ \A n \in 1..Width(kind) : bytes[n] \in Byte
           /\ Width(kind) = 1 => Bits(bytes) = bytes[1]
           /\ Width(kind) = 2 => Bits(bytes) = bytes[1] + bytes[2] * Weight(1)
           /\ Width(kind) = 4 => Bits(bytes) = bytes[1] + bytes[2] * Weight(1)
                                                + bytes[3] * Weight(2) + bytes[4] * Weight(3)
<1>1. \A n \in 1..Width(kind) : bytes[n] \in Byte /\ bytes[n] \in Nat
  <2>1. \A n \in 1..Width(kind) : bytes[n] \in Byte
    OBVIOUS
  <2> QED BY <2>1, WeightFacts DEF Byte
<1>2. \A n \in 0..4 : Weight(n) \in Nat
  BY WeightFacts
<1>3. \A n \in 1..Width(kind) : bytes[n] * Weight(n - 1) \in Nat
  <2>1. \A n \in 1..Width(kind) : n - 1 \in 0..4
    BY WidthFacts
  <2> QED BY <1>1, <1>2, <2>1
<1>4. Width(kind) = 1 => Bits(bytes) = bytes[1]
  <2> HAVE Width(kind) = 1
  <2>1. Bits(bytes) = bytes[1] * Weight(0) + 0 + 0 + 0
    BY DEF Bits
  <2> QED BY <1>1, <2>1, WeightFacts
<1>5. Width(kind) = 2 => Bits(bytes) = bytes[1] + bytes[2] * Weight(1)
  <2> HAVE Width(kind) = 2
  <2>1. Bits(bytes) = bytes[1] * Weight(0) + bytes[2] * Weight(1) + 0 + 0
    BY DEF Bits
  <2>2. bytes[1] * Weight(0) = bytes[1] /\ bytes[1] \in Nat /\ bytes[2] * Weight(1) \in Nat
    BY <1>1, <1>3, WeightFacts
  <2> QED BY <2>1, <2>2
<1>6. Width(kind) = 4 => Bits(bytes) = bytes[1] + bytes[2] * Weight(1)
                                         + bytes[3] * Weight(2) + bytes[4] * Weight(3)
  <2> HAVE Width(kind) = 4
  <2>1. Bits(bytes) = bytes[1] * Weight(0) + bytes[2] * Weight(1)
                        + bytes[3] * Weight(2) + bytes[4] * Weight(3)
    BY DEF Bits
  <2>2. bytes[1] * Weight(0) = bytes[1]
    BY <1>1, WeightFacts
  <2> QED BY <2>1, <2>2
<1> QED BY <1>1, <1>4, <1>5, <1>6

LEMMA BitsFit ==
    ASSUME NEW kind, NEW bytes \in Seq(Byte), Len(bytes) = Width(kind)
    PROVE  Bits(bytes) \in 0..(Modulus(kind) - 1)
<1>1. ByteValues \in Nat \ {0} /\ \A n \in 0..4 : Weight(n) \in Nat \ {0}
  BY WeightFacts
<1>0. \A n \in 1..Width(kind) : bytes[n] \in Byte
  BY BitsSum
<1>2. CASE Width(kind) = 1
  <2>1. Modulus(kind) = ByteValues
    BY <1>2, WeightFacts DEF Modulus
  <2>2. Bits(bytes) = bytes[1]
    BY <1>2, BitsSum
  <2> QED BY <1>0, <1>2, <2>1, <2>2 DEF Byte
<1>3. ByteValues * Weight(1) = Weight(2) /\ ByteValues * Weight(2) = Weight(3)
      /\ ByteValues * Weight(3) = Weight(4)
  BY WeightFacts
<1>4. ASSUME Width(kind) \in {2, 4}
      PROVE  bytes[1] + bytes[2] * Weight(1) \in 0..(Weight(2) - 1)
  <2>1. bytes[1] \in Byte /\ bytes[2] \in Byte
    BY <1>0, <1>4
  <2>2. Weight(1) \in Nat \ {0} /\ bytes[1] \in 0..(Weight(1) - 1)
    BY <1>1, <2>1, WeightFacts DEF Byte
  <2>3. bytes[1] + bytes[2] * Weight(1) \in 0..(ByteValues * Weight(1) - 1)
    BY <2>1, <2>2, DigitFits
  <2> QED BY <1>3, <2>3
<1>5. CASE Width(kind) = 2
  BY <1>4, <1>5, BitsSum DEF Modulus
<1>6. CASE Width(kind) = 4
  <2>1. bytes[3] \in Byte /\ bytes[4] \in Byte /\ Weight(2) \in Nat \ {0} /\ Weight(3) \in Nat \ {0}
    BY <1>0, <1>1, <1>6
  <2>2. bytes[1] + bytes[2] * Weight(1) \in 0..(Weight(2) - 1)
    BY <1>4, <1>6
  <2>3. bytes[1] + bytes[2] * Weight(1) + bytes[3] * Weight(2)
            \in 0..(ByteValues * Weight(2) - 1)
    BY <2>1, <2>2, DigitFits
  <2>4. bytes[1] + bytes[2] * Weight(1) + bytes[3] * Weight(2) \in 0..(Weight(3) - 1)
    BY <1>3, <2>3
  <2>5. bytes[1] + bytes[2] * Weight(1) + bytes[3] * Weight(2) + bytes[4] * Weight(3)
            \in 0..(ByteValues * Weight(3) - 1)
    BY <2>1, <2>4, DigitFits
  <2> QED BY <1>3, <1>6, <2>5, BitsSum DEF Modulus
<1> QED BY <1>2, <1>5, <1>6, WidthFacts

\* The next byte of a number, and what is left above it.
LEMMA NextDigit ==
    ASSUME NEW x \in Nat, NEW n \in 0..3
    PROVE  /\ (x \div Weight(n)) \in Nat
           /\ (x \div Weight(n)) = ((x \div Weight(n)) % ByteValues)
                                       + ByteValues * (x \div Weight(n + 1))
           /\ ((x \div Weight(n)) % ByteValues) \in Byte
<1>1. Weight(n) \in Nat \ {0} /\ ByteValues \in Nat \ {0}
  BY WeightFacts
<1>2. Weight(n + 1) = Weight(n) * ByteValues
  <2>1. n \in {0, 1, 2, 3}
    OBVIOUS
  <2> QED BY <2>1, WeightFacts
<1> DEFINE y == x \div Weight(n)
<1>3. y \in Nat /\ (x \div Weight(n + 1)) = (y \div ByteValues)
  BY <1>1, <1>2, DivDiv
<1> HIDE DEF y
<1>4. y = (y % ByteValues) + ByteValues * (y \div ByteValues) /\ (y % ByteValues) \in Byte
  BY <1>1, <1>3 DEF Byte
<1> QED BY <1>3, <1>4 DEF y

\* Bytes that are read are those that were written.
LEMMA RoundTrip ==
    ASSUME NEW kind, NEW x \in 0..(Modulus(kind) - 1)
    PROVE  Bits(Bytes(kind, x)) = x
<1> DEFINE b == Bytes(kind, x)
           y(n) == x \div Weight(n)
           d(n) == y(n) % ByteValues
<1>1. Bits(b) = Bits(b) /\ b \in Seq(Byte) /\ Len(b) = Width(kind) /\ x \in Nat
      /\ \A n \in 1..Width(kind) : b[n] = d(n - 1)
  BY BytesFacts
<1>2. ASSUME NEW n \in 0..3
      PROVE  y(n) \in Nat /\ d(n) \in Nat /\ y(n) = d(n) + ByteValues * y(n + 1)
  <2>1. y(n) \in Nat /\ d(n) \in Byte /\ y(n) = d(n) + ByteValues * y(n + 1)
    BY NextDigit
  <2> QED BY <2>1, WeightFacts DEF Byte
<1>3. y(0) = x
  BY WeightFacts
<1>4. y(Width(kind)) = 0
  <2>1. Weight(Width(kind)) \in Nat \ {0} /\ x < Weight(Width(kind))
    BY ModulusFacts DEF Modulus
  <2>2. x = Weight(Width(kind)) * 0 + x /\ x \in 0..(Weight(Width(kind)) - 1)
    BY <2>1
  <2> QED BY <2>1, <2>2, DivUnique
<1> HIDE DEF b, y, d
<1>5. ByteValues \in Nat
  BY WeightFacts
<1>6. CASE Width(kind) = 1
  <2>1. x = d(0) + ByteValues * 0
    BY <1>2, <1>3, <1>4, <1>6
  <2>2. b[1] = d(0) /\ d(0) \in Nat
    BY <1>1, <1>2, <1>6
  <2>3. Bits(b) = b[1]
    BY <1>1, <1>6, BitsSum
  <2> QED BY <1>5, <2>1, <2>2, <2>3 DEF b
<1>7. CASE Width(kind) = 2
  <2>1. y(1) = d(1) /\ x = d(0) + ByteValues * y(1)
    BY <1>2, <1>3, <1>4, <1>5, <1>7
  <2>2. b[1] = d(0) /\ b[2] = d(1) /\ d(0) \in Nat /\ d(1) \in Nat
    BY <1>1, <1>2, <1>7
  <2>3. Bits(b) = b[1] + b[2] * ByteValues
    BY <1>1, <1>7, BitsSum, WeightFacts
  <2> QED BY <1>5, <2>1, <2>2, <2>3 DEF b
<1>8. CASE Width(kind) = 4
  <2>1. /\ x = d(0) + ByteValues * y(1) /\ y(1) = d(1) + ByteValues * y(2)
        /\ y(2) = d(2) + ByteValues * y(3) /\ y(3) = d(3)
        /\ d(0) \in Nat /\ d(1) \in Nat /\ d(2) \in Nat /\ d(3) \in Nat
    BY <1>2, <1>3, <1>4, <1>5, <1>8
  <2>2. b[1] = d(0) /\ b[2] = d(1) /\ b[3] = d(2) /\ b[4] = d(3)
    BY <1>1, <1>8
  <2>3. Bits(b) = b[1] + b[2] * Weight(1) + b[3] * Weight(2) + b[4] * Weight(3)
    BY <1>1, <1>8, BitsSum
  <2>4. /\ Weight(1) = ByteValues /\ Weight(2) = ByteValues * ByteValues
        /\ Weight(3) = ByteValues * (ByteValues * ByteValues)
    BY WeightFacts
  <2>5. Bits(b) = d(0) + d(1) * ByteValues + d(2) * (ByteValues * ByteValues)
                    + d(3) * (ByteValues * (ByteValues * ByteValues))
    BY <2>2, <2>3, <2>4
  <2>6. x = d(0) + ByteValues * (d(1) + ByteValues * (d(2) + ByteValues * d(3)))
    BY <2>1
  <2> HIDE DEF d
  <2>7. \A p, q, r, s, v \in Nat :
           p + v * (q + v * (r + v * s)) = p + q * v + r * (v * v) + s * (v * (v * v))
    OBVIOUS
  <2> QED BY <1>5, <2>1, <2>5, <2>6, <2>7 DEF b
<1> QED BY <1>6, <1>7, <1>8, WidthFacts

\* An element holds a number of its kind, and takes such a number as it is.
LEMMA DecodedFits ==
    ASSUME NEW kind, NEW bytes \in Seq(Byte), Len(bytes) = Width(kind)
    PROVE  Decoded(kind, bytes) \in Lowest(kind)..Highest(kind)
BY BitsFit, ModulusFacts DEF Decoded

LEMMA ConvertedSame ==
    ASSUME NEW kind, NEW v \in Lowest(kind)..Highest(kind)
    PROVE  Converted(kind, v) = v
<1>1. v \in Int /\ v # NaN
  BY ModulusFacts, ViewAssumption
<1>2. Saturated(kind, v) = (v % Modulus(kind))
  BY <1>1, ModulusFacts DEF Saturated
<1>3. (v % Modulus(kind)) = IF v < 0 THEN v + Modulus(kind) ELSE v
  <2>1. CASE v < 0
    <3>1. v = Modulus(kind) * (-1) + (v + Modulus(kind))
      BY <1>1, ModulusFacts
    <3>2. v + Modulus(kind) \in 0..(Modulus(kind) - 1)
      BY <1>1, <2>1, ModulusFacts
    <3> QED BY <1>1, <2>1, <3>1, <3>2, ModulusFacts, DivUnique
  <2>2. CASE v >= 0
    <3>1. v = Modulus(kind) * 0 + v /\ v \in 0..(Modulus(kind) - 1)
      BY <1>1, <2>2, ModulusFacts
    <3> QED BY <1>1, <2>2, <3>1, ModulusFacts, DivUnique
  <2> QED BY <1>1, <2>1, <2>2
<1>4. (v % Modulus(kind)) \in 0..(Modulus(kind) - 1)
  BY <1>1, ModulusFacts
<1>5. Bits(Bytes(kind, v % Modulus(kind))) = (v % Modulus(kind))
  BY <1>4, RoundTrip
<1> QED BY <1>1, <1>2, <1>3, <1>5, ModulusFacts DEF Converted, Decoded
-----------------------------------------------------------------------------
(* Views.                                                                   *)

\* What a script can store: a number of the model, or NaN.
Value == Int \cup {NaN}

ViewSet ==
    [kind : Kinds \cup {"DataView", "none"}, buffer : Nat, offset : Nat, length : Nat]

\* A view lies within one of these buffers, aligned for its elements.
InBounds(bufs, view) ==
    /\ view.buffer \in DOMAIN bufs
    /\ view.offset % Width(view.kind) = 0
    /\ Start(view, view.length) <= Len(bufs[view.buffer])

(* The inductive invariant: buffers are rows of bytes, and views lie within *)
(* them.                                                                    *)
Sound(bufs, vs) ==
    /\ bufs \in Seq(Seq(Byte))
    /\ vs \in [Slots -> ViewSet]
    /\ \A s \in Slots : vs[s].kind # "none" => InBounds(bufs, vs[s])

\* Where elements start, without a product.
LEMMA StartFacts ==
    ASSUME NEW view, view.offset \in Nat, NEW i \in Nat
    PROVE  /\ Start(view, i) \in Nat
           /\ Start(view, i + 1) = Start(view, i) + Width(view.kind)
           /\ view.offset <= Start(view, i)
           /\ \A k \in Nat : i <= k => Start(view, i) <= Start(view, k)
           /\ Start(view, 0) = view.offset
           /\ (Start(view, i) % Width(view.kind)) = (view.offset % Width(view.kind))
<1> DEFINE w == Width(view.kind)
<1>1. w \in {1, 2, 4}
  BY WidthFacts
<1>2. \A k : Start(view, k) = view.offset + k * w
  BY DEF Start
<1> HIDE DEF w
<1>3. ((view.offset + i * w) % w) = (view.offset % w)
  BY <1>1
<1> QED BY <1>1, <1>2, <1>3 DEF w

\* A function on 1..n is a sequence.
LEMMA RowFacts ==
    ASSUME NEW S, NEW n \in Nat, NEW f \in [1..n -> S]
    PROVE  f \in Seq(S) /\ Len(f) = n /\ \A k \in 1..n : f[k] \in S
OBVIOUS

LEMMA StartApart ==
    ASSUME NEW view, view.offset \in Nat, NEW i \in Nat, NEW n \in Nat
    PROVE  Start(view, i + n) = Start(view, i) + n * Width(view.kind)
<1> DEFINE w == Width(view.kind)
<1>1. w \in Nat
  BY WidthFacts
<1>2. Start(view, i + n) = view.offset + (i + n) * w /\ Start(view, i) = view.offset + i * w
  BY DEF Start
<1> HIDE DEF w
<1>3. (i + n) * w = i * w + n * w /\ i * w \in Nat /\ n * w \in Nat
  BY <1>1
<1> QED BY <1>2, <1>3 DEF w

LEMMA ViewTyped ==
    ASSUME NEW view \in ViewSet
    PROVE  /\ view.offset \in Nat /\ view.length \in Nat /\ view.buffer \in Nat
           /\ view.kind \in Kinds \cup {"DataView", "none"}
BY DEF ViewSet

LEMMA KindFacts ==
    /\ Kinds \subseteq IntKinds
    /\ \A kind \in Kinds : kind # "none" /\ kind # "DataView"
BY ViewAssumption DEF IntKinds

\* Element i of a view within its buffer: what its bytes stand for.
LEMMA ElementFacts ==
    ASSUME NEW bufs \in Seq(Seq(Byte)), NEW view \in ViewSet, InBounds(bufs, view),
           NEW i \in 0..(view.length - 1)
    PROVE  LET bytes == [n \in 1..Width(view.kind) |-> bufs[view.buffer][Start(view, i) + n]]
           IN  /\ bytes \in Seq(Byte) /\ Len(bytes) = Width(view.kind)
               /\ \A n \in 1..Width(view.kind) :
                     Start(view, i) + n \in 1..Len(bufs[view.buffer])
               /\ Element(bufs, view, i) = Decoded(view.kind, bytes)
               /\ Element(bufs, view, i) \in Lowest(view.kind)..Highest(view.kind)
               /\ Element(bufs, view, i) \in Int
<1> DEFINE w == Width(view.kind)
           data == bufs[view.buffer]
           at == Start(view, i)
           bytes == [n \in 1..w |-> data[at + n]]
<1>1. data \in Seq(Byte) /\ Len(data) \in Nat
  BY DEF InBounds
<1>2. i \in Nat /\ i + 1 \in Nat /\ i + 1 <= view.length /\ view.length \in Nat /\ view.offset \in Nat
  BY ViewTyped
<1>3. at \in Nat /\ w \in {1, 2, 4} /\ at + w <= Len(data)
  <2>1. at \in Nat /\ Start(view, i + 1) = at + w
    BY <1>2, StartFacts
  <2>2. Start(view, i + 1) <= Start(view, view.length)
    BY <1>2, StartFacts
  <2>3. Start(view, view.length) <= Len(data)
    BY DEF InBounds
  <2>4. Start(view, i + 1) \in Nat /\ Start(view, view.length) \in Nat
    BY <1>2, StartFacts
  <2> QED BY <1>1, <2>1, <2>2, <2>3, <2>4, WidthFacts
<1>4. Element(bufs, view, i) = Decoded(view.kind, SubSeq(data, at + 1, at + w))
  <2>1. ~ (i >= view.length) /\ ~ (at + w > Len(data))
    <3> HIDE DEF at, w, data
    <3> QED BY <1>1, <1>2, <1>3
  <2> QED BY <2>1 DEF Element
<1> HIDE DEF data, at, w
<1>5. \A n \in 1..w : at + n \in 1..Len(data)
  BY <1>1, <1>3
<1>6. bytes \in [1..w -> Byte]
  BY <1>1, <1>5
<1>7. bytes \in Seq(Byte) /\ Len(bytes) = w
  <2>1. w \in Nat
    BY <1>3
  <2> QED BY <1>6, <2>1, RowFacts
<1>8. SubSeq(data, at + 1, at + w) = bytes
  BY <1>1, <1>3
<1>9. Decoded(view.kind, bytes) \in Lowest(view.kind)..Highest(view.kind)
  BY <1>7, DecodedFits DEF w
<1>10. \A x \in Lowest(view.kind)..Highest(view.kind) : x \in Int
  BY ModulusFacts
<1> QED BY <1>4, <1>5, <1>7, <1>8, <1>9, <1>10 DEF data, at, w

LEMMA ElementsFacts ==
    ASSUME NEW bufs \in Seq(Seq(Byte)), NEW view \in ViewSet, InBounds(bufs, view)
    PROVE  /\ Elements(bufs, view) \in Seq(Lowest(view.kind)..Highest(view.kind))
           /\ Elements(bufs, view) \in Seq(Int) /\ Elements(bufs, view) \in Seq(Value)
           /\ Len(Elements(bufs, view)) = view.length
           /\ \A n \in 1..view.length : Elements(bufs, view)[n] = Element(bufs, view, n - 1)
<1>1. view.length \in Nat
  BY ViewTyped
<1>2. \A n \in 1..view.length :
         /\ Element(bufs, view, n - 1) \in Lowest(view.kind)..Highest(view.kind)
         /\ Element(bufs, view, n - 1) \in Int
  <2> TAKE n \in 1..view.length
  <2>1. n - 1 \in 0..(view.length - 1)
    BY <1>1
  <2> QED BY <2>1, ElementFacts
<1>3. /\ Elements(bufs, view) \in [1..view.length -> Lowest(view.kind)..Highest(view.kind)]
      /\ Elements(bufs, view) \in [1..view.length -> Int]
      /\ Elements(bufs, view) \in [1..view.length -> Value]
  BY <1>2 DEF Elements, Value
<1>4. /\ Elements(bufs, view) \in Seq(Lowest(view.kind)..Highest(view.kind))
      /\ Elements(bufs, view) \in Seq(Int) /\ Elements(bufs, view) \in Seq(Value)
      /\ Len(Elements(bufs, view)) = view.length
  BY <1>1, <1>3, RowFacts
<1> QED BY <1>1, <1>4 DEF Elements

LEMMA RelativeFacts ==
    ASSUME NEW arg \in Int \cup {Absent, NaN}, NEW length \in Nat, NEW default \in 0..length
    PROVE  RelativeIndex(arg, default, length) \in 0..length
BY ViewAssumption DEF RelativeIndex

LEMMA OrZeroFacts ==
    ASSUME NEW arg \in Int \cup {Absent, NaN}
    PROVE  OrZero(arg) \in Int
BY ViewAssumption DEF OrZero
\* What writing a row of elements leaves.
LEMMA Written ==
    ASSUME NEW kind, NEW data \in Seq(Byte), NEW at \in Nat, NEW values \in Seq(Value)
    PROVE  /\ WrittenAll(kind, data, at, values) \in Seq(Byte)
           /\ Len(WrittenAll(kind, data, at, values)) = Len(data) /\ Len(data) \in Nat
           /\ \A n \in 1..Len(data) :
                 n \notin (at + 1)..(at + Len(values) * Width(kind)) =>
                    WrittenAll(kind, data, at, values)[n] = data[n]
           /\ \A m \in 1..Len(values), k \in 1..Width(kind) :
                 at + m * Width(kind) <= Len(data) =>
                    WrittenAll(kind, data, at, values)[at + (m - 1) * Width(kind) + k]
                        = Bytes(kind, Saturated(kind, values[m]))[k]
<1> DEFINE w == Width(kind)
           new == WrittenAll(kind, data, at, values)
           element(n) == ((n - 1 - at) \div w) + 1
           byte(n) == ((n - 1 - at) % w) + 1
           stored(m) == Bytes(kind, Saturated(kind, values[m]))
<1>1. /\ w \in {1, 2, 4} /\ Len(data) \in Nat /\ Len(values) \in Nat
      /\ DOMAIN data = 1..Len(data)
  BY WidthFacts
<1>2. new = [n \in 1..Len(data) |->
                IF n > at /\ element(n) <= Len(values) /\ at + element(n) * w <= Len(data)
                THEN stored(element(n))[byte(n)] ELSE data[n]]
  BY <1>1 DEF WrittenAll
<1>3. ASSUME NEW m \in 1..Len(values)
      PROVE  /\ stored(m) \in Seq(Byte) /\ Len(stored(m)) = w
             /\ \A k \in 1..w : stored(m)[k] \in Byte
  <2>1. values[m] \in Value
    OBVIOUS
  <2>2. Saturated(kind, values[m]) \in Int
    <3>1. Saturated(kind, values[m]) \in 0..(Modulus(kind) - 1)
      BY <2>1, StoredFits DEF Value
    <3> QED BY <3>1, ModulusFacts
  <2>3. stored(m) \in Seq(Byte) /\ Len(stored(m)) = w
    BY <2>2, BytesFacts
  <2> HIDE DEF stored
  <2>4. \A k \in 1..Len(stored(m)) : stored(m)[k] \in Byte
    BY <2>3
  <2> QED BY <2>3, <2>4
<1> HIDE DEF new, w, stored
<1>4. ASSUME NEW n \in 1..Len(data), n > at
      PROVE  /\ element(n) \in Nat \ {0} /\ byte(n) \in 1..w
             /\ n = at + (element(n) - 1) * w + byte(n)
  <2> DEFINE a == n - 1 - at
  <2>1. a \in Nat /\ n = at + a + 1
    BY <1>4
  <2> HIDE DEF a
  <2>2. (a \div w) \in Nat /\ (a % w) \in 0..(w - 1) /\ a = (a \div w) * w + (a % w)
    BY <1>1, <2>1
  <2> DEFINE q == a \div w
             r == a % w
  <2>3. element(n) = q + 1 /\ byte(n) = r + 1
    BY DEF a
  <2>4. q \in Nat /\ r \in 0..(w - 1) /\ a = q * w + r
    BY <2>2
  <2> HIDE DEF element, byte, q, r
  <2>5. element(n) - 1 = q
    BY <2>3, <2>4
  <2>6. n = at + (element(n) - 1) * w + byte(n)
    BY <1>1, <2>1, <2>3, <2>4, <2>5
  <2> QED BY <1>1, <2>3, <2>4, <2>6
<1>5. \A n \in 1..Len(data) : new[n] \in Byte
  <2> TAKE n \in 1..Len(data)
  <2>1. CASE n > at /\ element(n) <= Len(values) /\ at + element(n) * w <= Len(data)
    <3>1. element(n) \in 1..Len(values) /\ byte(n) \in 1..w
      BY <1>1, <1>4, <2>1
    <3>2. stored(element(n))[byte(n)] \in Byte
      BY <1>3, <3>1
    <3> QED BY <1>2, <2>1, <3>2
  <2>2. CASE ~ (n > at /\ element(n) <= Len(values) /\ at + element(n) * w <= Len(data))
    <3>1. data[n] \in Byte
      OBVIOUS
    <3> QED BY <1>2, <2>2, <3>1
  <2> QED BY <2>1, <2>2
<1>6. new \in Seq(Byte) /\ Len(new) = Len(data)
  <2>1. new \in [1..Len(data) -> Byte]
    BY <1>2, <1>5
  <2> QED BY <1>1, <2>1, RowFacts
<1>7. ASSUME NEW n \in 1..Len(data), n \notin (at + 1)..(at + Len(values) * w)
      PROVE  new[n] = data[n]
  <2>1. ASSUME n > at PROVE element(n) > Len(values)
    <3>1. n > at + Len(values) * w /\ Len(values) * w \in Nat
      BY <1>1, <1>7, <2>1
    <3>2. element(n) \in Nat /\ byte(n) \in 1..w /\ n = at + (element(n) - 1) * w + byte(n)
      BY <1>4, <2>1
    <3> HIDE DEF element, byte
    <3>3. (element(n) - 1) * w = element(n) * w - w
      BY <1>1, <3>2
    <3>4. element(n) * w > Len(values) * w
      BY <1>1, <3>1, <3>2, <3>3
    <3> QED BY <1>1, <3>2, <3>4
  <2>2. n > at => element(n) \in Nat
    BY <1>4
  <2> HIDE DEF element
  <2>3. ~ (n > at /\ element(n) <= Len(values) /\ at + element(n) * w <= Len(data))
    BY <1>1, <2>1, <2>2
  <2> QED BY <1>2, <2>3
<1>8. ASSUME NEW m \in 1..Len(values), NEW k \in 1..w, at + m * w <= Len(data)
      PROVE  new[at + (m - 1) * w + k] = stored(m)[k]
  <2> DEFINE n == at + (m - 1) * w + k
             a == n - 1 - at
  <2>1. m \in Nat \ {0} /\ m * w \in Nat /\ (m - 1) * w \in Nat /\ (m - 1) * w = m * w - w
    BY <1>1
  <2>2. n \in 1..Len(data) /\ n > at /\ a = w * (m - 1) + (k - 1) /\ k - 1 \in 0..(w - 1)
        /\ m - 1 \in Int /\ w \in Nat \ {0} /\ a \in Int
    BY <1>1, <1>8, <2>1
  <2>3. (a \div w) = m - 1 /\ (a % w) = k - 1
    <3> DEFINE q == m - 1
               r == k - 1
    <3>1. q \in Int /\ r \in 0..(w - 1) /\ a \in Int /\ w \in Nat \ {0} /\ a = w * q + r
      BY <2>2
    <3> HIDE DEF a, n, q, r
    <3>2. (a \div w) = q /\ (a % w) = r
      BY <3>1, DivUnique
    <3> QED BY <3>2 DEF q, r
  <2>4. element(n) = m /\ byte(n) = k
    <3>1. element(n) = (a \div w) + 1 /\ byte(n) = (a % w) + 1
      OBVIOUS
    <3> HIDE DEF a, element, byte
    <3> QED BY <1>1, <2>1, <2>3, <3>1
  <2> HIDE DEF n, element, byte
  <2>5. n > at /\ element(n) <= Len(values) /\ at + element(n) * w <= Len(data)
    BY <1>1, <1>8, <2>2, <2>4
  <2>6. new[n] = stored(m)[k]
    BY <1>2, <2>2, <2>4, <2>5
  <2> QED BY <2>6 DEF n
<1> QED BY <1>1, <1>6, <1>7, <1>8 DEF new, w, stored

LEMMA WrittenElsewhere ==
    ASSUME NEW kind, NEW data \in Seq(Byte), NEW at \in Nat, NEW values \in Seq(Value),
           NEW n \in 1..Len(data), n \notin (at + 1)..(at + Len(values) * Width(kind))
    PROVE  WrittenAll(kind, data, at, values)[n] = data[n]
BY Written

LEMMA WrittenThere ==
    ASSUME NEW kind, NEW data \in Seq(Byte), NEW at \in Nat, NEW values \in Seq(Value),
           NEW m \in 1..Len(values), NEW k \in 1..Width(kind), at + m * Width(kind) <= Len(data)
    PROVE  WrittenAll(kind, data, at, values)[at + (m - 1) * Width(kind) + k]
               = Bytes(kind, Saturated(kind, values[m]))[k]
BY Written

LEMMA WrittenRow ==
    ASSUME NEW kind, NEW data \in Seq(Byte), NEW at \in Nat, NEW values \in Seq(Value)
    PROVE  /\ WrittenAll(kind, data, at, values) \in Seq(Byte)
           /\ Len(WrittenAll(kind, data, at, values)) = Len(data)
BY Written

LEMMA OverwrittenFacts ==
    ASSUME NEW S, NEW data \in Seq(S), NEW at \in Nat, NEW bytes \in Seq(S)
    PROVE  /\ Overwritten(data, at, bytes) \in Seq(S)
           /\ Len(Overwritten(data, at, bytes)) = Len(data)
<1> DEFINE new == Overwritten(data, at, bytes)
<1>1. Len(data) \in Nat /\ Len(bytes) \in Nat /\ DOMAIN data = 1..Len(data)
  OBVIOUS
<1>2. new = [n \in 1..Len(data) |->
                IF n \in (at + 1)..(at + Len(bytes)) THEN bytes[n - at] ELSE data[n]]
  BY <1>1 DEF Overwritten
<1>3. \A n \in 1..Len(data) :
         (IF n \in (at + 1)..(at + Len(bytes)) THEN bytes[n - at] ELSE data[n]) \in S
  <2> TAKE n \in 1..Len(data)
  <2>1. n \in (at + 1)..(at + Len(bytes)) => n - at \in 1..Len(bytes)
    BY <1>1
  <2>2. \A k \in 1..Len(bytes) : bytes[k] \in S
    OBVIOUS
  <2>3. data[n] \in S
    OBVIOUS
  <2> QED BY <2>1, <2>2, <2>3
<1>4. new \in [1..Len(data) -> S]
  BY <1>2, <1>3
<1> HIDE DEF new
<1> QED BY <1>1, <1>4, RowFacts DEF new

-----------------------------------------------------------------------------
(* What keeps views sound.                                                  *)

\* A buffer's bytes change, their number does not.
LEMMA SoundReplaced ==
    ASSUME NEW bufs, NEW vs, Sound(bufs, vs), NEW b, NEW new,
           b \in DOMAIN bufs => new \in Seq(Byte) /\ Len(new) = Len(bufs[b])
    PROVE  Sound([bufs EXCEPT ![b] = new], vs)
<1> DEFINE after == [bufs EXCEPT ![b] = new]
<1>1. bufs \in Seq(Seq(Byte)) /\ vs \in [Slots -> ViewSet] /\ Len(bufs) \in Nat
      /\ DOMAIN bufs = 1..Len(bufs)
  BY DEF Sound
<1>2. /\ DOMAIN after = 1..Len(bufs)
      /\ \A c \in 1..Len(bufs) : after[c] \in Seq(Byte) /\ Len(after[c]) = Len(bufs[c])
  BY <1>1
<1>3. after \in Seq(Seq(Byte))
  <2>1. after \in [1..Len(bufs) -> Seq(Byte)]
    BY <1>1, <1>2
  <2> HIDE DEF after
  <2> QED BY <1>1, <2>1, RowFacts
<1> HIDE DEF after
<1>4. ASSUME NEW s \in Slots, vs[s].kind # "none" PROVE InBounds(after, vs[s])
  BY <1>1, <1>2, <1>4 DEF Sound, InBounds
<1> QED BY <1>1, <1>3, <1>4 DEF Sound, after

\* A buffer is added.
LEMMA SoundAppended ==
    ASSUME NEW bufs, NEW vs, Sound(bufs, vs), NEW new \in Seq(Byte)
    PROVE  /\ Sound(Append(bufs, new), vs)
           /\ Len(bufs) + 1 \in DOMAIN Append(bufs, new)
           /\ Append(bufs, new)[Len(bufs) + 1] = new
           /\ \A b \in DOMAIN bufs : b \in Nat /\ b # Len(bufs) + 1
                                     /\ b \in DOMAIN Append(bufs, new)
                                     /\ Append(bufs, new)[b] = bufs[b]
<1> DEFINE after == Append(bufs, new)
<1>1. bufs \in Seq(Seq(Byte)) /\ vs \in [Slots -> ViewSet] /\ Len(bufs) \in Nat
      /\ DOMAIN bufs = 1..Len(bufs)
  BY DEF Sound
<1>2. /\ after \in Seq(Seq(Byte)) /\ Len(after) = Len(bufs) + 1 /\ after[Len(bufs) + 1] = new
      /\ \A b \in 1..Len(bufs) : after[b] = bufs[b]
  BY <1>1, AppendFacts
<1> HIDE DEF after
<1>3. DOMAIN after = 1..(Len(bufs) + 1)
  BY <1>1, <1>2
<1>4. ASSUME NEW s \in Slots, vs[s].kind # "none" PROVE InBounds(after, vs[s])
  <2>1. vs[s].buffer \in 1..Len(bufs) /\ InBounds(bufs, vs[s])
    BY <1>1, <1>4 DEF Sound, InBounds
  <2>2. vs[s].buffer \in DOMAIN after /\ after[vs[s].buffer] = bufs[vs[s].buffer]
    BY <1>1, <1>2, <1>3, <2>1
  <2> QED BY <2>1, <2>2 DEF InBounds
<1> QED BY <1>1, <1>2, <1>3, <1>4 DEF Sound, after

\* A slot gets another view.
LEMMA SoundView ==
    ASSUME NEW bufs, NEW vs, Sound(bufs, vs), NEW s, NEW view \in ViewSet,
           view.kind # "none" => InBounds(bufs, view)
    PROVE  Sound(bufs, [vs EXCEPT ![s] = view])
BY DEF Sound
-----------------------------------------------------------------------------
(* One lemma per way the operations change buffers and views.               *)

LEMMA SoundTyped ==
    ASSUME Sound(buffers, views)
    PROVE  /\ buffers \in Seq(Seq(Byte)) /\ Len(buffers) \in Nat
           /\ DOMAIN buffers = 1..Len(buffers)
           /\ \A b \in DOMAIN buffers : buffers[b] \in Seq(Byte) /\ Len(buffers[b]) \in Nat
           /\ \A s \in Slots : views[s] \in ViewSet
           /\ \A s \in Slots : IsTyped(s) => /\ InBounds(buffers, views[s])
                                             /\ views[s].kind \in Kinds
BY KindFacts DEF Sound, IsTyped

LEMMA StoresSound ==
    ASSUME Sound(buffers, views), NEW view \in ViewSet, NEW first \in Nat,
           NEW values \in Seq(Value), Stores(view, first, values)
    PROVE  Sound(buffers', views')
<1> DEFINE new == WrittenAll(view.kind, buffers[view.buffer], Start(view, first), values)
<1>1. buffers' = [buffers EXCEPT ![view.buffer] = new] /\ views' = views
  BY DEF Stores
<1>2. ASSUME view.buffer \in DOMAIN buffers
      PROVE  new \in Seq(Byte) /\ Len(new) = Len(buffers[view.buffer])
  <2>1. buffers[view.buffer] \in Seq(Byte) /\ Start(view, first) \in Nat
    BY <1>2, SoundTyped, ViewTyped, StartFacts
  <2> QED BY <2>1, WrittenRow
<1> HIDE DEF new
<1> QED BY <1>1, <1>2, SoundReplaced

LEMMA AllocatesSound ==
    ASSUME Sound(buffers, views), NEW s \in Slots, NEW kind \in Kinds,
           NEW values \in Seq(Value), Allocates(s, kind, values)
    PROVE  Sound(buffers', views')
<1> DEFINE w == Width(kind)
           size == Len(values) * w
           blank == [n \in 1..size |-> 0]
           new == WrittenAll(kind, blank, 0, values)
           view == View(kind, Len(buffers) + 1, 0, Len(values))
<1>1. buffers' = Append(buffers, new) /\ views' = [views EXCEPT ![s] = view]
  BY DEF Allocates
<1>2. w \in {1, 2, 4} /\ Len(values) \in Nat /\ size \in Nat
  BY WidthFacts
<1>3. blank \in Seq(Byte) /\ Len(blank) = size
  <2>1. 0 \in Byte
    BY WeightFacts DEF Byte
  <2>2. blank \in [1..size -> Byte]
    BY <2>1
  <2> HIDE DEF blank, size
  <2> QED BY <1>2, <2>2, RowFacts
<1>4. new \in Seq(Byte) /\ Len(new) = size
  <2> HIDE DEF blank, size
  <2> QED BY <1>3, WrittenRow
<1>5. view \in ViewSet /\ Len(buffers) \in Nat
  BY <1>2, SoundTyped DEF View, ViewSet
<1>6. InBounds(Append(buffers, new), view)
  <2>1. view.buffer = Len(buffers) + 1 /\ view.offset = 0 /\ view.kind = kind
        /\ view.length = Len(values)
    BY DEF View
  <2>2. Start(view, view.length) = size
    BY <1>2, <2>1 DEF Start
  <2>3. (0 % w) = 0
    BY <1>2
  <2>4. Len(buffers) + 1 \in DOMAIN Append(buffers, new)
        /\ Append(buffers, new)[Len(buffers) + 1] = new
    BY <1>4, SoundAppended
  <2> HIDE DEF view, new, size
  <2> QED BY <1>2, <1>4, <2>1, <2>2, <2>3, <2>4 DEF InBounds, w
<1>7. Sound(Append(buffers, new), views)
  BY <1>4, SoundAppended
<1> HIDE DEF view, new
<1> QED BY <1>1, <1>5, <1>6, <1>7, SoundView

LEMMA ConstructViewSound ==
    ASSUME Sound(buffers, views), NEW s \in Slots, NEW kind \in Kinds, NEW b \in DOMAIN buffers,
           NEW offset \in Int \cup {Absent, NaN}, NEW length \in Int \cup {Absent, NaN},
           ConstructView(s, kind, b, offset, length)
    PROVE  Sound(buffers', views')
<1> DEFINE at == OrZero(offset)
           n == CASE length = Absent -> Room(kind, b, at) [] length = NaN -> 0 [] OTHER -> length
           w == Width(kind)
           view == View(kind, b, at, n)
<1>1. /\ 0 <= at /\ at <= Len(buffers[b]) /\ (at % w) = 0 /\ 0 <= n /\ n <= Room(kind, b, at)
      /\ buffers' = buffers /\ views' = [views EXCEPT ![s] = view]
  BY DEF ConstructView
<1>2. at \in Nat /\ Len(buffers[b]) \in Nat /\ w \in {1, 2, 4} /\ b \in Nat
  BY <1>1, OrZeroFacts, SoundTyped, WidthFacts
<1>3. Room(kind, b, at) = ((Len(buffers[b]) - at) \div w) /\ Room(kind, b, at) \in Nat
  BY <1>1, <1>2 DEF Room
<1>4. n \in Nat
  BY <1>1, <1>3, ViewAssumption
<1>5. view \in ViewSet /\ view.kind = kind /\ view.buffer = b /\ view.offset = at /\ view.length = n
  BY <1>2, <1>4 DEF View, ViewSet
<1> HIDE DEF at, n, view
<1>6. at + n * w <= Len(buffers[b])
  <2> DEFINE rest == Len(buffers[b]) - at
  <2>1. rest \in Nat /\ at + rest = Len(buffers[b])
    BY <1>1, <1>2
  <2> HIDE DEF rest, w
  <2>2. (rest \div w) * w <= rest
    BY <1>2, <2>1
  <2>3. n <= (rest \div w)
    BY <1>1, <1>3 DEF rest, w
  <2>4. n * w <= rest
    BY <1>2, <1>4, <2>1, <2>2, <2>3
  <2> QED BY <1>2, <1>4, <2>1, <2>4
<1>7. InBounds(buffers, view)
  BY <1>1, <1>5, <1>6 DEF InBounds, Start, w
<1> QED BY <1>1, <1>5, <1>7, SoundView

LEMMA ConstructDataViewSound ==
    ASSUME Sound(buffers, views), NEW s \in Slots, NEW b \in DOMAIN buffers,
           NEW offset \in Int \cup {Absent, NaN}, NEW length \in Int \cup {Absent, NaN},
           ConstructDataView(s, b, offset, length)
    PROVE  Sound(buffers', views')
<1> DEFINE at == OrZero(offset)
           n == IF length = Absent THEN Len(buffers[b]) - at ELSE OrZero(length)
           view == View("DataView", b, at, n)
<1>1. /\ 0 <= at /\ 0 <= n /\ at + n <= Len(buffers[b])
      /\ buffers' = buffers /\ views' = [views EXCEPT ![s] = view]
  BY DEF ConstructDataView
<1>2. at \in Nat /\ Len(buffers[b]) \in Nat /\ b \in Nat /\ OrZero(length) \in Int
  BY <1>1, OrZeroFacts, SoundTyped
<1>3. n \in Nat
  BY <1>1, <1>2
<1>4. Width("DataView") = 1
  BY DEF Width
<1>5. /\ view \in ViewSet /\ view.kind = "DataView" /\ view.buffer = b
      /\ view.offset = at /\ view.length = n
  BY <1>2, <1>3 DEF View, ViewSet
<1> HIDE DEF at, n, view
<1>6. (at % 1) = 0 /\ at + n * 1 <= Len(buffers[b])
  BY <1>1, <1>2, <1>3
<1>7. InBounds(buffers, view)
  BY <1>1, <1>4, <1>5, <1>6 DEF InBounds, Start
<1> QED BY <1>1, <1>5, <1>7, SoundView

LEMMA SubarraySound ==
    ASSUME Sound(buffers, views), NEW s \in Slots, NEW t \in Slots,
           NEW begin \in Int \cup {Absent, NaN}, NEW end \in Int \cup {Absent, NaN},
           Subarray(s, t, begin, end)
    PROVE  /\ Sound(buffers', views')
           /\ views'[s] \in ViewSet /\ InBounds(buffers, views'[s])
           /\ views'[s].kind = views[t].kind /\ views'[s].buffer = views[t].buffer
           /\ LET first == RelativeIndex(begin, 0, views[t].length)
              IN  /\ views'[s].offset = Start(views[t], first)
                  /\ first \in Nat
                  /\ views'[s].length > 0 => first + views'[s].length <= views[t].length
<1> DEFINE old == views[t]
           first == RelativeIndex(begin, 0, old.length)
           last == RelativeIndex(end, old.length, old.length)
           n == Span(first, last)
           w == Width(old.kind)
           view == View(old.kind, old.buffer, Start(old, first), n)
<1>1. /\ IsTyped(t) /\ buffers' = buffers /\ views' = [views EXCEPT ![s] = view]
  BY DEF Subarray
<1>2. /\ old \in ViewSet /\ old.kind \in Kinds /\ InBounds(buffers, old)
      /\ old.length \in Nat /\ old.offset \in Nat /\ old.buffer \in Nat
  BY <1>1, SoundTyped, ViewTyped
<1>3. first \in 0..old.length /\ last \in 0..old.length
  <2>1. 0 \in 0..old.length /\ old.length \in 0..old.length
    BY <1>2
  <2> QED BY <1>2, <2>1, RelativeFacts
<1>4. n \in Nat /\ (n > 0 => first + n <= old.length)
  BY <1>2, <1>3 DEF Span
<1> HIDE DEF first, last, n
<1>5. /\ Start(old, first) \in Nat /\ (Start(old, first) % w) = 0
      /\ Start(old, first) <= Start(old, old.length)
      /\ Start(old, old.length) <= Len(buffers[old.buffer])
      /\ Start(old, first + n) = Start(old, first) + n * w
      /\ Start(old, first + n) <= Start(old, old.length) \/ n = 0
  <2>1. first \in Nat /\ first + n \in Nat /\ first <= old.length /\ w \in {1, 2, 4}
    BY <1>2, <1>3, <1>4, WidthFacts
  <2>2. (old.offset % w) = 0 /\ Start(old, old.length) <= Len(buffers[old.buffer])
    BY <1>2 DEF InBounds
  <2>3. Start(old, first + n) = Start(old, first) + n * w
    BY <1>2, <1>4, <2>1 DEF Start
  <2>4. first + n <= old.length => Start(old, first + n) <= Start(old, old.length)
    BY <1>2, <2>1, StartFacts
  <2>5. /\ Start(old, first) \in Nat /\ (Start(old, first) % w) = (old.offset % w)
        /\ Start(old, first) <= Start(old, old.length)
    BY <1>2, <2>1, StartFacts
  <2> QED BY <1>4, <2>2, <2>3, <2>4, <2>5
<1>6. /\ view \in ViewSet /\ view.kind = old.kind /\ view.buffer = old.buffer
      /\ view.offset = Start(old, first) /\ view.length = n
  BY <1>2, <1>4, <1>5 DEF View, ViewSet
<1> HIDE DEF view
<1>7. InBounds(buffers, view)
  <2>1. Start(view, n) = Start(old, first) + n * w
    BY <1>6 DEF Start
  <2>2. Len(buffers[old.buffer]) \in Nat /\ Start(old, old.length) \in Nat
    BY <1>2, SoundTyped, StartFacts DEF InBounds
  <2>3. n = 0 => n * w = 0
    BY WidthFacts
  <2>4. Start(view, n) <= Len(buffers[old.buffer])
    <3>1. Start(old, first) \in Nat /\ n * w \in Nat
      BY <1>4, <1>5, WidthFacts
    <3> QED BY <1>5, <2>1, <2>2, <2>3, <3>1
  <2> QED BY <1>2, <1>5, <1>6, <2>4 DEF InBounds
<1>8. views'[s] = view
  BY <1>1 DEF Sound
<1>9. Sound(buffers', views')
  BY <1>1, <1>6, <1>7, SoundView
<1> QED BY <1>3, <1>4, <1>6, <1>7, <1>8, <1>9, <1>2 DEF first
\* A stretch of a sequence, which may be empty.
LEMMA StretchFacts ==
    ASSUME NEW S, NEW s \in Seq(S), NEW m \in Nat, NEW n \in 0..Len(s)
    PROVE  /\ SubSeq(s, m + 1, n) \in Seq(S)
           /\ Len(SubSeq(s, m + 1, n)) = Span(m, n)
           /\ \A i \in 1..Span(m, n) :
                 m + i \in 1..Len(s) /\ SubSeq(s, m + 1, n)[i] = s[m + i]
<1>1. Len(s) \in Nat /\ n \in Nat
  OBVIOUS
<1>2. CASE m <= n
  <2>1. m + 1 \in 1..(Len(s) + 1) /\ n \in (m + 1 - 1)..Len(s)
    BY <1>1, <1>2
  <2>2. /\ SubSeq(s, m + 1, n) \in Seq(S)
        /\ Len(SubSeq(s, m + 1, n)) = IF m + 1 <= n THEN n - (m + 1) + 1 ELSE 0
        /\ \A i \in 1..(n - (m + 1) + 1) : SubSeq(s, m + 1, n)[i] = s[m + 1 + i - 1]
    BY <2>1, SubSeqProperties
  <2>3. Span(m, n) = n - m /\ n - (m + 1) + 1 = n - m /\ \A i \in 1..(n - m) : m + 1 + i - 1 = m + i
    BY <1>1, <1>2 DEF Span
  <2>4. \A i \in 1..(n - m) : m + i \in 1..Len(s)
    BY <1>1, <1>2
  <2> QED BY <1>1, <1>2, <2>2, <2>3, <2>4
<1>3. CASE n < m
  <2>1. SubSeq(s, m + 1, n) = <<>>
    <3>1. m + 1 \in Int /\ n \in Int /\ n < m + 1
      BY <1>1, <1>3
    <3> QED BY <3>1, SubSeqEmpty
  <2>2. Span(m, n) = 0
    BY <1>1, <1>3 DEF Span
  <2> QED BY <2>1, <2>2
<1> QED BY <1>1, <1>2, <1>3

LEMMA ReversedFacts ==
    ASSUME NEW S, NEW s \in Seq(S)
    PROVE  /\ Reversed(s) \in Seq(S) /\ Len(Reversed(s)) = Len(s)
           /\ \A n \in 1..Len(s) : Reversed(s)[n] = s[Len(s) + 1 - n]
<1>1. Len(s) \in Nat /\ DOMAIN s = 1..Len(s)
  OBVIOUS
<1>2. Reversed(s) = [n \in 1..Len(s) |-> s[Len(s) + 1 - n]]
  BY <1>1 DEF Reversed
<1>3. \A n \in 1..Len(s) : Len(s) + 1 - n \in 1..Len(s) /\ s[Len(s) + 1 - n] \in S
  BY <1>1
<1>4. Reversed(s) \in [1..Len(s) -> S]
  BY <1>2, <1>3
<1> QED BY <1>1, <1>2, <1>4, RowFacts

\* What copyWithin moves: count elements, from one place to another.
LEMMA CopyFacts ==
    ASSUME NEW length \in Nat, NEW target \in Int \cup {Absent, NaN},
           NEW start \in Int \cup {Absent, NaN}, NEW end \in Int \cup {Absent, NaN}
    PROVE  LET to == RelativeIndex(target, 0, length)
               from == RelativeIndex(start, 0, length)
               span == Span(from, RelativeIndex(end, length, length))
               count == IF span > length - to THEN length - to ELSE span
           IN  /\ to \in Nat /\ from \in Nat /\ count \in Nat /\ span \in Nat
               /\ to + count <= length /\ from + count \in 0..length
<1>1. /\ RelativeIndex(target, 0, length) \in 0..length
      /\ RelativeIndex(start, 0, length) \in 0..length
      /\ RelativeIndex(end, length, length) \in 0..length
  <2>1. 0 \in 0..length /\ length \in 0..length
    OBVIOUS
  <2> QED BY <2>1, RelativeFacts
<1> QED BY <1>1 DEF Span

LEMMA FillSound ==
    ASSUME Sound(buffers, views), NEW s \in Slots, NEW v \in Value,
           NEW start \in Int \cup {Absent, NaN}, NEW end \in Int \cup {Absent, NaN},
           Fill(s, v, start, end)
    PROVE  Sound(buffers', views')
<1> DEFINE length == views[s].length
           first == RelativeIndex(start, 0, length)
           n == Span(first, RelativeIndex(end, length, length))
           values == [m \in 1..n |-> v]
<1>1. views[s] \in ViewSet /\ length \in Nat
  BY SoundTyped, ViewTyped
<1>2. first \in 0..length /\ RelativeIndex(end, length, length) \in 0..length
  <2>1. 0 \in 0..length /\ length \in 0..length
    BY <1>1
  <2> QED BY <1>1, <2>1, RelativeFacts
<1>3. n \in Nat /\ first \in Nat
  BY <1>1, <1>2 DEF Span
<1>4. Stores(views[s], first, values)
  BY DEF Fill
<1> HIDE DEF n, first
<1>5. values \in [1..n -> Value]
  OBVIOUS
<1> HIDE DEF values
<1>6. values \in Seq(Value)
  BY <1>3, <1>5, RowFacts
<1> QED BY <1>1, <1>3, <1>4, <1>6, StoresSound

LEMMA CopyWithinSound ==
    ASSUME Sound(buffers, views), NEW s \in Slots, NEW target \in Int \cup {Absent, NaN},
           NEW start \in Int \cup {Absent, NaN}, NEW end \in Int \cup {Absent, NaN},
           CopyWithin(s, target, start, end)
    PROVE  Sound(buffers', views')
<1> DEFINE length == views[s].length
           to == RelativeIndex(target, 0, length)
           from == RelativeIndex(start, 0, length)
           span == Span(from, RelativeIndex(end, length, length))
           count == IF span > length - to THEN length - to ELSE span
           values == SubSeq(Elements(buffers, views[s]), from + 1, from + count)
<1>1. IsTyped(s) /\ Stores(views[s], to, values)
  BY DEF CopyWithin
<1>2. views[s] \in ViewSet /\ length \in Nat /\ InBounds(buffers, views[s]) /\ buffers \in Seq(Seq(Byte))
  BY <1>1, SoundTyped, ViewTyped
<1>3. to \in Nat /\ from \in Nat /\ from + count \in 0..length
  BY <1>2, CopyFacts
<1> HIDE DEF to, from, count
<1>4. Elements(buffers, views[s]) \in Seq(Value) /\ Len(Elements(buffers, views[s])) = length
  BY <1>2, ElementsFacts
<1>5. values \in Seq(Value)
  BY <1>2, <1>3, <1>4, StretchFacts
<1> HIDE DEF values
<1> QED BY <1>1, <1>2, <1>3, <1>5, StoresSound

LEMMA DataViewSetSound ==
    ASSUME Sound(buffers, views), NEW s \in Slots, NEW at \in Int, NEW kind \in Kinds,
           NEW v \in Value, NEW little \in BOOLEAN, DataViewSet(s, at, kind, v, little)
    PROVE  Sound(buffers', views')
<1> DEFINE view == views[s]
           bytes == Bytes(kind, Wrapped(kind, v))
           row == IF little THEN bytes ELSE Reversed(bytes)
           new == Overwritten(buffers[view.buffer], view.offset + at, row)
<1>1. /\ view.kind = "DataView" /\ 0 <= at
      /\ buffers' = [buffers EXCEPT ![view.buffer] = new] /\ views' = views
  BY DEF DataViewSet
<1>2. view \in ViewSet /\ view.offset + at \in Nat
  BY <1>1, SoundTyped, ViewTyped
<1>3. bytes \in Seq(Byte)
  <2>1. Wrapped(kind, v) \in 0..(Modulus(kind) - 1)
    BY StoredFits DEF Value
  <2>2. Wrapped(kind, v) \in Int
    BY <2>1, ModulusFacts
  <2> QED BY <2>2, BytesFacts
<1> HIDE DEF bytes
<1>4. row \in Seq(Byte)
  BY <1>3, ReversedFacts
<1> HIDE DEF row
<1>5. ASSUME view.buffer \in DOMAIN buffers
      PROVE  new \in Seq(Byte) /\ Len(new) = Len(buffers[view.buffer])
  <2>1. buffers[view.buffer] \in Seq(Byte)
    BY <1>5, SoundTyped
  <2> QED BY <1>2, <1>4, <2>1, OverwrittenFacts
<1> HIDE DEF new
<1> QED BY <1>1, <1>5, SoundReplaced

LEMMA BuffersGrowSound ==
    ASSUME Sound(buffers, views)
    PROVE  /\ \A n \in Int : ConstructBuffer(n) => Sound(buffers', views')
           /\ \A b \in DOMAIN buffers, f, e \in Int \cup {Absent, NaN} :
                 SliceBuffer(b, f, e) => Sound(buffers', views')
<1>1. ASSUME NEW n \in Int, ConstructBuffer(n) PROVE Sound(buffers', views')
  <2>1. n \in Nat /\ 0 \in Byte
    BY <1>1, WeightFacts DEF ConstructBuffer, Byte
  <2> DEFINE new == [m \in 1..n |-> 0]
  <2>2. buffers' = Append(buffers, new) /\ views' = views
    BY <1>1 DEF ConstructBuffer
  <2>3. new \in [1..n -> Byte]
    BY <2>1
  <2> HIDE DEF new
  <2>4. new \in Seq(Byte)
    BY <2>1, <2>3, RowFacts
  <2> QED BY <2>2, <2>4, SoundAppended
<1>2. ASSUME NEW b \in DOMAIN buffers, NEW f \in Int \cup {Absent, NaN},
             NEW e \in Int \cup {Absent, NaN}, SliceBuffer(b, f, e)
      PROVE  Sound(buffers', views')
  <2> DEFINE length == Len(buffers[b])
             first == RelativeIndex(f, 0, length)
             last == RelativeIndex(e, length, length)
             new == SubSeq(buffers[b], first + 1, last)
  <2>1. buffers' = Append(buffers, new) /\ views' = views
    BY <1>2 DEF SliceBuffer
  <2>2. buffers[b] \in Seq(Byte) /\ length \in Nat
    BY SoundTyped
  <2>3. first \in Nat /\ last \in 0..length
    <3>1. 0 \in 0..length /\ length \in 0..length
      BY <2>2
    <3>2. first \in 0..length /\ last \in 0..length
      BY <2>2, <3>1, RelativeFacts
    <3> QED BY <3>2
  <2> HIDE DEF first, last
  <2>4. new \in Seq(Byte)
    BY <2>2, <2>3, StretchFacts
  <2> HIDE DEF new
  <2> QED BY <2>1, <2>4, SoundAppended
<1> QED BY <1>1, <1>2

LEMMA CopiesSound ==
    ASSUME Sound(buffers, views), NEW s \in Slots, NEW t \in Slots
    PROVE  /\ \A kind \in Kinds, n \in Int : ConstructLength(s, kind, n) => Sound(buffers', views')
           /\ \A kind \in Kinds : ConstructCopy(s, kind, t) => Sound(buffers', views')
           /\ \A b, e \in Int \cup {Absent, NaN} : Slice(s, t, b, e) => Sound(buffers', views')
<1>1. ASSUME NEW kind \in Kinds, NEW n \in Int, ConstructLength(s, kind, n)
      PROVE  Sound(buffers', views')
  <2> DEFINE values == [m \in 1..n |-> 0]
  <2>1. n \in Nat /\ Allocates(s, kind, values)
    BY <1>1 DEF ConstructLength
  <2>2. values \in [1..n -> Value]
    BY DEF Value
  <2> HIDE DEF values
  <2>3. values \in Seq(Value)
    BY <2>1, <2>2, RowFacts
  <2> QED BY <2>1, <2>3, AllocatesSound
<1>2. ASSUME IsTyped(t)
      PROVE  /\ Elements(buffers, views[t]) \in Seq(Value) /\ views[t].kind \in Kinds
             /\ Len(Elements(buffers, views[t])) = views[t].length /\ views[t].length \in Nat
  <2>1. /\ views[t] \in ViewSet /\ InBounds(buffers, views[t]) /\ views[t].kind \in Kinds
        /\ buffers \in Seq(Seq(Byte)) /\ views[t].length \in Nat
    BY <1>2, SoundTyped, ViewTyped
  <2> QED BY <2>1, ElementsFacts
<1>3. ASSUME NEW kind \in Kinds, ConstructCopy(s, kind, t)
      PROVE  Sound(buffers', views')
  BY <1>2, <1>3, AllocatesSound DEF ConstructCopy
<1>4. ASSUME NEW b \in Int \cup {Absent, NaN}, NEW e \in Int \cup {Absent, NaN}, Slice(s, t, b, e)
      PROVE  Sound(buffers', views')
  <2> DEFINE length == views[t].length
             first == RelativeIndex(b, 0, length)
             last == RelativeIndex(e, length, length)
             values == SubSeq(Elements(buffers, views[t]), first + 1, last)
  <2>1. IsTyped(t) /\ Allocates(s, views[t].kind, values)
    BY <1>4 DEF Slice
  <2>2. length \in Nat
    BY <1>2, <2>1
  <2>3. first \in Nat /\ last \in 0..length
    <3>1. 0 \in 0..length /\ length \in 0..length
      BY <2>2
    <3>2. first \in 0..length /\ last \in 0..length
      BY <2>2, <3>1, RelativeFacts
    <3> QED BY <3>2
  <2> HIDE DEF first, last
  <2>4. values \in Seq(Value)
    BY <1>2, <2>1, <2>3, StretchFacts
  <2> HIDE DEF values
  <2> QED BY <1>2, <2>1, <2>4, AllocatesSound
<1> QED BY <1>1, <1>3, <1>4

LEMMA MovesSound ==
    ASSUME Sound(buffers, views), NEW s \in Slots
    PROVE  /\ \A t \in Slots, o \in Int \cup {Absent, NaN} :
                 SetFrom(s, t, o) => Sound(buffers', views')
           /\ ReverseView(s) => Sound(buffers', views')
           /\ \A i \in Int, v \in Value : AssignElement(s, i, v) => Sound(buffers', views')
<1>1. ASSUME NEW t \in Slots, IsTyped(t)
      PROVE  Elements(buffers, views[t]) \in Seq(Value)
  <2>1. views[t] \in ViewSet /\ InBounds(buffers, views[t]) /\ buffers \in Seq(Seq(Byte))
    BY <1>1, SoundTyped
  <2> QED BY <2>1, ElementsFacts
<1>2. views[s] \in ViewSet
  BY SoundTyped
<1>3. ASSUME NEW t \in Slots, NEW o \in Int \cup {Absent, NaN}, SetFrom(s, t, o)
      PROVE  Sound(buffers', views')
  <2>1. OrZero(o) \in Nat /\ IsTyped(t) /\ Stores(views[s], OrZero(o), Elements(buffers, views[t]))
    BY <1>3, OrZeroFacts DEF SetFrom
  <2> QED BY <1>1, <1>2, <2>1, StoresSound
<1>4. ASSUME ReverseView(s) PROVE Sound(buffers', views')
  <2>1. IsTyped(s) /\ Stores(views[s], 0, Reversed(Elements(buffers, views[s])))
    BY <1>4 DEF ReverseView
  <2>2. Reversed(Elements(buffers, views[s])) \in Seq(Value)
    BY <1>1, <2>1, ReversedFacts
  <2> QED BY <1>2, <2>1, <2>2, StoresSound
<1>5. ASSUME NEW i \in Int, NEW v \in Value, AssignElement(s, i, v) PROVE Sound(buffers', views')
  <2>1. i \in Nat /\ Stores(views[s], i, <<v>>) /\ <<v>> \in Seq(Value)
    BY <1>5 DEF AssignElement
  <2> QED BY <1>2, <2>1, StoresSound
<1> QED BY <1>3, <1>4, <1>5
-----------------------------------------------------------------------------
LEMMA InputFacts ==
    /\ Args \subseteq Int /\ Optional \subseteq Int \cup {Absent, NaN}
    /\ (Optional \cup {NaN}) \subseteq Int \cup {Absent, NaN}
    /\ Stored \subseteq Value
BY ViewAssumption DEF Optional, Stored, Value

\* Every operation keeps the views sound.
LEMMA ViewStepSound ==
    ASSUME Sound(buffers, views), ViewNext
    PROVE  Sound(buffers', views')
<1>1. CASE \E n \in Args : ConstructBuffer(n)
  BY <1>1, InputFacts, BuffersGrowSound
<1>2. CASE \E s \in Slots, b \in DOMAIN buffers, o, n \in Optional \cup {NaN} :
              \/ \E kind \in Kinds : ConstructView(s, kind, b, o, n)
              \/ ConstructDataView(s, b, o, n)
  <2>1. PICK s \in Slots, b \in DOMAIN buffers, o \in Optional \cup {NaN}, n \in Optional \cup {NaN} :
              \/ \E kind \in Kinds : ConstructView(s, kind, b, o, n)
              \/ ConstructDataView(s, b, o, n)
    BY <1>2
  <2>2. o \in Int \cup {Absent, NaN} /\ n \in Int \cup {Absent, NaN}
    BY InputFacts
  <2>3. CASE \E kind \in Kinds : ConstructView(s, kind, b, o, n)
    BY <2>2, <2>3, ConstructViewSound
  <2>4. CASE ConstructDataView(s, b, o, n)
    BY <2>2, <2>4, ConstructDataViewSound
  <2> QED BY <2>1, <2>3, <2>4
<1>3. CASE \E s \in Slots, kind \in Kinds :
              \/ \E n \in Args : ConstructLength(s, kind, n)
              \/ \E t \in Slots : ConstructCopy(s, kind, t)
  BY <1>3, InputFacts, CopiesSound
<1>4. CASE \E s, t \in Slots :
              \/ \E o \in Optional : SetFrom(s, t, o)
              \/ \E b, e \in Optional : Subarray(s, t, b, e) \/ Slice(s, t, b, e)
  <2>1. PICK s \in Slots, t \in Slots :
              \/ \E o \in Optional : SetFrom(s, t, o)
              \/ \E b, e \in Optional : Subarray(s, t, b, e) \/ Slice(s, t, b, e)
    BY <1>4
  <2>2. CASE \E o \in Optional : SetFrom(s, t, o)
    BY <2>2, InputFacts, MovesSound
  <2>3. CASE \E b, e \in Optional : Subarray(s, t, b, e)
    BY <2>3, InputFacts, SubarraySound
  <2>4. CASE \E b, e \in Optional : Slice(s, t, b, e)
    BY <2>4, InputFacts, CopiesSound
  <2> QED BY <2>1, <2>2, <2>3, <2>4
<1>5. CASE \E s \in Slots :
              \/ \E v \in Stored, b, e \in Optional : Fill(s, v, b, e)
              \/ \E to, b, e \in Optional : CopyWithin(s, to, b, e)
              \/ ReverseView(s)
              \/ \E i \in Args, v \in Stored : AssignElement(s, i, v)
              \/ \E at \in Args, kind \in Kinds, v \in Stored, little \in BOOLEAN :
                    DataViewSet(s, at, kind, v, little)
  <2>1. PICK s \in Slots :
              \/ \E v \in Stored, b, e \in Optional : Fill(s, v, b, e)
              \/ \E to, b, e \in Optional : CopyWithin(s, to, b, e)
              \/ ReverseView(s)
              \/ \E i \in Args, v \in Stored : AssignElement(s, i, v)
              \/ \E at \in Args, kind \in Kinds, v \in Stored, little \in BOOLEAN :
                    DataViewSet(s, at, kind, v, little)
    BY <1>5
  <2>2. CASE \E v \in Stored, b, e \in Optional : Fill(s, v, b, e)
    BY <2>2, InputFacts, FillSound
  <2>3. CASE \E to, b, e \in Optional : CopyWithin(s, to, b, e)
    BY <2>3, InputFacts, CopyWithinSound
  <2>4. CASE ReverseView(s)
    BY <2>4, MovesSound
  <2>5. CASE \E i \in Args, v \in Stored : AssignElement(s, i, v)
    BY <2>5, InputFacts, MovesSound
  <2>6. CASE \E at \in Args, kind \in Kinds, v \in Stored, little \in BOOLEAN :
                DataViewSet(s, at, kind, v, little)
    BY <2>6, InputFacts, DataViewSetSound
  <2> QED BY <2>1, <2>2, <2>3, <2>4, <2>5, <2>6
<1>6. CASE \E b \in DOMAIN buffers, f, e \in Optional : SliceBuffer(b, f, e)
  BY <1>6, InputFacts, BuffersGrowSound
<1> QED BY <1>1, <1>2, <1>3, <1>4, <1>5, <1>6 DEF ViewNext

LEMMA SoundMeans ==
    ASSUME Sound(buffers, views)
    PROVE  ViewTypeOK /\ ViewsInBounds
<1>1. ViewTypeOK
  <2>1. ASSUME NEW b \in DOMAIN buffers, NEW n \in DOMAIN buffers[b]
        PROVE  buffers[b][n] \in 0..(ByteValues - 1)
    <3>1. buffers[b] \in Seq(Byte)
      BY SoundTyped
    <3>2. buffers[b][n] \in Byte
      BY <3>1
    <3> QED BY <3>2 DEF Byte
  <2>2. ASSUME NEW s \in Slots PROVE views[s].kind \in Kinds \cup {"DataView", "none"}
    BY SoundTyped, ViewTyped
  <2> QED BY <2>1, <2>2 DEF ViewTypeOK
<1>2. ViewsInBounds
  BY DEF ViewsInBounds, Sound, InBounds
<1> QED BY <1>1, <1>2

-----------------------------------------------------------------------------
(* Of the typed arrays on their own: every view lies within its buffer and  *)
(* is aligned, whatever is constructed, sliced and stored (object.rs:3113,  *)
(* typedarray.rs:716).                                                      *)
THEOREM ViewsStayInBounds == ViewSpec => [](ViewTypeOK /\ ViewsInBounds)
<1>1. ViewInit => Sound(buffers, views)
  <2> SUFFICES ASSUME ViewInit PROVE Sound(buffers, views)
    OBVIOUS
  <2>1. buffers = <<>> /\ buffers \in Seq(Seq(Byte))
    BY DEF ViewInit
  <2>2. NoView \in ViewSet /\ NoView.kind = "none"
    BY DEF NoView, ViewSet
  <2> QED BY <2>1, <2>2 DEF ViewInit, Sound
<1>2. Sound(buffers, views) /\ [ViewNext]_viewVars => Sound(buffers, views)'
  <2>1. ASSUME Sound(buffers, views), UNCHANGED viewVars PROVE Sound(buffers', views')
    BY <2>1 DEF viewVars
  <2> QED BY <2>1, ViewStepSound
<1>3. Sound(buffers, views) => ViewTypeOK /\ ViewsInBounds
  BY SoundMeans
<1> QED BY <1>1, <1>2, <1>3, PTL DEF ViewSpec
-----------------------------------------------------------------------------
(* What the methods move.                                                   *)

\* A row of elements that fits reads back converted, and nothing else changed.
LEMMA StoresExact ==
    ASSUME Sound(buffers, views), NEW s \in Slots, IsTyped(s), NEW first \in Nat,
           NEW values \in Seq(Value), first + Len(values) <= views[s].length,
           Stores(views[s], first, values)
    PROVE  StoresExactly(s, first, values)
<1> DEFINE view == views[s]
           kind == view.kind
           w == Width(kind)
           at == Start(view, first)
           data == buffers[view.buffer]
           new == WrittenAll(kind, data, at, values)
<1>1. /\ view \in ViewSet /\ InBounds(buffers, view) /\ view.offset \in Nat /\ view.length \in Nat
      /\ DOMAIN buffers = 1..Len(buffers)
      /\ \A b \in DOMAIN buffers : DOMAIN buffers[b] = 1..Len(buffers[b])
      /\ view.buffer \in DOMAIN buffers /\ data \in Seq(Byte) /\ Len(data) \in Nat
  <2>1. /\ view \in ViewSet /\ InBounds(buffers, view) /\ view.offset \in Nat /\ view.length \in Nat
        /\ DOMAIN buffers = 1..Len(buffers)
        /\ \A b \in DOMAIN buffers : buffers[b] \in Seq(Byte)
    BY SoundTyped, ViewTyped
  <2>2. view.buffer \in DOMAIN buffers
    BY <2>1 DEF InBounds
  <2> QED BY <2>1, <2>2
<1>2. buffers' = [buffers EXCEPT ![view.buffer] = new] /\ views' = views
  BY DEF Stores
<1>3. Sound(buffers', views') /\ buffers' \in Seq(Seq(Byte)) /\ InBounds(buffers', view)
  <2>1. Sound(buffers', views')
    BY <1>1, StoresSound
  <2>2. view.kind # "none"
    BY KindFacts DEF IsTyped
  <2> QED BY <1>2, <2>1, <2>2 DEF Sound
<1>4. w \in {1, 2, 4} /\ at \in Nat /\ Len(values) \in Nat
      /\ \A m \in Nat : Start(view, first + m) = at + m * w /\ first + m \in Nat
  <2>1. w \in {1, 2, 4} /\ at \in Nat
    BY <1>1, StartFacts, WidthFacts
  <2>2. ASSUME NEW m \in Nat PROVE Start(view, first + m) = at + m * w
    BY <1>1, StartApart
  <2> HIDE DEF at, w, view
  <2> QED BY <2>1, <2>2
<1>5. at + Len(values) * w <= Len(data)
  <2>1. Start(view, first + Len(values)) <= Start(view, view.length)
    BY <1>1, <1>4, StartFacts
  <2>2. Start(view, view.length) <= Len(data)
    BY <1>1 DEF InBounds
  <2>3. Start(view, first + Len(values)) = at + Len(values) * w
    BY <1>4
  <2>4. Start(view, view.length) \in Nat /\ Start(view, first + Len(values)) \in Nat
    BY <1>1, <1>4, StartFacts
  <2> QED BY <1>1, <2>1, <2>2, <2>3, <2>4
<1>6. buffers'[view.buffer] = new /\ \A b \in DOMAIN buffers : b # view.buffer => buffers'[b] = buffers[b]
  BY <1>1, <1>2
<1>7. /\ \A n \in 1..Len(data) : n \notin (at + 1)..(at + Len(values) * w) => new[n] = data[n]
      /\ \A m \in 1..Len(values), k \in 1..w :
            at + m * w <= Len(data) =>
               new[at + (m - 1) * w + k] = Bytes(kind, Saturated(kind, values[m]))[k]
  <2>1. at \in Nat /\ data \in Seq(Byte)
    BY <1>1, <1>4
  <2> HIDE DEF at, data, kind, view
  <2> HIDE DEF new, w
  <2>2. ASSUME NEW n \in 1..Len(data), n \notin (at + 1)..(at + Len(values) * w)
        PROVE  new[n] = data[n]
    BY <2>1, <2>2, WrittenElsewhere DEF new, w
  <2>3. ASSUME NEW m \in 1..Len(values), NEW k \in 1..w, at + m * w <= Len(data)
        PROVE  new[at + (m - 1) * w + k] = Bytes(kind, Saturated(kind, values[m]))[k]
    BY <2>1, <2>3, WrittenThere DEF new, w
  <2> QED BY <2>2, <2>3
<1> HIDE DEF new, at, data
<1>8. ASSUME NEW n \in 1..Len(values)
      PROVE  Element(buffers', view, first + n - 1) = Converted(kind, values[n])
  <2> DEFINE i == first + (n - 1)
             bytes == [k \in 1..w |-> buffers'[view.buffer][Start(view, i) + k]]
             stored == Bytes(kind, Saturated(kind, values[n]))
  <2>1. n - 1 \in Nat /\ i \in 0..(view.length - 1) /\ first + n - 1 = i
    <3>1. view.length \in Nat /\ Len(values) \in Nat /\ first + Len(values) <= view.length
      BY <1>1, <1>4
    <3> HIDE DEF view
    <3> QED BY <3>1
  <2>2. Start(view, i) = at + (n - 1) * w
    BY <1>4, <2>1
  <2>3. Element(buffers', view, i) = Decoded(kind, bytes)
    <3> HIDE DEF i
    <3> QED BY <1>1, <1>3, <2>1, ElementFacts
  <2>4. stored \in Seq(Byte) /\ Len(stored) = w
    <3>1. Saturated(kind, values[n]) \in 0..(Modulus(kind) - 1)
      <4>1. values[n] \in Int \cup {NaN}
        BY DEF Value
      <4> QED BY <4>1, StoredFits
    <3>2. Saturated(kind, values[n]) \in Int
      BY <3>1, ModulusFacts
    <3> QED BY <3>2, BytesFacts
  <2>5. ASSUME NEW k \in 1..w PROVE bytes[k] = stored[k]
    <3>1. at + n * w <= Len(data)
      <4>1. /\ w \in {1, 2, 4} /\ at \in Nat /\ Len(values) \in Nat /\ Len(data) \in Nat
            /\ n \in Nat /\ n <= Len(values)
        BY <1>1, <1>4
      <4> HIDE DEF w
      <4>2. n * w <= Len(values) * w /\ n * w \in Nat /\ Len(values) * w \in Nat
        BY <4>1
      <4> QED BY <1>5, <4>1, <4>2
    <3>2. new[at + (n - 1) * w + k] = stored[k]
      BY <1>7, <3>1
    <3> QED BY <1>6, <2>2, <3>2
  <2>6. bytes = stored
    <3>1. stored = [k \in 1..w |-> stored[k]]
      BY <2>4
    <3> HIDE DEF stored
    <3> QED BY <2>5, <3>1
  <2> QED BY <2>1, <2>3, <2>6 DEF Converted
<1>9. ASSUME NEW b \in DOMAIN buffers, NEW n \in DOMAIN buffers[b],
             b # view.buffer \/ n \notin (at + 1)..Start(view, first + Len(values))
      PROVE  buffers'[b][n] = buffers[b][n]
  <2>1. CASE b # view.buffer
    BY <1>6, <2>1
  <2>2. CASE b = view.buffer
    <3>1. n \in 1..Len(data) /\ n \notin (at + 1)..(at + Len(values) * w)
      BY <1>1, <1>4, <1>9, <2>2 DEF data
    <3> QED BY <1>6, <1>7, <2>2, <3>1 DEF data
  <2> QED BY <2>1, <2>2
<1>10. DOMAIN values = 1..Len(values)
  OBVIOUS
<1> QED BY <1>8, <1>9, <1>10 DEF StoresExactly, at

\* Methods that move elements move those that were there before the call.
LEMMA MovesExact ==
    ASSUME Sound(buffers, views)
    PROVE  ViewMovesExact
<1>1. ASSUME NEW t \in Slots, IsTyped(t)
      PROVE  /\ views[t] \in ViewSet /\ InBounds(buffers, views[t]) /\ views[t].length \in Nat
             /\ views[t].offset \in Nat
             /\ Elements(buffers, views[t]) \in Seq(Value)
             /\ Len(Elements(buffers, views[t])) = views[t].length
             /\ \A n \in 1..views[t].length :
                   /\ Elements(buffers, views[t])[n] = Element(buffers, views[t], n - 1)
                   /\ Converted(views[t].kind, Elements(buffers, views[t])[n])
                         = Element(buffers, views[t], n - 1)
  <2>1. /\ views[t] \in ViewSet /\ InBounds(buffers, views[t]) /\ buffers \in Seq(Seq(Byte))
        /\ views[t].length \in Nat /\ views[t].offset \in Nat
    BY <1>1, SoundTyped, ViewTyped
  <2>2. /\ Elements(buffers, views[t]) \in Seq(Lowest(views[t].kind)..Highest(views[t].kind))
        /\ Elements(buffers, views[t]) \in Seq(Value)
        /\ Len(Elements(buffers, views[t])) = views[t].length
        /\ \A n \in 1..views[t].length :
              Elements(buffers, views[t])[n] = Element(buffers, views[t], n - 1)
    BY <2>1, ElementsFacts
  <2>3. ASSUME NEW n \in 1..views[t].length
        PROVE  Converted(views[t].kind, Elements(buffers, views[t])[n])
                  = Element(buffers, views[t], n - 1)
    <3>1. Elements(buffers, views[t])[n] \in Lowest(views[t].kind)..Highest(views[t].kind)
      <4> DEFINE S == Lowest(views[t].kind)..Highest(views[t].kind)
                 elements == Elements(buffers, views[t])
      <4>1. elements \in Seq(S) /\ n \in 1..Len(elements)
        BY <2>2
      <4> HIDE DEF S, elements
      <4>2. elements[n] \in S
        BY <4>1
      <4> QED BY <4>2 DEF S, elements
    <3> QED BY <2>2, <3>1, ConvertedSame
  <2> QED BY <2>1, <2>2, <2>3
<1>2. ASSUME NEW s \in Slots, NEW t \in Slots, NEW o \in Optional, SetFrom(s, t, o)
      PROVE  StoresExactly(s, OrZero(o), Elements(buffers, views[t]))
  <2>1. OrZero(o) \in Nat
    <3>1. o \in Int \cup {Absent, NaN}
      BY InputFacts
    <3>2. OrZero(o) \in Int /\ OrZero(o) >= 0
      BY <1>2, <3>1, OrZeroFacts DEF SetFrom
    <3> QED BY <3>2
  <2>2. /\ IsTyped(s) /\ IsTyped(t) /\ OrZero(o) + views[t].length <= views[s].length
        /\ Stores(views[s], OrZero(o), Elements(buffers, views[t]))
    BY <1>2 DEF SetFrom
  <2>3. /\ Elements(buffers, views[t]) \in Seq(Value)
        /\ Len(Elements(buffers, views[t])) = views[t].length
    BY <1>1, <2>2
  <2> QED BY <2>1, <2>2, <2>3, StoresExact
<1>3. ASSUME NEW s \in Slots, NEW to \in Args \cap Nat, NEW b \in Args \cap Nat,
             NEW e \in Args \cap Nat, CopyWithin(s, to, b, e),
             NEW i \in b..(e - 1), i < views[s].length, to + i - b < views[s].length
      PROVE  Element(buffers', views[s], to + i - b) = Element(buffers, views[s], i)
  <2> DEFINE length == views[s].length
             elements == Elements(buffers, views[s])
             into == RelativeIndex(to, 0, length)
             from == RelativeIndex(b, 0, length)
             last == RelativeIndex(e, length, length)
             span == Span(from, last)
             count == IF span > length - into THEN length - into ELSE span
             values == SubSeq(elements, from + 1, from + count)
             m == i - b + 1
  <2>1. IsTyped(s) /\ Stores(views[s], into, values)
    BY <1>3 DEF CopyWithin
  <2>2. /\ length \in Nat /\ elements \in Seq(Value) /\ Len(elements) = length
        /\ \A n \in 1..length : /\ elements[n] = Element(buffers, views[s], n - 1)
                                /\ Converted(views[s].kind, elements[n])
                                      = Element(buffers, views[s], n - 1)
    BY <1>1, <2>1
  <2>3. /\ to \in Nat /\ b \in Nat /\ e \in Nat /\ i \in Nat /\ b <= i /\ i < e /\ b < length
        /\ i < length /\ to + i - b < length /\ m \in Nat \ {0}
    BY <1>3, <2>2
  <2>4. to \notin {Absent, NaN} /\ b \notin {Absent, NaN} /\ e \notin {Absent, NaN}
    BY <2>3, ViewAssumption
  <2>5. into = to /\ from = b /\ last = IF e > length THEN length ELSE e
    BY <2>2, <2>3, <2>4 DEF RelativeIndex
  <2>6. span = last - b /\ span >= m
    BY <2>2, <2>3, <2>5 DEF Span
  <2>7. count \in Nat /\ count >= m /\ to + count <= length /\ b + count <= length
    <3>1. count = IF last - b > length - to THEN length - to ELSE last - b
      BY <2>5, <2>6
    <3>2. last \in Nat /\ last <= length /\ last - b >= m
      BY <2>2, <2>3, <2>5, <2>6
    <3>3. length \in Nat /\ to \in Nat /\ b \in Nat /\ m \in Nat /\ to + m <= length
      BY <2>2, <2>3
    <3> HIDE DEF count, last, length, m
    <3> QED BY <3>1, <3>2, <3>3
  <2> HIDE DEF count, elements
  <2>8. values = SubSeq(elements, b + 1, b + count)
    BY <2>5
  <2>9. values \in Seq(Value) /\ Len(values) = count /\ values[m] = elements[b + m]
    <3>1. b + count \in 0..Len(elements) /\ Span(b, b + count) = count
      BY <2>2, <2>3, <2>7 DEF Span
    <3>2. m \in 1..count
      <4> HIDE DEF m
      <4> QED BY <2>3, <2>7
    <3>3. b \in Nat /\ elements \in Seq(Value)
      BY <2>2, <2>3
    <3> HIDE DEF values, m
    <3>4. /\ SubSeq(elements, b + 1, b + count) \in Seq(Value)
          /\ Len(SubSeq(elements, b + 1, b + count)) = Span(b, b + count)
          /\ \A n \in 1..Span(b, b + count) :
                SubSeq(elements, b + 1, b + count)[n] = elements[b + n]
      BY <3>1, <3>3, StretchFacts
    <3> QED BY <2>8, <3>1, <3>2, <3>4
  <2> HIDE DEF values
  <2>10. StoresExactly(s, to, values)
    BY <2>1, <2>3, <2>5, <2>7, <2>9, StoresExact
  <2>11. m \in DOMAIN values
    BY <2>3, <2>7, <2>9
  <2>12. Element(buffers', views[s], to + m - 1) = Converted(views[s].kind, values[m])
    BY <2>10, <2>11 DEF StoresExactly
  <2>13. b + m \in 1..length /\ b + m - 1 = i /\ to + m - 1 = to + i - b
    BY <2>2, <2>3
  <2> QED BY <2>2, <2>9, <2>12, <2>13
<1>4. ASSUME NEW s \in Slots, ReverseView(s), NEW i \in 0..(views[s].length - 1)
      PROVE  Element(buffers', views[s], views[s].length - 1 - i) = Element(buffers, views[s], i)
  <2> DEFINE length == views[s].length
             elements == Elements(buffers, views[s])
             values == Reversed(elements)
             m == length - i
  <2>1. IsTyped(s) /\ Stores(views[s], 0, values)
    BY <1>4 DEF ReverseView
  <2>2. /\ length \in Nat /\ elements \in Seq(Value) /\ Len(elements) = length
        /\ \A n \in 1..length : Converted(views[s].kind, elements[n])
                                   = Element(buffers, views[s], n - 1)
    BY <1>1, <2>1
  <2>3. /\ values \in Seq(Value) /\ Len(values) = length
        /\ \A n \in 1..length : values[n] = elements[length + 1 - n]
    <3> HIDE DEF elements
    <3>1. /\ values \in Seq(Value) /\ Len(values) = Len(elements)
          /\ \A n \in 1..Len(elements) : values[n] = elements[Len(elements) + 1 - n]
      BY <2>2, ReversedFacts
    <3> QED BY <2>2, <3>1
  <2> HIDE DEF values, elements
  <2>4. StoresExactly(s, 0, values)
    <3>1. 0 + Len(values) <= length
      BY <2>2, <2>3
    <3> QED BY <2>1, <2>3, <3>1, StoresExact
  <2>5. m \in 1..length /\ m \in DOMAIN values /\ 0 + m - 1 = length - 1 - i
        /\ length + 1 - m = i + 1 /\ i + 1 \in 1..length /\ i + 1 - 1 = i
    <3>1. length \in Nat /\ i \in 0..(length - 1) /\ DOMAIN values = 1..length
      BY <2>2, <2>3
    <3> HIDE DEF length
    <3> QED BY <3>1
  <2>6. Element(buffers', views[s], 0 + m - 1) = Converted(views[s].kind, values[m])
    BY <2>4, <2>5 DEF StoresExactly
  <2>7. values[m] = elements[i + 1]
    <3> HIDE DEF length, m
    <3> QED BY <2>3, <2>5
  <2>8. Converted(views[s].kind, elements[i + 1]) = Element(buffers, views[s], i)
    <3> HIDE DEF length
    <3> QED BY <2>2, <2>5
  <2> QED BY <2>5, <2>6, <2>7, <2>8
<1>5. ASSUME NEW s \in Slots, NEW t \in Slots, NEW b \in Optional, NEW e \in Optional,
             Subarray(s, t, b, e), b \in Nat, e \in Nat, NEW i \in 0..(views'[s].length - 1)
      PROVE  Element(buffers', views'[s], i) = Element(buffers, views[t], b + i)
  <2> DEFINE old == views[t]
             new == views'[s]
             first == RelativeIndex(b, 0, old.length)
  <2>1. IsTyped(t) /\ buffers' = buffers
    BY <1>5 DEF Subarray
  <2>2. /\ new \in ViewSet /\ new.kind = old.kind /\ new.buffer = old.buffer
        /\ new.offset = Start(old, first) /\ first \in Nat
        /\ new.length > 0 => first + new.length <= old.length
    BY <1>5, InputFacts, SubarraySound
  <2>3. old.length \in Nat /\ old.offset \in Nat /\ new.length \in Nat
    BY <1>1, <2>1, <2>2, ViewTyped
  <2>4. i \in Nat /\ i < new.length /\ first + i < old.length
    BY <2>2, <2>3
  <2>5. first = b
    <3>1. b \notin {Absent, NaN} /\ first < old.length
      BY <1>5, <2>2, <2>3, <2>4, ViewAssumption
    <3> QED BY <1>5, <2>3, <3>1 DEF RelativeIndex
  <2>6. Start(new, i) = Start(old, b + i)
    <3>1. Start(new, i) = old.offset + b * Width(old.kind) + i * Width(old.kind)
      BY <2>2, <2>5 DEF Start
    <3>2. Start(old, b + i) = old.offset + (b + i) * Width(old.kind)
      BY DEF Start
    <3> QED BY <1>5, <2>3, <2>4, <3>1, <3>2, WidthFacts
  <2>7. ~ (i >= new.length) /\ ~ (b + i >= old.length)
    BY <1>5, <2>3, <2>4, <2>5
  <2> HIDE DEF new
  <2> QED BY <2>1, <2>2, <2>6, <2>7 DEF Element, new
<1> QED BY <1>2, <1>3, <1>4, <1>5 DEF ViewMovesExact
=============================================================================
