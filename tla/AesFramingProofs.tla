-------------------------- MODULE AesFramingProofs --------------------------
(* Theorems about AesFraming, for any messages, sizes of the parts and of the *)
(* block, types of keys, and orders of the parts on either side.              *)
EXTENDS AesFraming, SequenceTheorems, TLAPS

(* The inductive invariant: the types, what is under way while nobody has     *)
(* touched it, and what the two properties say of a decrypt that is over.     *)

IntactInv == intact /\ pc \in {"channel", "decrypted"} => frame = Build(sender, message)

IInv == TypeOK /\ IntactInv /\ OnlyWholeFrames /\ RoundTrip

-----------------------------------------------------------------------------
(* Sequences.                                                                 *)

\* Two ways to cut one sequence at one place give the same parts.
LEMMA ConcatCancel ==
  ASSUME NEW S, NEW x \in Seq(S), NEW y \in Seq(S), NEW v \in Seq(S), NEW w \in Seq(S),
         x \o y = v \o w, Len(x) = Len(v)
  PROVE  x = v /\ y = w
<1>1. /\ Len(x) \in Nat /\ Len(y) \in Nat /\ Len(w) \in Nat
      /\ DOMAIN x = 1..Len(x) /\ DOMAIN v = 1..Len(x)
  BY LenProperties
<1>2. /\ Len(x \o y) = Len(x) + Len(y) /\ Len(x \o y) = Len(x) + Len(w)
      /\ \A i \in 1..(Len(x) + Len(y)) : (x \o y)[i] = IF i <= Len(x) THEN x[i] ELSE y[i - Len(x)]
      /\ \A i \in 1..(Len(x) + Len(w)) : (x \o y)[i] = IF i <= Len(x) THEN v[i] ELSE w[i - Len(x)]
  <2>1. /\ Len(x \o y) = Len(x) + Len(y)
        /\ \A i \in 1..(Len(x) + Len(y)) : (x \o y)[i] = IF i <= Len(x) THEN x[i] ELSE y[i - Len(x)]
    BY ConcatProperties
  <2>2. /\ Len(v \o w) = Len(v) + Len(w)
        /\ \A i \in 1..(Len(v) + Len(w)) : (v \o w)[i] = IF i <= Len(v) THEN v[i] ELSE w[i - Len(v)]
    BY ConcatProperties
  <2> QED
    BY <2>1, <2>2
<1>3. Len(y) = Len(w)
  BY <1>1, <1>2
<1>4. ASSUME NEW i \in 1..Len(x)
      PROVE  x[i] = v[i]
  <2>1. i \in 1..(Len(x) + Len(y)) /\ i \in 1..(Len(x) + Len(w)) /\ i <= Len(x)
    BY <1>1
  <2> QED
    BY <1>2, <2>1
<1>5. ASSUME NEW i \in 1..Len(y)
      PROVE  y[i] = w[i]
  <2>1. /\ Len(x) + i \in 1..(Len(x) + Len(y)) /\ Len(x) + i \in 1..(Len(x) + Len(w))
        /\ ~(Len(x) + i <= Len(x)) /\ (Len(x) + i) - Len(x) = i
    BY <1>1, <1>3
  <2>2. (x \o y)[Len(x) + i] = y[i] /\ (x \o y)[Len(x) + i] = w[i]
    BY <1>2, <2>1
  <2> QED
    BY <2>2
<1> QED
  BY <1>3, <1>4, <1>5, SeqEqual

\* A sequence is its first a, its next b, and its other elements.
LEMMA ThreeSlices ==
  ASSUME NEW S, NEW s \in Seq(S), NEW a \in Nat, NEW b \in Nat, a + b <= Len(s)
  PROVE  /\ SubSeq(s, 1, a) \in Seq(S) /\ Len(SubSeq(s, 1, a)) = a
         /\ SubSeq(s, a + 1, a + b) \in Seq(S) /\ Len(SubSeq(s, a + 1, a + b)) = b
         /\ SubSeq(s, a + b + 1, Len(s)) \in Seq(S)
         /\ Len(SubSeq(s, a + b + 1, Len(s))) = Len(s) - a - b
         /\ (SubSeq(s, 1, a) \o SubSeq(s, a + 1, a + b)) \o SubSeq(s, a + b + 1, Len(s)) = s
<1>1. Len(s) \in Nat /\ \A i \in 1..Len(s) : s[i] \in S
  BY LenProperties, ElementOfSeq
<1>2. SubSeq(s, 1, a) \in Seq(S) /\ Len(SubSeq(s, 1, a)) = a
  <2>1. \A i \in 1..a : s[i] \in S
    BY <1>1
  <2> QED
    BY <2>1, SubSeqProperties
<1>3. SubSeq(s, a + 1, a + b) \in Seq(S) /\ Len(SubSeq(s, a + 1, a + b)) = b
  <2>1. \A i \in (a + 1)..(a + b) : s[i] \in S
    BY <1>1
  <2> QED
    BY <2>1, SubSeqProperties
<1>4. /\ SubSeq(s, a + b + 1, Len(s)) \in Seq(S)
      /\ Len(SubSeq(s, a + b + 1, Len(s))) = Len(s) - a - b
  <2>1. \A i \in (a + b + 1)..Len(s) : s[i] \in S
    BY <1>1
  <2>2. a + b + 1 \in Int /\ Len(s) \in Int
    BY <1>1
  <2>3. Len(SubSeq(s, a + b + 1, Len(s))) =
          IF a + b + 1 <= Len(s) THEN Len(s) - (a + b + 1) + 1 ELSE 0
    BY <2>1, <2>2, SubSeqProperties
  <2> QED
    BY <1>1, <2>1, <2>2, <2>3, SubSeqProperties
<1>5. SubSeq(s, 1, a) \o SubSeq(s, a + 1, a + b) = SubSeq(s, 1, a + b)
  <2>1. 1 \in 1..(Len(s) + 1) /\ a \in (1 - 1)..Len(s) /\ a + b \in a..Len(s)
    BY <1>1
  <2> QED
    BY <2>1, ConcatAdjacentSubSeq
<1>6. SubSeq(s, 1, a + b) \o SubSeq(s, a + b + 1, Len(s)) = SubSeq(s, 1, Len(s))
  <2>1. 1 \in 1..(Len(s) + 1) /\ a + b \in (1 - 1)..Len(s) /\ Len(s) \in (a + b)..Len(s)
    BY <1>1
  <2> QED
    BY <2>1, ConcatAdjacentSubSeq
<1> QED
  BY <1>2, <1>3, <1>4, <1>5, <1>6, SubSeqFull

-----------------------------------------------------------------------------
(* Numbers.                                                                   *)

\* Multiples of the block.
LEMMA Multiple ==
  ASSUME NEW k \in Nat, NEW b \in Nat \ {0}
  PROVE  (k * b) % b = 0 /\ k * b \in Nat
  BY SMTT(30)

\* Padding up to whole blocks adds at most one block.
LEMMA Quotient ==
  ASSUME NEW s \in Nat, NEW b \in Nat \ {0}
  PROVE  s \div b \in Nat /\ (s \div b + 1) * b <= s + b
<1> DEFINE q == s \div b
           r == s % b
<1>1. q \in Nat /\ r \in Nat /\ s = b * q + r
  BY SMTT(30)
<1> HIDE DEF q, r
<1>2. (q + 1) * b = b * q + b /\ b * q \in Nat
  BY <1>1, SMTT(30)
<1> QED
  BY <1>1, <1>2 DEF q

-----------------------------------------------------------------------------
(* The parts of a frame.                                                      *)

\* The size of a part does not depend on the message, but for the ciphertext.
LEMMA FieldSizes ==
  ASSUME TypeOK, NEW n \in Nat
  PROVE  /\ FieldSize("iv", n) = IvSize /\ FieldSize("code", n) = CodeSize[mode]
         /\ FieldSize("ciphertext", n) = n
         /\ IvSize \in Nat \ {0} /\ CodeSize[mode] \in Nat \ {0}
         /\ \A p \in Part : FieldSize(p, n) \in Nat
  BY FramingAssumption DEF TypeOK, FieldSize, Part

\* The ciphertext is at most one block longer than the message, and whole blocks in CBC.
LEMMA CiphertextSizes ==
  ASSUME TypeOK, NEW m \in Message
  PROVE  /\ CiphertextSize(m) \in Nat /\ CiphertextSize(m) <= Size[m] + Block
         /\ mode = "CBC" => CiphertextSize(m) % Block = 0
<1>1. Size[m] \in Nat /\ Block \in Nat \ {0}
  BY FramingAssumption
<1>2. Size[m] \div Block \in Nat /\ (Size[m] \div Block + 1) * Block <= Size[m] + Block
  BY <1>1, Quotient
<1> DEFINE k == Size[m] \div Block + 1
<1>3. k \in Nat /\ k * Block <= Size[m] + Block
  BY <1>2
<1>4. CiphertextSize(m) = IF mode = "CBC" THEN k * Block ELSE Size[m]
  BY DEF CiphertextSize
<1> HIDE DEF k
<1>5. (k * Block) % Block = 0 /\ k * Block \in Nat
  BY <1>1, <1>3, Multiple
<1>6. CASE mode = "CBC"
  <2>1. CiphertextSize(m) = k * Block
    BY <1>4, <1>6
  <2> QED
    BY <1>3, <1>5, <2>1
<1>7. CASE mode # "CBC"
  BY <1>1, <1>4, <1>7
<1> QED
  BY <1>6, <1>7

\* The bytes that a message can be sent as.
LEMMA Bytes ==
  \A m \in Message, p \in Part : \A i \in 1..FieldSize(p, Size[m] + Block) : <<m, p, i>> \in Byte
<1> DEFINE All == {{<<m, p, i>> : i \in 1..FieldSize(p, Size[m] + Block)} : m \in Message, p \in Part}
<1>1. Byte = UNION All
  BY DEF Byte
<1>2. ASSUME NEW o \in Message, NEW q \in Part
      PROVE  {<<o, q, i>> : i \in 1..FieldSize(q, Size[o] + Block)} \in All
  OBVIOUS
<1> HIDE DEF All
<1> QED
  BY <1>1, <1>2

\* A part of the frame of a message, byte for byte.
LEMMA Fields ==
  ASSUME TypeOK, NEW m \in Message, NEW p \in Part
  PROVE  /\ Field(m, p) \in Seq(Byte)
         /\ Len(Field(m, p)) = FieldSize(p, CiphertextSize(m))
         /\ \A i \in 1..Len(Field(m, p)) : Field(m, p)[i] = <<m, p, i>>
<1> DEFINE n == FieldSize(p, CiphertextSize(m))
           limit == FieldSize(p, Size[m] + Block)
<1>1. Size[m] \in Nat /\ Block \in Nat /\ CiphertextSize(m) \in Nat /\ CiphertextSize(m) <= Size[m] + Block
  BY FramingAssumption, CiphertextSizes
<1>2. n \in Nat /\ limit \in Nat /\ n <= limit
  BY <1>1, FieldSizes DEF Part
<1>3. \A i \in 1..n : <<m, p, i>> \in Byte
  BY <1>2, Bytes
<1>4. Field(m, p) = [i \in 1..n |-> <<m, p, i>>]
  BY DEF Field
<1> HIDE DEF n, limit
<1>5. Field(m, p) \in Seq(Byte)
  BY <1>2, <1>3, <1>4, IsASeq
<1>6. Len(Field(m, p)) = n
  BY <1>2, <1>4, <1>5, LenProperties
<1> QED
  BY <1>4, <1>5, <1>6 DEF n

\* The six orders of the three parts.
LEMMA Orders ==
  ASSUME NEW layout \in Layout, Whole(layout)
  PROVE  /\ \A i, j \in 1..3 : layout[i] = layout[j] => i = j
         /\ layout[1] \in Part /\ layout[2] \in Part /\ layout[3] \in Part
         /\ \/ layout[1] = "iv" /\ layout[2] = "code" /\ layout[3] = "ciphertext"
            \/ layout[1] = "iv" /\ layout[3] = "code" /\ layout[2] = "ciphertext"
            \/ layout[2] = "iv" /\ layout[1] = "code" /\ layout[3] = "ciphertext"
            \/ layout[2] = "iv" /\ layout[3] = "code" /\ layout[1] = "ciphertext"
            \/ layout[3] = "iv" /\ layout[1] = "code" /\ layout[2] = "ciphertext"
            \/ layout[3] = "iv" /\ layout[2] = "code" /\ layout[1] = "ciphertext"
<1>1. \A i \in 1..3 : i = 1 \/ i = 2 \/ i = 3
  OBVIOUS
<1>2. layout[1] \in Part /\ layout[2] \in Part /\ layout[3] \in Part
  BY DEF Layout
<1>3. \E i \in 1..3 : layout[i] = "iv"
  BY DEF Whole, Part
<1>4. \E i \in 1..3 : layout[i] = "code"
  BY DEF Whole, Part
<1>5. \E i \in 1..3 : layout[i] = "ciphertext"
  BY DEF Whole, Part
<1>6. \/ layout[1] = "iv" /\ layout[2] = "code" /\ layout[3] = "ciphertext"
      \/ layout[1] = "iv" /\ layout[3] = "code" /\ layout[2] = "ciphertext"
      \/ layout[2] = "iv" /\ layout[1] = "code" /\ layout[3] = "ciphertext"
      \/ layout[2] = "iv" /\ layout[3] = "code" /\ layout[1] = "ciphertext"
      \/ layout[3] = "iv" /\ layout[1] = "code" /\ layout[2] = "ciphertext"
      \/ layout[3] = "iv" /\ layout[2] = "code" /\ layout[1] = "ciphertext"
  BY <1>1, <1>3, <1>4, <1>5
<1>7. \A i, j \in 1..3 : layout[i] = layout[j] => i = j
  BY <1>1, <1>6
<1> QED
  BY <1>2, <1>6, <1>7

\* Whatever their order, the three parts are together as long as the frame.
LEMMA Together ==
  ASSUME TypeOK, NEW layout \in Layout, Whole(layout), NEW n \in Nat
  PROVE  FieldSize(layout[1], n) + FieldSize(layout[2], n) + FieldSize(layout[3], n)
           = IvSize + CodeSize[mode] + n
<1> DEFINE s == FieldSize("iv", n)
           t == FieldSize("code", n)
           u == FieldSize("ciphertext", n)
<1>1. s = IvSize /\ t = CodeSize[mode] /\ u = n /\ s \in Nat /\ t \in Nat
  BY FieldSizes
<1>2. \/ layout[1] = "iv" /\ layout[2] = "code" /\ layout[3] = "ciphertext"
      \/ layout[1] = "iv" /\ layout[3] = "code" /\ layout[2] = "ciphertext"
      \/ layout[2] = "iv" /\ layout[1] = "code" /\ layout[3] = "ciphertext"
      \/ layout[2] = "iv" /\ layout[3] = "code" /\ layout[1] = "ciphertext"
      \/ layout[3] = "iv" /\ layout[1] = "code" /\ layout[2] = "ciphertext"
      \/ layout[3] = "iv" /\ layout[2] = "code" /\ layout[1] = "ciphertext"
  BY Orders
<1> DEFINE a == FieldSize(layout[1], n)
           b == FieldSize(layout[2], n)
           c == FieldSize(layout[3], n)
<1>3. \/ a = s /\ b = t /\ c = u
      \/ a = s /\ c = t /\ b = u
      \/ b = s /\ a = t /\ c = u
      \/ b = s /\ c = t /\ a = u
      \/ c = s /\ a = t /\ b = u
      \/ c = s /\ b = t /\ a = u
  BY <1>2
<1> HIDE DEF a, b, c, s, t, u
<1>4. a + b + c = s + t + u
  BY <1>1, <1>3
<1> QED
  BY <1>1, <1>4 DEF a, b, c

\* What _build makes.
LEMMA Built ==
  ASSUME TypeOK, NEW layout \in Layout, NEW m \in Message
  PROVE  /\ Build(layout, m) \in Seq(Byte)
         /\ Whole(layout) => Len(Build(layout, m)) = IvSize + CodeSize[mode] + CiphertextSize(m)
<1> DEFINE x == Field(m, layout[1])
           y == Field(m, layout[2])
           z == Field(m, layout[3])
<1>1. layout[1] \in Part /\ layout[2] \in Part /\ layout[3] \in Part
  BY DEF Layout
<1>2. /\ x \in Seq(Byte) /\ Len(x) = FieldSize(layout[1], CiphertextSize(m))
      /\ y \in Seq(Byte) /\ Len(y) = FieldSize(layout[2], CiphertextSize(m))
      /\ z \in Seq(Byte) /\ Len(z) = FieldSize(layout[3], CiphertextSize(m))
  BY <1>1, Fields
<1>3. Build(layout, m) = (x \o y) \o z
  BY DEF Build
<1> HIDE DEF x, y, z
<1>4. /\ x \o y \in Seq(Byte) /\ Len(x \o y) = Len(x) + Len(y)
      /\ (x \o y) \o z \in Seq(Byte) /\ Len((x \o y) \o z) = Len(x) + Len(y) + Len(z)
  <2>1. x \o y \in Seq(Byte) /\ Len(x \o y) = Len(x) + Len(y)
    BY <1>2, ConcatProperties
  <2>2. (x \o y) \o z \in Seq(Byte) /\ Len((x \o y) \o z) = Len(x \o y) + Len(z)
    BY <1>2, <2>1, ConcatProperties
  <2> QED
    BY <2>1, <2>2
<1>5. CiphertextSize(m) \in Nat
  BY CiphertextSizes
<1>6. Whole(layout) => Len(x) + Len(y) + Len(z) = IvSize + CodeSize[mode] + CiphertextSize(m)
  BY <1>2, <1>5, Together
<1> QED
  BY <1>3, <1>4, <1>6

\* What _split finds of a frame that is long enough, when each part has its place.
LEMMA Splits ==
  ASSUME TypeOK, NEW layout \in Layout, Whole(layout), Rest >= 0
  PROVE  LET a == FieldSize(layout[1], Rest)
             b == FieldSize(layout[2], Rest)
         IN /\ a \in Nat /\ b \in Nat /\ a + b <= Len(frame)
            /\ Split(layout)[layout[1]] = SubSeq(frame, 1, a)
            /\ Split(layout)[layout[2]] = SubSeq(frame, a + 1, a + b)
            /\ Split(layout)[layout[3]] = SubSeq(frame, a + b + 1, Len(frame))
<1> DEFINE a == FieldSize(layout[1], Rest)
           b == FieldSize(layout[2], Rest)
           c == FieldSize(layout[3], Rest)
<1>1. Len(frame) \in Nat /\ Rest = Len(frame) - IvSize - CodeSize[mode]
  BY LenProperties DEF TypeOK, Rest
<1>2. CodeSize[mode] \in Nat /\ IvSize \in Nat /\ Rest \in Nat
  BY <1>1, FramingAssumption DEF TypeOK
<1>3. /\ FieldSize("iv", Rest) = IvSize /\ FieldSize("code", Rest) = CodeSize[mode]
      /\ FieldSize("ciphertext", Rest) = Rest /\ \A p \in Part : FieldSize(p, Rest) \in Nat
  BY <1>2, FieldSizes
<1>4. /\ \A i, j \in 1..3 : layout[i] = layout[j] => i = j
      /\ layout[1] \in Part /\ layout[2] \in Part /\ layout[3] \in Part
  BY Orders
<1>5. a \in Nat /\ b \in Nat /\ c \in Nat
  BY <1>3, <1>4
<1>6. a + b + c = Len(frame)
  <2>1. a + b + c = IvSize + CodeSize[mode] + Rest
    BY <1>2, Together
  <2> HIDE DEF a, b, c
  <2> QED
    BY <1>1, <1>2, <2>1
<1>7. ASSUME NEW i \in 1..3
      PROVE  Split(layout)[layout[i]] = Slice(Offset(layout, i), FieldSize(layout[i], Rest))
  <2> DEFINE last == CHOOSE k \in 1..3 : layout[k] = layout[i] /\ \A j \in (k + 1)..3 : layout[j] # layout[i]
  <2>1. layout[i] \in Part
    BY DEF Layout
  <2>2. layout[i] = layout[i] /\ \A j \in (i + 1)..3 : layout[j] # layout[i]
    BY <1>4
  <2>3. last \in 1..3 /\ layout[last] = layout[i]
    BY <2>2
  <2>4. last = i
    BY <1>4, <2>3
  <2>5. Split(layout)[layout[i]] = Slice(Offset(layout, last), FieldSize(layout[i], Rest))
    BY <2>1 DEF Split
  <2> QED
    BY <2>4, <2>5
<1>8. Offset(layout, 1) = 0 /\ Offset(layout, 2) = a /\ Offset(layout, 3) = a + b
  BY <1>5 DEF Offset
<1> HIDE DEF a, b, c
<1>9. Slice(0, a) = SubSeq(frame, 1, a)
  BY <1>1, <1>5, <1>6 DEF Slice
<1>10. Slice(a, b) = SubSeq(frame, a + 1, a + b)
  BY <1>1, <1>5, <1>6 DEF Slice
<1>11. Slice(a + b, c) = SubSeq(frame, a + b + 1, Len(frame))
  BY <1>1, <1>5, <1>6 DEF Slice
<1>12. /\ Split(layout)[layout[1]] = SubSeq(frame, 1, a)
       /\ Split(layout)[layout[2]] = SubSeq(frame, a + 1, a + b)
       /\ Split(layout)[layout[3]] = SubSeq(frame, a + b + 1, Len(frame))
  <2>1. Split(layout)[layout[1]] = Slice(Offset(layout, 1), FieldSize(layout[1], Rest))
    BY <1>7
  <2>2. Split(layout)[layout[2]] = Slice(Offset(layout, 2), FieldSize(layout[2], Rest))
    BY <1>7
  <2>3. Split(layout)[layout[3]] = Slice(Offset(layout, 3), FieldSize(layout[3], Rest))
    BY <1>7
  <2> QED
    BY <1>8, <1>9, <1>10, <1>11, <2>1, <2>2, <2>3 DEF a, b, c
<1>13. a \in Nat /\ b \in Nat /\ a + b <= Len(frame)
  BY <1>1, <1>5, <1>6
<1> QED
  BY <1>12, <1>13 DEF a, b

\* _split takes a frame apart and leaves nothing out.
LEMMA Parts ==
  ASSUME TypeOK, NEW layout \in Layout, Whole(layout), Rest >= 0
  PROVE  LET x == Split(layout)[layout[1]]
             y == Split(layout)[layout[2]]
             z == Split(layout)[layout[3]]
         IN /\ x \in Seq(Byte) /\ Len(x) = FieldSize(layout[1], Rest)
            /\ y \in Seq(Byte) /\ Len(y) = FieldSize(layout[2], Rest)
            /\ z \in Seq(Byte) /\ Len(z) = FieldSize(layout[3], Rest)
            /\ (x \o y) \o z = frame
<1> DEFINE a == FieldSize(layout[1], Rest)
           b == FieldSize(layout[2], Rest)
           c == FieldSize(layout[3], Rest)
           x == SubSeq(frame, 1, a)
           y == SubSeq(frame, a + 1, a + b)
           z == SubSeq(frame, a + b + 1, Len(frame))
<1>1. /\ a \in Nat /\ b \in Nat /\ a + b <= Len(frame)
      /\ Split(layout)[layout[1]] = x /\ Split(layout)[layout[2]] = y /\ Split(layout)[layout[3]] = z
  BY Splits
<1>2. frame \in Seq(Byte) /\ Len(frame) \in Nat
  BY LenProperties DEF TypeOK
<1> HIDE DEF a, b
<1>3. /\ x \in Seq(Byte) /\ Len(x) = a /\ y \in Seq(Byte) /\ Len(y) = b
      /\ z \in Seq(Byte) /\ Len(z) = Len(frame) - a - b /\ (x \o y) \o z = frame
  <2>1. a \in Nat /\ b \in Nat /\ a + b <= Len(frame) /\ frame \in Seq(Byte)
    BY <1>1, <1>2
  <2>2. x \in Seq(Byte) /\ Len(x) = a
    BY <2>1, ThreeSlices
  <2>3. y \in Seq(Byte) /\ Len(y) = b
    BY <2>1, ThreeSlices
  <2>4. z \in Seq(Byte) /\ Len(z) = Len(frame) - a - b
    BY <2>1, ThreeSlices
  <2>5. (x \o y) \o z = frame
    BY <2>1, ThreeSlices
  <2> QED
    BY <2>2, <2>3, <2>4, <2>5
<1> HIDE DEF x, y, z
<1>4. Len(frame) - a - b = c
  <2>1. CodeSize[mode] \in Nat /\ IvSize \in Nat /\ Rest = Len(frame) - IvSize - CodeSize[mode]
    BY FramingAssumption DEF TypeOK, Rest
  <2>2. Rest \in Nat
    BY <1>2, <2>1
  <2>3. a + b + c = IvSize + CodeSize[mode] + Rest
    BY <2>2, Together DEF a, b
  <2>4. c \in Nat
    BY <2>2, FieldSizes DEF Layout
  <2> HIDE DEF c
  <2> QED
    BY <1>1, <1>2, <2>1, <2>3, <2>4
<1> QED
  BY <1>1, <1>3, <1>4 DEF a, b

-----------------------------------------------------------------------------
(* What decrypt accepts.                                                      *)

\* A layout that leaves a part out has an empty one.
LEMMA EachHasItsPlace ==
  ASSUME TypeOK, NEW layout \in Layout, WellFormed(Split(layout))
  PROVE  Whole(layout)
<1>1. IvSize # 0 /\ CodeSize[mode] # 0 /\ Len(<<>>) = 0
  BY FramingAssumption, EmptySeq DEF TypeOK
<1>2. \A p \in Part : Split(layout)[p] # <<>>
  BY <1>1 DEF WellFormed, Part
<1>3. \A p \in Part : \E i \in 1..3 : layout[i] = p
  <2>1. \A p \in Part : (~ \E i \in 1..3 : layout[i] = p) => Split(layout)[p] = <<>>
    BY DEF Split
  <2> QED
    BY <1>2, <2>1
<1>4. \A i \in 1..3 : layout[i] \in Part
  BY DEF Layout
<1> QED
  BY <1>3, <1>4 DEF Whole

\* What is accepted as a message is the frame of that message in the layout of the reader.
LEMMA Accepted ==
  ASSUME TypeOK, NEW layout \in Layout, NEW m \in Message,
         WellFormed(Split(layout)), Authentic(Split(layout), m)
  PROVE  frame = Build(layout, m) /\ Whole(layout)
<1> DEFINE P == Split(layout)
<1>1. Whole(layout)
  BY EachHasItsPlace
<1>2. Rest >= 0
  <2>1. Rest > 0 /\ Rest \in Int
    BY FramingAssumption, LenProperties DEF WellFormed, TypeOK, Rest
  <2> QED
    BY <2>1
<1>3. /\ P[layout[1]] \in Seq(Byte) /\ P[layout[2]] \in Seq(Byte) /\ P[layout[3]] \in Seq(Byte)
      /\ (P[layout[1]] \o P[layout[2]]) \o P[layout[3]] = frame
  BY <1>1, <1>2, Parts
<1>4. Len(P["iv"]) = IvSize /\ P["code"] = Field(m, "code")
      /\ P["ciphertext"] \o P["iv"] = Field(m, "ciphertext") \o Field(m, "iv")
  BY DEF WellFormed, Authentic
<1> HIDE DEF P
<1>5. P["ciphertext"] \in Seq(Byte) /\ P["iv"] \in Seq(Byte)
  BY <1>1, <1>3, Orders
<1>6. /\ Field(m, "ciphertext") \in Seq(Byte)
      /\ Field(m, "iv") \in Seq(Byte) /\ Len(Field(m, "iv")) = IvSize
  BY Fields, FieldSizes, CiphertextSizes DEF Part
<1>7. Len(P["ciphertext"]) = Len(Field(m, "ciphertext"))
  <2>1. /\ Len(P["ciphertext"] \o P["iv"]) = Len(P["ciphertext"]) + IvSize
        /\ Len(Field(m, "ciphertext") \o Field(m, "iv")) = Len(Field(m, "ciphertext")) + IvSize
    <3> DEFINE g == Field(m, "ciphertext")
               h == Field(m, "iv")
               u == P["ciphertext"]
               v == P["iv"]
    <3>1. /\ u \in Seq(Byte) /\ v \in Seq(Byte) /\ Len(v) = IvSize
          /\ g \in Seq(Byte) /\ h \in Seq(Byte) /\ Len(h) = IvSize
      BY <1>4, <1>5, <1>6
    <3> HIDE DEF g, h, u, v
    <3>2. Len(u \o v) = Len(u) + IvSize
      BY <3>1, ConcatProperties
    <3>3. Len(g \o h) = Len(g) + IvSize
      BY <3>1, ConcatProperties
    <3> QED
      BY <3>2, <3>3 DEF g, h, u, v
  <2>2. Len(P["ciphertext"]) \in Nat /\ Len(Field(m, "ciphertext")) \in Nat /\ IvSize \in Nat
    BY <1>5, <1>6, LenProperties
  <2> QED
    BY <1>4, <2>1, <2>2
<1>8. P["ciphertext"] = Field(m, "ciphertext") /\ P["iv"] = Field(m, "iv")
  BY <1>4, <1>5, <1>6, <1>7, ConcatCancel
<1>9. \A p \in Part : P[p] = Field(m, p)
  BY <1>4, <1>8 DEF Part
<1>10. frame = (Field(m, layout[1]) \o Field(m, layout[2])) \o Field(m, layout[3])
  <2>1. /\ P[layout[1]] = Field(m, layout[1]) /\ P[layout[2]] = Field(m, layout[2])
        /\ P[layout[3]] = Field(m, layout[3])
    BY <1>9 DEF Layout
  <2> QED
    BY <1>3, <2>1, Zenon
<1> QED
  BY <1>1, <1>10 DEF Build

\* The whole frame of a message, read in its own layout, is accepted as that message and
\* as no other.
LEMMA Readable ==
  ASSUME TypeOK, NEW layout \in Layout, Whole(layout), NEW m \in Message,
         frame = Build(layout, m), CiphertextSize(m) > 0
  PROVE  /\ WellFormed(Split(layout)) /\ Authentic(Split(layout), m)
         /\ \A o \in Message : Authentic(Split(layout), o) => o = m
<1> DEFINE P == Split(layout)
           x == P[layout[1]]
           y == P[layout[2]]
           z == P[layout[3]]
           X == Field(m, layout[1])
           Y == Field(m, layout[2])
           Z == Field(m, layout[3])
<1>1. CiphertextSize(m) \in Nat /\ IvSize \in Nat \ {0} /\ CodeSize[mode] \in Nat \ {0}
  BY CiphertextSizes, FieldSizes
<1>2. Rest = CiphertextSize(m) /\ Rest >= 0
  <2>1. Len(frame) = IvSize + CodeSize[mode] + CiphertextSize(m)
    BY Built
  <2> QED
    BY <1>1, <2>1 DEF Rest
<1>3. /\ x \in Seq(Byte) /\ Len(x) = FieldSize(layout[1], Rest)
      /\ y \in Seq(Byte) /\ Len(y) = FieldSize(layout[2], Rest)
      /\ z \in Seq(Byte) /\ (x \o y) \o z = frame
  BY <1>2, Parts, Zenon
<1>4. /\ X \in Seq(Byte) /\ Len(X) = FieldSize(layout[1], Rest)
      /\ Y \in Seq(Byte) /\ Len(Y) = FieldSize(layout[2], Rest)
      /\ Z \in Seq(Byte)
  BY <1>2, Fields DEF Layout
<1>5. frame = (X \o Y) \o Z
  BY DEF Build
<1> HIDE DEF x, y, z, X, Y, Z
<1>6. /\ x \o y \in Seq(Byte) /\ X \o Y \in Seq(Byte)
      /\ Len(x \o y) = Len(X \o Y)
  <2>1. x \o y \in Seq(Byte) /\ Len(x \o y) = Len(x) + Len(y)
    BY <1>3, ConcatProperties
  <2>2. X \o Y \in Seq(Byte) /\ Len(X \o Y) = Len(X) + Len(Y)
    BY <1>4, ConcatProperties
  <2> QED
    BY <1>3, <1>4, <2>1, <2>2
<1>7. x \o y = X \o Y /\ z = Z
  <2>1. (x \o y) \o z = (X \o Y) \o Z
    BY <1>3, <1>5
  <2> QED
    BY <1>3, <1>4, <1>6, <2>1, ConcatCancel, Zenon
<1>8. x = X /\ y = Y
  <2>1. Len(x) = Len(X)
    BY <1>3, <1>4
  <2> QED
    BY <1>3, <1>4, <1>7, <2>1, ConcatCancel, Zenon
<1>9. P["iv"] = Field(m, "iv") /\ P["code"] = Field(m, "code")
      /\ P["ciphertext"] = Field(m, "ciphertext")
  <2>1. \A i \in 1..3 : P[layout[i]] = Field(m, layout[i])
    BY <1>7, <1>8 DEF x, y, z, X, Y, Z
  <2> HIDE DEF P
  <2> QED
    BY <2>1, Orders
<1> HIDE DEF P
<1>10. /\ Len(Field(m, "iv")) = IvSize /\ Len(Field(m, "code")) = CodeSize[mode]
       /\ Len(Field(m, "ciphertext")) = CiphertextSize(m)
  BY <1>1, Fields, FieldSizes DEF Part
<1>11. WellFormed(P)
  <2>1. Len(<<>>) = 0
    BY EmptySeq
  <2>2. mode = "CBC" => Rest % Block = 0
    BY <1>2, CiphertextSizes
  <2> QED
    BY <1>2, <1>9, <1>10, <2>1, <2>2 DEF WellFormed
<1>12. Authentic(P, m)
  BY <1>9 DEF Authentic
<1>13. ASSUME NEW o \in Message, Authentic(P, o)
       PROVE  o = m
  <2>1. Field(o, "code") = Field(m, "code")
    BY <1>9, <1>13 DEF Authentic
  <2>2. 1 \in 1..Len(Field(m, "code"))
    BY <1>1, <1>10
  <2>3. Field(m, "code")[1] = <<m, "code", 1>>
    BY <2>2, Fields DEF Part
  <2>4. Field(o, "code")[1] = <<o, "code", 1>>
    BY <2>1, <2>2, Fields DEF Part
  <2> QED
    BY <2>1, <2>3, <2>4
<1> QED
  BY <1>11, <1>12, <1>13 DEF P

-----------------------------------------------------------------------------
(* The inductive invariant.                                                   *)

\* No step changes the class of the two sides, and with it what a byte and a frame are.
LEMMA SameMode ==
  ASSUME mode' = mode
  PROVE  /\ Byte' = Byte
         /\ \A layout \in Layout, m \in Message :
              /\ Build(layout, m)' = Build(layout, m)
              /\ CiphertextSize(m)' = CiphertextSize(m)
<1>1. \A m, p : FieldSize(p, CiphertextSize(m))' = FieldSize(p, CiphertextSize(m))
  BY DEF FieldSize, CiphertextSize
<1>2. Byte' = Byte
  BY DEF Byte, FieldSize
<1>3. \A m : CiphertextSize(m)' = CiphertextSize(m)
  BY DEF CiphertextSize
<1>4. \A m, p : Field(m, p)' = Field(m, p)
  BY DEF Field, FieldSize, CiphertextSize
<1>5. \A layout \in Layout, m \in Message : Build(layout, m)' = Build(layout, m)
  BY DEF Build, Field, FieldSize, CiphertextSize
<1> QED
  BY <1>2, <1>3, <1>5

\* It holds before anything is made.
LEMMA InitInv == Init => IInv
<1> SUFFICES ASSUME Init PROVE IInv
  OBVIOUS
<1>1. <<>> \in Seq(Byte)
  BY EmptySeq
<1> QED
  BY <1>1 DEF Init, IInv, TypeOK, IntactInv, OnlyWholeFrames, RoundTrip

\* The constructors have nothing under way.
LEMMA ConstructInv == IInv /\ Construct => IInv'
<1> SUFFICES ASSUME IInv, Construct PROVE IInv'
  OBVIOUS
<1>1. Byte' = Byte
  BY SameMode DEF Construct
<1>2. TypeOK'
  BY <1>1 DEF IInv, TypeOK, Construct
<1>3. pc' \in {"encrypt", "refused"}
  BY DEF Construct
<1> QED
  BY <1>2, <1>3 DEF IInv, IntactInv, OnlyWholeFrames, RoundTrip

\* encrypt leaves the frame of its message under way.
LEMMA EncryptInv == IInv /\ Encrypt => IInv'
<1> SUFFICES ASSUME IInv, Encrypt PROVE IInv'
  OBVIOUS
<1>1. /\ Byte' = Byte /\ sender' = sender /\ message' = message
      /\ sender \in Layout /\ message \in Message /\ TypeOK
  BY SameMode DEF Encrypt, IInv, TypeOK
<1>2. frame' = Build(sender, message) /\ pc' = "channel"
  BY DEF Encrypt
<1>3. frame' \in Seq(Byte)
  BY <1>1, <1>2, Built
<1>4. TypeOK'
  BY <1>1, <1>3 DEF TypeOK, Encrypt
<1>5. IntactInv'
  <2>1. mode' = mode
    BY DEF Encrypt
  <2> QED
    BY <1>1, <1>2, <2>1 DEF IntactInv, Build, Field, FieldSize, CiphertextSize
<1> QED
  BY <1>2, <1>4, <1>5 DEF IInv, OnlyWholeFrames, RoundTrip

\* What is cut or joined in between is still bytes of frames, and no longer intact.
LEMMA CutInv == IInv /\ Cut => IInv'
<1> SUFFICES ASSUME IInv, Cut PROVE IInv'
  OBVIOUS
<1>1. Byte' = Byte /\ TypeOK /\ intact' = FALSE /\ pc' = "channel"
  BY SameMode DEF Cut, IInv
<1>2. frame \in Seq(Byte) /\ sender \in Layout
  BY <1>1 DEF TypeOK
<1>3. frame' \in Seq(Byte)
  <2>1. PICK other \in Message, i \in 0..Len(frame) :
          \E j \in 1..(Len(Build(sender, other)) + 1) :
            frame' = SubSeq(frame, 1, i) \o SubSeq(Build(sender, other), j, Len(Build(sender, other)))
    BY DEF Cut
  <2> DEFINE second == Build(sender, other)
  <2>2. PICK j \in 1..(Len(second) + 1) : frame' = SubSeq(frame, 1, i) \o SubSeq(second, j, Len(second))
    BY <2>1
  <2>3. second \in Seq(Byte)
    BY <1>1, <1>2, Built
  <2> HIDE DEF second
  <2>4. SubSeq(frame, 1, i) \in Seq(Byte)
    <3>1. \A k \in 1..i : frame[k] \in Byte
      BY <1>2, ElementOfSeq, LenProperties
    <3> QED
      BY <1>2, <3>1, SubSeqProperties, LenProperties
  <2>5. SubSeq(second, j, Len(second)) \in Seq(Byte)
    <3>1. \A k \in j..Len(second) : second[k] \in Byte
      BY <2>3, ElementOfSeq, LenProperties
    <3> QED
      BY <2>3, <3>1, SubSeqProperties, LenProperties
  <2> QED
    BY <2>2, <2>4, <2>5, ConcatProperties
<1>4. TypeOK'
  BY <1>1, <1>3 DEF TypeOK, Cut
<1> QED
  BY <1>1, <1>4 DEF IInv, IntactInv, OnlyWholeFrames, RoundTrip

\* decrypt gives back a message only for its whole frame, and gives back every readable one.
LEMMA DecryptInv == IInv /\ Decrypt => IInv'
<1> SUFFICES ASSUME IInv, Decrypt PROVE IInv'
  OBVIOUS
<1> DEFINE read == {m \in Text : WellFormed(Split(receiver)) /\ Authentic(Split(receiver), m)}
<1>1. /\ TypeOK /\ IntactInv /\ pc = "channel" /\ pc' = "decrypted"
      /\ mode' = mode /\ sender' = sender /\ receiver' = receiver
      /\ message' = message /\ frame' = frame /\ intact' = intact
  BY DEF Decrypt, IInv
<1>2. result' \in (IF read = {} THEN {NoMessage} ELSE read)
  BY DEF Decrypt
<1>3. /\ sender \in Layout /\ receiver \in Layout /\ message \in Message
      /\ Text \subseteq Message /\ NoMessage \notin Message
  BY <1>1, FramingAssumption DEF TypeOK
<1>4. \A m \in read : m \in Message /\ frame = Build(receiver, m) /\ Whole(receiver)
  BY <1>1, <1>3, Accepted
<1>5. \A layout \in Layout, m \in Message :
        Build(layout, m)' = Build(layout, m) /\ CiphertextSize(m)' = CiphertextSize(m)
  BY <1>1, SameMode
<1>6. TypeOK'
  <2>1. Byte' = Byte
    BY <1>1, SameMode
  <2>2. result' \in Message \cup {NoMessage}
    BY <1>2, <1>4
  <2> QED
    BY <1>1, <2>1, <2>2 DEF TypeOK
<1>7. IntactInv'
  BY <1>1, <1>3, <1>5 DEF IntactInv, Build, Field, FieldSize, CiphertextSize
<1>8. OnlyWholeFrames'
  <2>1. ASSUME result' # NoMessage
        PROVE  frame' = Build(receiver, result') /\ Whole(receiver) /\ result' \in Message
    BY <1>1, <1>2, <1>4, <2>1
  <2> QED
    BY <1>1, <2>1 DEF OnlyWholeFrames, Whole, Build, Field, FieldSize, CiphertextSize
<1>9. RoundTrip'
  <2>1. ASSUME intact, sender = receiver, Whole(sender), message \in Text,
               CiphertextSize(message) > 0
        PROVE  result' = message
    <3>1. frame = Build(receiver, message)
      BY <1>1, <2>1 DEF IntactInv
    <3>2. /\ WellFormed(Split(receiver)) /\ Authentic(Split(receiver), message)
          /\ \A o \in Message : Authentic(Split(receiver), o) => o = message
      BY <1>1, <1>3, <2>1, <3>1, Readable
    <3>3. message \in read /\ \A o \in read : o = message
      BY <1>3, <2>1, <3>2
    <3> QED
      BY <1>2, <3>3
  <2>2. CiphertextSize(message)' = CiphertextSize(message)
    BY <1>1 DEF CiphertextSize
  <2> QED
    BY <1>1, <2>1, <2>2 DEF RoundTrip, Whole
<1> QED
  BY <1>6, <1>7, <1>8, <1>9 DEF IInv

\* Every step keeps it.
LEMMA NextInv == IInv /\ [Next]_vars => IInv'
<1> SUFFICES ASSUME IInv, [Next]_vars PROVE IInv'
  OBVIOUS
<1>1. CASE Construct
  BY <1>1, ConstructInv
<1>2. CASE Encrypt
  BY <1>2, EncryptInv
<1>3. CASE Cut
  BY <1>3, CutInv
<1>4. CASE Decrypt
  BY <1>4, DecryptInv
<1>5. CASE UNCHANGED vars
  <2>1. /\ mode' = mode /\ sender' = sender /\ receiver' = receiver /\ message' = message
        /\ frame' = frame /\ intact' = intact /\ result' = result /\ pc' = pc
    BY <1>5 DEF vars
  <2>2. Byte' = Byte
    BY <2>1, SameMode
  <2>3. TypeOK'
    BY <2>1, <2>2 DEF IInv, TypeOK
  <2>4. IntactInv'
    BY <2>1 DEF IInv, IntactInv, Build, Field, FieldSize, CiphertextSize
  <2>5. OnlyWholeFrames'
    BY <2>1 DEF IInv, OnlyWholeFrames, Whole, Build, Field, FieldSize, CiphertextSize
  <2>6. CiphertextSize(message)' = CiphertextSize(message)
    BY <2>1 DEF CiphertextSize
  <2>7. RoundTrip'
    BY <2>1, <2>6 DEF IInv, RoundTrip, Whole
  <2> QED
    BY <2>3, <2>4, <2>5, <2>7 DEF IInv
<1> QED
  BY <1>1, <1>2, <1>3, <1>4, <1>5 DEF Next

\* The inductive invariant holds in every state.
THEOREM Invariance == Spec => []IInv
BY InitInv, NextInv, PTL DEF Spec

-----------------------------------------------------------------------------
(* The theorems.                                                              *)

\* Every variable has its type: what is under way is always bytes of frames.
THEOREM TypeCorrect == Spec => []TypeOK
<1>1. IInv => TypeOK
  BY DEF IInv
<1> QED
  BY <1>1, Invariance, PTL

\* Whatever was cut or joined under way, and whatever order each side reads the parts in,
\* decrypt gives back a message only when it was given the whole frame of that message in
\* its own order (lines 80-105, 158-185).
THEOREM NothingElseAccepted == Spec => []OnlyWholeFrames
<1>1. IInv => OnlyWholeFrames
  BY DEF IInv
<1> QED
  BY <1>1, Invariance, PTL

\* Text of any length that nobody has touched comes back, under every order of the three
\* parts that the two sides share (lines 80-105, 158-185).
THEOREM ComesBack == Spec => []RoundTrip
<1>1. IInv => RoundTrip
  BY DEF IInv
<1> QED
  BY <1>1, Invariance, PTL
========================
