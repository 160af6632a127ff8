---------------------------- MODULE EncodingProofs ----------------------------
(***************************************************************************)
(* That every field of every message reads back as it was written, for all *)
(* values and all sizes of payload.                                        *)
(***************************************************************************)
EXTENDS Encoding, TLAPS

Buffer(n) == [0..(n - 1) -> BOOLEAN]
Bytes(n) == [0..(n - 1) -> Byte]

\* What should be found at o: a byte, bytes, an unsigned integer of n bytes.
ByteAt(b, o) == [j \in 0..7 |-> b[o + j]]
BytesAt(b, o, n) == [k \in 0..(n - 1) |-> ByteAt(b, o + 8 * k)]
UnsignedAt(b, n, o) == [w \in 0..(8 * n - 1) |-> b[o + 8 * n - 1 - w]]

-----------------------------------------------------------------------------
(* Bytes *)

\* The loop of setBufferValue: after no round nothing has changed, and a round
\* more puts one byte more.
LEMMA Loop ==
  ASSUME NEW N \in Nat, NEW b \in Buffer(N), NEW n \in Nat, NEW v \in Bytes(n + 1), NEW o \in Nat
  PROVE  /\ SetBufferValue(b, v, 0, o) = b
         /\ SetBufferValue(b, v, n + 1, o) =
              SetByteWithOffset(SetBufferValue(b, v, n, o), v[n], o + 8 * n)
<1> DEFINE c == SetBufferValue(b, v, n, o)
           d == SetByteWithOffset(c, v[n], o + 8 * n)
           e == SetBufferValue(b, v, n + 1, o)
<1>1. SetBufferValue(b, v, 0, o) = b
  BY DEF SetBufferValue, Buffer
<1>2. /\ DOMAIN c = 0..(N - 1) /\ DOMAIN d = 0..(N - 1) /\ DOMAIN e = 0..(N - 1)
      /\ c = [i \in 0..(N - 1) |-> c[i]]
      /\ d = [i \in 0..(N - 1) |-> d[i]] /\ e = [i \in 0..(N - 1) |-> e[i]]
  BY DEF SetBufferValue, SetByteWithOffset, Buffer
<1>3. ASSUME NEW i \in 0..(N - 1) PROVE d[i] = e[i]
  <2> DEFINE p == o + 8 * n
  <2>1. /\ p \in Nat /\ i \in Nat
        /\ i = 8 * (i \div 8) + (i % 8) /\ p = 8 * (p \div 8) + (p % 8)
        /\ i % 8 \in 0..7 /\ p % 8 \in 0..7 /\ i \div 8 \in Nat /\ p \div 8 \in Nat
    OBVIOUS
  <2>2. c[i] = IF o <= i /\ i < p THEN v[(i - o) \div 8][(i - o) % 8] ELSE b[i]
    BY DEF SetBufferValue, Buffer
  <2>3. e[i] = IF o <= i /\ i < p + 8 THEN v[(i - o) \div 8][(i - o) % 8] ELSE b[i]
    BY DEF SetBufferValue, Buffer
  <2>4. d[i] = CASE i \div 8 = p \div 8 -> IF i % 8 < p % 8 THEN c[i] ELSE v[n][(i % 8) - (p % 8)]
                 [] i \div 8 = p \div 8 + 1 /\ p % 8 # 0 ->
                      IF i % 8 < p % 8 THEN v[n][8 - (p % 8) + (i % 8)] ELSE c[i]
                 [] OTHER -> c[i]
    BY <1>2 DEF SetByteWithOffset
  <2> HIDE DEF c, d, e
  <2>5. CASE i < p \/ p + 8 <= i
    <3>1. d[i] = c[i]
      BY <2>1, <2>4, <2>5
    <3>2. c[i] = e[i]
      BY <2>1, <2>2, <2>3, <2>5
    <3>3. QED BY <3>1, <3>2
  <2>6. CASE p <= i /\ i < p + 8
    <3>1. (i - o) \div 8 = n /\ (i - o) % 8 = i - p
      BY <2>6
    <3>2. e[i] = v[n][i - p]
      BY <3>1, <2>1, <2>3, <2>6
    <3>3. d[i] = v[n][i - p]
      BY <2>1, <2>4, <2>6
    <3>4. QED BY <3>2, <3>3
  <2>7. QED BY <2>1, <2>5, <2>6
<1>4. QED BY <1>1, <1>2, <1>3

\* At a multiple of four bits, where all fields lie, a byte is read as it is.
LEMMA ByteIsRead ==
  ASSUME NEW N \in Nat, NEW b \in Buffer(N), NEW o \in Nat, o % 4 = 0, o + 8 <= N
  PROVE  GetByteWithOffset(b, o) = ByteAt(b, o)
<1> DEFINE k == 8 * (o \div 8)
           m == o % 8
<1>1. k \in Nat /\ m \in {0, 4} /\ o = k + m
  OBVIOUS
<1>2. ASSUME NEW j \in 0..7 PROVE o + j \in 0..(N - 1) /\ b[o + j] \in BOOLEAN
  BY <1>1 DEF Buffer
<1>3. CASE m = 0
  BY <1>1, <1>3 DEF GetByteWithOffset, ByteAt
<1>4. CASE m = 4
  <2>1. GetByteWithOffset(b, o) =
          [j \in 0..7 |-> (j < 4 /\ b[k + j + 4]) \/ (j >= 4 /\ b[k + 8 + j - 4])]
    BY <1>4 DEF GetByteWithOffset
  <2>2. ASSUME NEW j \in 0..7
        PROVE ((j < 4 /\ b[k + j + 4]) \/ (j >= 4 /\ b[k + 8 + j - 4])) = b[o + j]
    <3>1. k + j + 4 = o + j /\ k + 8 + j - 4 = o + j
      BY <1>1, <1>4
    <3>2. (j < 4 /\ ~(j >= 4)) \/ (j >= 4 /\ ~(j < 4))
      OBVIOUS
    <3>3. ((j < 4 /\ b[k + j + 4]) \/ (j >= 4 /\ b[k + 8 + j - 4])) = ((j < 4 /\ b[o + j]) \/ (j >= 4 /\ b[o + j]))
      BY <3>1
    <3> HIDE DEF k
    <3>4. QED BY <3>2, <3>3, <1>2, Zenon
  <2>3. QED BY <2>1, <2>2 DEF ByteAt
<1>5. QED BY <1>1, <1>3, <1>4

LEMMA BytesAreRead ==
  ASSUME NEW N \in Nat, NEW b \in Buffer(N), NEW o \in Nat, o % 4 = 0, NEW n \in Nat, o + 8 * n <= N
  PROVE  GetBytesWithOffset(b, o, n) = BytesAt(b, o, n)
<1>1. ASSUME NEW k \in 0..(n - 1)
      PROVE GetByteWithOffset(b, o + 8 * k) = ByteAt(b, o + 8 * k)
  <2>1. o + 8 * k \in Nat /\ (o + 8 * k) % 4 = 0 /\ o + 8 * k + 8 <= N
    OBVIOUS
  <2>2. QED BY <2>1, ByteIsRead
<1>2. QED BY <1>1 DEF GetBytesWithOffset, BytesAt

LEMMA UnsignedIsRead ==
  ASSUME NEW N \in Nat, NEW b \in Buffer(N), NEW o \in Nat, o % 4 = 0, NEW n \in Nat, o + 8 * n <= N
  PROVE  GetUnsigned(b, n, o) = UnsignedAt(b, n, o)
<1>1. GetBytesWithOffset(b, o, n) = BytesAt(b, o, n)
  BY BytesAreRead
<1>2. ASSUME NEW w \in 0..(8 * n - 1)
      PROVE BytesAt(b, o, n)[n - 1 - (w \div 8)][7 - (w % 8)] = b[o + 8 * n - 1 - w]
  <2>1. /\ n - 1 - (w \div 8) \in 0..(n - 1) /\ 7 - (w % 8) \in 0..7
        /\ o + 8 * (n - 1 - (w \div 8)) + (7 - (w % 8)) = o + 8 * n - 1 - w
    OBVIOUS
  <2>2. QED BY <2>1 DEF BytesAt, ByteAt
<1>3. QED BY <1>1, <1>2 DEF GetUnsigned, IntOf, UnsignedAt

\* The value of an unsigned integer as the bits it leaves in the buffer.
WithUnsigned(b, v, n, o) ==
  [i \in DOMAIN b |-> IF o <= i /\ i < o + 8 * n THEN v[8 * n - 1 - (i - o)] ELSE b[i]]

LEMMA UnsignedIsWritten ==
  ASSUME NEW N \in Nat, NEW b \in Buffer(N), NEW o \in Nat, NEW n \in Nat, NEW v \in Unsigned(8 * n)
  PROVE  SetUnsigned(b, v, n, o) = WithUnsigned(b, v, n, o)
<1>1. DOMAIN b = 0..(N - 1)
  BY DEF Buffer
<1>2. ASSUME NEW i \in 0..(N - 1), o <= i, i < o + 8 * n
      PROVE IntBytes(v, n)[(i - o) \div 8][(i - o) % 8] = v[8 * n - 1 - (i - o)]
  <2>1. /\ (i - o) \div 8 \in 0..(n - 1) /\ (i - o) % 8 \in 0..7
        /\ 8 * (n - 1 - ((i - o) \div 8)) + 7 - ((i - o) % 8) = 8 * n - 1 - (i - o)
    BY <1>2
  <2>2. QED BY <2>1 DEF IntBytes
<1>3. QED BY <1>1, <1>2 DEF SetUnsigned, SetBufferValue, WithUnsigned

-----------------------------------------------------------------------------
(* Fields *)

\* What a field is read as, and the bits it is written to.
InField(f, n, i) == f.at <= i /\ i < f.at + Width(f, n)
Kinds == {"nibble", "short", "int", "long", "hash", "bytes"}
FieldRecord == [kind : Kinds, at : Nat]

\* A field that lies in the buffer, at a multiple of four bits.
Fits(f, n, N) == f \in FieldRecord /\ f.at % 4 = 0 /\ f.at + Width(f, n) <= N

LEMMA SizeIsNatural ==
  ASSUME NEW f \in FieldRecord, NEW n \in Nat
  PROVE  Size(f.kind, n) \in Nat /\ Width(f, n) \in Nat
BY DEF Size, Width, FieldRecord, Kinds

\* Reading a field looks at its own bits only.
LEMMA ReadLooksAtField ==
  ASSUME NEW N \in Nat, NEW b \in Buffer(N), NEW c \in Buffer(N), NEW n \in Nat, NEW f, Fits(f, n, N),
         \A i \in 0..(N - 1) : InField(f, n, i) => b[i] = c[i]
  PROVE  Read(b, f, n) = Read(c, f, n)
<1> DEFINE s == Size(f.kind, n)
<1>1. f \in FieldRecord /\ f.at \in Nat /\ s \in Nat /\ f.at % 4 = 0 /\ f.at + Width(f, n) <= N
  BY SizeIsNatural DEF Fits, FieldRecord
<1>2. CASE f.kind = "nibble"
  <2>1. ASSUME NEW w \in 0..3 PROVE b[f.at + 3 - w] = c[f.at + 3 - w]
    <3>1. /\ f.at + 3 - w \in 0..(N - 1)
          /\ f.at <= f.at + 3 - w /\ f.at + 3 - w < f.at + 4
      BY <1>1, <1>2 DEF Width
    <3>2. InField(f, n, f.at + 3 - w)
      BY <1>2, <3>1 DEF InField, Width
    <3>3. QED BY <3>1, <3>2
  <2>2. QED BY <1>2, <2>1 DEF Read, GetNibble
<1>3. CASE f.kind # "nibble"
  <2>1. f.at + 8 * s <= N
    BY <1>1, <1>3 DEF Width
  <2>2. \A i \in 0..(N - 1) : (f.at <= i /\ i < f.at + 8 * s) => b[i] = c[i]
    BY <1>3 DEF InField, Width
  <2> HIDE DEF s
  <2>3. CASE IsText(f)
    <3>1. ASSUME NEW k \in 0..(s - 1), NEW j \in 0..7 PROVE b[f.at + 8 * k + j] = c[f.at + 8 * k + j]
      <4>1. /\ f.at + 8 * k + j \in 0..(N - 1)
            /\ f.at <= f.at + 8 * k + j /\ f.at + 8 * k + j < f.at + 8 * s
        BY <1>1, <2>1
      <4>2. QED BY <4>1, <2>2
    <3>2. /\ GetBytesWithOffset(b, f.at, s) = BytesAt(b, f.at, s)
          /\ GetBytesWithOffset(c, f.at, s) = BytesAt(c, f.at, s)
      BY <1>1, <2>1, BytesAreRead
    <3>3. ASSUME NEW k \in 0..(s - 1) PROVE ByteAt(b, f.at + 8 * k) = ByteAt(c, f.at + 8 * k)
      BY <3>1 DEF ByteAt
    <3>4. GetBytesWithOffset(b, f.at, s) = GetBytesWithOffset(c, f.at, s)
      BY <3>2, <3>3 DEF BytesAt
    <3>5. QED BY <1>3, <2>3, <3>4 DEF Read, s
  <2>4. CASE ~IsText(f)
    <3>1. ASSUME NEW w \in 0..(8 * s - 1) PROVE b[f.at + 8 * s - 1 - w] = c[f.at + 8 * s - 1 - w]
      <4>1. /\ f.at + 8 * s - 1 - w \in 0..(N - 1)
            /\ f.at <= f.at + 8 * s - 1 - w /\ f.at + 8 * s - 1 - w < f.at + 8 * s
        BY <1>1, <2>1
      <4>2. QED BY <4>1, <2>2
    <3>2. /\ GetUnsigned(b, s, f.at) = UnsignedAt(b, s, f.at)
          /\ GetUnsigned(c, s, f.at) = UnsignedAt(c, s, f.at)
      BY <1>1, <2>1, UnsignedIsRead
    <3>4. GetUnsigned(b, s, f.at) = GetUnsigned(c, s, f.at)
      BY <3>1, <3>2 DEF UnsignedAt
    <3>5. QED BY <1>3, <2>4, <3>4 DEF Read, s
  <2>5. QED BY <2>3, <2>4
<1>4. QED BY <1>2, <1>3

\* Writing a field leaves the other bits alone.
LEMMA WriteKeepsOthers ==
  ASSUME NEW N \in Nat, NEW b \in Buffer(N), NEW n \in Nat, NEW f, Fits(f, n, N), NEW v \in Value(f, n)
  PROVE  /\ Write(b, f, v, n) \in Buffer(N)
         /\ \A i \in 0..(N - 1) : ~InField(f, n, i) => Write(b, f, v, n)[i] = b[i]
<1> DEFINE s == Size(f.kind, n)
           w == Write(b, f, v, n)
<1>1. f \in FieldRecord /\ f.at \in Nat /\ s \in Nat /\ DOMAIN b = 0..(N - 1) /\ \A i \in 0..(N - 1) : b[i] \in BOOLEAN
  BY SizeIsNatural DEF Fits, FieldRecord, Buffer
<1>2. CASE f.kind = "nibble"
  <2>1. w = [i \in 0..(N - 1) |-> IF f.at <= i /\ i < f.at + 4 THEN b[i] \/ v[3 - (i - f.at)] ELSE b[i]]
    BY <1>1, <1>2 DEF Write, OrNibble
  <2>2. QED BY <1>1, <1>2, <2>1 DEF InField, Width, Buffer
<1>3. CASE f.kind # "nibble" /\ IsText(f)
  <2>1. v \in Bytes(s)
    BY <1>3 DEF Value, Bytes
  <2>2. w = [i \in 0..(N - 1) |-> IF f.at <= i /\ i < f.at + 8 * s
                                  THEN v[(i - f.at) \div 8][(i - f.at) % 8] ELSE b[i]]
    BY <1>1, <1>3 DEF Write, SetBufferValue
  <2> HIDE DEF s
  <2>3. ASSUME NEW i \in 0..(N - 1), f.at <= i, i < f.at + 8 * s
        PROVE v[(i - f.at) \div 8][(i - f.at) % 8] \in BOOLEAN
    <3>1. i - f.at \in Nat /\ i - f.at < 8 * s
      BY <1>1, <2>3
    <3> DEFINE d == i - f.at
    <3> HIDE DEF d
    <3>2. d \in Nat /\ d < 8 * s => d \div 8 \in 0..(s - 1) /\ d % 8 \in 0..7
      BY <1>1
    <3>3. (i - f.at) \div 8 \in 0..(s - 1) /\ (i - f.at) % 8 \in 0..7
      BY <3>1, <3>2 DEF d
    <3>4. QED BY <2>1, <3>3 DEF Bytes, Byte
  <2>4. w \in Buffer(N)
    BY <1>1, <2>2, <2>3 DEF Buffer
  <2>5. QED BY <1>1, <1>3, <2>2, <2>4 DEF InField, Width, s
<1>4. CASE f.kind # "nibble" /\ ~IsText(f)
  <2>1. v \in Unsigned(8 * s) /\ w = SetUnsigned(b, v, s, f.at)
    BY <1>4 DEF Value, Write
  <2> HIDE DEF s, w
  <2>2. w = [i \in 0..(N - 1) |-> IF f.at <= i /\ i < f.at + 8 * s
                                  THEN v[8 * s - 1 - (i - f.at)] ELSE b[i]]
    <3>1. w = WithUnsigned(b, v, s, f.at)
      BY <1>1, <2>1, UnsignedIsWritten
    <3>2. QED BY <1>1, <3>1 DEF WithUnsigned
  <2>3. ASSUME NEW i \in 0..(N - 1), f.at <= i, i < f.at + 8 * s
        PROVE v[8 * s - 1 - (i - f.at)] \in BOOLEAN
    <3>1. 8 * s - 1 - (i - f.at) \in 0..(8 * s - 1)
      BY <1>1, <2>3
    <3>2. QED BY <2>1, <3>1 DEF Unsigned
  <2>4. w \in Buffer(N)
    BY <1>1, <2>2, <2>3 DEF Buffer
  <2>5. QED BY <1>1, <1>4, <2>2, <2>4 DEF InField, Width, s, w
<1>5. QED BY <1>2, <1>3, <1>4

Blank(b, f, n) == \A i \in DOMAIN b : InField(f, n, i) => ~b[i]

\* A field reads as it was written, if a nibble is put over zeros.
LEMMA WriteIsRead ==
  ASSUME NEW N \in Nat, NEW b \in Buffer(N), NEW n \in Nat, NEW f, Fits(f, n, N), NEW v \in Value(f, n),
         f.kind = "nibble" => Blank(b, f, n)
  PROVE  Read(Write(b, f, v, n), f, n) = v
<1> DEFINE s == Size(f.kind, n)
           w == Write(b, f, v, n)
<1>1. /\ f \in FieldRecord /\ f.at \in Nat /\ s \in Nat /\ f.at % 4 = 0 /\ f.at + Width(f, n) <= N
      /\ DOMAIN b = 0..(N - 1)
  BY SizeIsNatural DEF Fits, FieldRecord, Buffer
<1>2. w \in Buffer(N)
  BY WriteKeepsOthers
<1>3. CASE f.kind = "nibble"
  <2>1. v \in Unsigned(4)
    BY <1>3 DEF Value
  <2>2. ASSUME NEW k \in 0..3 PROVE w[f.at + 3 - k] = v[k]
    <3>0. f.at + 4 <= N
      BY <1>1, <1>3 DEF Width
    <3>1. /\ f.at + 3 - k \in 0..(N - 1) /\ f.at <= f.at + 3 - k /\ f.at + 3 - k < f.at + 4
          /\ 3 - (f.at + 3 - k - f.at) = k
      BY <1>1, <3>0
    <3>2. ~b[f.at + 3 - k]
      BY <1>1, <1>3, <3>1 DEF Blank, InField, Width
    <3>3. w[f.at + 3 - k] = (b[f.at + 3 - k] \/ v[k])
      BY <1>1, <1>3, <3>1 DEF Write, OrNibble
    <3>4. v[k] \in BOOLEAN
      BY <2>1 DEF Unsigned
    <3> HIDE DEF w
    <3>5. v[k] = TRUE \/ v[k] = FALSE
      BY <3>4, Zenon
    <3>6. CASE v[k] = TRUE
      BY <3>3, <3>6, Zenon
    <3>7. CASE v[k] = FALSE
      <4>1. (b[f.at + 3 - k] \/ v[k]) = FALSE
        BY <3>2, <3>7
      <4>2. QED BY <3>3, <3>7, <4>1, Zenon
    <3>8. QED BY <3>5, <3>6, <3>7
  <2> HIDE DEF w
  <2>3. Read(w, f, n) = [k \in 0..3 |-> w[f.at + 3 - k]]
    BY <1>3 DEF Read, GetNibble
  <2>4. v = [k \in 0..3 |-> v[k]]
    BY <2>1 DEF Unsigned
  <2>5. QED BY <2>2, <2>3, <2>4 DEF w
<1>4. CASE f.kind # "nibble" /\ IsText(f)
  <2>1. v \in Bytes(s) /\ f.at + 8 * s <= N
    BY <1>1, <1>4 DEF Value, Bytes, Width
  <2>2. w = SetBufferValue(b, v, s, f.at) /\ Read(w, f, n) = GetBytesWithOffset(w, f.at, s)
    BY <1>4 DEF Read, Write
  <2> HIDE DEF s, w
  <2>3. GetBytesWithOffset(w, f.at, s) = BytesAt(w, f.at, s)
    BY <1>1, <1>2, <2>1, BytesAreRead
  <2>4. ASSUME NEW k \in 0..(s - 1), NEW j \in 0..7 PROVE w[f.at + 8 * k + j] = v[k][j]
    <3> DEFINE i == f.at + 8 * k + j
    <3>1. /\ i \in 0..(N - 1) /\ f.at <= i /\ i < f.at + 8 * s
          /\ i - f.at = 8 * k + j /\ k \in Nat
      BY <1>1, <2>1
    <3>2. k \in Nat => (8 * k + j) \div 8 = k /\ (8 * k + j) % 8 = j
      OBVIOUS
    <3> HIDE DEF i
    <3>3. w[i] = v[(i - f.at) \div 8][(i - f.at) % 8]
      BY <1>1, <2>2, <3>1 DEF SetBufferValue
    <3>4. w[i] = v[k][j]
      BY <3>1, <3>2, <3>3
    <3>5. QED BY <3>4 DEF i
  <2>5. ASSUME NEW k \in 0..(s - 1) PROVE ByteAt(w, f.at + 8 * k) = v[k]
    <3>1. v[k] = [j \in 0..7 |-> v[k][j]]
      BY <2>1 DEF Bytes, Byte
    <3>2. QED BY <2>4, <3>1 DEF ByteAt
  <2>6. v = [k \in 0..(s - 1) |-> v[k]]
    BY <2>1 DEF Bytes
  <2>7. BytesAt(w, f.at, s) = v
    BY <2>5, <2>6 DEF BytesAt
  <2>8. QED BY <2>2, <2>3, <2>7 DEF w
<1>5. CASE f.kind # "nibble" /\ ~IsText(f)
  <2>1. v \in Unsigned(8 * s) /\ f.at + 8 * s <= N
    BY <1>1, <1>5 DEF Value, Width
  <2>2. w = SetUnsigned(b, v, s, f.at) /\ Read(w, f, n) = GetUnsigned(w, s, f.at)
    BY <1>5 DEF Read, Write
  <2> HIDE DEF s, w
  <2>3. GetUnsigned(w, s, f.at) = UnsignedAt(w, s, f.at)
    BY <1>1, <1>2, <2>1, UnsignedIsRead
  <2>4. w = WithUnsigned(b, v, s, f.at)
    BY <1>1, <2>1, <2>2, UnsignedIsWritten
  <2>5. ASSUME NEW k \in 0..(8 * s - 1) PROVE w[f.at + 8 * s - 1 - k] = v[k]
    <3> DEFINE i == f.at + 8 * s - 1 - k
    <3>1. i \in 0..(N - 1) /\ f.at <= i /\ i < f.at + 8 * s /\ 8 * s - 1 - (i - f.at) = k
      BY <1>1, <2>1
    <3> HIDE DEF i
    <3>2. w[i] = v[8 * s - 1 - (i - f.at)]
      BY <1>1, <2>4, <3>1 DEF WithUnsigned
    <3>3. QED BY <3>1, <3>2 DEF i
  <2>6. v = [k \in 0..(8 * s - 1) |-> v[k]]
    BY <2>1 DEF Unsigned
  <2>7. QED BY <2>2, <2>3, <2>5, <2>6 DEF UnsignedAt, w
<1>6. QED BY <1>3, <1>4, <1>5

-----------------------------------------------------------------------------
(* Layouts *)

Extent(t, n) == 8 * BytesOf(t, n)
Before(f, g, n) == f.at + Width(f, n) <= g.at

\* The buffer of a hello has room for the user name.
HasRoom(t, n) == t = "ClientHello" => 27 + n <= HelloBytes

\* Fields lie after the type, in order and apart from each other, and apart
\* from the checksum, and in the buffer if it has room.
LayoutOK(t, n) ==
  /\ Extent(t, n) \in Nat /\ Extent(t, n) >= 4
  /\ ChecksumAt[t] \in Nat /\ ChecksumAt[t] % 4 = 0 /\ ChecksumAt[t] + 32 <= Extent(t, n)
  /\ ChecksumAt[t] >= 4
  /\ \A i \in DOMAIN Layout[t] :
       LET f == Layout[t][i]
       IN /\ f \in FieldRecord /\ f.at % 4 = 0 /\ f.at >= 4
          /\ HasRoom(t, n) => f.at + Width(f, n) <= Extent(t, n)
          /\ f.at + Width(f, n) <= ChecksumAt[t] \/ ChecksumAt[t] + 32 <= f.at
          /\ f.kind = "short" => f.at + 32 <= Extent(t, n)
          /\ \A j \in DOMAIN Layout[t] : i < j => Before(f, Layout[t][j], n)
  /\ ~HasRoom(t, n) =>
       \E i \in DOMAIN Layout[t] : Layout[t][i].kind # "short" /\
         Layout[t][i].at + Width(Layout[t][i], n) > Extent(t, n)

LEMMA Layouts ==
  ASSUME NEW t \in Types, NEW n \in Nat, n <= MaxPayload, t \notin HasPayload => n = 0
  PROVE  LayoutOK(t, n)
<1> USE EncodingAssumption DEF LayoutOK, HasRoom, Extent, Before, Layout, ChecksumAt, BytesOf, Width, Size,
        FieldRecord, Kinds, F, ClientHelloFields, ServerHelloFields,
        FileCreationFields, FileTransferFields, FileStatusFields, AckFields, PingFields,
        TransferEndedFields, AuthRequestFields, AuthResultFields
<1>1. CASE t = "ClientHello"
  BY <1>1
<1>2. CASE t = "ServerHello"
  BY <1>2
<1>3. CASE t = "FileCreation"
  BY <1>3
<1>4. CASE t = "FileTransfer"
  BY <1>4
<1>5. CASE t = "FileStatus"
  BY <1>5
<1>6. CASE t = "Ack"
  BY <1>6
<1>7. CASE t = "Ping"
  BY <1>7
<1>8. CASE t = "TransferEnded"
  BY <1>8
<1>9. CASE t = "AuthRequest"
  BY <1>9
<1>10. CASE t = "AuthResult"
  BY <1>10
<1> HIDE DEF LayoutOK
<1>11. QED BY <1>1, <1>2, <1>3, <1>4, <1>5, <1>6, <1>7, <1>8, <1>9, <1>10, Zenon DEF Types

-----------------------------------------------------------------------------
(* Two fields *)

Apart(f, g, n) == Before(f, g, n) \/ Before(g, f, n)

LEMMA OthersAreKept ==
  ASSUME NEW N \in Nat, NEW b \in Buffer(N), NEW n \in Nat, NEW f, Fits(f, n, N), NEW v \in Value(f, n),
         NEW g, Fits(g, n, N), Apart(f, g, n)
  PROVE  /\ Read(Write(b, f, v, n), g, n) = Read(b, g, n)
         /\ Blank(b, g, n) => Blank(Write(b, f, v, n), g, n)
<1> DEFINE w == Write(b, f, v, n)
<1>1. w \in Buffer(N) /\ \A i \in 0..(N - 1) : ~InField(f, n, i) => w[i] = b[i]
  BY WriteKeepsOthers
<1> HIDE DEF w
<1>2. /\ f.at \in Nat /\ g.at \in Nat /\ Width(f, n) \in Nat /\ Width(g, n) \in Nat
  BY SizeIsNatural DEF Fits, FieldRecord
<1>3. ASSUME NEW i \in 0..(N - 1), InField(g, n, i) PROVE w[i] = b[i]
  <2>1. ~InField(f, n, i)
    BY <1>2, <1>3 DEF InField, Apart, Before
  <2>2. QED BY <1>1, <2>1
<1>4. Read(w, g, n) = Read(b, g, n)
  BY <1>1, <1>3, ReadLooksAtField
<1>5. DOMAIN w = DOMAIN b /\ DOMAIN b = 0..(N - 1)
  BY <1>1 DEF Buffer
<1>6. Blank(b, g, n) => Blank(w, g, n)
  BY <1>3, <1>5 DEF Blank
<1>7. QED BY <1>4, <1>6 DEF w

\* The last of two values in the checksum's field is all that is left.
LEMMA LastValueStays ==
  ASSUME NEW N \in Nat, NEW b \in Buffer(N), NEW o \in Nat, NEW v \in Unsigned(32), NEW u \in Unsigned(32)
  PROVE  SetUnsigned(SetUnsigned(b, u, 4, o), v, 4, o) = SetUnsigned(b, v, 4, o)
<1>1. u \in Unsigned(8 * 4) /\ v \in Unsigned(8 * 4) /\ 4 \in Nat
  OBVIOUS
<1>2. SetUnsigned(b, u, 4, o) = WithUnsigned(b, u, 4, o)
  BY <1>1, UnsignedIsWritten
<1>3. WithUnsigned(b, u, 4, o) \in Buffer(N)
  <2>1. ASSUME NEW i \in 0..(N - 1), o <= i, i < o + 32 PROVE u[8 * 4 - 1 - (i - o)] \in BOOLEAN
    BY <2>1 DEF Unsigned
  <2>2. QED BY <2>1 DEF WithUnsigned, Buffer
<1>4. SetUnsigned(WithUnsigned(b, u, 4, o), v, 4, o) = WithUnsigned(WithUnsigned(b, u, 4, o), v, 4, o)
  BY <1>1, <1>3, UnsignedIsWritten
<1>5. SetUnsigned(b, v, 4, o) = WithUnsigned(b, v, 4, o)
  BY <1>1, UnsignedIsWritten
<1>6. WithUnsigned(WithUnsigned(b, u, 4, o), v, 4, o) = WithUnsigned(b, v, 4, o)
  BY DEF WithUnsigned, Buffer
<1>7. QED BY <1>2, <1>4, <1>5, <1>6

-----------------------------------------------------------------------------
(* The invariant *)

TypeField == F("nibble", 0)
ChecksumField == F("int", ChecksumAt[type])
Bits == Extent(type, length)

\* A nibble is put over the zeros of the allocation.
RestIsBlank ==
  \A i \in DOMAIN Fields :
    (i > done /\ Fields[i].kind = "nibble" /\ Inside(Fields[i])) => Blank(buf, Fields[i], length)

\* What was written has its place in the buffer.
WrittenInside == \A i \in 1..done : Inside(Fields[i])

Inv ==
  /\ TypeOK
  /\ FieldsIntact
  /\ WrittenInside
  /\ phase = "filling" => RestIsBlank
  /\ phase # "filling" => done = Len(Fields)
  /\ phase = "sent" => /\ summed = WithoutChecksum(buf)
                       /\ GetUnsigned(buf, 4, ChecksumAt[type]) = crc
  /\ Accepted

\* Where the fields of the message lie.
Placed ==
  /\ length \in Nat /\ Bits \in Nat /\ buf \in Buffer(Bits)
  /\ Len(Fields) \in Nat /\ DOMAIN Fields = 1..Len(Fields)
  /\ Fits(TypeField, length, Bits) /\ Fits(ChecksumField, length, Bits)
  /\ Apart(TypeField, ChecksumField, length)
  /\ \A i \in DOMAIN Fields : /\ Inside(Fields[i]) => Fits(Fields[i], length, Bits)
                              /\ Apart(Fields[i], TypeField, length)
                              /\ Apart(ChecksumField, Fields[i], length)
                              /\ Apart(TypeField, Fields[i], length)
                              /\ \A j \in DOMAIN Fields : i < j => /\ Apart(Fields[i], Fields[j], length)
                                                                   /\ Apart(Fields[j], Fields[i], length)

LEMMA FieldsAreSequences ==
  ASSUME NEW t \in Types
  PROVE  Len(Layout[t]) \in Nat /\ DOMAIN Layout[t] = 1..Len(Layout[t])
<1> USE DEF Layout, ClientHelloFields, ServerHelloFields,
        FileCreationFields, FileTransferFields, FileStatusFields, AckFields, PingFields,
        TransferEndedFields, AuthRequestFields, AuthResultFields
<1>1. CASE t \in {"ClientHello", "ServerHello"}
  BY <1>1
<1>2. CASE t \in {"FileCreation", "FileTransfer", "FileStatus"}
  BY <1>2
<1>3. CASE t \in {"Ack", "Ping", "TransferEnded"}
  BY <1>3
<1>4. CASE t \in {"AuthRequest", "AuthResult"}
  BY <1>4
<1>5. QED BY <1>1, <1>2, <1>3, <1>4 DEF Types

LEMMA WhereFieldsLie == TypeOK => Placed
<1> SUFFICES ASSUME TypeOK PROVE Placed
  OBVIOUS
<1>1. /\ type \in Types /\ length \in Nat /\ length <= MaxPayload /\ (type \notin HasPayload => length = 0)
      /\ buf \in Buffer(Bits)
  BY EncodingAssumption DEF TypeOK, Bits, Extent, Buffer
<1>2. LayoutOK(type, length)
  BY <1>1, Layouts
<1>3. Len(Fields) \in Nat /\ DOMAIN Fields = 1..Len(Fields)
  BY <1>1, FieldsAreSequences DEF Fields
<1>4. Bits \in Nat /\ Bits >= 4 /\ Bits = Extent(type, length)
  BY <1>2 DEF LayoutOK, Bits
<1> DEFINE at == ChecksumAt[type]
<1>5. at \in Nat /\ at % 4 = 0 /\ at + 32 <= Bits /\ at >= 4
  BY <1>2, <1>4 DEF LayoutOK
<1>6. ChecksumField = [kind |-> "int", at |-> at] /\ TypeField = [kind |-> "nibble", at |-> 0]
  BY DEF ChecksumField, TypeField, F
<1> HIDE DEF at
<1>7. /\ ChecksumField.at = at /\ Width(ChecksumField, length) = 32 /\ ChecksumField \in FieldRecord
      /\ TypeField.at = 0 /\ Width(TypeField, length) = 4 /\ TypeField \in FieldRecord
  BY <1>5, <1>6 DEF Width, Size, FieldRecord, Kinds
<1>8. Fits(TypeField, length, Bits) /\ Fits(ChecksumField, length, Bits)
  BY <1>4, <1>5, <1>7 DEF Fits
<1>9. Apart(TypeField, ChecksumField, length)
  BY <1>5, <1>7 DEF Apart, Before
<1>10. ASSUME NEW i \in DOMAIN Fields
       PROVE /\ Inside(Fields[i]) => Fits(Fields[i], length, Bits)
             /\ Fields[i].at >= 4
             /\ Fields[i].at + Width(Fields[i], length) <= at \/ at + 32 <= Fields[i].at
             /\ \A j \in DOMAIN Fields : i < j => Before(Fields[i], Fields[j], length)
  <2>1. i \in DOMAIN Layout[type]
    BY DEF Fields
  <2>2. QED BY <1>2, <1>4, <2>1 DEF LayoutOK, Fits, Fields, Inside, Extent, at
<1>11. ASSUME NEW i \in DOMAIN Fields
       PROVE Apart(Fields[i], TypeField, length) /\ Apart(TypeField, Fields[i], length)
             /\ Apart(ChecksumField, Fields[i], length)
  BY <1>5, <1>7, <1>10 DEF Apart, Before
<1>12. QED BY <1>1, <1>3, <1>4, <1>8, <1>9, <1>10, <1>11, Zenon DEF Placed, Apart

\* What the constructor gets is a value of each field's kind.
LEMMA NumberIsUnsigned == ASSUME NEW n, NEW width \in Nat PROVE Number(n, width) \in Unsigned(width)
BY DEF Number, Unsigned

LEMMA IsIn == ASSUME NEW x, NEW p PROVE (x \in p) \in BOOLEAN
OBVIOUS

LEMMA FilledIsValue ==
  ASSUME NEW f \in FieldRecord, NEW n \in Nat, NEW p
  PROVE  Filled(f, n, p) \in Value(f, n)
<1>1. CASE IsText(f)
  <2>1. f.kind # "nibble"
    BY <1>1 DEF IsText
  <2>2. \A k : [j \in 0..7 |-> (8 * k + j) % 64 \in p] \in Byte
    BY IsIn DEF Byte
  <2>3. QED BY <1>1, <2>1, <2>2, Zenon DEF Filled, Value
<1>2. CASE ~IsText(f)
  <2>1. Value(f, n) = Unsigned(Width(f, n))
    BY <1>2 DEF Value, Width
  <2>2. [w \in 0..(Width(f, n) - 1) |-> w \in p] \in Unsigned(Width(f, n))
    BY IsIn DEF Unsigned
  <2>3. QED BY <1>2, <2>1, <2>2, Zenon DEF Filled
<1>3. QED BY <1>1, <1>2

LEMMA LengthIsNumber ==
  ASSUME NEW t \in Types, NEW n, LengthField[t] # 0
  PROVE  LET f == Layout[t][LengthField[t]]
         IN ~IsText(f) /\ Value(f, n) = Unsigned(Width(f, n)) /\ Width(f, n) \in Nat
<1> DEFINE f == Layout[t][LengthField[t]]
<1>1. f.kind \in {"int", "short", "long"}
  <2> USE DEF Layout, LengthField, F, ClientHelloFields, ServerHelloFields,
        FileCreationFields, FileTransferFields, FileStatusFields, AckFields, PingFields,
        TransferEndedFields, AuthRequestFields, AuthResultFields
  <2>1. CASE t = "ClientHello"
    BY <2>1 DEF Types
  <2>2. CASE t \in {"FileCreation", "FileTransfer", "FileStatus"}
    BY <2>2 DEF Types
  <2>3. CASE t \in {"Ping", "AuthRequest"}
    BY <2>3 DEF Types
  <2>4. t \in {"ClientHello", "FileCreation", "FileTransfer", "FileStatus", "Ping", "AuthRequest"}
    BY DEF Types
  <2>5. QED BY <2>1, <2>2, <2>3, <2>4
<1> HIDE DEF f
<1>2. ~IsText(f) /\ Value(f, n) = Unsigned(Width(f, n)) /\ Width(f, n) \in Nat
  BY <1>1 DEF IsText, Value, Width, Size
<1>3. QED BY <1>2 DEF f

-----------------------------------------------------------------------------
LEMMA InitInv == Init => Inv
<1> SUFFICES ASSUME Init PROVE Inv
  OBVIOUS
<1> USE DEF Init
<1>1. type \in Types /\ length \in Nat /\ length <= MaxPayload /\ (type \notin HasPayload => length = 0)
  BY EncodingAssumption DEF Construct
<1>2. LayoutOK(type, length)
  BY <1>1, Layouts
<1> DEFINE zeros == [i \in 0..(Bits - 1) |-> FALSE]
           id == Number(TypeId[type], 4)
<1>3. Bits \in Nat /\ zeros \in Buffer(Bits) /\ id \in Unsigned(4)
  BY <1>2, NumberIsUnsigned DEF LayoutOK, Bits, Buffer
<1>4. buf = Write(zeros, TypeField, id, length)
  BY DEF Construct, Bits, Extent, Write, TypeField, F
<1>5. id \in Value(TypeField, length) /\ Fits(TypeField, length, Bits) /\ TypeField.kind = "nibble"
  BY <1>2, <1>3 DEF Value, TypeField, F, Fits, FieldRecord, Kinds, LayoutOK, Width, Bits
<1>6. Blank(zeros, TypeField, length) /\ \A i \in DOMAIN Fields : Blank(zeros, Fields[i], length)
  BY DEF Blank
<1> HIDE DEF zeros, id
<1>7. buf \in Buffer(Bits) /\ Read(buf, TypeField, length) = id
  BY <1>1, <1>3, <1>4, <1>5, <1>6, WriteKeepsOthers, WriteIsRead
<1>8. GetNibble(buf, 0) = Number(TypeId[type], 4)
  BY <1>7 DEF Read, TypeField, F, id
<1>9. \A i \in DOMAIN Fields : given[i] \in Value(Fields[i], length)
  <2>1. PICK p \in [DOMAIN Fields -> Pattern] :
          given = [i \in DOMAIN Fields |->
                     IF i = LengthField[type] THEN Number(length, Width(Fields[i], length))
                     ELSE Filled(Fields[i], length, p[i])]
    BY DEF Construct
  <2> TAKE i \in DOMAIN Fields
  <2>2. Fields[i] \in FieldRecord
    BY <1>2 DEF LayoutOK, Fields
  <2>3. CASE i = LengthField[type]
    <3>1. LengthField[type] # 0
      BY <1>1, <2>3, FieldsAreSequences DEF Fields
    <3>2. Value(Fields[i], length) = Unsigned(Width(Fields[i], length)) /\ Width(Fields[i], length) \in Nat
      BY <1>1, <2>3, <3>1, LengthIsNumber DEF Fields
    <3>3. given[i] = Number(length, Width(Fields[i], length))
      BY <2>1, <2>3
    <3>4. QED BY <3>2, <3>3, NumberIsUnsigned
  <2>4. CASE i # LengthField[type]
    <3>1. given[i] = Filled(Fields[i], length, p[i])
      BY <2>1, <2>4
    <3>2. QED BY <1>1, <2>2, <3>1, FilledIsValue
  <2>5. QED BY <2>3, <2>4
<1>10. TypeOK
  <2>1. crc \in Unsigned(32)
    BY NumberIsUnsigned
  <2>2. 0 \in 0..Len(Fields)
    BY <1>1, FieldsAreSequences DEF Fields
  <2>3. length \in IF type \in HasPayload THEN 0..MaxPayload ELSE {0}
    BY DEF Construct
  <2>4. QED BY <1>1, <1>7, <1>9, <2>1, <2>2, <2>3 DEF TypeOK, Bits, Extent, Buffer
<1>11. Placed
  BY <1>10, WhereFieldsLie
<1>12. RestIsBlank
  <2>1. \A i \in DOMAIN Fields : Inside(Fields[i]) => Blank(buf, Fields[i], length)
    BY <1>3, <1>4, <1>5, <1>6, <1>11, OthersAreKept DEF Placed
  <2>2. QED BY <2>1 DEF RestIsBlank
<1>13. FieldsIntact
  BY <1>8 DEF FieldsIntact
<1>14. QED BY <1>10, <1>12, <1>13 DEF Inv, Accepted, WrittenInside

LEMMA WriteFieldKeepsInv == Inv /\ WriteField => Inv'
<1> SUFFICES ASSUME Inv, WriteField PROVE Inv'
  OBVIOUS
<1>1. TypeOK /\ Placed /\ FieldsIntact /\ RestIsBlank /\ Accepted /\ WrittenInside
  BY WhereFieldsLie DEF Inv, WriteField
<1>2. /\ type' = type /\ length' = length /\ given' = given /\ phase' = phase /\ phase = "filling"
      /\ done' = done + 1 /\ UNCHANGED <<summed, crc, valid>>
  BY DEF WriteField
<1>3. Fields' = Fields /\ Bits' = Bits
  BY <1>2 DEF Fields, Bits, Extent
<1> DEFINE k == done + 1
           f == Fields[k]
<1>4. k \in DOMAIN Fields /\ done \in Nat
  BY <1>1 DEF Placed, TypeOK, WriteField
<1>5. buf' = Write(buf, f, given[k], length) /\ given[k] \in Value(f, length)
  BY <1>1, <1>4 DEF WriteField, TypeOK
<1>6. Fits(f, length, Bits) /\ (f.kind = "nibble" => Blank(buf, f, length))
  BY <1>1, <1>4 DEF Placed, RestIsBlank, WriteField
<1> HIDE DEF f
<1>7. buf' \in Buffer(Bits) /\ Read(buf', f, length) = given[k]
  BY <1>1, <1>5, <1>6, WriteKeepsOthers, WriteIsRead DEF Placed
<1>8. Read(buf', TypeField, length) = Read(buf, TypeField, length)
  BY <1>1, <1>4, <1>5, <1>6, OthersAreKept DEF Placed, f
<1>9. ASSUME NEW i \in DOMAIN Fields, i # k, Inside(Fields[i])
      PROVE /\ Read(buf', Fields[i], length) = Read(buf, Fields[i], length)
            /\ Blank(buf, Fields[i], length) => Blank(buf', Fields[i], length)
  <2>1. i < k \/ k < i
    BY <1>1, <1>4, <1>9 DEF Placed
  <2>2. Apart(f, Fields[i], length) /\ Fits(Fields[i], length, Bits)
    BY <1>1, <1>4, <1>9, <2>1 DEF Placed, f
  <2>3. QED BY <1>1, <1>5, <1>6, <2>2, OthersAreKept DEF Placed
<1>10. TypeOK'
  <2>1. done' \in 0..Len(Fields)
    BY <1>1, <1>2, <1>4 DEF Placed
  <2>2. QED BY <1>1, <1>2, <1>3, <1>7, <2>1 DEF TypeOK, Buffer, Bits, Extent
<1>11. FieldsIntact'
  <2>1. GetNibble(buf', 0) = GetNibble(buf, 0)
    BY <1>8 DEF Read, TypeField, F
  <2>2. ASSUME NEW i \in 1..done' PROVE Read(buf', Fields[i], length) = given[i]
    <3>1. i \in DOMAIN Fields /\ (i = k \/ (i # k /\ i \in 1..done))
      BY <1>1, <1>2, <1>4 DEF Placed
    <3>2. CASE i = k
      BY <1>7, <3>2 DEF f
    <3>3. CASE i # k /\ i \in 1..done
      BY <1>1, <1>9, <3>1, <3>3 DEF FieldsIntact, WrittenInside
    <3>4. QED BY <3>1, <3>2, <3>3
  <2>3. GetNibble(buf, 0) = Number(TypeId[type], 4)
    BY <1>1 DEF FieldsIntact
  <2>4. QED BY <1>2, <1>3, <2>1, <2>2, <2>3 DEF FieldsIntact
<1>12. RestIsBlank'
  <2>1. ASSUME NEW i \in DOMAIN Fields, i > k, Fields[i].kind = "nibble",
                    Inside(Fields[i])
             PROVE Blank(buf', Fields[i], length)
    <3>1. i # k /\ i > done
      BY <1>1, <1>4, <2>1 DEF Placed
    <3>2. QED BY <1>1, <1>9, <2>1, <3>1 DEF RestIsBlank
  <2>2. QED BY <1>2, <1>3, <2>1 DEF RestIsBlank, Inside
<1>13. WrittenInside'
  <2>1. ASSUME NEW i \in 1..k PROVE Inside(Fields[i])
    <3>1. i = k \/ i \in 1..done
      BY <1>4
    <3>2. QED BY <1>1, <3>1 DEF WrittenInside, WriteField
  <2>2. QED BY <1>2, <1>3, <2>1 DEF WrittenInside, Inside
<1>14. QED BY <1>2, <1>10, <1>11, <1>12, <1>13 DEF Inv, Accepted

\* Writing the checksum's field leaves type and fields readable.
LEMMA ChecksumIsApart ==
  ASSUME Placed, NEW b \in Buffer(Bits), NEW v \in Unsigned(32)
  PROVE  LET w == SetUnsigned(b, v, 4, ChecksumAt[type])
         IN /\ w \in Buffer(Bits)
            /\ GetNibble(w, 0) = GetNibble(b, 0)
            /\ \A i \in DOMAIN Fields : Inside(Fields[i]) => Read(w, Fields[i], length) = Read(b, Fields[i], length)
            /\ GetUnsigned(w, 4, ChecksumAt[type]) = v
<1> DEFINE w == Write(b, ChecksumField, v, length)
<1>1. v \in Value(ChecksumField, length) /\ ChecksumField.kind # "nibble"
  BY DEF Value, ChecksumField, F, IsText, Size
<1>2. w = SetUnsigned(b, v, 4, ChecksumAt[type])
  BY DEF Write, ChecksumField, F, IsText, Size
<1>3. /\ w \in Buffer(Bits) /\ Read(w, ChecksumField, length) = v
  BY <1>1, WriteKeepsOthers, WriteIsRead DEF Placed
<1>4. /\ Read(w, TypeField, length) = Read(b, TypeField, length)
      /\ \A i \in DOMAIN Fields : Inside(Fields[i]) => Read(w, Fields[i], length) = Read(b, Fields[i], length)
  <2>1. Apart(ChecksumField, TypeField, length)
    BY DEF Placed, Apart
  <2>2. QED BY <1>1, <2>1, OthersAreKept DEF Placed
<1>5. GetNibble(w, 0) = GetNibble(b, 0)
  BY <1>4 DEF Read, TypeField, F
<1>6. GetUnsigned(w, 4, ChecksumAt[type]) = v
  BY <1>3 DEF Read, ChecksumField, F, IsText, Size
<1>7. QED BY <1>2, <1>3, <1>4, <1>5, <1>6

LEMMA AddChecksumKeepsInv == Inv /\ AddChecksum => Inv'
<1> SUFFICES ASSUME Inv, AddChecksum PROVE Inv'
  OBVIOUS
<1>1. TypeOK /\ Placed /\ FieldsIntact /\ WrittenInside /\ buf \in Buffer(Bits)
  BY WhereFieldsLie DEF Inv, Placed
<1>2. /\ type' = type /\ length' = length /\ given' = given /\ phase' = "sent" /\ done' = done
      /\ done = Len(Fields) /\ valid' = valid
  BY DEF AddChecksum
<1>3. Fields' = Fields /\ Bits' = Bits
  BY <1>2 DEF Fields, Bits, Extent
<1> DEFINE at == ChecksumAt[type]
           zero == Number(0, 32)
           clear == SetUnsigned(buf, zero, 4, at)
<1>4. summed' = clear /\ buf' = SetUnsigned(clear, crc', 4, at)
  BY DEF AddChecksum, WithoutChecksum
<1>5. zero \in Unsigned(32)
  BY NumberIsUnsigned
<1>6. crc' \in Unsigned(32)
  <2>1. F("int", 0) \in FieldRecord /\ Value(F("int", 0), 0) = Unsigned(32)
    BY DEF F, FieldRecord, Kinds, Value, IsText, Size
  <2>2. QED BY <2>1, FilledIsValue DEF AddChecksum
<1> HIDE DEF zero, at
<1>7. /\ clear \in Buffer(Bits)
      /\ GetNibble(clear, 0) = GetNibble(buf, 0)
      /\ \A i \in DOMAIN Fields : Inside(Fields[i]) => Read(clear, Fields[i], length) = Read(buf, Fields[i], length)
  BY <1>1, <1>5, ChecksumIsApart DEF at
<1>8. WithoutChecksum(buf') = summed' /\ WithoutChecksum(buf)' = summed'
  <2>1. SetUnsigned(SetUnsigned(clear, crc', 4, at), zero, 4, at) = SetUnsigned(clear, zero, 4, at)
    <3>1. at \in Nat
      BY <1>1 DEF Placed, Fits, ChecksumField, F, FieldRecord, at
    <3>2. Bits \in Nat
      BY <1>1 DEF Placed
    <3>3. QED BY <1>5, <1>6, <1>7, <3>1, <3>2, LastValueStays
  <2>2. SetUnsigned(clear, zero, 4, at) = clear
    <3>1. at \in Nat
      BY <1>1 DEF Placed, Fits, ChecksumField, F, FieldRecord, at
    <3>2. Bits \in Nat
      BY <1>1 DEF Placed
    <3>3. QED BY <1>1, <1>5, <3>1, <3>2, LastValueStays
  <2>3. QED BY <1>2, <1>4, <2>1, <2>2 DEF WithoutChecksum, zero, at
<1> HIDE DEF clear
<1>9. /\ buf' \in Buffer(Bits)
      /\ GetNibble(buf', 0) = GetNibble(buf, 0)
      /\ \A i \in DOMAIN Fields : Inside(Fields[i]) => Read(buf', Fields[i], length) = Read(buf, Fields[i], length)
      /\ GetUnsigned(buf', 4, at) = crc'
  BY <1>1, <1>4, <1>6, <1>7, ChecksumIsApart DEF at
<1>10. TypeOK'
  BY <1>1, <1>2, <1>3, <1>6, <1>9 DEF TypeOK, Buffer, Bits, Extent
<1>11. FieldsIntact'
  BY <1>1, <1>2, <1>3, <1>9 DEF FieldsIntact, WrittenInside, Placed
<1>12. WrittenInside'
  BY <1>1, <1>2, <1>3 DEF WrittenInside, Inside
<1>13. QED BY <1>2, <1>3, <1>8, <1>9, <1>10, <1>11, <1>12 DEF Inv, Accepted, at

LEMMA IsChecksumValidKeepsInv == Inv /\ IsChecksumValid => Inv'
<1> SUFFICES ASSUME Inv, IsChecksumValid PROVE Inv'
  OBVIOUS
<1>1. TypeOK /\ Placed /\ FieldsIntact /\ WrittenInside /\ buf \in Buffer(Bits)
  BY WhereFieldsLie DEF Inv, Placed
<1>2. /\ type' = type /\ length' = length /\ given' = given /\ phase' = "received" /\ done' = done
      /\ phase = "sent" /\ crc' = crc /\ summed' = summed
  BY DEF IsChecksumValid
<1>3. Fields' = Fields /\ Bits' = Bits /\ done = Len(Fields)
  BY <1>2 DEF Fields, Bits, Extent, Inv
<1>4. buf' = SetUnsigned(buf, Number(0, 32), 4, ChecksumAt[type]) /\ Number(0, 32) \in Unsigned(32)
  BY NumberIsUnsigned DEF IsChecksumValid, WithoutChecksum
<1>5. /\ buf' \in Buffer(Bits)
      /\ GetNibble(buf', 0) = GetNibble(buf, 0)
      /\ \A i \in DOMAIN Fields : Inside(Fields[i]) => Read(buf', Fields[i], length) = Read(buf, Fields[i], length)
  BY <1>1, <1>4, ChecksumIsApart
<1>6. valid' = TRUE
  BY <1>2 DEF IsChecksumValid, Inv
<1>7. TypeOK'
  BY <1>1, <1>2, <1>3, <1>5, <1>6 DEF TypeOK, Buffer, Bits, Extent
<1>8. FieldsIntact'
  BY <1>1, <1>2, <1>3, <1>5 DEF FieldsIntact, WrittenInside, Placed
<1>9. WrittenInside'
  BY <1>1, <1>2, <1>3 DEF WrittenInside, Inside
<1>10. QED BY <1>2, <1>3, <1>6, <1>7, <1>8, <1>9 DEF Inv, Accepted

LEMMA NextInv == Inv /\ [Next]_vars => Inv'
<1> SUFFICES ASSUME Inv, [Next]_vars PROVE Inv'
  OBVIOUS
<1>1. CASE WriteField
  BY <1>1, WriteFieldKeepsInv
<1>2. CASE AddChecksum
  BY <1>2, AddChecksumKeepsInv
<1>3. CASE IsChecksumValid
  BY <1>3, IsChecksumValidKeepsInv
<1>4. CASE UNCHANGED vars
  BY <1>4 DEF vars, Inv, TypeOK, FieldsIntact, RestIsBlank, WrittenInside, Inside, Accepted, WithoutChecksum, Fields
<1>5. QED BY <1>1, <1>2, <1>3, <1>4 DEF Next

-----------------------------------------------------------------------------
\* The invariant: what has been written reads back, the nibbles still to be
\* written are blank, and a sent buffer carries the checksum of the rest of it.
THEOREM Invariance == Spec => []Inv
<1>1. QED BY InitInv, NextInv, PTL DEF Spec

\* Every field and the type read back as they were given to the constructor,
\* after createBuffer and after isChecksumValid: no write of createBuffer
\* touches the bits of another field.
THEOREM FieldsStayIntact == Spec => []FieldsIntact
<1>1. Inv => FieldsIntact
  BY DEF Inv
<1>2. QED BY <1>1, Invariance, PTL

\* A datagram that arrives as it was sent is never declined by its checksum.
THEOREM SentIsAccepted == Spec => []Accepted
<1>1. Inv => Accepted
  BY DEF Inv
<1>2. QED BY <1>1, Invariance, PTL

\* The size createBuffer computes by hand has room for every access to a
\* message, whatever its payload, except for the user name of a hello: the
\* write of a name that is too long for the fixed buffer passes its end.
THEOREM AccessesInBounds == Spec => []InBounds
<1>1. Inv => InBounds
  <2> SUFFICES ASSUME Inv PROVE InBounds
    OBVIOUS
  <2>1. type \in Types /\ length \in Nat /\ length <= MaxPayload /\ (type \notin HasPayload => length = 0)
    BY EncodingAssumption DEF Inv, TypeOK
  <2>2. LayoutOK(type, length)
    BY <2>1, Layouts
  <2>3. NameFits <=> HasRoom(type, length)
    BY DEF NameFits, HasRoom
  <2>4. CASE NameFits
    BY <2>2, <2>3, <2>4 DEF LayoutOK, InBounds, Extent, Fields, ReadBits
  <2>5. CASE ~NameFits
    <3>1. PICK i \in DOMAIN Fields : /\ Fields[i].kind # "short"
                                    /\ Fields[i].at + Width(Fields[i], length) > Extent(type, length)
      BY <2>2, <2>3, <2>5 DEF LayoutOK, Fields
    <3>2. Fields[i].at \in Nat /\ Width(Fields[i], length) \in Nat /\ Extent(type, length) \in Nat
      BY <2>1, <2>2, SizeIsNatural DEF LayoutOK, Fields, FieldRecord
    <3>3. ~(Fields[i].at + ReadBits(Fields[i]) <= Extent(type, length))
      BY <3>1, <3>2 DEF ReadBits
    <3>4. ChecksumAt[type] + 32 <= Extent(type, length)
      BY <2>2 DEF LayoutOK
    <3>5. QED BY <2>5, <3>3, <3>4 DEF InBounds, Extent
  <2>6. QED BY <2>4, <2>5
<1>2. QED BY <1>1, Invariance, PTL

=============================================================================
