---------------------------- MODULE NextPartProofs ----------------------------
(***************************************************************************)
(* NextPart keeps its intervals in order and implements the set of PartSet, *)
(* for files of any number of parts.                                       *)
(***************************************************************************)
EXTENDS NextPart, SequenceTheorems, WellFoundedInduction, TLAPS

(***************************************************************************)
(* That the end node of the list is never taken for an interval is a       *)
(* matter of counting: intervals that are in order and apart reach at      *)
(* least as high as there are intervals before them.  Said of neighbours   *)
(* this needs an induction; said of any two intervals it is preserved.     *)
(***************************************************************************)
Apart(c) ==
  /\ c \in Seq(Interval)
  /\ \A i \in 1..Len(c) : c[i].first <= c[i].second
  /\ \A i, j \in 1..Len(c) : i < j => c[i].second + (j - i) <= c[j].first

\* Parts are numbers.
LEMMA PartIsNat == ASSUME NEW p \in Part PROVE p \in Nat /\ p <= MaxPart /\ MaxPart \in Nat
BY NextPartAssumption DEF Part

\* An interval of the list begins no lower than the number of those before it.
LEMMA Counted ==
  ASSUME NEW c, Apart(c), NEW i \in 1..Len(c)
  PROVE  /\ Len(c) \in Nat
         /\ c[i] = [first |-> c[i].first, second |-> c[i].second]
         /\ c[i].first \in Part /\ c[i].second \in Part /\ c[i].first <= c[i].second
         /\ c[i].first \in Nat /\ c[i].second \in Nat
         /\ i - 1 <= c[i].first
<1>0. c \in Seq(Interval) /\ Len(c) \in Nat
  BY LenProperties DEF Apart
<1>1. c[i] \in Interval
  BY <1>0, ElementOfSeq
<1>2. /\ c[i] = [first |-> c[i].first, second |-> c[i].second]
      /\ c[i].first \in Part /\ c[i].second \in Part
  BY <1>1 DEF Interval
<1>3. c[i].first \in Nat /\ c[i].second \in Nat
  BY <1>2, PartIsNat
<1>4. c[i].first <= c[i].second
  BY DEF Apart
<1>5. i - 1 <= c[i].first
  <2>1. CASE i = 1
    BY <1>3, <2>1
  <2>2. CASE i # 1
    <3>1. 1 \in 1..Len(c) /\ 1 < i
      BY <1>0, <2>2
    <3>2. c[1].second + (i - 1) <= c[i].first
      BY <3>1 DEF Apart
    <3>3. c[1] \in Interval
      BY <1>0, <3>1, ElementOfSeq
    <3>4. c[1].second \in Part
      BY <3>3 DEF Interval
    <3>5. c[1].second \in Nat
      BY <3>4, PartIsNat
    <3>. QED
      BY <1>0, <1>3, <3>2, <3>5
  <2>. QED
    BY <2>1, <2>2
<1>. QED
  BY <1>0, <1>2, <1>3, <1>4, <1>5

\* The same of all intervals at once, as numbers.
LEMMA Numbers ==
  ASSUME NEW c, Apart(c)
  PROVE  /\ Len(c) \in Nat
         /\ \A i \in 1..Len(c) : c[i].first \in Nat /\ c[i].second \in Nat /\ c[i].first <= c[i].second
         /\ \A i \in 1..Len(c) : i - 1 <= c[i].first
         /\ \A i \in 1..Len(c), j \in 1..Len(c) : i < j => c[i].second + (j - i) <= c[j].first
<1>1. Len(c) \in Nat
  BY LenProperties DEF Apart
<1>2. ASSUME NEW i \in 1..Len(c)
      PROVE c[i].first \in Nat /\ c[i].second \in Nat /\ c[i].first <= c[i].second /\ i - 1 <= c[i].first
  BY Counted
<1>3. \A i \in 1..Len(c), j \in 1..Len(c) : i < j => c[i].second + (j - i) <= c[j].first
  BY DEF Apart
<1>. QED
  BY <1>1, <1>2, <1>3

\* Distances add up.
LEMMA Spaced ==
  ASSUME NEW x \in Int, NEW y \in Int, NEW p \in Int, NEW i \in Int, NEW j \in Int, NEW k \in Int,
         x + (k - i) <= p, p + (j - k) <= y
  PROVE  x + (j - i) <= y
OBVIOUS

\* Two intervals one above the other span what lies between them.
LEMMA Climbing ==
  ASSUME NEW x \in Nat, NEW y \in Nat, NEW v \in Nat, NEW w \in Nat, x <= y, y + 1 <= v, v <= w
  PROVE  x <= w
OBVIOUS

\* Two intervals and the number between them.
LEMMA OneToTheNext ==
  ASSUME NEW x \in Nat, NEW y \in Nat, NEW v \in Nat, NEW w \in Nat, NEW p \in Nat, NEW q \in Nat,
         x <= y, y + 1 = p, v = p + 1, v <= w
  PROVE  x <= q /\ q <= w <=> (x <= q /\ q <= y) \/ (v <= q /\ q <= w) \/ q = p
OBVIOUS

\* What leaves room for one more leaves room.
LEMMA Nearer ==
  ASSUME NEW x \in Nat, NEW y \in Nat, NEW i \in Nat, NEW j \in Nat, x + ((j + 1) - i) <= y
  PROVE  x + (j - i) <= y
OBVIOUS

\* The parts of a list, with the places named.
LEMMA MemberOfParts ==
  ASSUME NEW c, Apart(c), NEW p \in Part
  PROVE  p \in PartsIn(c) <=> \E i \in 1..Len(c) : Within(c[i], p)
<1>1. DOMAIN c = 1..Len(c)
  BY LenProperties DEF Apart
<1>. QED
  BY <1>1 DEF PartsIn

\* Between a part below which the intervals before the m-th end, and each of
\* those, there is room for the intervals in between.
LEMMA RoomBelow ==
  ASSUME NEW c, Apart(c), NEW p \in Part, NEW m \in 1..(Len(c) + 1),
         m > 1 => c[m - 1].second < p
  PROVE  \A i \in 1..Len(c) : i < m => c[i].second + (m - i) <= p
<1>0. /\ Len(c) \in Nat /\ m \in Nat /\ p \in Nat
      /\ \A i \in 1..Len(c) : c[i].first \in Nat /\ c[i].second \in Nat /\ c[i].first <= c[i].second
      /\ \A i \in 1..Len(c), j \in 1..Len(c) : i < j => c[i].second + (j - i) <= c[j].first
  BY Numbers, PartIsNat
<1>1. TAKE i \in 1..Len(c)
<1>2. HAVE i < m
<1>3. /\ i \in Nat /\ c[i].second \in Nat /\ m - 1 \in 1..Len(c) /\ c[m - 1].second \in Nat
      /\ c[m - 1].first \in Nat /\ c[m - 1].first <= c[m - 1].second
  BY <1>0, <1>2
<1>4. CASE i = m - 1
  BY <1>0, <1>2, <1>3, <1>4
<1>5. CASE i < m - 1
  <2>1. c[i].second + ((m - 1) - i) <= c[m - 1].first
    BY <1>0, <1>3, <1>5
  <2>. QED
    BY <1>0, <1>2, <1>3, <2>1
<1>. QED
  BY <1>0, <1>2, <1>3, <1>4, <1>5

\* The same for the intervals from the m-th on, which begin above the part.
LEMMA RoomAbove ==
  ASSUME NEW c, Apart(c), NEW p \in Part, NEW m \in 1..(Len(c) + 1),
         m <= Len(c) => p < c[m].first
  PROVE  \A j \in 1..Len(c) : j >= m => p + (j + 1 - m) <= c[j].first
<1>0. /\ Len(c) \in Nat /\ m \in Nat /\ p \in Nat
      /\ \A i \in 1..Len(c) : c[i].first \in Nat /\ c[i].second \in Nat /\ c[i].first <= c[i].second
      /\ \A i \in 1..Len(c), j \in 1..Len(c) : i < j => c[i].second + (j - i) <= c[j].first
  BY Numbers, PartIsNat
<1>1. TAKE j \in 1..Len(c)
<1>2. HAVE j >= m
<1>3. /\ j \in Nat /\ c[j].first \in Nat /\ m \in 1..Len(c) /\ c[m].second \in Nat
      /\ c[m].first \in Nat /\ c[m].first <= c[m].second /\ p < c[m].first
  BY <1>0, <1>2
<1>4. CASE j = m
  <2>1. p + (j + 1 - m) = p + 1
    BY <1>0, <1>4
  <2>. QED
    BY <1>0, <1>3, <1>4, <2>1
<1>5. CASE j > m
  <2>1. c[m].second + (j - m) <= c[j].first
    BY <1>0, <1>3, <1>5
  <2>. QED
    BY <1>0, <1>2, <1>3, <2>1
<1>. QED
  BY <1>0, <1>2, <1>4, <1>5

\* A new interval between two others, or at an end.
LEMMA Inserted ==
  ASSUME NEW c, Apart(c), NEW p \in Part, NEW k \in 1..(Len(c) + 1),
         k > 1 => c[k - 1].second < p,
         k <= Len(c) => p < c[k].first,
         NEW r, r \in Seq(Interval), Len(r) = Len(c) + 1,
         \A i \in 1..Len(r) : r[i] = IF i < k THEN c[i] ELSE IF i = k THEN Single(p) ELSE c[i - 1]
  PROVE  Apart(r) /\ PartsIn(r) = PartsIn(c) \cup {p}
<1>0. /\ Len(c) \in Nat /\ k \in Nat /\ p \in Nat /\ k \in 1..Len(r)
      /\ r[k].first = p /\ r[k].second = p
  BY Numbers, PartIsNat DEF Single
<1>1. \A i \in 1..Len(c) : c[i].first \in Nat /\ c[i].second \in Nat /\ c[i].first <= c[i].second
  BY Numbers
<1>a. \A i \in 1..Len(c), j \in 1..Len(c) : i < j => c[i].second + (j - i) <= c[j].first
  BY Numbers
<1>b. /\ \A i \in 1..Len(r) : i < k => i \in 1..Len(c) /\ r[i] = c[i]
      /\ \A i \in 1..Len(r) : i > k => i - 1 \in 1..Len(c) /\ r[i] = c[i - 1]
      /\ \A i \in 1..Len(c) : i < k => i \in 1..Len(r) /\ r[i] = c[i]
      /\ \A i \in 1..Len(c) : i >= k => i + 1 \in 1..Len(r) /\ r[i + 1] = c[i]
  BY <1>0
<1>2. \A i \in 1..Len(c) : i < k => c[i].second + (k - i) <= p
  BY RoomBelow
<1>3. \A j \in 1..Len(c) : j >= k => p + (j + 1 - k) <= c[j].first
  BY RoomAbove
<1>4. ASSUME NEW i \in 1..Len(r) PROVE r[i].first <= r[i].second
  <2>1. CASE i < k
    BY <1>1, <1>b, <2>1
  <2>2. CASE i = k
    BY <1>0, <2>2
  <2>3. CASE i > k
    BY <1>1, <1>b, <2>3
  <2>. QED
    BY <1>0, <2>1, <2>2, <2>3
<1>5. ASSUME NEW i \in 1..Len(r), NEW j \in 1..Len(r), i < j
      PROVE  r[i].second + (j - i) <= r[j].first
  <2>1. CASE j < k
    <3>1. i \in 1..Len(c) /\ j \in 1..Len(c) /\ r[i] = c[i] /\ r[j] = c[j]
      BY <1>0, <1>b, <1>5, <2>1
    <3>. QED
      BY <1>a, <1>5, <3>1
  <2>2. CASE j = k
    BY <1>0, <1>2, <1>b, <1>5, <2>2
  <2>3. CASE j > k /\ i = k
    <3>1. p + ((j - 1) + 1 - k) <= c[j - 1].first /\ r[j] = c[j - 1] /\ c[j - 1].first \in Nat
      BY <1>0, <1>1, <1>3, <1>b, <1>5, <2>3
    <3>. QED
      BY <1>0, <2>3, <3>1
  <2>4. CASE j > k /\ i < k
    <3>1. i \in 1..Len(c) /\ j - 1 \in 1..Len(c) /\ r[i] = c[i] /\ r[j] = c[j - 1]
      BY <1>0, <1>5, <1>b, <2>4
    <3>2. c[i].second + (k - i) <= p /\ p + ((j - 1) + 1 - k) <= c[j - 1].first
      <4>1. j - 1 \in 1..Len(c) /\ j - 1 >= k
        BY <1>0, <2>4, <3>1
      <4>. QED
        BY <1>2, <1>3, <2>4, <3>1, <4>1
    <3>3. c[i].second \in Nat /\ c[j - 1].first \in Nat
      BY <1>1, <3>1
    <3>4. c[i].second + (j - i) <= c[j - 1].first
      <5>1. /\ c[i].second \in Int /\ c[j - 1].first \in Int
            /\ i \in Int /\ j \in Int /\ k \in Int /\ p \in Int
        BY <1>0, <1>5, <3>3
      <5>2. p + (j - k) <= c[j - 1].first
        <6>1. (j - 1) + 1 - k = j - k
          BY <5>1
        <6>. QED
          BY <3>2, <6>1
      <5>. QED
        BY <3>2, <5>1, <5>2, Spaced
    <3>. QED
      BY <3>1, <3>4
  <2>5. CASE j > k /\ i > k
    <3>1. i - 1 \in 1..Len(c) /\ j - 1 \in 1..Len(c) /\ r[i] = c[i - 1] /\ r[j] = c[j - 1]
      BY <1>0, <1>5, <1>b, <2>5
    <3>2. c[i - 1].second + ((j - 1) - (i - 1)) <= c[j - 1].first
      BY <1>a, <1>5, <3>1
    <3>. QED
      BY <1>0, <3>1, <3>2
  <2>. QED
    BY <1>0, <1>5, <2>1, <2>2, <2>3, <2>4, <2>5
<1>6. Apart(r)
  BY <1>4, <1>5 DEF Apart
<1>7. ASSUME NEW q \in Part
      PROVE  q \in PartsIn(r) <=> q \in PartsIn(c) \/ q = p
  <2>0. q \in Nat
    BY PartIsNat
  <2>1. Within(r[k], q) <=> q = p
    BY <1>0, <2>0 DEF Within
  <2>2. (\E i \in 1..Len(r) : i # k /\ Within(r[i], q)) <=> \E i \in 1..Len(c) : Within(c[i], q)
    <3>1. ASSUME NEW i \in 1..Len(r), i # k, Within(r[i], q) PROVE \E j \in 1..Len(c) : Within(c[j], q)
      <4>1. CASE i < k
        BY <1>b, <3>1, <4>1
      <4>2. CASE i > k
        BY <1>b, <3>1, <4>2
      <4>. QED
        BY <1>0, <3>1, <4>1, <4>2
    <3>2. ASSUME NEW j \in 1..Len(c), Within(c[j], q) PROVE \E i \in 1..Len(r) : i # k /\ Within(r[i], q)
      <4>1. CASE j < k
        BY <1>0, <1>b, <3>2, <4>1
      <4>2. CASE j >= k
        <5>1. j + 1 \in 1..Len(r) /\ j + 1 # k /\ r[j + 1] = c[j]
          BY <1>0, <1>b, <4>2
        <5>. QED
          BY <3>2, <5>1
      <4>. QED
        BY <1>0, <4>1, <4>2
    <3>. QED
      BY <3>1, <3>2
  <2>3. (\E i \in 1..Len(r) : Within(r[i], q))
         <=> q = p \/ \E i \in 1..Len(r) : i # k /\ Within(r[i], q)
    BY <1>0, <2>1
  <2>. QED
    BY <1>6, <2>2, <2>3, MemberOfParts
<1>. QED
  BY <1>6, <1>7 DEF PartsIn

\* An interval grows by the part next to it.
LEMMA Extended ==
  ASSUME NEW c, Apart(c), NEW p \in Part, NEW k \in 1..Len(c),
         k > 1 => c[k - 1].second < p,
         k < Len(c) => p < c[k + 1].first,
         NEW r, r \in Seq(Interval), Len(r) = Len(c),
         \A i \in 1..Len(r) : i # k => r[i] = c[i],
         \/ p + 1 = c[k].first /\ r[k] = [first |-> p, second |-> c[k].second]
         \/ c[k].second + 1 = p /\ r[k] = [first |-> c[k].first, second |-> p]
  PROVE  Apart(r) /\ PartsIn(r) = PartsIn(c) \cup {p}
<1>0. /\ Len(c) \in Nat /\ k \in Nat /\ p \in Nat
  BY Numbers, PartIsNat
<1>a. /\ \A i \in 1..Len(c) : c[i].first \in Nat /\ c[i].second \in Nat /\ c[i].first <= c[i].second
      /\ \A i \in 1..Len(c), j \in 1..Len(c) : i < j => c[i].second + (j - i) <= c[j].first
  BY Numbers
<1>1. /\ r[k].first \in Nat /\ r[k].second \in Nat /\ r[k].first <= r[k].second
      /\ r[k].first \in {p, c[k].first} /\ r[k].second \in {p, c[k].second}
  <2>1. c[k].first \in Nat /\ c[k].second \in Nat /\ c[k].first <= c[k].second
    BY <1>0, <1>a
  <2>. QED
    BY <1>0, <1>a, <2>1
<1>2. \A i \in 1..Len(c) : i < k => c[i].second + (k - i) <= r[k].first
  <2>1. \A i \in 1..Len(c) : i < k => c[i].second + (k - i) <= p
    <3>1. k \in 1..(Len(c) + 1)
      BY <1>0
    <3>. QED
      BY <3>1, RoomBelow
  <2>2. \A i \in 1..Len(c) : i < k => c[i].second + (k - i) <= c[k].first
    BY <1>0, <1>a
  <2>. QED
    BY <1>1, <2>1, <2>2
<1>3. \A j \in 1..Len(c) : j > k => r[k].second + (j - k) <= c[j].first
  <2>1. \A j \in 1..Len(c) : j > k => p + (j - k) <= c[j].first
    <3>1. k + 1 \in 1..(Len(c) + 1) /\ (k + 1 <= Len(c) => p < c[k + 1].first)
      BY <1>0, <1>a
    <3>2. \A j \in 1..Len(c) : j >= k + 1 => p + (j + 1 - (k + 1)) <= c[j].first
      BY <3>1, RoomAbove
    <3>3. TAKE j \in 1..Len(c)
    <3>4. HAVE j > k
    <3>5. j >= k + 1 /\ j + 1 - (k + 1) = j - k
      BY <1>0, <1>a, <3>4
    <3>. QED
      BY <3>2, <3>5
  <2>2. \A j \in 1..Len(c) : j > k => c[k].second + (j - k) <= c[j].first
    BY <1>0, <1>a
  <2>. QED
    BY <1>1, <2>1, <2>2
<1>4. ASSUME NEW i \in 1..Len(r) PROVE r[i].first <= r[i].second
  BY <1>0, <1>a, <1>1
<1>5. ASSUME NEW i \in 1..Len(r), NEW j \in 1..Len(r), i < j
      PROVE  r[i].second + (j - i) <= r[j].first
  <2>0. i \in 1..Len(c) /\ j \in 1..Len(c) /\ c[i].second + (j - i) <= c[j].first
    BY <1>0, <1>a, <1>5
  <2>1. CASE i # k /\ j # k
    <3>1. r[i] = c[i] /\ r[j] = c[j]
      BY <2>1
    <3>. QED
      BY <2>0, <3>1
  <2>2. CASE j = k
    <3>1. r[i] = c[i] /\ i < k
      BY <1>0, <1>a, <1>5, <2>2
    <3>. QED
      BY <1>2, <2>0, <2>2, <3>1
  <2>3. CASE i = k
    <3>1. r[j] = c[j] /\ j > k
      BY <1>0, <1>a, <1>5, <2>3
    <3>. QED
      BY <1>3, <2>0, <2>3, <3>1
  <2>. QED
    BY <2>1, <2>2, <2>3
<1>6. Apart(r)
  BY <1>4, <1>5 DEF Apart
<1>7. ASSUME NEW q \in Part
      PROVE  q \in PartsIn(r) <=> q \in PartsIn(c) \/ q = p
  <2>1. Within(r[k], q) <=> Within(c[k], q) \/ q = p
    <3>1. q \in Nat /\ c[k].first \in Nat /\ c[k].second \in Nat /\ c[k].first <= c[k].second
      BY <1>0, <1>a, PartIsNat
    <3>. QED
      BY <1>0, <1>a, <3>1 DEF Within
  <2>2. \A i \in 1..Len(c) : i # k => (Within(r[i], q) <=> Within(c[i], q))
    OBVIOUS
  <2>3. (\E i \in 1..Len(r) : Within(r[i], q)) <=> q = p \/ \E i \in 1..Len(c) : Within(c[i], q)
    BY <2>1, <2>2
  <2>. QED
    BY <1>6, <2>3, MemberOfParts
<1>. QED
  BY <1>6, <1>7 DEF PartsIn

\* r is c with one interval in place of the k-th and the one after it.
Joined(c, k, r) ==
  /\ r \in Seq(Interval) /\ Len(r) = Len(c) - 1
  /\ \A i \in 1..Len(r) :
       r[i] = IF i < k THEN c[i]
              ELSE IF i = k THEN [first |-> c[k].first, second |-> c[k + 1].second]
              ELSE c[i + 1]

\* Two intervals become one through the part between them.
LEMMA Merged ==
  ASSUME NEW c, Apart(c), NEW p \in Part, NEW k \in 1..Len(c), k < Len(c),
         c[k].second + 1 = p, c[k + 1].first = p + 1,
         NEW r, Joined(c, k, r)
  PROVE  Apart(r) /\ PartsIn(r) = PartsIn(c) \cup {p}
<1>j. /\ r \in Seq(Interval) /\ Len(r) = Len(c) - 1
      /\ \A i \in 1..Len(r) :
           r[i] = IF i < k THEN c[i]
                  ELSE IF i = k THEN [first |-> c[k].first, second |-> c[k + 1].second]
                  ELSE c[i + 1]
  BY DEF Joined
<1>0. /\ Len(c) \in Nat /\ k \in Nat /\ p \in Nat /\ k + 1 \in 1..Len(c) /\ k \in 1..Len(r)
  BY <1>j, Numbers, PartIsNat
<1>a. /\ \A i \in 1..Len(c) : c[i].first \in Nat /\ c[i].second \in Nat /\ c[i].first <= c[i].second
      /\ \A i \in 1..Len(c), j \in 1..Len(c) : i < j => c[i].second + (j - i) <= c[j].first
  BY Numbers
<1>1. r[k].first = c[k].first /\ r[k].second = c[k + 1].second
  BY <1>j, <1>0, <1>a
\* Where the ends of an interval of r come from.
<1>2. ASSUME NEW i \in 1..Len(r)
      PROVE  /\ i \in 1..Len(c) /\ i + 1 \in 1..Len(c)
             /\ r[i].first = IF i <= k THEN c[i].first ELSE c[i + 1].first
             /\ r[i].second = IF i < k THEN c[i].second ELSE c[i + 1].second
  <2>1. i \in Nat /\ i \in 1..Len(c) /\ i + 1 \in 1..Len(c)
    BY <1>j, <1>0, <1>a
  <2>2. CASE i < k
    <3>1. r[i] = c[i] /\ i <= k
      BY <1>j, <1>0, <2>1, <2>2
    <3>. QED
      BY <2>1, <2>2, <3>1
  <2>3. CASE i = k
    BY <1>j, <1>0, <1>1, <2>1, <2>3
  <2>4. CASE i > k
    <3>1. r[i] = c[i + 1] /\ ~(i < k) /\ ~(i <= k)
      BY <1>j, <1>0, <2>1, <2>4
    <3>. QED
      BY <2>1, <3>1
  <2>. QED
    BY <1>j, <1>0, <2>1, <2>2, <2>3, <2>4
<1>4. ASSUME NEW i \in 1..Len(r) PROVE r[i].first <= r[i].second
  <2>1. i \in 1..Len(c) /\ i + 1 \in 1..Len(c) /\ i < i + 1
    BY <1>j, <1>0, <1>a, <1>2
  <2>2. /\ c[i].first <= c[i].second /\ c[i + 1].first <= c[i + 1].second
        /\ c[i].second + ((i + 1) - i) <= c[i + 1].first
        /\ c[i].first \in Nat /\ c[i].second \in Nat
        /\ c[i + 1].first \in Nat /\ c[i + 1].second \in Nat
    BY <1>j, <1>0, <1>a, <2>1
  <2>3. c[i].first <= c[i + 1].second
    <3>1. (i + 1) - i = 1
      BY <2>1
    <3>2. c[i].second + 1 <= c[i + 1].first
      BY <2>2, <3>1
    <3>3. c[i].first <= c[i].second /\ c[i + 1].first <= c[i + 1].second
      BY <2>2
    <3>4. /\ c[i].first \in Nat /\ c[i].second \in Nat
          /\ c[i + 1].first \in Nat /\ c[i + 1].second \in Nat
      BY <2>2
    <3>. QED
      BY <3>2, <3>3, <3>4, Climbing
  <2>. QED
    BY <1>j, <1>0, <1>a, <1>2, <2>2, <2>3
<1>5. ASSUME NEW i \in 1..Len(r), NEW j \in 1..Len(r), i < j
      PROVE  r[i].second + (j - i) <= r[j].first
  <2>0. /\ i \in 1..Len(c) /\ j \in 1..Len(c) /\ i + 1 \in 1..Len(c) /\ j + 1 \in 1..Len(c)
        /\ i + 1 < j + 1 /\ i < j + 1 /\ (j + 1) - (i + 1) = j - i
    BY <1>j, <1>0, <1>a, <1>2, <1>5
  <2>1. /\ c[i].second \in Nat /\ c[j + 1].first \in Nat
        /\ c[i].second + (j - i) <= c[j].first
        /\ c[i].second + ((j + 1) - i) <= c[j + 1].first
        /\ c[i + 1].second + (j - i) <= c[j + 1].first
    BY <1>j, <1>0, <1>a, <1>5, <2>0
  <2>2. c[i].second + (j - i) <= c[j + 1].first
    <3>1. i \in Nat /\ j \in Nat
      BY <2>0
    <3>2. c[i].second \in Nat /\ c[j + 1].first \in Nat
      BY <2>1
    <3>3. c[i].second + ((j + 1) - i) <= c[j + 1].first
      BY <2>1
    <3>. QED
      BY <3>1, <3>2, <3>3, Nearer
  <2>3. CASE j <= k
    <3>1. i < k /\ r[i].second = c[i].second /\ r[j].first = c[j].first
      BY <1>j, <1>0, <1>a, <1>2, <1>5, <2>3
    <3>. QED
      BY <2>1, <3>1
  <2>4. CASE j > k
    <3>1. r[j].first = c[j + 1].first /\ r[i].second \in {c[i].second, c[i + 1].second}
      <4>1. ~(j <= k) /\ (IF i < k THEN c[i].second ELSE c[i + 1].second) \in {c[i].second, c[i + 1].second}
        BY <1>j, <1>0, <2>0, <2>4
      <4>2. r[j].first = IF j <= k THEN c[j].first ELSE c[j + 1].first
        BY <1>2
      <4>3. r[i].second = IF i < k THEN c[i].second ELSE c[i + 1].second
        BY <1>2
      <4>. QED
        BY <4>1, <4>2, <4>3
    <3>. QED
      BY <2>1, <2>2, <3>1
  <2>. QED
    BY <1>j, <1>0, <1>a, <2>3, <2>4
<1>6. Apart(r)
  BY <1>j, <1>4, <1>5 DEF Apart
<1>7. ASSUME NEW q \in Part
      PROVE  q \in PartsIn(r) <=> q \in PartsIn(c) \/ q = p
  <2>1. Within(r[k], q) <=> Within(c[k], q) \/ Within(c[k + 1], q) \/ q = p
    <3>1. /\ q \in Nat /\ c[k].first \in Nat /\ c[k].second \in Nat /\ c[k].first <= c[k].second
          /\ c[k + 1].first \in Nat /\ c[k + 1].second \in Nat /\ c[k + 1].first <= c[k + 1].second
      BY <1>0, <1>a, PartIsNat
    <3>2. p \in Nat /\ c[k].second + 1 = p /\ c[k + 1].first = p + 1
      BY <1>0
    <3>3. Within(r[k], q) <=> c[k].first <= q /\ q <= c[k + 1].second
      BY <1>1 DEF Within
    <3>. QED
      BY <3>1, <3>2, <3>3, OneToTheNext DEF Within
  <2>2. ASSUME NEW i \in 1..Len(r), i # k, Within(r[i], q)
        PROVE  \E j \in 1..Len(c) : Within(c[j], q)
    <3>1. i \in 1..Len(c) /\ i + 1 \in 1..Len(c) /\ (r[i] = c[i] \/ r[i] = c[i + 1])
      BY <1>j, <1>0, <1>a, <1>2, <2>2
    <3>. QED
      BY <2>2, <3>1
  <2>3. ASSUME NEW j \in 1..Len(c), j # k, j # k + 1, Within(c[j], q)
        PROVE  \E i \in 1..Len(r) : Within(r[i], q)
    <3>1. CASE j < k
      <4>1. j \in 1..Len(r) /\ r[j] = c[j]
        BY <1>j, <1>0, <1>a, <3>1
      <4>. QED
        BY <2>3, <4>1
    <3>2. CASE j > k + 1
      <4>1. j - 1 \in 1..Len(r) /\ j - 1 > k /\ (j - 1) + 1 = j
        BY <1>j, <1>0, <1>a, <3>2
      <4>2. r[j - 1] = c[j]
        BY <1>j, <1>0, <1>a, <4>1
      <4>. QED
        BY <2>3, <4>1, <4>2
    <3>. QED
      BY <1>j, <1>0, <1>a, <2>3, <3>1, <3>2
  <2>4. (\E i \in 1..Len(r) : Within(r[i], q)) <=> q = p \/ \E i \in 1..Len(c) : Within(c[i], q)
    BY <1>j, <1>0, <1>a, <2>1, <2>2, <2>3
  <2>. QED
    BY <1>6, <2>4, MemberOfParts
<1>. QED
  BY <1>6, <1>7 DEF PartsIn

-----------------------------------------------------------------------------
(* What the operations on the list do at each place of it *)

\* An insertion moves the elements from its place on.
LEMMA InsertAtPlaces ==
  ASSUME NEW S, NEW s \in Seq(S), NEW e \in S, NEW k \in 1..(Len(s) + 1)
  PROVE  /\ InsertAt(s, k, e) \in Seq(S)
         /\ Len(InsertAt(s, k, e)) = Len(s) + 1
         /\ \A i \in 1..Len(InsertAt(s, k, e)) :
              InsertAt(s, k, e)[i] = IF i < k THEN s[i] ELSE IF i = k THEN e ELSE s[i - 1]
<1>. DEFINE low == SubSeq(s, 1, k - 1)
            high == SubSeq(s, k, Len(s))
<1>0. Len(s) \in Nat /\ k \in Nat /\ k - 1 \in Nat /\ k - 1 <= Len(s) /\ \A i \in 1..Len(s) : s[i] \in S
  BY LenProperties, ElementOfSeq
<1>1. low \in Seq(S) /\ Len(low) = k - 1 /\ \A i \in 1..(k - 1) : low[i] = s[i]
  <2>1. /\ low \in Seq(S) /\ Len(low) = IF 1 <= k - 1 THEN (k - 1) - 1 + 1 ELSE 0
        /\ \A i \in 1..((k - 1) - 1 + 1) : low[i] = s[1 + i - 1]
    <3>1. \A i \in 1..(k - 1) : s[i] \in S
      BY <1>0
    <3>. QED
      BY <1>0, <3>1, SubSeqProperties
  <2>2. (k - 1) - 1 + 1 = k - 1 /\ \A i \in 1..(k - 1) : 1 + i - 1 = i
    BY <1>0
  <2>. QED
    BY <1>0, <2>1, <2>2
<1>2. /\ high \in Seq(S) /\ Len(high) = Len(s) - k + 1
      /\ \A i \in 1..(Len(s) - k + 1) : high[i] = s[k + i - 1]
  <2>1. /\ high \in Seq(S) /\ Len(high) = IF k <= Len(s) THEN Len(s) - k + 1 ELSE 0
        /\ \A i \in 1..(Len(s) - k + 1) : high[i] = s[k + i - 1]
    <3>1. \A i \in k..Len(s) : s[i] \in S
      BY <1>0
    <3>. QED
      BY <1>0, <3>1, SubSeqProperties
  <2>. QED
    BY <1>0, <2>1
<1>3. <<e>> \in Seq(S) /\ Len(<<e>>) = 1 /\ <<e>>[1] = e
  OBVIOUS
<1>. HIDE DEF low, high
<1>4. /\ low \o <<e>> \in Seq(S) /\ Len(low \o <<e>>) = k
      /\ \A i \in 1..k : (low \o <<e>>)[i] = IF i < k THEN s[i] ELSE e
  <2>1. /\ low \o <<e>> \in Seq(S) /\ Len(low \o <<e>>) = (k - 1) + 1
        /\ \A i \in 1..((k - 1) + 1) : (low \o <<e>>)[i] = IF i <= k - 1 THEN low[i] ELSE <<e>>[i - (k - 1)]
    BY <1>1, <1>3, ConcatProperties
  <2>2. (k - 1) + 1 = k
    BY <1>0
  <2>3. ASSUME NEW i \in 1..k PROVE (low \o <<e>>)[i] = IF i < k THEN s[i] ELSE e
    <3>1. CASE i < k
      BY <1>0, <1>1, <2>1, <2>2, <3>1
    <3>2. CASE i = k
      <4>1. i - (k - 1) = 1 /\ ~(i <= k - 1) /\ ~(i < k)
        BY <1>0, <3>2
      <4>2. (low \o <<e>>)[i] = IF i <= k - 1 THEN low[i] ELSE <<e>>[i - (k - 1)]
        BY <2>1, <2>2
      <4>. QED
        BY <1>3, <4>1, <4>2
    <3>3. i < k \/ i = k
      BY <1>0
    <3>. QED
      BY <3>1, <3>2, <3>3
  <2>. QED
    BY <2>1, <2>2, <2>3
<1>5. InsertAt(s, k, e) = (low \o <<e>>) \o high
  BY DEF InsertAt, low, high
<1>6. /\ InsertAt(s, k, e) \in Seq(S)
      /\ Len(InsertAt(s, k, e)) = k + (Len(s) - k + 1)
      /\ \A i \in 1..(k + (Len(s) - k + 1)) :
           InsertAt(s, k, e)[i] = IF i <= k THEN (low \o <<e>>)[i] ELSE high[i - k]
  BY <1>2, <1>4, <1>5, ConcatProperties
<1>7. k + (Len(s) - k + 1) = Len(s) + 1
  BY <1>0
<1>8. ASSUME NEW i \in 1..(Len(s) + 1)
      PROVE  InsertAt(s, k, e)[i] = IF i < k THEN s[i] ELSE IF i = k THEN e ELSE s[i - 1]
  <2>1. CASE i <= k
    BY <1>0, <1>4, <1>6, <1>7, <2>1
  <2>2. CASE i > k
    <3>1. i - k \in 1..(Len(s) - k + 1) /\ k + (i - k) - 1 = i - 1 /\ ~(i <= k) /\ ~(i < k) /\ i # k
      BY <1>0, <2>2
    <3>. QED
      BY <1>2, <1>6, <1>7, <3>1
  <2>. QED
    BY <1>0, <2>1, <2>2
<1>. QED
  BY <1>6, <1>7, <1>8

\* A removal moves the elements above its place.
LEMMA RemoveAtPlaces ==
  ASSUME NEW S, NEW s \in Seq(S), NEW k \in 1..Len(s)
  PROVE  /\ RemoveAt(s, k) \in Seq(S)
         /\ Len(RemoveAt(s, k)) = Len(s) - 1
         /\ \A i \in 1..Len(RemoveAt(s, k)) : RemoveAt(s, k)[i] = IF i < k THEN s[i] ELSE s[i + 1]
<1>. DEFINE low == SubSeq(s, 1, k - 1)
            high == SubSeq(s, k + 1, Len(s))
<1>0. Len(s) \in Nat /\ k \in Nat /\ k - 1 \in Nat /\ k <= Len(s) /\ \A i \in 1..Len(s) : s[i] \in S
  BY LenProperties, ElementOfSeq
<1>1. low \in Seq(S) /\ Len(low) = k - 1 /\ \A i \in 1..(k - 1) : low[i] = s[i]
  <2>1. /\ low \in Seq(S) /\ Len(low) = IF 1 <= k - 1 THEN (k - 1) - 1 + 1 ELSE 0
        /\ \A i \in 1..((k - 1) - 1 + 1) : low[i] = s[1 + i - 1]
    <3>1. \A i \in 1..(k - 1) : s[i] \in S
      BY <1>0
    <3>. QED
      BY <1>0, <3>1, SubSeqProperties
  <2>2. (k - 1) - 1 + 1 = k - 1 /\ \A i \in 1..(k - 1) : 1 + i - 1 = i
    BY <1>0
  <2>. QED
    BY <1>0, <2>1, <2>2
<1>2. /\ high \in Seq(S) /\ Len(high) = Len(s) - k
      /\ \A i \in 1..(Len(s) - k) : high[i] = s[k + i]
  <2>1. /\ high \in Seq(S) /\ Len(high) = IF k + 1 <= Len(s) THEN Len(s) - (k + 1) + 1 ELSE 0
        /\ \A i \in 1..(Len(s) - (k + 1) + 1) : high[i] = s[(k + 1) + i - 1]
    <3>1. \A i \in (k + 1)..Len(s) : s[i] \in S
      BY <1>0
    <3>. QED
      BY <1>0, <3>1, SubSeqProperties
  <2>2. Len(s) - (k + 1) + 1 = Len(s) - k /\ \A i \in 1..(Len(s) - k) : (k + 1) + i - 1 = k + i
    BY <1>0
  <2>3. Len(high) = Len(s) - k
    <3>1. Len(high) = IF k + 1 <= Len(s) THEN Len(s) - (k + 1) + 1 ELSE 0
      BY <2>1
    <3>. QED
      BY <1>0, <3>1
  <2>. QED
    BY <2>1, <2>2, <2>3
<1>. HIDE DEF low, high
<1>3. RemoveAt(s, k) = low \o high
  BY DEF RemoveAt, low, high
<1>4. /\ RemoveAt(s, k) \in Seq(S)
      /\ Len(RemoveAt(s, k)) = (k - 1) + (Len(s) - k)
      /\ \A i \in 1..((k - 1) + (Len(s) - k)) :
           RemoveAt(s, k)[i] = IF i <= k - 1 THEN low[i] ELSE high[i - (k - 1)]
  <2>1. /\ low \o high \in Seq(S)
        /\ Len(low \o high) = Len(low) + Len(high)
        /\ \A i \in 1..(Len(low) + Len(high)) :
             (low \o high)[i] = IF i <= Len(low) THEN low[i] ELSE high[i - Len(low)]
    BY <1>1, <1>2, ConcatProperties
  <2>. QED
    BY <1>1, <1>2, <1>3, <2>1
<1>5. (k - 1) + (Len(s) - k) = Len(s) - 1
  BY <1>0
<1>6. ASSUME NEW i \in 1..(Len(s) - 1)
      PROVE  RemoveAt(s, k)[i] = IF i < k THEN s[i] ELSE s[i + 1]
  <2>1. CASE i < k
    <3>1. i <= k - 1 /\ i \in 1..(k - 1)
      BY <1>0, <2>1
    <3>. QED
      BY <1>1, <1>4, <1>5, <2>1, <3>1
  <2>2. CASE i >= k
    <3>1. /\ i - (k - 1) \in 1..(Len(s) - k) /\ k + (i - (k - 1)) = i + 1
          /\ ~(i <= k - 1) /\ ~(i < k)
      BY <1>0, <2>2
    <3>. QED
      BY <1>2, <1>4, <1>5, <3>1
  <2>. QED
    BY <1>0, <2>1, <2>2
<1>. QED
  BY <1>4, <1>5, <1>6

\* The lower end of an interval is written.
LEMMA FirstWritten ==
  ASSUME NEW c \in Seq(Interval), NEW k \in 1..Len(c), NEW p \in Part
  PROVE  /\ [c EXCEPT ![k].first = p] \in Seq(Interval)
         /\ Len([c EXCEPT ![k].first = p]) = Len(c)
         /\ \A i \in 1..Len(c) : [c EXCEPT ![k].first = p][i] = IF i = k THEN [first |-> p, second |-> c[k].second] ELSE c[i]
<1>. DEFINE e == [first |-> p, second |-> c[k].second]
<1>1. c[k] \in Interval /\ DOMAIN c = 1..Len(c)
  BY ElementOfSeq, LenProperties
<1>2. [c[k] EXCEPT !.first = p] = e /\ e \in Interval
  BY <1>1 DEF Interval
<1>3. [c EXCEPT ![k].first = p] = [c EXCEPT ![k] = e]
  BY <1>1, <1>2
<1>. HIDE DEF e
<1>4. /\ [c EXCEPT ![k] = e] \in Seq(Interval)
      /\ Len([c EXCEPT ![k] = e]) = Len(c)
      /\ \A i \in 1..Len(c) : [c EXCEPT ![k] = e][i] = IF i = k THEN e ELSE c[i]
  BY <1>2, ExceptSeq
<1>. QED
  BY <1>3, <1>4 DEF e

\* The upper end of an interval is written.
LEMMA SecondWritten ==
  ASSUME NEW c \in Seq(Interval), NEW k \in 1..Len(c), NEW p \in Part
  PROVE  /\ [c EXCEPT ![k].second = p] \in Seq(Interval)
         /\ Len([c EXCEPT ![k].second = p]) = Len(c)
         /\ \A i \in 1..Len(c) : [c EXCEPT ![k].second = p][i] = IF i = k THEN [first |-> c[k].first, second |-> p] ELSE c[i]
<1>. DEFINE e == [first |-> c[k].first, second |-> p]
<1>1. c[k] \in Interval /\ DOMAIN c = 1..Len(c)
  BY ElementOfSeq, LenProperties
<1>2. [c[k] EXCEPT !.second = p] = e /\ e \in Interval
  BY <1>1 DEF Interval
<1>3. [c EXCEPT ![k].second = p] = [c EXCEPT ![k] = e]
  BY <1>1, <1>2
<1>. HIDE DEF e
<1>4. /\ [c EXCEPT ![k] = e] \in Seq(Interval)
      /\ Len([c EXCEPT ![k] = e]) = Len(c)
      /\ \A i \in 1..Len(c) : [c EXCEPT ![k] = e][i] = IF i = k THEN e ELSE c[i]
  BY <1>2, ExceptSeq
<1>. QED
  BY <1>3, <1>4 DEF e

-----------------------------------------------------------------------------
(* Adding a part *)

\* A set of numbers has a least one.
LEMMA LeastIsThere ==
  ASSUME NEW S, S \subseteq Nat, S # {}
  PROVE  \E i \in S : \A j \in S : i <= j
<1>. DEFINE less == {p \in Nat \X Nat : p[1] < p[2]}
<1>1. IsWellFoundedOn(less, Nat)
  <2>1. IsWellFoundedOn(OpToRel(<, Nat), Nat)
    BY NatLessThanWellFounded
  <2>. QED
    BY <2>1 DEF OpToRel
<1>2. PICK i \in S : \A j \in S : <<j, i>> \notin less
  BY <1>1, WFMin
<1>3. ASSUME NEW j \in S PROVE i <= j
  <2>1. i \in Nat /\ j \in Nat
    BY <1>2
  <2>2. ~(j < i)
    BY <1>2, <2>1
  <2>. QED
    BY <2>1, <2>2
<1>. QED
  BY <1>2, <1>3

\* addPart returns early only where the part is in the list, and what it takes
\* for the next interval is one: the end node never passes for it.
LEMMA EndNodeIsNoInterval ==
  ASSUME NEW c, Apart(c), NEW p \in Part, NEW k \in 1..Len(c)
  PROVE  /\ Contained(c, k, p) => p \in PartsIn(c)
         /\ IsBetween(c, k, p) => k < Len(c) /\ c[k].second < p /\ p < c[k + 1].first
<1>0. /\ Len(c) \in Nat /\ k \in Nat /\ p \in Nat
      /\ c[k].first \in Nat /\ c[k].second \in Nat /\ c[k].first <= c[k].second
      /\ k - 1 <= c[k].first
  BY Numbers, PartIsNat
<1>1. CASE k < Len(c)
  <2>1. After(c, k) = c[k + 1] /\ k + 1 \in 1..Len(c)
    BY <1>0, <1>1 DEF After
  <2>. QED
    BY <1>1, <2>1, MemberOfParts DEF Contained, IsBetween
<1>2. CASE k = Len(c)
  <2>1. After(c, k).first = k /\ After(c, k).second = 0
    BY <1>0, <1>2 DEF After
  <2>2. ~(c[k].second < p /\ Within(After(c, k), p))
    BY <1>0, <2>1 DEF Within
  <2>3. ~(c[k].second < p /\ p < After(c, k).first)
    BY <1>0, <2>1
  <2>4. Contained(c, k, p) => Within(c[k], p)
    BY <1>0, <2>2 DEF Contained
  <2>. QED
    BY <2>3, <2>4, MemberOfParts DEF IsBetween
<1>. QED
  BY <1>0, <1>1, <1>2

\* An interval grows by the part below it.
LEMMA GrownDown ==
  ASSUME NEW c, Apart(c), NEW p \in Part, NEW k \in 1..Len(c),
         k > 1 => c[k - 1].second < p,
         p + 1 = c[k].first
  PROVE  /\ Apart([c EXCEPT ![k].first = p])
         /\ PartsIn([c EXCEPT ![k].first = p]) = PartsIn(c) \cup {p}
<1>. DEFINE r == [c EXCEPT ![k].first = p]
<1>0. c \in Seq(Interval) /\ Len(c) \in Nat /\ p \in Nat /\ k \in Nat
  BY Numbers, PartIsNat DEF Apart
<1>1. /\ r \in Seq(Interval) /\ Len(r) = Len(c)
      /\ \A i \in 1..Len(c) : r[i] = IF i = k THEN [first |-> p, second |-> c[k].second] ELSE c[i]
  BY <1>0, FirstWritten
<1>. HIDE DEF r
<1>2. k < Len(c) => p < c[k + 1].first
  <2>1. SUFFICES ASSUME k < Len(c) PROVE p < c[k + 1].first
    OBVIOUS
  <2>2. k + 1 \in 1..Len(c) /\ k < k + 1 /\ (k + 1) - k = 1
    BY <1>0, <2>1
  <2>3. /\ c[k].first \in Nat /\ c[k].second \in Nat /\ c[k + 1].first \in Nat
        /\ c[k].first <= c[k].second /\ c[k].second + 1 <= c[k + 1].first
    <3>1. c[k].second + ((k + 1) - k) <= c[k + 1].first
      BY <2>2, Numbers
    <3>. QED
      BY <2>2, <3>1, Numbers
  <2>. QED
    BY <1>0, <2>3
<1>3. \A i \in 1..Len(r) : i # k => r[i] = c[i]
  BY <1>1
<1>4. \/ p + 1 = c[k].first /\ r[k] = [first |-> p, second |-> c[k].second]
      \/ c[k].second + 1 = p /\ r[k] = [first |-> c[k].first, second |-> p]
  BY <1>1
<1>5. Apart(r) /\ PartsIn(r) = PartsIn(c) \cup {p}
  BY <1>1, <1>2, <1>3, <1>4, Extended
<1>. QED
  BY <1>5 DEF r

\* An interval grows by the part above it.
LEMMA GrownUp ==
  ASSUME NEW c, Apart(c), NEW p \in Part, NEW k \in 1..Len(c),
         k < Len(c) => p < c[k + 1].first,
         c[k].second + 1 = p
  PROVE  /\ Apart([c EXCEPT ![k].second = p])
         /\ PartsIn([c EXCEPT ![k].second = p]) = PartsIn(c) \cup {p}
<1>. DEFINE r == [c EXCEPT ![k].second = p]
<1>0. c \in Seq(Interval) /\ Len(c) \in Nat /\ p \in Nat /\ k \in Nat
  BY Numbers, PartIsNat DEF Apart
<1>1. /\ r \in Seq(Interval) /\ Len(r) = Len(c)
      /\ \A i \in 1..Len(c) : r[i] = IF i = k THEN [first |-> c[k].first, second |-> p] ELSE c[i]
  BY <1>0, SecondWritten
<1>. HIDE DEF r
<1>2. k > 1 => c[k - 1].second < p
  <2>1. SUFFICES ASSUME k > 1 PROVE c[k - 1].second < p
    OBVIOUS
  <2>2. k - 1 \in 1..Len(c) /\ k - 1 < k /\ k - (k - 1) = 1
    BY <1>0, <2>1
  <2>3. /\ c[k].first \in Nat /\ c[k].second \in Nat /\ c[k - 1].second \in Nat
        /\ c[k].first <= c[k].second /\ c[k - 1].second + 1 <= c[k].first
    <3>1. c[k - 1].second + (k - (k - 1)) <= c[k].first
      BY <2>2, Numbers
    <3>. QED
      BY <2>2, <3>1, Numbers
  <2>. QED
    BY <1>0, <2>3
<1>3. \A i \in 1..Len(r) : i # k => r[i] = c[i]
  BY <1>1
<1>4. \/ p + 1 = c[k].first /\ r[k] = [first |-> p, second |-> c[k].second]
      \/ c[k].second + 1 = p /\ r[k] = [first |-> c[k].first, second |-> p]
  BY <1>1
<1>5. Apart(r) /\ PartsIn(r) = PartsIn(c) \cup {p}
  BY <1>1, <1>2, <1>3, <1>4, Extended
<1>. QED
  BY <1>5 DEF r

\* A round that does not return leaves the part above its interval.
LEMMA PassedBy ==
  ASSUME NEW c, Apart(c), NEW p \in Part, NEW k \in 1..Len(c), ~Returns(c, k, p)
  PROVE  c[k].second < p
<1>1. p \in Nat /\ c[k].first \in Nat /\ c[k].second \in Nat
  BY Numbers, PartIsNat
<1>. QED
  BY <1>1 DEF Returns, Contained, IsBefore, Within

\* A new interval of one part, put where it belongs.
LEMMA InsertedAt ==
  ASSUME NEW c, Apart(c), NEW p \in Part, NEW k \in 1..(Len(c) + 1),
         k > 1 => c[k - 1].second < p,
         k <= Len(c) => p < c[k].first
  PROVE  Apart(InsertAt(c, k, Single(p))) /\ PartsIn(InsertAt(c, k, Single(p))) = PartsIn(c) \cup {p}
<1>. DEFINE r == InsertAt(c, k, Single(p))
<1>1. c \in Seq(Interval) /\ Single(p) \in Interval
  BY DEF Apart, Single, Interval
<1>2. /\ r \in Seq(Interval) /\ Len(r) = Len(c) + 1
      /\ \A i \in 1..Len(r) : r[i] = IF i < k THEN c[i] ELSE IF i = k THEN Single(p) ELSE c[i - 1]
  BY <1>1, InsertAtPlaces
<1>. HIDE DEF r
<1>3. Apart(r) /\ PartsIn(r) = PartsIn(c) \cup {p}
  BY <1>2, Inserted
<1>. QED
  BY <1>3 DEF r

\* The list grows by the part above all of it.
LEMMA PutAtEndAdds ==
  ASSUME NEW c, Apart(c), NEW p \in Part, \A k \in 1..Len(c) : c[k].second < p
  PROVE  Apart(PutAtEnd(c, p)) /\ PartsIn(PutAtEnd(c, p)) = PartsIn(c) \cup {p}
<1>0. c \in Seq(Interval) /\ Len(c) \in Nat /\ p \in Nat
  BY Numbers, PartIsNat DEF Apart
<1>1. CASE c # <<>> /\ c[1].second + 1 = p
  <2>1. 1 \in 1..Len(c)
    BY <1>0, <1>1, EmptySeq
  <2>2. ASSUME 1 < Len(c) PROVE FALSE
    <3>1. 2 \in 1..Len(c)
      BY <1>0, <2>2
    <3>2. /\ c[1].second \in Nat /\ c[2].first \in Nat /\ c[2].second \in Nat
          /\ c[2].first <= c[2].second /\ c[1].second + (2 - 1) <= c[2].first
      BY <2>1, <3>1, Numbers
    <3>3. c[2].second < p
      BY <3>1
    <3>4. c[1].second + 1 <= c[2].first
      BY <3>2
    <3>. QED
      BY <1>0, <1>1, <3>2, <3>3, <3>4
  <2>. QED
    BY <1>1, <2>1, <2>2, GrownUp DEF PutAtEnd
<1>2. CASE ~(c # <<>> /\ c[1].second + 1 = p)
  <2>. DEFINE r == Append(c, Single(p))
              m == Len(c) + 1
  <2>1. Single(p) \in Interval
    BY DEF Single, Interval
  <2>2. /\ r \in Seq(Interval) /\ Len(r) = m
        /\ \A i \in 1..Len(c) : r[i] = c[i]
        /\ r[m] = Single(p)
    BY <1>0, <2>1, AppendProperties
  <2>3. PutAtEnd(c, p) = r
    BY <1>2 DEF PutAtEnd
  <2>4. /\ m \in 1..(Len(c) + 1) /\ ~(m <= Len(c))
        /\ m > 1 => c[m - 1].second < p
    BY <1>0
  <2>. HIDE DEF r
  <2>5. \A i \in 1..Len(r) : r[i] = IF i < m THEN c[i] ELSE IF i = m THEN Single(p) ELSE c[i - 1]
    BY <1>0, <2>2
  <2>6. Len(r) = Len(c) + 1
    BY <2>2
  <2>. HIDE DEF m
  <2>7. Apart(r) /\ PartsIn(r) = PartsIn(c) \cup {p}
    BY <2>2, <2>4, <2>5, <2>6, Inserted
  <2>. QED
    BY <2>3, <2>7
<1>. QED
  BY <1>1, <1>2

\* The list grows by a part below its k-th interval and above those before it.
LEMMA PutBeforeAdds ==
  ASSUME NEW c, Apart(c), NEW p \in Part, NEW k \in 1..Len(c),
         k > 1 => c[k - 1].second < p, IsBefore(c, k, p)
  PROVE  Apart(PutBefore(c, k, p)) /\ PartsIn(PutBefore(c, k, p)) = PartsIn(c) \cup {p}
<1>0. c \in Seq(Interval) /\ Len(c) \in Nat /\ p \in Nat /\ k \in 1..(Len(c) + 1) /\ p < c[k].first
  BY Numbers, PartIsNat DEF Apart, IsBefore
<1>1. CASE p + 1 = c[k].first
  BY <1>1, GrownDown DEF PutBefore
<1>2. CASE p + 1 # c[k].first
  BY <1>0, <1>2, InsertedAt DEF PutBefore
<1>. QED
  BY <1>1, <1>2

\* The list grows by a part in the gap above its k-th interval, which may close.
LEMMA FillGapAdds ==
  ASSUME NEW c, Apart(c), NEW p \in Part, NEW k \in 1..Len(c),
         k > 1 => c[k - 1].second < p,
         k < Len(c), c[k].second < p, p < c[k + 1].first
  PROVE  Apart(FillGap(c, k, p)) /\ PartsIn(FillGap(c, k, p)) = PartsIn(c) \cup {p}
<1>. DEFINE below == c[k].second + 1 = p
            above == c[k + 1].first = p + 1
<1>0. /\ c \in Seq(Interval) /\ Len(c) \in Nat /\ p \in Nat /\ k \in Nat
      /\ k + 1 \in 1..Len(c) /\ k + 1 \in 1..(Len(c) + 1) /\ (k + 1) - 1 = k
      /\ After(c, k) = c[k + 1] /\ k # Len(c)
  BY Numbers, PartIsNat DEF Apart, After
<1>1. CASE ~below /\ ~above
  <2>1. FillGap(c, k, p) = InsertAt(c, k + 1, Single(p))
    BY <1>0, <1>1 DEF FillGap
  <2>. QED
    BY <1>0, <2>1, InsertedAt
<1>2. CASE below /\ above
  <2>. DEFINE e == [first |-> c[k].first, second |-> c[k + 1].second]
              s == ReplaceAt(c, k, e)
              r == RemoveAt(s, k + 1)
  <2>1. FillGap(c, k, p) = r
    BY <1>0, <1>2 DEF FillGap
  <2>2. e \in Interval
    BY <1>0, Counted DEF Interval
  <2>3. s \in Seq(Interval) /\ Len(s) = Len(c) /\ \A i \in 1..Len(c) : s[i] = IF i = k THEN e ELSE c[i]
    BY <1>0, <2>2, ExceptSeq DEF ReplaceAt
  <2>. HIDE DEF e, s
  <2>4. /\ r \in Seq(Interval) /\ Len(r) = Len(c) - 1
        /\ \A i \in 1..Len(r) : r[i] = IF i < k + 1 THEN s[i] ELSE s[i + 1]
    <3>1. k + 1 \in 1..Len(s) /\ s \in Seq(Interval)
      BY <1>0, <2>3
    <3>2. /\ r \in Seq(Interval) /\ Len(r) = Len(s) - 1
          /\ \A i \in 1..Len(r) : r[i] = IF i < k + 1 THEN s[i] ELSE s[i + 1]
      BY <3>1, RemoveAtPlaces
    <3>. QED
      BY <2>3, <3>2
  <2>. HIDE DEF r
  <2>5. ASSUME NEW i \in 1..Len(r)
        PROVE  r[i] = IF i < k THEN c[i]
                      ELSE IF i = k THEN [first |-> c[k].first, second |-> c[k + 1].second]
                      ELSE c[i + 1]
    <3>1. i \in 1..Len(c) /\ i + 1 \in 1..Len(c) /\ (i < k + 1 <=> i <= k)
      BY <1>0, <2>4
    <3>2. s[i] = (IF i = k THEN e ELSE c[i]) /\ (i + 1 # k => s[i + 1] = c[i + 1])
      BY <2>3, <3>1
    <3>3. CASE i < k
      BY <1>0, <2>4, <3>1, <3>2, <3>3
    <3>4. CASE i = k
      BY <1>0, <2>4, <3>1, <3>2, <3>4 DEF e
    <3>5. CASE i > k
      <4>1. i + 1 # k /\ ~(i < k + 1) /\ ~(i < k) /\ i # k
        BY <1>0, <3>5
      <4>. QED
        BY <2>4, <3>2, <4>1
    <3>. QED
      BY <1>0, <3>3, <3>4, <3>5
  <2>6. \A i \in 1..Len(r) :
            r[i] = IF i < k THEN c[i]
                   ELSE IF i = k THEN [first |-> c[k].first, second |-> c[k + 1].second]
                   ELSE c[i + 1]
    BY <2>5
  <2>7. c[k].second + 1 = p /\ c[k + 1].first = p + 1 /\ Joined(c, k, r)
    BY <1>2, <2>4, <2>6 DEF Joined
  <2>8. Apart(r) /\ PartsIn(r) = PartsIn(c) \cup {p}
    BY <2>7, Merged
  <2>. QED
    BY <2>1, <2>8
<1>3. CASE below /\ ~above
  <2>1. FillGap(c, k, p) = [c EXCEPT ![k].second = p]
    BY <1>0, <1>3 DEF FillGap
  <2>. QED
    <3>1. c[k].second + 1 = p /\ (k < Len(c) => p < c[k + 1].first)
      BY <1>3
    <3>2. /\ Apart([c EXCEPT ![k].second = p])
          /\ PartsIn([c EXCEPT ![k].second = p]) = PartsIn(c) \cup {p}
      BY <3>1, GrownUp
    <3>. QED
      BY <2>1, <3>2
<1>4. CASE ~below /\ above
  <2>1. FillGap(c, k, p) = [c EXCEPT ![k + 1].first = p]
    BY <1>0, <1>4 DEF FillGap
  <2>. QED
    <3>. DEFINE m == k + 1
    <3>1. m \in 1..Len(c) /\ (m > 1 => c[m - 1].second < p) /\ p + 1 = c[m].first
      BY <1>0, <1>4
    <3>. HIDE DEF m
    <3>2. /\ Apart([c EXCEPT ![m].first = p])
          /\ PartsIn([c EXCEPT ![m].first = p]) = PartsIn(c) \cup {p}
      BY <3>1, GrownDown
    <3>. QED
      BY <2>1, <3>2 DEF m
<1>. QED
  BY <1>1, <1>2, <1>3, <1>4

\* addPart adds its part and no other, and the intervals stay apart.
LEMMA AddPartAdds ==
  ASSUME NEW c, Apart(c), NEW p \in Part
  PROVE  Apart(AddPartTo(c, p)) /\ PartsIn(AddPartTo(c, p)) = PartsIn(c) \cup {p}
<1>. DEFINE rounds == {k \in DOMAIN c : Returns(c, k, p)}
            k == CHOOSE i \in rounds : \A j \in rounds : i <= j
<1>0. Len(c) \in Nat /\ DOMAIN c = 1..Len(c)
  BY LenProperties DEF Apart
<1>1. CASE rounds = {}
  <2>1. \A i \in 1..Len(c) : c[i].second < p
    BY <1>0, <1>1, PassedBy
  <2>2. AddPartTo(c, p) = PutAtEnd(c, p)
    BY <1>1 DEF AddPartTo
  <2>. QED
    BY <2>1, <2>2, PutAtEndAdds
<1>2. CASE rounds # {}
  <2>1. \E i \in rounds : \A j \in rounds : i <= j
    <3>1. rounds \subseteq Nat
      BY <1>0
    <3>. QED
      BY <1>2, <3>1, LeastIsThere
  <2>2. k \in rounds /\ \A j \in rounds : k <= j
    BY <2>1
  <2>3. AddPartTo(c, p) = IF Contained(c, k, p) THEN c
                          ELSE IF IsBefore(c, k, p) THEN PutBefore(c, k, p)
                          ELSE FillGap(c, k, p)
    BY <1>2 DEF AddPartTo
  <2>4. k \in 1..Len(c) /\ Returns(c, k, p) /\ \A j \in 1..Len(c) : Returns(c, j, p) => k <= j
    BY <1>0, <2>2
  <2>. HIDE DEF k
  <2>5. k > 1 => c[k - 1].second < p
    <3>1. k > 1 => k - 1 \in 1..Len(c) /\ ~(k <= k - 1)
      BY <1>0, <2>4
    <3>. QED
      BY <2>4, <3>1, PassedBy
  <2>6. CASE Contained(c, k, p)
    BY <2>3, <2>4, <2>6, EndNodeIsNoInterval
  <2>7. CASE ~Contained(c, k, p) /\ IsBefore(c, k, p)
    BY <2>3, <2>4, <2>5, <2>7, PutBeforeAdds
  <2>8. CASE ~Contained(c, k, p) /\ ~IsBefore(c, k, p)
    <3>1. IsBetween(c, k, p)
      BY <2>4, <2>8 DEF Returns
    <3>2. k < Len(c) /\ c[k].second < p /\ p < c[k + 1].first
      BY <2>4, <3>1, EndNodeIsNoInterval
    <3>. QED
      BY <2>3, <2>4, <2>5, <2>8, <3>2, FillGapAdds
  <2>. QED
    BY <2>6, <2>7, <2>8
<1>. QED
  BY <1>1, <1>2

-----------------------------------------------------------------------------
(* Taking the first part, a file that is sent whole *)

\* getNextPart returns the smallest part there is.
LEMMA FirstIsSmallest ==
  ASSUME NEW c, Apart(c), c # <<>>
  PROVE  /\ PartsIn(c) # {} /\ c[1].first \in PartsIn(c)
         /\ Abstract!Smallest(PartsIn(c)) = c[1].first
<1>0. /\ 1 \in 1..Len(c) /\ Len(c) \in Nat
      /\ \A i \in 1..Len(c) : c[i].first \in Nat /\ c[i].second \in Nat /\ c[i].first <= c[i].second
  BY EmptySeq, Numbers DEF Apart
<1>1. c[1].first \in Part
  BY <1>0, Counted
<1>2. c[1].first \in PartsIn(c)
  <2>1. Within(c[1], c[1].first)
    BY <1>0 DEF Within
  <2>. QED
    BY <1>0, <1>1, <2>1, MemberOfParts
<1>3. ASSUME NEW q \in PartsIn(c) PROVE c[1].first <= q /\ q \in Nat
  <2>1. q \in Part
    BY DEF PartsIn
  <2>2. PICK i \in 1..Len(c) : Within(c[i], q)
    BY <2>1, MemberOfParts
  <2>3. c[1].first <= c[i].first
    <3>1. CASE i = 1
      BY <1>0, <3>1
    <3>2. CASE i # 1
      <4>1. 1 < i
        BY <3>2
      <4>2. c[1].second + (i - 1) <= c[i].first
        BY <1>0, <4>1, Numbers
      <4>3. c[1].first \in Nat /\ c[1].second \in Nat /\ c[i].first \in Nat /\ c[1].first <= c[1].second
        BY <1>0
      <4>. QED
        BY <4>1, <4>2, <4>3
    <3>. QED
      BY <3>1, <3>2
  <2>4. q \in Nat /\ c[1].first \in Nat /\ c[i].first \in Nat /\ c[i].first <= q
    BY <1>0, <2>1, <2>2, PartIsNat DEF Within
  <2>. QED
    BY <2>3, <2>4
<1>4. \A q \in PartsIn(c) : (\A s \in PartsIn(c) : q <= s) => q = c[1].first
  <2>1. TAKE q \in PartsIn(c)
  <2>2. HAVE \A s \in PartsIn(c) : q <= s
  <2>3. q <= c[1].first /\ c[1].first <= q /\ q \in Nat /\ c[1].first \in Nat
    BY <1>0, <1>2, <1>3, <2>2
  <2>. QED
    BY <2>3
<1>5. \A q \in PartsIn(c) : c[1].first <= q
  BY <1>3
<1>6. Abstract!Smallest(PartsIn(c)) = CHOOSE q \in PartsIn(c) : \A s \in PartsIn(c) : q <= s
  BY DEF Abstract!Smallest
<1>. QED
  BY <1>2, <1>4, <1>5, <1>6

\* The first interval ends with its part: the others stay.
LEMMA FirstDropped ==
  ASSUME NEW c, Apart(c), c # <<>>, c[1].second = c[1].first
  PROVE  Apart(Tail(c)) /\ PartsIn(Tail(c)) = PartsIn(c) \ {c[1].first}
<1>. DEFINE r == Tail(c)
<1>0. c \in Seq(Interval) /\ Len(c) \in Nat /\ 1 \in 1..Len(c)
  BY EmptySeq, Numbers DEF Apart
<1>1. r \in Seq(Interval) /\ Len(r) = Len(c) - 1 /\ \A i \in 1..Len(r) : r[i] = c[i + 1]
  BY <1>0, HeadTailProperties
<1>. HIDE DEF r
<1>2. \A i \in 1..Len(r) : i + 1 \in 1..Len(c) /\ r[i] = c[i + 1]
  BY <1>0, <1>1
<1>3. /\ \A i \in 1..Len(c) : c[i].first \in Nat /\ c[i].second \in Nat /\ c[i].first <= c[i].second
      /\ \A i \in 1..Len(c), j \in 1..Len(c) : i < j => c[i].second + (j - i) <= c[j].first
  BY Numbers
<1>4. ASSUME NEW i \in 1..Len(r) PROVE r[i].first <= r[i].second
  BY <1>2, <1>3
<1>5. ASSUME NEW i \in 1..Len(r), NEW j \in 1..Len(r), i < j
      PROVE  r[i].second + (j - i) <= r[j].first
  <2>1. i + 1 < j + 1 /\ (j + 1) - (i + 1) = j - i
    BY <1>5
  <2>2. c[i + 1].second + ((j + 1) - (i + 1)) <= c[j + 1].first
    BY <1>2, <1>3, <2>1
  <2>. QED
    BY <1>2, <2>1, <2>2
<1>6. Apart(r)
  BY <1>1, <1>4, <1>5 DEF Apart
<1>7. ASSUME NEW q \in Part PROVE q \in PartsIn(r) <=> q \in PartsIn(c) /\ q # c[1].first
  <2>1. Within(c[1], q) <=> q = c[1].first
    BY <1>0, <1>3, PartIsNat DEF Within
  <2>2. ASSUME NEW i \in 1..Len(c), i # 1, Within(c[i], q)
        PROVE  q # c[1].first /\ \E j \in 1..Len(r) : Within(r[j], q)
    <3>1. 1 < i /\ i - 1 \in 1..Len(r) /\ (i - 1) + 1 = i
      BY <1>0, <1>1, <2>2
    <3>2. r[i - 1] = c[i]
      BY <1>1, <3>1
    <3>3. c[1].second + (i - 1) <= c[i].first /\ i - 1 \in Nat
      BY <1>0, <1>3, <3>1
    <3>4. q \in Nat /\ c[1].first \in Nat /\ c[i].first \in Nat /\ c[i].first <= q
      BY <1>0, <1>3, <2>2, PartIsNat DEF Within
    <3>5. c[1].first < q
      BY <3>1, <3>3, <3>4
    <3>. QED
      BY <2>2, <3>1, <3>2, <3>4, <3>5
  <2>3. ASSUME NEW j \in 1..Len(r), Within(r[j], q)
        PROVE  \E i \in 1..Len(c) : i # 1 /\ Within(c[i], q)
    BY <1>0, <1>2, <2>3
  <2>. QED
    BY <1>0, <1>6, <2>1, <2>2, <2>3, MemberOfParts
<1>8. PartsIn(r) = PartsIn(c) \ {c[1].first}
  BY <1>7 DEF PartsIn
<1>. QED
  BY <1>6, <1>8 DEF r

\* The first interval loses its part and goes on with the next one.
LEMMA FirstRaised ==
  ASSUME NEW c, Apart(c), c # <<>>, c[1].second # c[1].first
  PROVE  /\ Apart([c EXCEPT ![1].first = c[1].first + 1])
         /\ PartsIn([c EXCEPT ![1].first = c[1].first + 1]) = PartsIn(c) \ {c[1].first}
<1>. DEFINE p == c[1].first
            n == p + 1
            r == [c EXCEPT ![1].first = n]
<1>0. c \in Seq(Interval) /\ Len(c) \in Nat /\ 1 \in 1..Len(c)
  BY EmptySeq, Numbers DEF Apart
<1>1. /\ \A i \in 1..Len(c) : c[i].first \in Nat /\ c[i].second \in Nat /\ c[i].first <= c[i].second
      /\ \A i \in 1..Len(c), j \in 1..Len(c) : i < j => c[i].second + (j - i) <= c[j].first
  BY Numbers
<1>2. p \in Nat /\ n \in Nat /\ n = p + 1 /\ n <= c[1].second /\ n \in Part
  <2>1. c[1].first \in Nat /\ c[1].second \in Nat /\ c[1].first <= c[1].second
    BY <1>0, <1>1
  <2>2. c[1].second \in Part
    BY <1>0, Counted
  <2>3. c[1].second <= MaxPart /\ MaxPart \in Nat
    BY <2>2, PartIsNat
  <2>. QED
    BY <2>1, <2>3 DEF Part
<1>3. /\ r \in Seq(Interval) /\ Len(r) = Len(c)
      /\ \A i \in 1..Len(c) : r[i] = IF i = 1 THEN [first |-> n, second |-> c[1].second] ELSE c[i]
  BY <1>0, <1>2, FirstWritten
<1>. HIDE DEF r, n
<1>4. r[1].first = n /\ r[1].second = c[1].second /\ \A i \in 1..Len(c) : i # 1 => r[i] = c[i]
  BY <1>0, <1>3
<1>5. ASSUME NEW i \in 1..Len(r) PROVE r[i].first <= r[i].second
  BY <1>1, <1>2, <1>3, <1>4
<1>6. ASSUME NEW i \in 1..Len(r), NEW j \in 1..Len(r), i < j
      PROVE  r[i].second + (j - i) <= r[j].first
  <2>1. i \in 1..Len(c) /\ j \in 1..Len(c) /\ j # 1
    BY <1>3, <1>6
  <2>2. r[i].second = c[i].second /\ r[j].first = c[j].first
    BY <1>4, <2>1
  <2>. QED
    BY <1>1, <1>6, <2>1, <2>2
<1>7. Apart(r)
  BY <1>3, <1>5, <1>6 DEF Apart
<1>8. ASSUME NEW q \in Part PROVE q \in PartsIn(r) <=> q \in PartsIn(c) /\ q # p
  <2>0. q \in Nat /\ c[1].second \in Nat
    BY <1>0, <1>1, PartIsNat
  <2>1. Within(r[1], q) <=> Within(c[1], q) /\ q # p
    BY <1>2, <1>4, <2>0 DEF Within
  <2>2. ASSUME NEW i \in 1..Len(c), i # 1, Within(c[i], q) PROVE q # p
    <3>1. 1 < i /\ i - 1 \in Nat /\ i - 1 > 0
      BY <1>0, <2>2
    <3>2. c[1].second + (i - 1) <= c[i].first
      BY <1>0, <1>1, <3>1
    <3>3. c[i].first \in Nat /\ c[i].first <= q
      BY <1>1, <2>2 DEF Within
    <3>. QED
      BY <1>2, <2>0, <3>1, <3>2, <3>3
  <2>3. \A i \in 1..Len(c) : i # 1 => (Within(r[i], q) <=> Within(c[i], q))
    BY <1>4
  <2>4. (\E i \in 1..Len(r) : Within(r[i], q)) <=> q # p /\ \E i \in 1..Len(c) : Within(c[i], q)
    BY <1>0, <1>3, <2>1, <2>2, <2>3
  <2>. QED
    BY <1>7, <2>4, MemberOfParts
<1>9. PartsIn(r) = PartsIn(c) \ {p}
  BY <1>8 DEF PartsIn
<1>. QED
  BY <1>7, <1>9 DEF r, n

\* acknowledgePart takes out the smallest part, or nothing.
LEMMA AcknowledgeTakes ==
  ASSUME NEW c, Apart(c), NEW p \in Part
  PROVE  /\ Apart(WithoutPart(c, p))
         /\ \/ WithoutPart(c, p) = c
            \/ /\ PartsIn(c) # {}
               /\ PartsIn(WithoutPart(c, p)) = PartsIn(c) \ {Abstract!Smallest(PartsIn(c))}
<1>1. CASE c = <<>> \/ c[1].first # p
  BY <1>1 DEF WithoutPart
<1>2. CASE c # <<>> /\ c[1].first = p /\ c[1].second = p
  <2>1. WithoutPart(c, p) = Tail(c)
    BY <1>2 DEF WithoutPart
  <2>. QED
    BY <1>2, <2>1, FirstDropped, FirstIsSmallest
<1>3. CASE c # <<>> /\ c[1].first = p /\ c[1].second # p
  <2>1. WithoutPart(c, p) = [c EXCEPT ![1].first = c[1].first + 1]
    BY <1>3 DEF WithoutPart
  <2>. QED
    BY <1>3, <2>1, FirstRaised, FirstIsSmallest
<1>. QED
  BY <1>1, <1>2, <1>3

\* A file without parts to tell apart is one interval.
LEMMA WholeFile ==
  ASSUME NEW p \in Part
  PROVE  /\ Apart(<<[first |-> 0, second |-> p]>>)
         /\ PartsIn(<<[first |-> 0, second |-> p]>>) = 0..p
<1>. DEFINE e == [first |-> 0, second |-> p]
            r == <<e>>
<1>1. p \in Nat /\ p <= MaxPart /\ MaxPart \in Nat /\ 0 \in Part
  BY PartIsNat DEF Part
<1>2. e \in Interval /\ e.first = 0 /\ e.second = p
  BY <1>1 DEF Interval
<1>. HIDE DEF e
<1>3. r \in Seq(Interval) /\ Len(r) = 1 /\ r[1] = e
  BY <1>2
<1>. HIDE DEF r
<1>4. Apart(r)
  BY <1>1, <1>2, <1>3 DEF Apart
<1>5. \A q \in Part : q \in PartsIn(r) <=> q <= p
  <2>1. TAKE q \in Part
  <2>2. q \in Nat
    BY PartIsNat
  <2>3. (\E i \in 1..Len(r) : Within(r[i], q)) <=> Within(e, q)
    BY <1>3
  <2>4. Within(e, q) <=> q <= p
    BY <1>2, <2>2 DEF Within
  <2>. QED
    BY <1>4, <2>3, <2>4, MemberOfParts
<1>6. \A q : q \in 0..p <=> q \in Part /\ q <= p
  BY <1>1 DEF Part
<1>7. PartsIn(r) \subseteq Part
  BY DEF PartsIn
<1>8. PartsIn(r) = 0..p
  BY <1>5, <1>6, <1>7
<1>. QED
  BY <1>4, <1>8 DEF r, e

\* The empty list.
LEMMA NoParts == Apart(<<>>) /\ PartsIn(<<>>) = {}
<1>1. <<>> \in Seq(Interval) /\ Len(<<>>) = 0
  BY EmptySeq
<1>2. Apart(<<>>)
  BY <1>1 DEF Apart
<1>. QED
  BY <1>1, <1>2 DEF PartsIn

-----------------------------------------------------------------------------
(* The theorems *)

\* Every step keeps the intervals apart, and is a step of the set or none.
LEMMA NextKeepsApart ==
  ASSUME Apart(content), Next
  PROVE  Apart(content') /\ (Abstract!Next \/ PartsIn(content') = PartsIn(content))
<1>1. PICK p \in Part : AddPart(p) \/ AddHoleFile(p) \/ AcknowledgePart(p)
  BY DEF Next
<1>2. p \in Abstract!Part
  BY DEF Part, Abstract!Part
<1>3. CASE AddPart(p)
  <2>1. Apart(content') /\ PartsIn(content') = PartsIn(content) \cup {p}
    BY <1>3, AddPartAdds DEF AddPart
  <2>2. Abstract!Add(p)
    BY <2>1 DEF Abstract!Add
  <2>. QED
    BY <1>2, <2>1, <2>2 DEF Abstract!Next
<1>4. CASE AddHoleFile(p)
  <2>1. Apart(content') /\ PartsIn(content') = 0..p
    BY <1>4, WholeFile DEF AddHoleFile
  <2>2. Abstract!AddWhole(p)
    BY <2>1 DEF Abstract!AddWhole
  <2>. QED
    BY <1>2, <2>1, <2>2 DEF Abstract!Next
<1>5. CASE AcknowledgePart(p)
  <2>1. content' = WithoutPart(content, p)
    BY <1>5 DEF AcknowledgePart
  <2>2. Apart(content')
    BY <2>1, AcknowledgeTakes
  <2>3. CASE content' = content
    BY <2>2, <2>3
  <2>4. CASE content' # content
    <3>1. Abstract!Take
      BY <2>1, <2>4, AcknowledgeTakes DEF Abstract!Take
    <3>. QED
      BY <2>2, <3>1 DEF Abstract!Next
  <2>. QED
    BY <2>3, <2>4
<1>. QED
  BY <1>1, <1>3, <1>4, <1>5

\* The intervals of the list stay apart, with room for those between them.
LEMMA StaysApart == Spec => []Apart(content)
<1>1. Init => Apart(content)
  BY NoParts DEF Init
<1>2. Apart(content) /\ [Next]_content => Apart(content)'
  BY NextKeepsApart
<1>. QED
  BY <1>1, <1>2, PTL DEF Spec

(***************************************************************************)
(* However parts are added and acknowledged, the intervals of the list are *)
(* in order and apart: the end node that addPart reads past the last one   *)
(* is never written, erased or taken for an interval.                      *)
(***************************************************************************)
THEOREM NextPartStaysOrdered == Spec => []Ordered
<1>1. Apart(content) => Ordered
  <2>1. SUFFICES ASSUME Apart(content) PROVE Ordered
    OBVIOUS
  <2>2. content \in Seq(Interval) /\ DOMAIN content = 1..Len(content) /\ Len(content) \in Nat
    BY <2>1, LenProperties DEF Apart
  <2>3. ASSUME NEW k \in DOMAIN content PROVE content[k].first <= content[k].second
    BY <2>1, <2>2 DEF Apart
  <2>4. ASSUME NEW k \in 1..(Len(content) - 1)
        PROVE  content[k].second < content[k + 1].first
    <3>1. k \in 1..Len(content) /\ k + 1 \in 1..Len(content) /\ k < k + 1 /\ (k + 1) - k = 1
      BY <2>2
    <3>2. content[k].second + ((k + 1) - k) <= content[k + 1].first
      BY <2>1, <3>1, Numbers
    <3>3. content[k].second \in Nat /\ content[k + 1].first \in Nat
      BY <2>1, <3>1, Numbers
    <3>. QED
      BY <3>1, <3>2, <3>3
  <2>. QED
    BY <2>2, <2>3, <2>4 DEF Ordered
<1>. QED
  BY <1>1, StaysApart, PTL

(***************************************************************************)
(* NextPart implements the set of part numbers: addPart adds its part and  *)
(* no other, acknowledgePart takes out the smallest or nothing.            *)
(***************************************************************************)
THEOREM NextPartImplementsPartSet == Spec => ImplementsPartSet
<1>1. Init => Abstract!Init
  BY NoParts DEF Init, Abstract!Init
<1>2. Apart(content) /\ [Next]_content => [Abstract!Next]_(PartsIn(content))
  BY NextKeepsApart
<1>. QED
  BY <1>1, <1>2, StaysApart, PTL DEF Spec, ImplementsPartSet, Abstract!Spec

=============================================================================
