--------------------------- MODULE RingIndexProofs ---------------------------
(***************************************************************************)
(* The rings of core/workqueue.c and core/ring.c: an index runs modulo m   *)
(* (2^32) and finds its entry modulo the size c of the ring, which divides *)
(* m.  First the arithmetic of such indexes, then the ring as the sequence *)
(* of its entries, and last the elements of a sequence.                    *)
(***************************************************************************)
EXTENDS Integers, SequenceTheorems, FiniteSetTheorems, TLAPS

----------------------------------------------------------------------------
(* Indexes.                                                                  *)

\* The remainder of a division is determined by it.
LEMMA Remainder ==
    ASSUME NEW n \in Nat \ {0}, NEW q \in Int, NEW r \in 0 .. n - 1
    PROVE  (n * q + r) % n = r
  OBVIOUS

LEMMA Division ==
    ASSUME NEW a \in Int, NEW n \in Nat \ {0}
    PROVE  /\ a \div n \in Int /\ (a % n) \in 0 .. n - 1
           /\ a = n * (a \div n) + (a % n)
  OBVIOUS

\* An index after a step forward, and the distance between two indexes.
LEMMA WrapOnce ==
    ASSUME NEW m \in Nat \ {0}, NEW a \in 0 .. m - 1, NEW k \in 0 .. m
    PROVE  (a + k) % m = IF a + k < m THEN a + k ELSE a + k - m
<1>1. CASE a + k < m
  BY <1>1, Remainder, m * 0 + (a + k) = a + k
<1>2. CASE a + k >= m
  BY <1>2, Remainder, m * 1 + (a + k - m) = a + k
<1> QED BY <1>1, <1>2

LEMMA Distance ==
    ASSUME NEW m \in Nat \ {0}, NEW a \in 0 .. m - 1, NEW b \in 0 .. m - 1
    PROVE  (a - b) % m = IF a >= b THEN a - b ELSE a - b + m
<1>1. CASE a >= b
  BY <1>1, Remainder, m * 0 + (a - b) = a - b
<1>2. CASE a < b
  BY <1>2, Remainder, m * (-1) + (a - b + m) = a - b
<1> QED BY <1>1, <1>2

\* The wrap of an index does not change the entry it stands for.
LEMMA WrapKeepsEntry ==
    ASSUME NEW c \in Nat \ {0}, NEW m \in Nat \ {0}, m % c = 0, NEW x \in Int
    PROVE  (x % m) % c = x % c
<1> DEFINE q == x \div m
           r == x % m
           n == m \div c
<1>1. q \in Int /\ r \in Int /\ x = m * q + r
  BY Division
<1>2. n \in Int /\ m = c * n
  BY Division
<1> HIDE DEF q, r, n
<1>3. x = c * (n * q) + r
  BY <1>1, <1>2
<1> DEFINE s == r \div c
           t == r % c
<1>4. s \in Int /\ t \in 0 .. c - 1 /\ r = c * s + t
  BY <1>1, Division
<1> HIDE DEF s, t
<1>5. n * q \in Int /\ n * q + s \in Int
  BY <1>1, <1>2, <1>4
<1>6. x = c * (n * q + s) + t
  BY <1>3, <1>4, <1>5
<1>7. x % c = t
  BY <1>4, <1>5, <1>6, Remainder
<1> QED BY <1>7 DEF r, t

\* Entries less than a whole ring apart are different ones.
LEMMA EntriesApart ==
    ASSUME NEW c \in Nat \ {0}, NEW x \in Int, NEW y \in Int, x < y, y < x + c
    PROVE  x % c # y % c
<1> SUFFICES ASSUME x % c = y % c PROVE FALSE
  OBVIOUS
<1> DEFINE p == x \div c
           q == y \div c
<1>1. p \in Int /\ q \in Int /\ y - x = c * (q - p)
  BY Division
<1> HIDE DEF p, q
<1>2. CASE q - p <= 0
  BY <1>1, <1>2
<1>3. CASE q - p >= 1
  <2>1. c * (q - p) >= c
    BY <1>1, <1>3
  <2> QED BY <1>1, <2>1
<1> QED BY <1>1, <1>2, <1>3

\* The same, with the operations of an index under a name each: a step of k,
\* the gap from h to t, and the entry of x.
Step(m, x, k) == (x + k) % m
Gap(m, t, h)  == (t - h) % m
Entry(c, x)   == x % c

\* A ring of c entries whose indexes run modulo m.
RingOf(m, c) == m % c = 0 /\ c < m

LEMMA StepIs ==
    ASSUME NEW m \in Nat \ {0}, NEW x \in 0 .. m - 1, NEW k \in 0 .. m
    PROVE  /\ Step(m, x, k) = IF x + k < m THEN x + k ELSE x + k - m
           /\ Step(m, x, k) \in 0 .. m - 1
<1>1. Step(m, x, k) = IF x + k < m THEN x + k ELSE x + k - m
  BY WrapOnce DEF Step
<1> QED BY <1>1

LEMMA GapIs ==
    ASSUME NEW m \in Nat \ {0}, NEW t \in 0 .. m - 1, NEW h \in 0 .. m - 1
    PROVE  /\ Gap(m, t, h) = IF t >= h THEN t - h ELSE t - h + m
           /\ Gap(m, t, h) \in 0 .. m - 1
<1>1. Gap(m, t, h) = IF t >= h THEN t - h ELSE t - h + m
  BY Distance DEF Gap
<1> QED BY <1>1

LEMMA EntryIs ==
    ASSUME NEW c \in Nat \ {0}, NEW x \in Int
    PROVE  Entry(c, x) \in 0 .. c - 1
  BY Division DEF Entry

LEMMA EntryOfStep ==
    ASSUME NEW c \in Nat \ {0}, NEW m \in Nat \ {0}, RingOf(m, c),
           NEW x \in Int, NEW k \in Int
    PROVE  Entry(c, Step(m, x, k)) = Entry(c, x + k)
<1>1. m % c = 0
  BY DEF RingOf
<1> QED BY <1>1, x + k \in Int, WrapKeepsEntry DEF Entry, Step

LEMMA EntriesDiffer ==
    ASSUME NEW c \in Nat \ {0}, NEW x \in Int, NEW y \in Int, x < y, y < x + c
    PROVE  Entry(c, x) # Entry(c, y)
  BY EntriesApart DEF Entry

\* The gap after a step of either end.
LEMMA GapGrows ==
    ASSUME NEW m \in Nat \ {0}, NEW t \in 0 .. m - 1, NEW h \in 0 .. m - 1,
           Gap(m, t, h) < m - 1
    PROVE  Gap(m, Step(m, t, 1), h) = Gap(m, t, h) + 1
<1>1. /\ Step(m, t, 1) = IF t + 1 < m THEN t + 1 ELSE t + 1 - m
      /\ Step(m, t, 1) \in 0 .. m - 1
  <2>1. 1 \in 0 .. m
    OBVIOUS
  <2>2. /\ Step(m, t, 1) = IF t + 1 < m THEN t + 1 ELSE t + 1 - m
        /\ Step(m, t, 1) \in 0 .. m - 1
    BY <2>1, StepIs
  <2> QED BY <2>2
<1>2. Gap(m, t, h) = IF t >= h THEN t - h ELSE t - h + m
  BY GapIs
<1>3. Gap(m, Step(m, t, 1), h) =
         IF Step(m, t, 1) >= h THEN Step(m, t, 1) - h ELSE Step(m, t, 1) - h + m
  BY <1>1, GapIs
<1> QED BY <1>1, <1>2, <1>3

LEMMA GapShrinks ==
    ASSUME NEW m \in Nat \ {0}, NEW t \in 0 .. m - 1, NEW h \in 0 .. m - 1,
           NEW n \in 0 .. Gap(m, t, h)
    PROVE  /\ Step(m, h, n) \in 0 .. m - 1
           /\ Gap(m, t, Step(m, h, n)) = Gap(m, t, h) - n
<1>1. /\ Gap(m, t, h) = IF t >= h THEN t - h ELSE t - h + m
      /\ Gap(m, t, h) \in 0 .. m - 1
  BY GapIs
<1>2. n \in 0 .. m
  BY <1>1
<1>3. /\ Step(m, h, n) = IF h + n < m THEN h + n ELSE h + n - m
      /\ Step(m, h, n) \in 0 .. m - 1
  BY <1>2, StepIs
<1>4. Gap(m, t, Step(m, h, n)) =
         IF t >= Step(m, h, n) THEN t - Step(m, h, n) ELSE t - Step(m, h, n) + m
  BY <1>3, GapIs
<1> QED BY <1>1, <1>2, <1>3, <1>4

LEMMA GapZero ==
    ASSUME NEW m \in Nat \ {0}, NEW t \in 0 .. m - 1, NEW h \in 0 .. m - 1
    PROVE  Gap(m, t, h) = 0 <=> t = h
<1>1. Gap(m, t, h) = IF t >= h THEN t - h ELSE t - h + m
  BY GapIs
<1> QED BY <1>1

----------------------------------------------------------------------------
(* The ring as a sequence.                                                   *)

\* The entries from index h up to index t, oldest first.
RingSeq(h, t, ring, m, c) ==
    [k \in 1 .. Gap(m, t, h) |-> ring[Entry(c, Step(m, h, k - 1))]]

\* Its length, its k-th entry, and its type.
LEMMA RingSeqLen ==
    ASSUME NEW c, NEW m \in Nat \ {0}, NEW h \in 0 .. m - 1, NEW t \in 0 .. m - 1,
           NEW ring
    PROVE  /\ Len(RingSeq(h, t, ring, m, c)) = Gap(m, t, h)
           /\ DOMAIN RingSeq(h, t, ring, m, c) = 1 .. Gap(m, t, h)
<1> DEFINE n == Gap(m, t, h)
           e(k) == ring[Entry(c, Step(m, h, k - 1))]
<1>1. n \in Nat
  BY GapIs
<1> HIDE DEF n, e
<1>2. Len([k \in 1 .. n |-> e(k)]) = n
  BY <1>1
<1> QED BY <1>2 DEF RingSeq, n, e

LEMMA RingSeqAt ==
    ASSUME NEW c \in Nat \ {0}, NEW m \in Nat \ {0}, RingOf(m, c),
           NEW h \in 0 .. m - 1, NEW t \in 0 .. m - 1, NEW ring,
           NEW k \in 1 .. Gap(m, t, h)
    PROVE  RingSeq(h, t, ring, m, c)[k] = ring[Entry(c, h + (k - 1))]
<1>1. Gap(m, t, h) \in Int
  BY GapIs
<1>2. h \in Int /\ k - 1 \in Int
  BY <1>1
<1> DEFINE i == k - 1
<1> HIDE DEF i
<1>3. Entry(c, Step(m, h, i)) = Entry(c, h + i)
  BY <1>2, EntryOfStep DEF i
<1>4. RingSeq(h, t, ring, m, c)[k] = ring[Entry(c, Step(m, h, i))]
  BY DEF RingSeq, i
<1> QED BY <1>3, <1>4 DEF i

LEMMA RingSeqTyped ==
    ASSUME NEW c \in Nat \ {0}, NEW m \in Nat \ {0}, RingOf(m, c),
           NEW h \in 0 .. m - 1, NEW t \in 0 .. m - 1,
           NEW ring, NEW S, \A x \in 0 .. c - 1 : ring[x] \in S
    PROVE  RingSeq(h, t, ring, m, c) \in Seq(S)
<1> DEFINE n == Gap(m, t, h)
           s == RingSeq(h, t, ring, m, c)
           e(k) == ring[Entry(c, Step(m, h, k - 1))]
<1>1. n \in Nat
  <2>1. n \in 0 .. m - 1
    BY GapIs
  <2> QED BY <2>1
<1>2. s = [k \in 1 .. n |-> e(k)]
  BY DEF RingSeq
<1>3. ASSUME NEW k \in 1 .. n PROVE e(k) \in S
  <2>1. k - 1 \in Int
    BY <1>1
  <2>2. s[k] = ring[Entry(c, h + (k - 1))]
    BY RingSeqAt
  <2>3. h + (k - 1) \in Int
    BY <2>1
  <2>4. Entry(c, h + (k - 1)) \in 0 .. c - 1
    BY <2>3, EntryIs
  <2> QED BY <1>2, <2>2, <2>4
<1> HIDE DEF n, s, e
<1>4. s \in [1 .. n -> S]
  BY <1>2, <1>3
<1>5. s \in Seq(S)
  BY <1>1, <1>4, SeqDef
<1> QED BY <1>5 DEF s

\* ring2 is ring with w in the entry of index t.
Filled(ring, ring2, c, t, w) ==
    /\ ring2[Entry(c, t)] = w
    /\ \A x \in 0 .. c - 1 : x # Entry(c, t) => ring2[x] = ring[x]

\* Filling the entry of t and stepping over it appends to the sequence, unless
\* the ring is full.
LEMMA RingSeqAppend ==
    ASSUME NEW c \in Nat \ {0}, NEW m \in Nat \ {0}, RingOf(m, c),
           NEW h \in 0 .. m - 1, NEW t \in 0 .. m - 1, Gap(m, t, h) < c,
           NEW ring, NEW ring2, NEW w, Filled(ring, ring2, c, t, w)
    PROVE  RingSeq(h, Step(m, t, 1), ring2, m, c) = Append(RingSeq(h, t, ring, m, c), w)
<1> DEFINE n == Gap(m, t, h)
           t2 == Step(m, t, 1)
           old == RingSeq(h, t, ring, m, c)
           new == RingSeq(h, t2, ring2, m, c)
           S == {ring[x] : x \in 0 .. c - 1} \cup {w}
<1>1. t2 = (IF t + 1 < m THEN t + 1 ELSE t + 1 - m) /\ t2 \in 0 .. m - 1
  BY StepIs, 1 \in 0 .. m
<1>2. n = (IF t >= h THEN t - h ELSE t - h + m) /\ n \in 0 .. m - 1 /\ n < c
  BY GapIs
<1>3. /\ Entry(c, t) \in 0 .. c - 1 /\ ring2[Entry(c, t)] = w
      /\ \A x \in 0 .. c - 1 : ring[x] \in S
      /\ \A x \in 0 .. c - 1 : ring2[x] \in S
  <2>1. Entry(c, t) \in 0 .. c - 1
    BY EntryIs
  <2>2. ring2[Entry(c, t)] = w
    BY DEF Filled
  <2>3. ASSUME NEW x \in 0 .. c - 1 PROVE ring[x] \in S /\ ring2[x] \in S
    <3>1. ring2[x] = w \/ ring2[x] = ring[x]
      BY DEF Filled
    <3> QED BY <3>1
  <2> QED BY <2>1, <2>2, <2>3
<1>4. \A x \in 0 .. c - 1 : x # Entry(c, t) => ring2[x] = ring[x]
  BY DEF Filled
<1>5. /\ old \in Seq(S) /\ Len(old) = n
      /\ \A k \in 1 .. n : old[k] = ring[Entry(c, h + (k - 1))]
  <2> HIDE DEF S
  <2>1. old \in Seq(S)
    BY <1>3, RingSeqTyped
  <2>2. Len(old) = n
    BY RingSeqLen
  <2>3. \A k \in 1 .. n : old[k] = ring[Entry(c, h + (k - 1))]
    BY RingSeqAt
  <2> QED BY <2>1, <2>2, <2>3
<1> HIDE DEF n, t2, S
<1>6. Gap(m, t2, h) = n + 1 /\ n + 1 \in 0 .. m - 1
  <2>1. /\ Gap(m, t2, h) = IF t2 >= h THEN t2 - h ELSE t2 - h + m
        /\ Gap(m, t2, h) \in 0 .. m - 1
    BY <1>1, GapIs
  <2>2. c < m
    BY DEF RingOf
  <2> QED BY <1>1, <1>2, <2>1, <2>2
<1>7. /\ new \in Seq(S) /\ Len(new) = n + 1
      /\ \A k \in 1 .. n + 1 : new[k] = ring2[Entry(c, h + (k - 1))]
  <2>1. new \in Seq(S)
    BY <1>1, <1>3, RingSeqTyped
  <2>2. Len(new) = n + 1
    BY <1>1, <1>6, RingSeqLen
  <2>3. ASSUME NEW k \in 1 .. n + 1 PROVE new[k] = ring2[Entry(c, h + (k - 1))]
    <3>1. k \in 1 .. Gap(m, t2, h)
      BY <1>6
    <3> QED BY <1>1, <3>1, RingSeqAt
  <2> QED BY <2>1, <2>2, <2>3
<1> HIDE DEF old, new
<1>8. Entry(c, h + n) = Entry(c, t)
  <2>1. Step(m, h, n) = IF h + n < m THEN h + n ELSE h + n - m
    <3>1. n \in 0 .. m
      BY <1>2
    <3> QED BY <3>1, StepIs
  <2>2. Step(m, h, n) = t
    BY <1>2, <2>1
  <2>3. Entry(c, Step(m, h, n)) = Entry(c, h + n)
    <3>1. h \in Int /\ n \in Int
      BY <1>2
    <3> QED BY <3>1, EntryOfStep
  <2> QED BY <2>2, <2>3
<1>9. ASSUME NEW k \in 1 .. n PROVE new[k] = old[k]
  <2> DEFINE x == h + (k - 1)
             y == h + n
  <2>1. x \in Int /\ y \in Int /\ x < y /\ y < x + c
    BY <1>2
  <2>2. new[k] = ring2[Entry(c, x)] /\ old[k] = ring[Entry(c, x)]
    <3>1. k \in 1 .. n + 1
      BY <1>2
    <3>2. new[k] = ring2[Entry(c, h + (k - 1))]
      BY <1>7, <3>1
    <3>3. old[k] = ring[Entry(c, h + (k - 1))]
      BY <1>5
    <3> QED BY <3>2, <3>3
  <2> HIDE DEF x
  <2>3. Entry(c, x) \in 0 .. c - 1
    BY <2>1, EntryIs
  <2>4. Entry(c, x) # Entry(c, t)
    <3> HIDE DEF y
    <3>1. Entry(c, x) # Entry(c, y)
      BY <2>1, EntriesDiffer
    <3> QED BY <1>8, <3>1 DEF y
  <2> QED BY <1>4, <2>2, <2>3, <2>4
<1>10. new[n + 1] = w
  <2>1. n + 1 \in 1 .. n + 1 /\ h + ((n + 1) - 1) = h + n
    BY <1>2
  <2> QED BY <1>3, <1>7, <1>8, <2>1
<1>11. w \in S
  BY DEF S
<1>12. /\ Append(old, w) \in Seq(S) /\ Len(Append(old, w)) = n + 1
       /\ \A k \in 1 .. n : Append(old, w)[k] = old[k]
       /\ Append(old, w)[n + 1] = w
  <2>1. old \in Seq(S) /\ w \in S /\ Len(old) = n
    BY <1>5, <1>11
  <2> HIDE <1>5
  <2>2. /\ Append(old, w) \in Seq(S) /\ Len(Append(old, w)) = Len(old) + 1
        /\ \A k \in 1 .. Len(old) : Append(old, w)[k] = old[k]
        /\ Append(old, w)[Len(old) + 1] = w
    BY <2>1, AppendProperties
  <2> QED BY <2>1, <2>2, Zenon
<1>13. ASSUME NEW k \in 1 .. n + 1 PROVE new[k] = Append(old, w)[k]
  <2>1. k \in 1 .. n \/ k = n + 1
    BY <1>2
  <2> QED BY <1>9, <1>10, <1>12, <2>1
<1>14. new = Append(old, w)
  BY <1>7, <1>12, <1>13, SeqEqual
<1> QED BY <1>14 DEF new, old, t2

\* Advancing h by n drops the n oldest entries.
LEMMA RingSeqDrop ==
    ASSUME NEW c \in Nat \ {0}, NEW m \in Nat \ {0}, RingOf(m, c),
           NEW h \in 0 .. m - 1, NEW t \in 0 .. m - 1, NEW n \in 0 .. Gap(m, t, h),
           NEW ring
    PROVE  /\ Step(m, h, n) \in 0 .. m - 1
           /\ RingSeq(Step(m, h, n), t, ring, m, c) =
                 SubSeq(RingSeq(h, t, ring, m, c), n + 1, Gap(m, t, h))
<1> DEFINE d == Gap(m, t, h)
           h2 == Step(m, h, n)
           old == RingSeq(h, t, ring, m, c)
           new == RingSeq(h2, t, ring, m, c)
           sub == SubSeq(old, n + 1, d)
           S == {ring[x] : x \in 0 .. c - 1}
<1>0. \A x \in 0 .. c - 1 : ring[x] \in S
  OBVIOUS
<1> HIDE DEF S
<1>1. d = (IF t >= h THEN t - h ELSE t - h + m) /\ d \in 0 .. m - 1
  BY GapIs
<1>2. n \in 0 .. d
  OBVIOUS
<1>3. /\ old \in Seq(S) /\ Len(old) = d
      /\ \A k \in 1 .. d : old[k] = ring[Entry(c, h + (k - 1))]
  <2>1. old \in Seq(S)
    BY <1>0, RingSeqTyped
  <2>2. Len(old) = d
    BY RingSeqLen
  <2>3. \A k \in 1 .. d : old[k] = ring[Entry(c, h + (k - 1))]
    BY RingSeqAt
  <2> QED BY <2>1, <2>2, <2>3
<1> HIDE DEF d
<1>4. n \in 0 .. m /\ n \in Int
  BY <1>1, <1>2
<1>5. h2 = (IF h + n < m THEN h + n ELSE h + n - m) /\ h2 \in 0 .. m - 1
  BY <1>4, StepIs
<1> HIDE DEF h2
<1>6. Gap(m, t, h2) = d - n
  <2>1. Gap(m, t, h2) = IF t >= h2 THEN t - h2 ELSE t - h2 + m
    BY <1>5, GapIs
  <2> QED BY <1>1, <1>2, <1>5, <2>1
<1>7. /\ new \in Seq(S) /\ Len(new) = d - n
      /\ \A k \in 1 .. d - n : new[k] = ring[Entry(c, h2 + (k - 1))]
  <2>1. new \in Seq(S)
    BY <1>0, <1>5, RingSeqTyped
  <2>2. Len(new) = d - n
    BY <1>5, <1>6, RingSeqLen
  <2>3. ASSUME NEW k \in 1 .. d - n PROVE new[k] = ring[Entry(c, h2 + (k - 1))]
    <3>1. k \in 1 .. Gap(m, t, h2)
      BY <1>6
    <3> QED BY <1>5, <3>1, RingSeqAt
  <2> QED BY <2>1, <2>2, <2>3
<1>8. ASSUME NEW k \in 1 .. d - n
      PROVE  Entry(c, h2 + (k - 1)) = Entry(c, h + ((n + k) - 1))
  <2> DEFINE i == k - 1
             j == (n + k) - 1
  <2>1. i \in 0 .. m /\ j \in 0 .. m /\ j = n + i
    BY <1>1, <1>2
  <2> HIDE DEF i, j
  <2>2. Step(m, h2, i) = IF h2 + i < m THEN h2 + i ELSE h2 + i - m
    BY <1>5, <2>1, StepIs
  <2>3. Step(m, h, j) = IF h + j < m THEN h + j ELSE h + j - m
    BY <2>1, StepIs
  <2>4. i <= d - n /\ j <= d
    BY <1>1, <1>2 DEF i, j
  <2>5. CASE h + n < m
    <3>1. h2 + i = h + j
      BY <1>4, <1>5, <2>1, <2>5
    <3> QED BY <3>1 DEF i, j
  <2>6. CASE h + n >= m
    <3>1. Step(m, h, j) = h2 + i
      BY <1>1, <1>4, <1>5, <2>1, <2>3, <2>6
    <3>2. Entry(c, Step(m, h, j)) = Entry(c, h + j)
      BY <2>1, EntryOfStep, h \in Int, j \in Int
    <3> QED BY <3>1, <3>2 DEF i, j
  <2> QED BY <1>4, <2>5, <2>6
<1> HIDE DEF old, new
<1>9. /\ sub \in Seq(S) /\ Len(sub) = d - n
      /\ \A k \in 1 .. d - n : sub[k] = old[n + k]
  <2>1. n + 1 \in Int /\ d \in Int /\ \A i \in n + 1 .. d : old[i] \in S
    <3>1. n + 1 \in Int /\ d \in Int
      BY <1>1, <1>4
    <3>2. ASSUME NEW i \in n + 1 .. d PROVE old[i] \in S
      <4>1. i \in 1 .. Len(old)
        BY <1>1, <1>2, <1>3
      <4> QED BY <1>3, <4>1, ElementOfSeq
    <3> QED BY <3>1, <3>2
  <2>2. /\ sub \in Seq(S)
        /\ Len(sub) = IF n + 1 <= d THEN d - (n + 1) + 1 ELSE 0
        /\ \A i \in 1 .. d - (n + 1) + 1 : sub[i] = old[(n + 1) + i - 1]
    BY <2>1, SubSeqProperties
  <2> HIDE DEF sub
  <2>3. ASSUME NEW k \in 1 .. d - n PROVE sub[k] = old[n + k]
    <3>1. k \in 1 .. d - (n + 1) + 1 /\ (n + 1) + k - 1 = n + k
      BY <1>4, <2>1
    <3> QED BY <2>2, <3>1
  <2>4. Len(sub) = d - n
    BY <1>2, <1>4, <2>1, <2>2
  <2> QED BY <2>2, <2>3, <2>4
<1> HIDE DEF sub
<1>10. ASSUME NEW k \in 1 .. d - n PROVE new[k] = sub[k]
  <2>1. n + k \in 1 .. d
    BY <1>1, <1>2
  <2>2. new[k] = ring[Entry(c, h2 + (k - 1))]
    BY <1>7
  <2>3. old[n + k] = ring[Entry(c, h + ((n + k) - 1))]
    BY <1>3, <2>1
  <2>4. sub[k] = old[n + k]
    BY <1>9
  <2> QED BY <1>8, <2>2, <2>3, <2>4
<1>11. new = sub
  <2>1. new \in Seq(S) /\ sub \in Seq(S) /\ Len(new) = Len(sub)
    BY <1>7, <1>9
  <2>2. \A k \in 1 .. Len(new) : new[k] = sub[k]
    BY <1>7, <1>10
  <2> HIDE <1>7, <1>9
  <2> QED BY <2>1, <2>2, SeqEqual
<1> QED BY <1>5, <1>11 DEF new, sub, old, h2, d

\* Taking the oldest entry.
LEMMA RingSeqTake ==
    ASSUME NEW c \in Nat \ {0}, NEW m \in Nat \ {0}, RingOf(m, c),
           NEW h \in 0 .. m - 1, NEW t \in 0 .. m - 1, h # t, NEW ring
    PROVE  /\ RingSeq(h, t, ring, m, c) # <<>>
           /\ Head(RingSeq(h, t, ring, m, c)) = ring[Entry(c, h)]
           /\ RingSeq(Step(m, h, 1), t, ring, m, c) = Tail(RingSeq(h, t, ring, m, c))
<1> DEFINE old == RingSeq(h, t, ring, m, c)
           d == Gap(m, t, h)
           S == {ring[x] : x \in 0 .. c - 1}
<1>0. \A x \in 0 .. c - 1 : ring[x] \in S
  OBVIOUS
<1> HIDE DEF S
<1>1. d \in 1 .. m - 1
  <2>1. d = IF t >= h THEN t - h ELSE t - h + m
    BY GapIs
  <2> QED BY <2>1
<1>2. /\ old \in Seq(S) /\ Len(old) = d
      /\ \A k \in 1 .. d : old[k] = ring[Entry(c, h + (k - 1))]
  BY <1>0, RingSeqLen, RingSeqAt, RingSeqTyped
<1>3. RingSeq(Step(m, h, 1), t, ring, m, c) = SubSeq(old, 2, d)
  <2>1. PICK n \in 0 .. Gap(m, t, h) : n = 1
    BY <1>1
  <2>2. RingSeq(Step(m, h, n), t, ring, m, c) =
           SubSeq(RingSeq(h, t, ring, m, c), n + 1, Gap(m, t, h))
    BY RingSeqDrop
  <2>3. n + 1 = 2
    BY <2>1
  <2> QED BY <2>1, <2>2, <2>3
<1> HIDE DEF old, d
<1>4. old # <<>> /\ Head(old) = old[1]
  BY <1>1, <1>2
<1>5. old[1] = ring[Entry(c, h)]
  <2>1. 1 \in 1 .. d /\ h + (1 - 1) = h
    BY <1>1
  <2> QED BY <1>2, <2>1
<1>6. Tail(old) = SubSeq(old, 2, Len(old))
  BY <1>2, <1>4, TailIsSubSeq
<1> QED BY <1>2, <1>3, <1>4, <1>5, <1>6 DEF old

----------------------------------------------------------------------------
(* The elements of a sequence.                                               *)

ElemsOf(s)  == {s[k] : k \in DOMAIN s}
Distinct(s) == \A j, k \in DOMAIN s : s[j] = s[k] => j = k

LEMMA AppendElems ==
    ASSUME NEW S, NEW s \in Seq(S), NEW w \in S
    PROVE  /\ ElemsOf(Append(s, w)) = ElemsOf(s) \cup {w}
           /\ Distinct(s) /\ w \notin ElemsOf(s) => Distinct(Append(s, w))
<1> DEFINE n == Len(s)
           a == Append(s, w)
<1>1. n \in Nat /\ DOMAIN s = 1 .. n
  BY LenProperties
<1>2. a \in Seq(S) /\ Len(a) = n + 1 /\ (\A k \in 1 .. n : a[k] = s[k]) /\ a[n + 1] = w
  BY AppendProperties
<1>3. DOMAIN a = 1 .. n + 1
  BY <1>2, LenProperties
<1> HIDE DEF n, a
<1>4. DOMAIN a = 1 .. n \cup {n + 1}
  BY <1>1, <1>3
<1>5. ElemsOf(a) = ElemsOf(s) \cup {w}
  BY <1>1, <1>2, <1>4 DEF ElemsOf
<1>6. Distinct(s) /\ w \notin ElemsOf(s) => Distinct(a)
  BY <1>1, <1>2, <1>4 DEF Distinct, ElemsOf
<1> QED BY <1>5, <1>6 DEF a

LEMMA TailElems ==
    ASSUME NEW S, NEW s \in Seq(S), s # <<>>
    PROVE  /\ ElemsOf(s) = {Head(s)} \cup ElemsOf(Tail(s))
           /\ Distinct(s) => Distinct(Tail(s)) /\ Head(s) \notin ElemsOf(Tail(s))
<1> DEFINE n == Len(s)
           u == Tail(s)
<1>1. n \in Nat \ {0} /\ DOMAIN s = 1 .. n /\ Head(s) = s[1]
  BY LenProperties, EmptySeq
<1>2. u \in Seq(S) /\ Len(u) = n - 1 /\ \A k \in 1 .. n - 1 : u[k] = s[k + 1]
  BY HeadTailProperties
<1>3. DOMAIN u = 1 .. n - 1
  BY <1>2, LenProperties
<1> HIDE DEF n, u
<1>4. ASSUME NEW k \in 1 .. n PROVE s[k] \in {Head(s)} \cup ElemsOf(u)
  <2>1. CASE k = 1
    BY <1>1, <2>1
  <2>2. CASE k # 1
    <3>1. k - 1 \in 1 .. n - 1 /\ (k - 1) + 1 = k
      BY <1>1, <2>2
    <3>2. s[k] = u[k - 1]
      BY <1>2, <3>1
    <3> QED BY <1>3, <3>1, <3>2 DEF ElemsOf
  <2> QED BY <2>1, <2>2
<1>5. \A k \in 1 .. n - 1 : k + 1 \in 1 .. n /\ k + 1 # 1
  BY <1>1
<1>6. ElemsOf(s) \subseteq {Head(s)} \cup ElemsOf(u)
  BY <1>1, <1>4 DEF ElemsOf
<1>7. {Head(s)} \cup ElemsOf(u) \subseteq ElemsOf(s)
  <2>1. ASSUME NEW k \in 1 .. n - 1 PROVE u[k] \in ElemsOf(s)
    <3>1. k + 1 \in DOMAIN s /\ u[k] = s[k + 1]
      BY <1>1, <1>2, <1>5
    <3> QED BY <3>1 DEF ElemsOf
  <2>2. Head(s) \in ElemsOf(s)
    <3>1. 1 \in DOMAIN s
      BY <1>1
    <3> QED BY <1>1, <3>1 DEF ElemsOf
  <2>3. ElemsOf(u) \subseteq ElemsOf(s)
    BY <1>3, <2>1 DEF ElemsOf
  <2> QED BY <2>2, <2>3
<1>8. Distinct(s) => Distinct(u) /\ Head(s) \notin ElemsOf(u)
  <2> SUFFICES ASSUME Distinct(s) PROVE Distinct(u) /\ Head(s) \notin ElemsOf(u)
    OBVIOUS
  <2>1. ASSUME NEW j \in 1 .. n - 1, NEW k \in 1 .. n - 1, u[j] = u[k] PROVE j = k
    <3>1. s[j + 1] = s[k + 1]
      BY <1>2, <2>1
    <3>2. j + 1 = k + 1
      BY <1>1, <1>5, <3>1 DEF Distinct
    <3> QED BY <1>1, <3>2
  <2>2. ASSUME NEW k \in 1 .. n - 1 PROVE u[k] # Head(s)
    BY <1>1, <1>2, <1>5 DEF Distinct
  <2>3. Distinct(u)
    <3>1. \A j, k \in DOMAIN u : u[j] = u[k] => j = k
      BY <1>3, <2>1
    <3> QED BY <3>1 DEF Distinct
  <2>4. Head(s) \notin ElemsOf(u)
    BY <1>3, <2>2 DEF ElemsOf
  <2> QED BY <2>3, <2>4
<1> QED BY <1>6, <1>7, <1>8 DEF u

\* Distinct entries are counted by the length.
LEMMA CountElems ==
    ASSUME NEW S, NEW s \in Seq(S), Distinct(s)
    PROVE  Cardinality(ElemsOf(s)) = Len(s)
<1>1. Len(s) \in Nat /\ s \in [1 .. Len(s) -> S] /\ DOMAIN s = 1 .. Len(s)
  BY LenProperties
<1>2. s \in [1 .. Len(s) -> ElemsOf(s)]
  BY <1>1 DEF ElemsOf
<1>3. s \in Bijection(1 .. Len(s), ElemsOf(s))
  BY <1>1, <1>2 DEF Distinct, ElemsOf, Bijection, Injection, Surjection, IsInjective
<1> QED BY <1>1, <1>3, FS_CountingElements DEF ExistsBijection
=============================================================================
