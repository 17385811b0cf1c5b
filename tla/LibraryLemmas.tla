----------------------------- MODULE LibraryLemmas ----------------------------
(***************************************************************************)
(* Facts about what the modules are built from.  The least element of a    *)
(* set of naturals and the greatest element of a bounded one exist, and    *)
(* Min and Max return them: the searches of the code, "first free" and     *)
(* "last free", are written with Min and Max.  Division with remainder by  *)
(* a constant: rings and page tables are indexed with it.  Sequences with  *)
(* an element more or less: lists are changed so.                          *)
(***************************************************************************)
EXTENDS Integers, FiniteSetsExt, SequencesExt, SequenceTheorems, TLAPS, WellFoundedInduction

\* A non-empty set of naturals has a least element.
LEMMA LeastExists ==
    ASSUME NEW S \in SUBSET Nat, S # {}
    PROVE  \E x \in S : \A y \in S : x <= y
<1>1. PICK x \in S : \A y \in S : ~ (<<y, x>> \in OpToRel(<, Nat))
  BY NatLessThanWellFounded, WFMin, Zenon
<1>2. ASSUME NEW y \in S
      PROVE  x <= y
  <2>1. <<y, x>> \in Nat \X Nat /\ x \in Nat /\ y \in Nat
    OBVIOUS
  <2>2. y < x => <<y, x>> \in OpToRel(<, Nat)
    BY <2>1, Zenon DEF OpToRel
  <2>3. ~ (y < x)
    BY <1>1, <2>2, Zenon
  <2>4. QED
    BY <2>1, <2>3
<1>3. QED
  BY <1>2

\* Induction over an interval, for a set instead of a predicate.
LEMMA CountingUp ==
    ASSUME NEW n \in Nat, NEW S, 0 \in S,
           \A i \in 1 .. n : i - 1 \in S => i \in S
    PROVE  \A i \in 0 .. n : i \in S
<1> DEFINE bad == {i \in 0 .. n : i \notin S}
<1>1. SUFFICES ASSUME bad # {} PROVE FALSE
  OBVIOUS
<1>2. bad \in SUBSET Nat
  OBVIOUS
<1>3. PICK m \in bad : \A l \in bad : m <= l
  BY <1>1, <1>2, LeastExists
<1>4. m \in 1 .. n /\ m - 1 \in 0 .. n /\ m - 1 \notin bad
  BY <1>3
<1>5. QED
  BY <1>3, <1>4

\* Min returns the least element.
LEMMA MinOfNat ==
    ASSUME NEW S \in SUBSET Nat, S # {}
    PROVE  Min(S) \in S /\ \A y \in S : Min(S) <= y
  BY LeastExists DEF Min

\* Max returns the greatest element of a set of naturals below a bound.
LEMMA MaxOfBounded ==
    ASSUME NEW n \in Nat, NEW S \in SUBSET (0 .. n), S # {}
    PROVE  Max(S) \in S /\ \A y \in S : Max(S) >= y
<1> DEFINE T == {n - x : x \in S}
<1>1. T \in SUBSET Nat /\ T # {}
  <2>1. \A x \in S : n - x \in Nat
    OBVIOUS
  <2>2. \A t \in T : t \in Nat
    BY <2>1
  <2>3. QED
    BY <2>2
<1>2. PICK t \in T : \A u \in T : t <= u
  BY <1>1, LeastExists
<1>3. PICK x \in S : t = n - x
  OBVIOUS
<1>4. \A y \in S : y <= x
  <2> TAKE y \in S
  <2>1. n - x <= n - y
    BY <1>2, <1>3
  <2>2. QED
    BY <2>1
<1>5. QED
  BY <1>4 DEF Max

-----------------------------------------------------------------------------
\* Quotient and remainder.
LEMMA Division ==
    ASSUME NEW N \in Nat \ {0}, NEW a \in Nat
    PROVE  a % N \in 0 .. N - 1 /\ a \div N \in Nat /\ a = N * (a \div N) + (a % N)
  OBVIOUS

\* They are the only ones.
LEMMA DivisionUnique ==
    ASSUME NEW N \in Nat \ {0}, NEW q \in Nat, NEW r \in 0 .. N - 1
    PROVE  (N * q + r) % N = r /\ (N * q + r) \div N = q
  OBVIOUS

\* A number below the divisor.
LEMMA DivisionOfSmall ==
    ASSUME NEW N \in Nat \ {0}, NEW r \in 0 .. N - 1
    PROVE  r % N = r /\ r \div N = 0
  OBVIOUS

\* Counting on: the remainder starts again after N - 1.
LEMMA DivisionOfNext ==
    ASSUME NEW N \in Nat \ {0}, NEW a \in Nat
    PROVE  /\ (a + 1) % N = IF a % N = N - 1 THEN 0 ELSE (a % N) + 1
           /\ (a + 1) \div N = IF a % N = N - 1 THEN (a \div N) + 1 ELSE a \div N
<1> DEFINE q == a \div N
           r == a % N
<1>1. r \in 0 .. N - 1 /\ q \in Nat /\ a = N * q + r
  BY Division
<1> HIDE DEF q, r
<1>2. CASE r = N - 1
  <2>1. a + 1 = N * (q + 1) + 0
    BY <1>1, <1>2
  <2>2. (a + 1) % N = 0 /\ (a + 1) \div N = q + 1
    BY <1>1, <2>1, DivisionUnique
  <2>3. QED
    BY <2>2, <1>2 DEF q, r
<1>3. CASE r # N - 1
  <2>1. a + 1 = N * q + (r + 1) /\ r + 1 \in 0 .. N - 1
    BY <1>1, <1>3
  <2>2. (a + 1) % N = r + 1 /\ (a + 1) \div N = q
    BY <1>1, <2>1, DivisionUnique
  <2>3. QED
    BY <2>2, <1>3 DEF q, r
<1>4. QED
  BY <1>2, <1>3

\* Numbers with the same remainder that are less than N apart are equal.
LEMMA SameRemainder ==
    ASSUME NEW N \in Nat \ {0}, NEW a \in Nat, NEW b \in Nat,
           a % N = b % N, a <= b, b < a + N
    PROVE  a = b
<1> DEFINE q == a \div N
           p == b \div N
           r == a % N
<1>1. r \in 0 .. N - 1 /\ q \in Nat /\ a = N * q + r /\ p \in Nat /\ b = N * p + r
  BY Division
<1> HIDE DEF p, q, r
<1>2. CASE p >= q + 1
  <2>1. PICK d \in Nat : p = q + 1 + d
    <3>1. p - q - 1 \in Nat
      BY <1>1, <1>2
    <3>2. QED
      BY <3>1, <1>1
  <2>2. N * p = N * q + N + N * d /\ N * d >= 0
    BY <1>1, <2>1
  <2>3. QED
    BY <2>2, <1>1
<1>3. CASE p <= q
  <2>1. PICK d \in Nat : q = p + d
    <3>1. q - p \in Nat
      BY <1>1, <1>3
    <3>2. QED
      BY <3>1, <1>1
  <2>2. N * q = N * p + N * d /\ N * d >= 0
    BY <1>1, <2>1
  <2>3. QED
    BY <2>2, <1>1
<1>4. QED
  BY <1>1, <1>2, <1>3

\* The remainder of a sum.
LEMMA RemainderOfSum ==
    ASSUME NEW N \in Nat \ {0}, NEW a \in Nat, NEW b \in Nat
    PROVE  ((a % N) + b) % N = (a + b) % N
<1> DEFINE q == a \div N
           r == a % N
           c == (r + b) \div N
           s == (r + b) % N
<1>1. r \in 0 .. N - 1 /\ q \in Nat /\ a = N * q + r
  BY Division
<1>2. c \in Nat /\ s \in 0 .. N - 1 /\ r + b = N * c + s
  <2>1. r + b \in Nat
    BY <1>1
  <2> HIDE DEF r
  <2>2. QED
    BY Division, <2>1
<1> HIDE DEF c, s, q, r
<1>3. a + b = N * (q + c) + s /\ q + c \in Nat
  BY <1>1, <1>2
<1>4. (a + b) % N = s
  <2> DEFINE d == q + c
  <2> HIDE DEF d
  <2>1. d \in Nat /\ a + b = N * d + s
    BY <1>3 DEF d
  <2>2. QED
    BY <1>2, <2>1, DivisionUnique
<1>5. QED
  BY <1>4 DEF s, r

-----------------------------------------------------------------------------
\* A sequence without its i-th element, and with one before it.
LEMMA RemovedAt ==
    ASSUME NEW S, NEW s \in Seq(S), NEW p \in 1 .. Len(s)
    PROVE  /\ RemoveAt(s, p) \in Seq(S)
           /\ Len(RemoveAt(s, p)) = Len(s) - 1
           /\ \A i \in 1 .. Len(s) - 1 : RemoveAt(s, p)[i] = IF i < p THEN s[i] ELSE s[i + 1]
<1> DEFINE before == SubSeq(s, 1, p - 1)
           behind == SubSeq(s, p + 1, Len(s))
<1>0. Len(s) \in Nat /\ p \in Nat
  OBVIOUS
<1>1. before \in Seq(S) /\ Len(before) = p - 1 /\ \A i \in 1 .. p - 1 : before[i] = s[i]
  OBVIOUS
<1>2. /\ behind \in Seq(S) /\ Len(behind) = Len(s) - p
      /\ \A i \in 1 .. Len(s) - p : behind[i] = s[p + i]
  OBVIOUS
<1>3. RemoveAt(s, p) = before \o behind
  BY DEF RemoveAt
<1> HIDE DEF before, behind
<1>4. /\ before \o behind \in Seq(S) /\ Len(before \o behind) = Len(s) - 1
      /\ \A i \in 1 .. Len(s) - 1 :
            (before \o behind)[i] = IF i < p THEN before[i] ELSE behind[i - (p - 1)]
  <2>1. Len(before) = p - 1 /\ Len(behind) = Len(s) - p
    BY <1>1, <1>2
  <2>2. /\ before \o behind \in Seq(S)
        /\ Len(before \o behind) = Len(before) + Len(behind)
        /\ \A i \in 1 .. Len(before) + Len(behind) :
              (before \o behind)[i] = IF i <= Len(before) THEN before[i] ELSE behind[i - Len(before)]
    BY <1>1, <1>2, ConcatProperties, Zenon
  <2>3. QED
    BY <1>0, <2>1, <2>2
<1>5. ASSUME NEW i \in 1 .. Len(s) - 1
      PROVE  (before \o behind)[i] = IF i < p THEN s[i] ELSE s[i + 1]
  <2>1. CASE i < p
    BY <2>1, <1>1, <1>4
  <2>2. CASE ~ (i < p)
    <3>1. i - (p - 1) \in 1 .. Len(s) - p /\ p + (i - (p - 1)) = i + 1
      BY <2>2
    <3>2. QED
      BY <3>1, <2>2, <1>2, <1>4
  <2>3. QED
    BY <2>1, <2>2
<1>6. QED
  BY <1>3, <1>4, <1>5

\* InsertAt, element by element.
LEMMA InsertedAt ==
    ASSUME NEW S, NEW s \in Seq(S), NEW p \in 1 .. Len(s) + 1, NEW e \in S
    PROVE  /\ InsertAt(s, p, e) \in Seq(S)
           /\ Len(InsertAt(s, p, e)) = Len(s) + 1
           /\ \A i \in 1 .. Len(s) + 1 :
                 InsertAt(s, p, e)[i] = IF i < p THEN s[i] ELSE IF i = p THEN e ELSE s[i - 1]
<1> DEFINE before == SubSeq(s, 1, p - 1)
           behind == SubSeq(s, p, Len(s))
           upto == before \o <<e>>
<1>0. Len(s) \in Nat /\ p \in Nat
  OBVIOUS
<1>a. <<e>> \in Seq(S) /\ Len(<<e>>) = 1 /\ <<e>>[1] = e
  OBVIOUS
<1>1. before \in Seq(S) /\ Len(before) = p - 1 /\ \A i \in 1 .. p - 1 : before[i] = s[i]
  OBVIOUS
<1>2. /\ behind \in Seq(S) /\ Len(behind) = Len(s) - p + 1
      /\ \A i \in 1 .. Len(s) - p + 1 : behind[i] = s[p + i - 1]
  OBVIOUS
<1>3. InsertAt(s, p, e) = upto \o behind
  BY DEF InsertAt
<1> HIDE DEF before, behind
<1>4. /\ upto \in Seq(S)
      /\ Len(upto) = Len(before) + 1
      /\ \A i \in 1 .. Len(before) + 1 :
            upto[i] = IF i <= Len(before) THEN before[i] ELSE <<e>>[i - Len(before)]
  BY <1>a, <1>1, ConcatProperties
<1> HIDE DEF upto
<1>5. upto \in Seq(S) /\ Len(upto) = p /\ \A i \in 1 .. p : upto[i] = IF i < p THEN s[i] ELSE e
  <2>1. Len(before) = p - 1
    BY <1>1
  <2>2. Len(upto) = p
    BY <1>0, <1>4, <2>1
  <2>3. ASSUME NEW i \in 1 .. p PROVE upto[i] = IF i < p THEN s[i] ELSE e
    <3>1. upto[i] = IF i <= p - 1 THEN before[i] ELSE <<e>>[i - (p - 1)]
      BY <1>0, <1>4, <2>1
    <3>2. CASE i < p
      BY <3>1, <3>2, <1>0, <1>1
    <3>3. CASE i = p
      <4>1. i - (p - 1) = 1 /\ ~ (i <= p - 1) /\ ~ (i < p)
        BY <3>3, <1>0
      <4>2. upto[i] = e
        BY <3>1, <4>1, <1>a
      <4>3. QED
        BY <4>1, <4>2
    <3>4. i < p \/ i = p
      BY <1>0
    <3>5. QED
      BY <3>2, <3>3, <3>4
  <2>4. QED
    BY <1>4, <2>2, <2>3
<1>6. /\ upto \o behind \in Seq(S)
      /\ Len(upto \o behind) = Len(upto) + Len(behind)
      /\ \A i \in 1 .. Len(upto) + Len(behind) :
            (upto \o behind)[i] = IF i <= Len(upto) THEN upto[i] ELSE behind[i - Len(upto)]
  BY <1>2, <1>5, ConcatProperties, Zenon
<1>7. Len(upto) = p /\ Len(behind) = Len(s) - p + 1 /\ Len(upto) + Len(behind) = Len(s) + 1
  <2>1. Len(upto) = p /\ Len(behind) = Len(s) - p + 1
    BY <1>2, <1>5
  <2>2. QED
    BY <1>0, <2>1
<1>8. ASSUME NEW i \in 1 .. Len(s) + 1
      PROVE  (upto \o behind)[i] = IF i < p THEN s[i] ELSE IF i = p THEN e ELSE s[i - 1]
  <2>1. (upto \o behind)[i] = IF i <= p THEN upto[i] ELSE behind[i - p]
    BY <1>6, <1>7
  <2>2. CASE i <= p
    BY <2>1, <2>2, <1>0, <1>5
  <2>3. CASE ~ (i <= p)
    <3>1. i - p \in 1 .. Len(s) - p + 1 /\ p + (i - p) - 1 = i - 1
      BY <2>3, <1>0
    <3>2. QED
      BY <2>1, <2>3, <3>1, <1>0, <1>2
  <2>4. QED
    BY <2>2, <2>3
<1>9. QED
  BY <1>3, <1>6, <1>7, <1>8

\* Functions with the same values.
LEMMA FunctionsEqual ==
    ASSUME NEW S, NEW T, NEW f \in [S -> T], NEW k \in [S -> T], \A x \in S : f[x] = k[x]
    PROVE  f = k
<1>1. f = [x \in S |-> f[x]] /\ k = [x \in S |-> k[x]]
  OBVIOUS
<1>2. [x \in S |-> f[x]] = [x \in S |-> k[x]]
  OBVIOUS
<1>3. QED
  BY <1>1, <1>2, Zenon
=============================================================================
