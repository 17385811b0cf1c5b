----------------------------- MODULE KmallocProofs -----------------------------
(***************************************************************************)
(* Proofs about Kmalloc, for pages, headers, alignments and requests of    *)
(* any size.                                                               *)
(***************************************************************************)
EXTENDS Kmalloc, LibraryLemmas, SequenceTheorems, TLAPS

-----------------------------------------------------------------------------
(***************************************************************************)
(* Sums.                                                                   *)
(***************************************************************************)
\* g gives the sums of the beginnings of x.
Sums(x, g) ==
    /\ g \in [0 .. Len(x) -> Nat] /\ g[0] = 0
    /\ \A i \in 1 .. Len(x) : g[i] = g[i - 1] + x[i]

\* A sequence of numbers has sums.
LEMMA SumsExist ==
    ASSUME NEW x \in Seq(Nat)
    PROVE  \E g : Sums(x, g)
<1> DEFINE SumsTo(g, n) == /\ g \in [0 .. n -> Nat] /\ g[0] = 0
                           /\ \A i \in 1 .. n : g[i] = g[i - 1] + x[i]
           bad == {n \in 0 .. Len(x) : ~ \E g : SumsTo(g, n)}
<1>1. Len(x) \in Nat /\ \A i \in 1 .. Len(x) : x[i] \in Nat
  OBVIOUS
<1>2. SumsTo([i \in 0 .. 0 |-> 0], 0)
  OBVIOUS
<1>3. ASSUME NEW n \in 1 .. Len(x), NEW g, SumsTo(g, n - 1)
      PROVE  \E f : SumsTo(f, n)
  <2> DEFINE f == [i \in 0 .. n |-> IF i = n THEN g[n - 1] + x[n] ELSE g[i]]
  <2>1. n - 1 \in Nat /\ n \in Nat
    BY <1>1
  <2>2. g[n - 1] \in Nat /\ x[n] \in Nat
    BY <1>1, <1>3, <2>1
  <2>3. f \in [0 .. n -> Nat]
    BY <1>3, <2>1, <2>2
  <2>4. f[0] = 0
    BY <1>3, <2>1
  <2>5. ASSUME NEW i \in 1 .. n PROVE f[i] = f[i - 1] + x[i]
    BY <1>3, <2>1
  <2>6. SumsTo(f, n)
    BY <2>3, <2>4, <2>5
  <2>7. QED
    BY <2>6
<1> HIDE DEF SumsTo
<1>4. bad = {}
  <2>1. SUFFICES ASSUME bad # {} PROVE FALSE
    OBVIOUS
  <2>2. bad \in SUBSET Nat
    BY <1>1
  <2>3. PICK n \in bad : \A m \in bad : n <= m
    BY <2>1, <2>2, LeastExists
  <2>4. n # 0
    BY <1>2
  <2>5. n \in 1 .. Len(x) /\ n - 1 \in 0 .. Len(x) /\ n - 1 \notin bad
    BY <1>1, <2>3, <2>4
  <2>6. QED
    BY <1>3, <2>5
<1>5. Len(x) \in 0 .. Len(x)
  BY <1>1
<1>6. \E g : SumsTo(g, Len(x))
  BY <1>4, <1>5
<1>7. QED
  BY <1>6 DEF Sums, SumsTo

\* And only one, the last of them the total.
LEMMA TotalIsLastSum ==
    ASSUME NEW x \in Seq(Nat), NEW g, Sums(x, g)
    PROVE  Total(x) = g[Len(x)]
<1> DEFINE upto == CHOOSE f : f = [i \in 0 .. Len(x) |-> IF i = 0 THEN 0 ELSE f[i - 1] + x[i]]
           bad == {n \in 0 .. Len(x) : upto[n] # g[n]}
<1>1. Len(x) \in Nat
  OBVIOUS
<1>2. g = [i \in 0 .. Len(x) |-> IF i = 0 THEN 0 ELSE g[i - 1] + x[i]]
  BY <1>1 DEF Sums
<1>3. upto = [i \in 0 .. Len(x) |-> IF i = 0 THEN 0 ELSE upto[i - 1] + x[i]]
  BY <1>2, Zenon
<1>4. Total(x) = upto[Len(x)]
  BY DEF Total
<1> HIDE DEF upto
<1>5. bad = {}
  <2>1. SUFFICES ASSUME bad # {} PROVE FALSE
    OBVIOUS
  <2>2. bad \in SUBSET Nat
    BY <1>1
  <2>3. PICK n \in bad : \A m \in bad : n <= m
    BY <2>1, <2>2, LeastExists
  <2>4. n # 0
    BY <1>1, <1>3 DEF Sums
  <2>5. n \in 1 .. Len(x) /\ n - 1 \in 0 .. Len(x) /\ n - 1 \notin bad
    BY <1>1, <2>3, <2>4
  <2>6. upto[n] = upto[n - 1] + x[n]
    BY <1>1, <1>3, <2>5
  <2>7. QED
    BY <2>3, <2>5, <2>6 DEF Sums
<1>6. QED
  BY <1>1, <1>4, <1>5

\* The total of the empty sequence.
LEMMA TotalOfNone == Total(<<>>) = 0
<1>1. <<>> \in Seq(Nat) /\ Len(<<>>) = 0
  OBVIOUS
<1>2. PICK g : Sums(<<>>, g)
  BY <1>1, SumsExist
<1>3. QED
  BY <1>1, <1>2, TotalIsLastSum DEF Sums

\* The total is a number.
LEMMA TotalIsNat == ASSUME NEW x \in Seq(Nat) PROVE Total(x) \in Nat
<1>1. PICK g : Sums(x, g)
  BY SumsExist
<1>2. Len(x) \in 0 .. Len(x)
  OBVIOUS
<1>3. QED
  BY <1>1, <1>2, TotalIsLastSum DEF Sums

\* y has one more term than x, at p.
Adds(x, y, p) ==
    /\ p \in 1 .. Len(x) + 1 /\ Len(y) = Len(x) + 1
    /\ \A i \in 1 .. Len(x) + 1 : i # p => y[i] = IF i < p THEN x[i] ELSE x[i - 1]

\* One more term adds what it is.
LEMMA TotalWithOneMore ==
    ASSUME NEW x \in Seq(Nat), NEW y \in Seq(Nat), NEW p, Adds(x, y, p)
    PROVE  Total(y) = Total(x) + y[p]
<1>1. PICK g : Sums(x, g)
  BY SumsExist
<1> DEFINE f == [i \in 0 .. Len(y) |-> IF i < p THEN g[i] ELSE g[i - 1] + y[p]]
<1>2. /\ Len(x) \in Nat /\ Len(y) = Len(x) + 1 /\ p \in 1 .. Len(x) + 1 /\ y[p] \in Nat
      /\ \A i \in 1 .. Len(x) + 1 : i # p => y[i] = IF i < p THEN x[i] ELSE x[i - 1]
  BY DEF Adds
<1>3. f \in [0 .. Len(y) -> Nat]
  BY <1>1, <1>2 DEF Sums
<1>4. f[0] = 0
  BY <1>1, <1>2 DEF Sums
<1>5. ASSUME NEW i \in 1 .. Len(y) PROVE f[i] = f[i - 1] + y[i]
  <2>0. i \in Nat /\ p \in Nat /\ i \in 0 .. Len(y) /\ i - 1 \in 0 .. Len(y)
    BY <1>2
  <2>1. CASE i < p
    <3>1. i \in 1 .. Len(x) /\ y[i] = x[i]
      BY <1>2, <2>0, <2>1
    <3>2. f[i] = g[i] /\ f[i - 1] = g[i - 1]
      BY <2>0, <2>1
    <3>3. QED
      BY <1>1, <3>1, <3>2 DEF Sums
  <2>2. CASE i = p
    BY <2>0, <2>2
  <2>3. CASE i > p
    <3>1. i - 1 \in 1 .. Len(x) /\ y[i] = x[i - 1]
      BY <1>2, <2>0, <2>3
    <3>2. f[i] = g[i - 1] + y[p] /\ f[i - 1] = g[(i - 1) - 1] + y[p]
      BY <2>0, <2>3
    <3>3. g[i - 1] = g[(i - 1) - 1] + x[i - 1]
      BY <1>1, <3>1 DEF Sums
    <3>4. g[(i - 1) - 1] \in Nat /\ x[i - 1] \in Nat
      <4>1. (i - 1) - 1 \in 0 .. Len(x)
        BY <1>2, <3>1
      <4>2. g \in [0 .. Len(x) -> Nat]
        BY <1>1 DEF Sums
      <4>3. g[(i - 1) - 1] \in Nat
        BY <4>1, <4>2, Zenon
      <4>4. x[i - 1] \in Nat
        BY <3>1
      <4>5. QED
        BY <4>3, <4>4
    <3>5. f[i] = (g[(i - 1) - 1] + x[i - 1]) + y[p] /\ y[i] = x[i - 1]
      BY <3>1, <3>2, <3>3
    <3>6. y[p] \in Nat /\ f[i - 1] = g[(i - 1) - 1] + y[p]
      BY <1>2, <3>2
    <3>7. QED
      <4>1. \A u, v, w \in Nat : (u + v) + w = (u + w) + v
        OBVIOUS
      <4>2. (g[(i - 1) - 1] + x[i - 1]) + y[p] = (g[(i - 1) - 1] + y[p]) + x[i - 1]
        BY <3>4, <3>6, <4>1, Zenon
      <4>3. QED
        BY <3>5, <3>6, <4>2, Zenon
  <2>4. QED
    BY <2>0, <2>1, <2>2, <2>3
<1>6. Sums(y, f)
  BY <1>3, <1>4, <1>5 DEF Sums
<1>7. f[Len(y)] = g[Len(x)] + y[p]
  BY <1>2
<1>8. Total(y) = f[Len(y)] /\ Total(x) = g[Len(x)]
  BY <1>1, <1>6, TotalIsLastSum
<1>9. QED
  BY <1>7, <1>8

\* A term that changes changes the total by as much.
LEMMA TotalWithOneChanged ==
    ASSUME NEW x \in Seq(Nat), NEW y \in Seq(Nat), NEW p \in 1 .. Len(x), Len(y) = Len(x),
           \A i \in 1 .. Len(x) : i # p => y[i] = x[i]
    PROVE  Total(y) + x[p] = Total(x) + y[p]
<1> DEFINE z == RemoveAt(x, p)
<1>1. /\ z \in Seq(Nat) /\ Len(z) = Len(x) - 1
      /\ \A i \in 1 .. Len(x) - 1 : z[i] = IF i < p THEN x[i] ELSE x[i + 1]
  BY RemovedAt
<1> HIDE DEF z
<1>2. /\ Len(x) \in Nat /\ p \in 1 .. Len(z) + 1 /\ Len(x) = Len(z) + 1
      /\ \A i \in 1 .. Len(x) : i # p => x[i] = IF i < p THEN z[i] ELSE z[i - 1]
  <2>1. Len(x) \in Nat /\ p \in 1 .. Len(z) + 1 /\ Len(x) = Len(z) + 1
    BY <1>1
  <2>2. ASSUME NEW i \in 1 .. Len(x), i # p PROVE x[i] = IF i < p THEN z[i] ELSE z[i - 1]
    <3>1. CASE i < p
      <4>1. i \in 1 .. Len(x) - 1
        BY <2>1, <3>1
      <4>2. QED
        BY <1>1, <3>1, <4>1
    <3>2. CASE i > p
      <4>1. i - 1 \in 1 .. Len(x) - 1 /\ ~ (i - 1 < p) /\ (i - 1) + 1 = i
        BY <2>1, <3>2
      <4>2. QED
        BY <1>1, <3>2, <4>1
    <3>3. QED
      BY <2>1, <2>2, <3>1, <3>2
  <2>3. QED
    BY <2>1, <2>2
<1>3. Adds(z, x, p) /\ Adds(z, y, p)
  BY <1>2 DEF Adds
<1>4. Total(x) = Total(z) + x[p] /\ Total(y) = Total(z) + y[p]
  BY <1>1, <1>3, TotalWithOneMore
<1>5. Total(z) \in Nat /\ x[p] \in Nat /\ y[p] \in Nat
  <2>1. Total(z) \in Nat
    BY <1>1, TotalIsNat
  <2>2. p \in 1 .. Len(x) /\ p \in 1 .. Len(y)
    BY <1>1
  <2>3. QED
    BY <2>1, <2>2
<1>6. QED
  BY <1>4, <1>5
-----------------------------------------------------------------------------
(***************************************************************************)
(* Sequences with one element more or less.                                *)
(***************************************************************************)
\* InsertAt adds an element.
LEMMA InsertAdds ==
    ASSUME NEW S, NEW s \in Seq(S), NEW p \in 1 .. Len(s) + 1, NEW e \in S
    PROVE  /\ InsertAt(s, p, e) \in Seq(S) /\ Adds(s, InsertAt(s, p, e), p)
           /\ InsertAt(s, p, e)[p] = e
<1> DEFINE t == InsertAt(s, p, e)
<1>1. /\ t \in Seq(S) /\ Len(t) = Len(s) + 1 /\ Len(s) \in Nat
      /\ \A i \in 1 .. Len(s) + 1 : t[i] = IF i < p THEN s[i] ELSE IF i = p THEN e ELSE s[i - 1]
  BY InsertedAt
<1> HIDE DEF t
<1>2. Adds(s, t, p)
  BY <1>1 DEF Adds
<1>3. t[p] = e
  BY <1>1
<1>4. QED
  BY <1>1, <1>2, <1>3 DEF t

\* RemoveAt takes one away.
LEMMA RemoveAdds ==
    ASSUME NEW S, NEW s \in Seq(S), NEW p \in 1 .. Len(s)
    PROVE  RemoveAt(s, p) \in Seq(S) /\ Adds(RemoveAt(s, p), s, p)
<1> DEFINE z == RemoveAt(s, p)
<1>1. /\ z \in Seq(S) /\ Len(z) = Len(s) - 1
      /\ \A i \in 1 .. Len(s) - 1 : z[i] = IF i < p THEN s[i] ELSE s[i + 1]
  BY RemovedAt
<1> HIDE DEF z
<1>2. Len(s) \in Nat /\ p \in 1 .. Len(z) + 1 /\ Len(s) = Len(z) + 1
  BY <1>1
<1>3. ASSUME NEW i \in 1 .. Len(s), i # p PROVE s[i] = IF i < p THEN z[i] ELSE z[i - 1]
  <2>1. CASE i < p
    <3>1. i \in 1 .. Len(s) - 1
      BY <1>2, <2>1
    <3>2. QED
      BY <1>1, <2>1, <3>1
  <2>2. CASE i > p
    <3>1. i - 1 \in 1 .. Len(s) - 1 /\ ~ (i - 1 < p) /\ (i - 1) + 1 = i
      BY <1>2, <2>2
    <3>2. QED
      BY <1>1, <2>2, <3>1
  <2>3. QED
    BY <1>2, <1>3, <2>1, <2>2
<1>4. Adds(z, s, p)
  BY <1>2, <1>3 DEF Adds
<1>5. QED
  BY <1>1, <1>4 DEF z

\* What the longer one holds.
LEMMA ElementsWithOneMore ==
    ASSUME NEW S, NEW x \in Seq(S), NEW y \in Seq(S), NEW p, Adds(x, y, p)
    PROVE  ToSet(y) = ToSet(x) \cup {y[p]}
<1>1. /\ Len(x) \in Nat /\ Len(y) = Len(x) + 1 /\ p \in 1 .. Len(x) + 1
      /\ \A i \in 1 .. Len(x) + 1 : i # p => y[i] = IF i < p THEN x[i] ELSE x[i - 1]
  BY DEF Adds
<1>2. DOMAIN x = 1 .. Len(x) /\ DOMAIN y = 1 .. Len(x) + 1
  BY <1>1
<1>3. ASSUME NEW i \in DOMAIN y PROVE y[i] \in ToSet(x) \cup {y[p]}
  <2>1. CASE i < p
    <3>1. i \in 1 .. Len(x) /\ y[i] = x[i]
      BY <1>1, <1>2, <2>1
    <3>2. QED
      BY <1>2, <3>1 DEF ToSet
  <2>2. CASE i > p
    <3>1. i - 1 \in 1 .. Len(x) /\ y[i] = x[i - 1]
      BY <1>1, <1>2, <2>2
    <3>2. QED
      BY <1>2, <3>1 DEF ToSet
  <2>3. QED
    BY <1>1, <1>2, <2>1, <2>2
<1>4. ASSUME NEW i \in DOMAIN x PROVE x[i] \in ToSet(y)
  <2>1. CASE i < p
    <3>1. i \in 1 .. Len(x) + 1 /\ i # p /\ y[i] = x[i]
      BY <1>1, <1>2, <2>1
    <3>2. QED
      BY <1>2, <3>1 DEF ToSet
  <2>2. CASE ~ (i < p)
    <3>1. i + 1 \in 1 .. Len(x) + 1 /\ i + 1 # p /\ ~ (i + 1 < p) /\ (i + 1) - 1 = i
      BY <1>1, <1>2, <2>2
    <3>2. y[i + 1] = x[i]
      BY <1>1, <3>1
    <3>3. QED
      BY <1>2, <3>1, <3>2 DEF ToSet
  <2>3. QED
    BY <2>1, <2>2
<1>5. y[p] \in ToSet(y)
  BY <1>1, <1>2 DEF ToSet
<1>6. QED
  BY <1>3, <1>4, <1>5 DEF ToSet

-----------------------------------------------------------------------------
(***************************************************************************)
(* Majors.                                                                 *)
(***************************************************************************)
\* What the constants say of the sizes.
LEMMA Units ==
    /\ ALIGNMENT \in Nat /\ ALIGNMENT > 0 /\ MAJOR \in Nat /\ MAJOR > 0 /\ MINOR \in Nat /\ MINOR > 0
    /\ l_pageSize \in Nat /\ l_pageSize > 0 /\ MaxPages \in Nat
    /\ \A r \in Request : /\ r \in Nat /\ SizeFor(r) \in Nat /\ Need(r) \in Nat
                          /\ SizeFor(r) = r + ALIGNMENT + ALIGNMENT /\ Need(r) = SizeFor(r) + MINOR
  BY AlignmentAssumption, PageAssumption, HeaderAssumption, RequestAssumption
  DEF SizeFor, Need, ALIGN_INFO

\* A major's own fields.
LEMMA OfMajor ==
    ASSUME NEW maj \in Major
    PROVE  /\ maj = [addr |-> maj.addr, pages |-> maj.pages, usage |-> maj.usage, minors |-> maj.minors]
           /\ maj.addr \in Nat /\ maj.pages \in Nat /\ maj.usage \in Nat /\ maj.minors \in Seq(Minor)
           /\ Size(maj) \in Nat /\ Len(maj.minors) \in Nat
           /\ \A i \in 1 .. Len(maj.minors) : /\ maj.minors[i] \in Minor /\ maj.minors[i].addr \in Nat
                                              /\ maj.minors[i].size \in Nat
           /\ UnitsOf(maj) \in Seq(Nat) /\ Len(UnitsOf(maj)) = Len(maj.minors)
           /\ \A i \in 1 .. Len(maj.minors) : UnitsOf(maj)[i] = maj.minors[i].size
           /\ Total(UnitsOf(maj)) \in Nat
<1>1. /\ maj = [addr |-> maj.addr, pages |-> maj.pages, usage |-> maj.usage, minors |-> maj.minors]
      /\ maj.addr \in Nat /\ maj.pages \in Nat /\ maj.usage \in Nat /\ maj.minors \in Seq(Minor)
  BY RequestAssumption DEF Major
<1>2. Len(maj.minors) \in Nat /\ DOMAIN maj.minors = 1 .. Len(maj.minors)
  BY <1>1
<1>3. Size(maj) \in Nat
  BY <1>1, Units DEF Size
<1>4. \A i \in 1 .. Len(maj.minors) : /\ maj.minors[i] \in Minor /\ maj.minors[i].addr \in Nat
                                      /\ maj.minors[i].size \in Nat
  <2>1. \A m \in Minor : m.addr \in Nat /\ m.size \in Nat
    BY DEF Minor
  <2>2. \A i \in 1 .. Len(maj.minors) : maj.minors[i] \in Minor
    BY <1>1, <1>2
  <2>3. QED
    BY <2>1, <2>2
<1>5. /\ UnitsOf(maj) \in Seq(Nat) /\ Len(UnitsOf(maj)) = Len(maj.minors)
      /\ \A i \in 1 .. Len(maj.minors) : UnitsOf(maj)[i] = maj.minors[i].size
  BY <1>2, <1>4 DEF UnitsOf
<1>6. QED
  BY <1>1, <1>2, <1>3, <1>4, <1>5, TotalIsNat

\* The ends of a gap.
LEMMA OfGap ==
    ASSUME NEW maj \in Major, NEW i \in 0 .. Len(maj.minors)
    PROVE  /\ GapStart(maj, i) \in Nat /\ GapEnd(maj, i) \in Nat
           /\ i = 0 => GapStart(maj, i) = maj.addr + MAJOR
           /\ i # 0 => GapStart(maj, i) = maj.minors[i].addr + MINOR + maj.minors[i].size
           /\ i = Len(maj.minors) => GapEnd(maj, i) = maj.addr + Size(maj)
           /\ i # Len(maj.minors) => GapEnd(maj, i) = maj.minors[i + 1].addr
<1>1. Len(maj.minors) \in Nat /\ Size(maj) \in Nat /\ maj.addr \in Nat /\ MAJOR \in Nat /\ MINOR \in Nat
  BY OfMajor, Units
<1>2. i # 0 => maj.minors[i].addr \in Nat /\ maj.minors[i].size \in Nat
  BY <1>1, OfMajor
<1>3. i # Len(maj.minors) => i + 1 \in 1 .. Len(maj.minors)
  BY <1>1
<1>4. i # Len(maj.minors) => maj.minors[i + 1].addr \in Nat
  BY <1>3, OfMajor
<1>5. /\ i = 0 => GapStart(maj, i) = maj.addr + MAJOR
      /\ i # 0 => GapStart(maj, i) = maj.minors[i].addr + MINOR + maj.minors[i].size
  BY DEF GapStart
<1>6. /\ i = Len(maj.minors) => GapEnd(maj, i) = maj.addr + Size(maj)
      /\ i # Len(maj.minors) => GapEnd(maj, i) = maj.minors[i + 1].addr
  BY DEF GapEnd
<1>7. GapStart(maj, i) \in Nat
  BY <1>1, <1>2, <1>5
<1>8. GapEnd(maj, i) \in Nat
  <2>1. maj.addr + Size(maj) \in Nat
    BY <1>1
  <2>2. QED
    BY <1>4, <1>6, <2>1, Zenon
<1>9. QED
  BY <1>5, <1>6, <1>7, <1>8

\* The minors lie one behind the other, and the count is what they take at least.
LEMMA InsideMajor ==
    ASSUME NEW maj \in Major, MajorInOrder(maj)
    PROVE  /\ maj.usage <= Size(maj)
           /\ \A i \in 1 .. Len(maj.minors) :
                 /\ maj.addr + MAJOR <= maj.minors[i].addr
                 /\ maj.minors[i].addr + MINOR + maj.minors[i].size <= End(maj)
           /\ \A i, j \in 1 .. Len(maj.minors) :
                 i < j => maj.minors[i].addr + MINOR + maj.minors[i].size <= maj.minors[j].addr
<1> DEFINE n == Len(maj.minors)
           Start(i) == GapStart(maj, i)
<1>1. PICK g : Sums(UnitsOf(maj), g)
  BY OfMajor, SumsExist
<1>2. /\ n \in Nat /\ maj.addr \in Nat /\ MAJOR \in Nat /\ MINOR \in Nat
      /\ g \in [0 .. n -> Nat] /\ g[0] = 0 /\ \A i \in 1 .. n : g[i] = g[i - 1] + maj.minors[i].size
  BY <1>1, OfMajor, Units DEF Sums
<1>3. \A i \in 0 .. n : Start(i) \in Nat /\ Start(i) <= GapEnd(maj, i)
  BY OfGap DEF MajorInOrder
<1> DEFINE Behind(j) == /\ maj.addr + MAJOR + g[j] + j * MINOR <= Start(j)
                        /\ \A i \in 0 .. j : Start(i) <= Start(j)
           bad == {j \in 0 .. n : ~ Behind(j)}
<1>4. Behind(0)
  <2>1. 0 * MINOR = 0 /\ Start(0) = maj.addr + MAJOR
    BY <1>2, OfGap
  <2>2. QED
    BY <1>2, <2>1
<1>5. ASSUME NEW j \in 1 .. n, Behind(j - 1) PROVE Behind(j)
  <2>1. j - 1 \in 0 .. n /\ j - 1 # n /\ (j - 1) + 1 = j /\ j \in 0 .. n /\ j # 0
    BY <1>2
  <2>2. Start(j - 1) <= maj.minors[j].addr
    BY <1>3, <2>1, OfGap
  <2>3. /\ Start(j) = maj.minors[j].addr + MINOR + maj.minors[j].size
        /\ maj.minors[j].addr \in Nat /\ maj.minors[j].size \in Nat
    BY <2>1, OfGap, OfMajor
  <2>0. /\ Start(j - 1) \in Nat /\ Start(j) \in Nat /\ MINOR \in Nat
        /\ maj.addr \in Nat /\ MAJOR \in Nat
    BY <1>2, <1>3, <2>1
  <2>4. Start(j - 1) + MINOR + maj.minors[j].size <= Start(j)
    <3>1. \A s, x, u, v \in Nat : s <= x => s + u + v <= x + u + v
      OBVIOUS
    <3>2. QED
      BY <2>0, <2>2, <2>3, <3>1, Zenon
  <2>5. g[j] = g[j - 1] + maj.minors[j].size /\ g[j - 1] \in Nat
    BY <1>2, <2>1
  <2>6. j * MINOR = (j - 1) * MINOR + MINOR
    BY <1>2
  <2>7. maj.addr + MAJOR + g[j] + j * MINOR <= Start(j)
    <3>1. (j - 1) * MINOR \in Nat
      BY <1>2, <2>1
    <3>2. maj.addr + MAJOR + g[j - 1] + (j - 1) * MINOR <= Start(j - 1)
      BY <1>5
    <3> HIDE DEF Start
    <3>3. maj.minors[j].size \in Nat
      BY <2>3
    <3>4. \A a, b, c, d, m, t, e \in Nat :
             a + b + c <= d /\ d + m + t <= e => a + (b + t) + (c + m) <= e
      OBVIOUS
    <3>5. maj.addr + MAJOR \in Nat /\ g[j - 1] \in Nat
      BY <2>0, <2>5
    <3>6. (maj.addr + MAJOR) + (g[j - 1] + maj.minors[j].size) + ((j - 1) * MINOR + MINOR) <= Start(j)
      BY <2>0, <2>4, <3>1, <3>2, <3>3, <3>4, <3>5, Zenon
    <3>7. QED
      BY <2>5, <2>6, <3>6, Zenon
  <2>8. ASSUME NEW i \in 0 .. j PROVE Start(i) <= Start(j)
    <3>1. Start(j - 1) <= Start(j)
      <4>1. maj.minors[j].size \in Nat
        BY <2>3
      <4>2. QED
        BY <2>0, <2>4, <4>1
    <3>2. CASE i = j
      BY <1>3, <2>1, <3>2
    <3>3. CASE i # j
      <4>1. i \in 0 .. j - 1 /\ i \in 0 .. n
        BY <1>2, <3>3
      <4>2. Start(i) <= Start(j - 1)
        BY <1>5, <4>1
      <4>3. QED
        BY <1>3, <2>1, <3>1, <4>1, <4>2
    <3>4. QED
      BY <3>2, <3>3
  <2>9. QED
    BY <2>7, <2>8
<1> HIDE DEF Behind
<1>6. bad = {}
  <2>1. SUFFICES ASSUME bad # {} PROVE FALSE
    OBVIOUS
  <2>2. bad \in SUBSET Nat
    BY <1>2
  <2>3. PICK j \in bad : \A m \in bad : j <= m
    BY <2>1, <2>2, LeastExists
  <2>4. j # 0
    BY <1>4, <2>3
  <2>5. j \in 1 .. n /\ j - 1 \in 0 .. n /\ j - 1 \notin bad
    BY <1>2, <2>3, <2>4
  <2>6. QED
    BY <1>5, <2>3, <2>5
<1>7. \A j \in 0 .. n : /\ maj.addr + MAJOR + g[j] + j * MINOR <= Start(j)
                        /\ \A i \in 0 .. j : Start(i) <= Start(j)
  BY <1>6 DEF Behind
<1>8. n \in 0 .. n /\ 0 \in 0 .. n
  BY <1>2
<1>9. Start(n) <= maj.addr + Size(maj) /\ End(maj) = maj.addr + Size(maj) /\ Size(maj) \in Nat
  BY <1>3, <1>8, OfGap, OfMajor DEF End
<1>10. maj.usage <= Size(maj)
  <2>1. Total(UnitsOf(maj)) = g[n]
    BY <1>1, OfMajor, TotalIsLastSum
  <2>2. maj.usage = MAJOR + g[n] + n * MINOR
    BY <2>1 DEF MajorInOrder
  <2>3. maj.addr + MAJOR + g[n] + n * MINOR <= Start(n)
    BY <1>7, <1>8
  <2>4. g[n] \in Nat /\ n * MINOR \in Nat /\ Start(n) \in Nat
    BY <1>2, <1>3, <1>8
  <2> HIDE DEF Start, n
  <2>5. QED
    BY <1>2, <1>9, <2>2, <2>3, <2>4
<1>11. ASSUME NEW i \in 1 .. n
       PROVE  maj.addr + MAJOR <= maj.minors[i].addr
  <2>1. i - 1 \in 0 .. n /\ i - 1 # n /\ (i - 1) + 1 = i /\ 0 \in 0 .. i - 1
    BY <1>2
  <2>2. Start(0) <= Start(i - 1) /\ Start(0) = maj.addr + MAJOR
    BY <1>7, <1>8, <2>1, OfGap
  <2>3. Start(i - 1) <= maj.minors[i].addr
    BY <1>3, <2>1, OfGap
  <2>4. Start(i - 1) \in Nat /\ maj.minors[i].addr \in Nat
    BY <1>3, <2>1, OfMajor
  <2> HIDE DEF Start
  <2>5. QED
    BY <1>2, <2>2, <2>3, <2>4
<1>12. ASSUME NEW i \in 1 .. n
       PROVE  maj.minors[i].addr + MINOR + maj.minors[i].size <= End(maj)
  <2>1. i \in 0 .. n /\ i # 0
    BY <1>2
  <2>2. Start(i) <= Start(n) /\ Start(i) = maj.minors[i].addr + MINOR + maj.minors[i].size
    BY <1>7, <1>8, <2>1, OfGap
  <2>3. Start(i) \in Nat /\ Start(n) \in Nat
    BY <1>3, <1>8, <2>1
  <2>4. maj.addr \in Nat
    BY <1>2
  <2> HIDE DEF Start, n
  <2>5. QED
    BY <1>9, <2>2, <2>3, <2>4
<1>13. ASSUME NEW i \in 1 .. n, NEW j \in 1 .. n, i < j
       PROVE  maj.minors[i].addr + MINOR + maj.minors[i].size <= maj.minors[j].addr
  <2>1. i \in 0 .. n /\ i # 0 /\ i \in 0 .. j - 1 /\ j - 1 \in 0 .. n /\ j - 1 # n /\ (j - 1) + 1 = j
    BY <1>2, <1>13
  <2>2. Start(i) <= Start(j - 1) /\ Start(i) = maj.minors[i].addr + MINOR + maj.minors[i].size
    BY <1>7, <2>1, OfGap
  <2>3. Start(j - 1) <= maj.minors[j].addr
    BY <1>3, <2>1, OfGap
  <2>4. Start(i) \in Nat /\ Start(j - 1) \in Nat /\ maj.minors[j].addr \in Nat
    BY <1>3, <2>1, OfMajor
  <2> HIDE DEF Start
  <2>5. QED
    BY <2>2, <2>3, <2>4
<1>14. QED
  BY <1>10, <1>11, <1>12, <1>13

-----------------------------------------------------------------------------
\* b is the major a with one more minor m, counted, at p.
OneMore(a, b, p, m) ==
    /\ b.addr = a.addr /\ b.pages = a.pages
    /\ Adds(a.minors, b.minors, p) /\ b.minors[p] = m
    /\ b.usage = a.usage + m.size + MINOR

\* Where the minors are.
LEMMA MinorsWithOneMore ==
    ASSUME NEW a \in Major, NEW b \in Major, NEW p, NEW m, OneMore(a, b, p, m)
    PROVE  /\ p \in 1 .. Len(a.minors) + 1 /\ Len(b.minors) = Len(a.minors) + 1
           /\ \A i \in 1 .. Len(a.minors) : i < p => b.minors[i] = a.minors[i]
           /\ \A i \in 1 .. Len(a.minors) : p <= i => b.minors[i + 1] = a.minors[i]
           /\ b.minors[p] = m /\ m \in Minor /\ m.addr \in Nat /\ m.size \in Nat
<1>1. /\ p \in 1 .. Len(a.minors) + 1 /\ Len(b.minors) = Len(a.minors) + 1 /\ b.minors[p] = m
      /\ \A i \in 1 .. Len(a.minors) + 1 :
            i # p => b.minors[i] = IF i < p THEN a.minors[i] ELSE a.minors[i - 1]
  BY DEF OneMore, Adds
<1>2. Len(a.minors) \in Nat
  BY OfMajor
<1>3. \A i \in 1 .. Len(a.minors) : i < p => b.minors[i] = a.minors[i]
  BY <1>1, <1>2
<1>4. ASSUME NEW i \in 1 .. Len(a.minors), p <= i PROVE b.minors[i + 1] = a.minors[i]
  <2>1. i + 1 \in 1 .. Len(a.minors) + 1 /\ i + 1 # p /\ ~ (i + 1 < p) /\ (i + 1) - 1 = i
    BY <1>1, <1>2, <1>4
  <2>2. QED
    BY <1>1, <2>1
<1>5. p \in 1 .. Len(b.minors)
  BY <1>1, <1>2
<1>6. m \in Minor /\ m.addr \in Nat /\ m.size \in Nat
  BY <1>1, <1>5, OfMajor
<1>7. QED
  BY <1>1, <1>3, <1>4, <1>6

\* Where the gaps are: one is cut in two.
LEMMA GapsWithOneMore ==
    ASSUME NEW a \in Major, NEW b \in Major, NEW p, NEW m, OneMore(a, b, p, m)
    PROVE  /\ \A i \in 0 .. Len(a.minors) :
                 /\ i < p => GapStart(b, i) = GapStart(a, i)
                 /\ i < p - 1 => GapEnd(b, i) = GapEnd(a, i)
                 /\ p <= i => GapStart(b, i + 1) = GapStart(a, i)
                 /\ p - 1 <= i => GapEnd(b, i + 1) = GapEnd(a, i)
           /\ GapEnd(b, p - 1) = m.addr /\ GapStart(b, p) = m.addr + MINOR + m.size
<1> DEFINE n == Len(a.minors)
<1>1. /\ n \in Nat /\ p \in 1 .. n + 1 /\ Len(b.minors) = n + 1
      /\ a.addr + MAJOR = b.addr + MAJOR /\ a.addr + Size(a) = b.addr + Size(b)
  <2>1. n \in Nat
    BY OfMajor
  <2>2. p \in 1 .. n + 1 /\ Len(b.minors) = n + 1
    BY MinorsWithOneMore
  <2>3. b.addr = a.addr /\ Size(b) = Size(a)
    BY DEF OneMore, Size
  <2>4. QED
    BY <2>1, <2>2, <2>3
<1>2. /\ \A i \in 1 .. n : i < p => b.minors[i] = a.minors[i]
      /\ \A i \in 1 .. n : p <= i => b.minors[i + 1] = a.minors[i]
      /\ b.minors[p] = m
  BY MinorsWithOneMore
<1> HIDE DEF n
<1>3. ASSUME NEW i \in 0 .. n
      PROVE  i \in 0 .. Len(a.minors) /\ i \in 0 .. Len(b.minors) /\ i + 1 \in 0 .. Len(b.minors)
  BY <1>1 DEF n
<1>4. ASSUME NEW i \in 0 .. n, i < p PROVE GapStart(b, i) = GapStart(a, i)
  <2>1. CASE i = 0
    BY <1>1, <1>3, <2>1, OfGap
  <2>2. CASE i # 0
    <3>1. b.minors[i] = a.minors[i]
      BY <1>1, <1>2, <1>4, <2>2
    <3>2. QED
      BY <1>3, <2>2, <3>1, OfGap
  <2>3. QED
    BY <2>1, <2>2
<1>5. ASSUME NEW i \in 0 .. n, i < p - 1 PROVE GapEnd(b, i) = GapEnd(a, i)
  <2>1. i + 1 \in 1 .. n /\ i + 1 < p /\ i # n /\ i # n + 1
    BY <1>1, <1>5
  <2>2. b.minors[i + 1] = a.minors[i + 1]
    BY <1>2, <2>1
  <2>3. GapEnd(a, i) = a.minors[i + 1].addr
    BY <1>3, <2>1, OfGap DEF n
  <2>4. GapEnd(b, i) = b.minors[i + 1].addr
    BY <1>1, <1>3, <2>1, OfGap
  <2>5. QED
    BY <2>2, <2>3, <2>4
<1>6. ASSUME NEW i \in 0 .. n, p <= i PROVE GapStart(b, i + 1) = GapStart(a, i)
  <2>1. i \in 1 .. n /\ i # 0 /\ i + 1 # 0
    BY <1>1, <1>6
  <2>2. b.minors[i + 1] = a.minors[i]
    BY <1>2, <1>6, <2>1
  <2>3. QED
    BY <1>3, <2>1, <2>2, OfGap
<1>7. ASSUME NEW i \in 0 .. n, p - 1 <= i PROVE GapEnd(b, i + 1) = GapEnd(a, i)
  <2>1. CASE i = n
    <3>1. GapEnd(a, i) = a.addr + Size(a)
      BY <1>3, <2>1, OfGap DEF n
    <3>2. GapEnd(b, i + 1) = b.addr + Size(b)
      BY <1>1, <1>3, <2>1, OfGap
    <3>3. QED
      BY <1>1, <3>1, <3>2
  <2>2. CASE i # n
    <3>1. i + 1 \in 1 .. n /\ p <= i + 1 /\ i + 1 # n + 1
      BY <1>1, <1>7, <2>2
    <3>2. b.minors[(i + 1) + 1] = a.minors[i + 1]
      BY <1>2, <3>1
    <3>3. GapEnd(a, i) = a.minors[i + 1].addr
      BY <1>3, <2>2, OfGap DEF n
    <3>4. GapEnd(b, i + 1) = b.minors[(i + 1) + 1].addr
      BY <1>1, <1>3, <3>1, OfGap
    <3>5. QED
      BY <3>2, <3>3, <3>4
  <2>3. QED
    BY <2>1, <2>2
<1>8. GapEnd(b, p - 1) = m.addr
  <2>1. p - 1 \in 0 .. n /\ p - 1 # n + 1 /\ (p - 1) + 1 = p
    BY <1>1
  <2>2. GapEnd(b, p - 1) = b.minors[(p - 1) + 1].addr
    BY <1>1, <1>3, <2>1, OfGap
  <2>3. QED
    BY <1>2, <2>1, <2>2
<1>9. GapStart(b, p) = m.addr + MINOR + m.size
  <2>1. p \in 0 .. Len(b.minors) /\ p # 0
    BY <1>1
  <2>2. QED
    BY <1>2, <2>1, OfGap
<1>10. QED
  BY <1>4, <1>5, <1>6, <1>7, <1>8, <1>9 DEF n

\* What they count.
LEMMA CountWithOneMore ==
    ASSUME NEW a \in Major, NEW b \in Major, NEW p, NEW m, OneMore(a, b, p, m)
    PROVE  /\ Total(UnitsOf(b)) = Total(UnitsOf(a)) + m.size
           /\ (b.usage = MAJOR + Total(UnitsOf(b)) + Len(b.minors) * MINOR)
              <=> (a.usage = MAJOR + Total(UnitsOf(a)) + Len(a.minors) * MINOR)
<1>1. /\ Len(a.minors) \in Nat /\ Len(UnitsOf(a)) = Len(a.minors) /\ UnitsOf(a) \in Seq(Nat)
      /\ \A i \in 1 .. Len(a.minors) : UnitsOf(a)[i] = a.minors[i].size
      /\ Len(b.minors) \in Nat /\ Len(UnitsOf(b)) = Len(b.minors) /\ UnitsOf(b) \in Seq(Nat)
      /\ \A i \in 1 .. Len(b.minors) : UnitsOf(b)[i] = b.minors[i].size
  BY OfMajor
<1>2. /\ p \in 1 .. Len(a.minors) + 1 /\ Len(b.minors) = Len(a.minors) + 1 /\ b.minors[p] = m
      /\ \A i \in 1 .. Len(a.minors) + 1 :
            i # p => b.minors[i] = IF i < p THEN a.minors[i] ELSE a.minors[i - 1]
  BY DEF OneMore, Adds
<1>3. ASSUME NEW i \in 1 .. Len(a.minors) + 1, i # p
      PROVE  UnitsOf(b)[i] = IF i < p THEN UnitsOf(a)[i] ELSE UnitsOf(a)[i - 1]
  <2>1. UnitsOf(b)[i] = b.minors[i].size
    BY <1>1, <1>2
  <2>2. CASE i < p
    <3>1. i \in 1 .. Len(a.minors) /\ b.minors[i] = a.minors[i]
      BY <1>1, <1>2, <1>3, <2>2
    <3>2. QED
      BY <1>1, <2>1, <2>2, <3>1
  <2>3. CASE ~ (i < p)
    <3>1. i - 1 \in 1 .. Len(a.minors) /\ b.minors[i] = a.minors[i - 1]
      BY <1>1, <1>2, <1>3, <2>3
    <3>2. QED
      BY <1>1, <2>1, <2>3, <3>1
  <2>4. QED
    BY <2>2, <2>3
<1>4. Adds(UnitsOf(a), UnitsOf(b), p)
  BY <1>1, <1>2, <1>3 DEF Adds
<1>5. p \in 1 .. Len(b.minors)
  BY <1>1, <1>2
<1>6. Total(UnitsOf(b)) = Total(UnitsOf(a)) + m.size
  BY <1>1, <1>2, <1>4, <1>5, TotalWithOneMore
<1>7. Len(b.minors) * MINOR = Len(a.minors) * MINOR + MINOR /\ Len(a.minors) * MINOR \in Nat
  BY <1>1, <1>2, Units
<1>8. b.usage = a.usage + m.size + MINOR
  BY DEF OneMore
<1>9. /\ a.usage \in Nat /\ b.usage \in Nat /\ Total(UnitsOf(a)) \in Nat /\ m.size \in Nat
      /\ MAJOR \in Nat /\ MINOR \in Nat
  BY OfMajor, MinorsWithOneMore, Units
<1>10. QED
  <2>1. (b.usage = MAJOR + Total(UnitsOf(b)) + Len(b.minors) * MINOR)
        <=> a.usage + m.size + MINOR
            = MAJOR + (Total(UnitsOf(a)) + m.size) + (Len(a.minors) * MINOR + MINOR)
    BY <1>6, <1>7, <1>8, Zenon
  <2>2. a.usage + m.size + MINOR
          = MAJOR + (Total(UnitsOf(a)) + m.size) + (Len(a.minors) * MINOR + MINOR)
        <=> a.usage = MAJOR + Total(UnitsOf(a)) + Len(a.minors) * MINOR
    <3> DEFINE c == Len(a.minors) * MINOR
    <3>1. c \in Nat
      BY <1>7
    <3> HIDE DEF c
    <3>2. a.usage + m.size + MINOR = MAJOR + (Total(UnitsOf(a)) + m.size) + (c + MINOR)
          <=> a.usage = MAJOR + Total(UnitsOf(a)) + c
      BY <1>9, <3>1
    <3>3. QED
      BY <3>2 DEF c
  <2>3. QED
    BY <1>6, <2>1, <2>2, Zenon

\* A minor that fits into a gap, with room to be aligned, keeps the order.
LEMMA MinorPlaced ==
    ASSUME NEW a \in Major, NEW b \in Major, NEW p, NEW m, OneMore(a, b, p, m), MajorInOrder(a),
           GapStart(a, p - 1) <= m.addr, m.addr + MINOR + m.size <= GapEnd(a, p - 1),
           SizeFor(m.req_size) <= m.size
    PROVE  MajorInOrder(b)
<1> DEFINE n == Len(a.minors)
<1>1. /\ n \in Nat /\ p \in 1 .. n + 1 /\ Len(b.minors) = n + 1 /\ b.minors[p] = m
      /\ \A i \in 1 .. n : i < p => b.minors[i] = a.minors[i]
      /\ \A i \in 1 .. n : p <= i => b.minors[i + 1] = a.minors[i]
  <2>1. n \in Nat
    BY OfMajor
  <2>2. QED
    <3>1. p \in 1 .. n + 1 /\ Len(b.minors) = n + 1 /\ b.minors[p] = m
      BY MinorsWithOneMore
    <3>2. /\ \A i \in 1 .. n : i < p => b.minors[i] = a.minors[i]
          /\ \A i \in 1 .. n : p <= i => b.minors[i + 1] = a.minors[i]
      BY MinorsWithOneMore
    <3>3. QED
      BY <2>1, <3>1, <3>2, Zenon
<1>2. b.usage = MAJOR + Total(UnitsOf(b)) + Len(b.minors) * MINOR
  BY CountWithOneMore DEF MajorInOrder
<1>3. /\ \A i \in 0 .. n : GapStart(a, i) <= GapEnd(a, i)
      /\ \A i \in 1 .. n : SizeFor(a.minors[i].req_size) <= a.minors[i].size
  <2>1. DOMAIN a.minors = 1 .. n
    BY OfMajor
  <2>2. QED
    BY <2>1 DEF MajorInOrder
<1>4. ASSUME NEW i \in 0 .. Len(b.minors) PROVE GapStart(b, i) <= GapEnd(b, i)
  <2>1. CASE i < p - 1
    <3>1. i \in 0 .. n /\ i < p
      BY <1>1, <2>1
    <3>2. QED
      BY <1>3, <2>1, <3>1, GapsWithOneMore
  <2>2. CASE i = p - 1
    <3>1. i \in 0 .. n /\ i < p
      BY <1>1, <2>2
    <3>2. GapStart(b, i) = GapStart(a, p - 1) /\ GapEnd(b, i) = m.addr
      BY <2>2, <3>1, GapsWithOneMore
    <3>3. QED
      BY <3>2
  <2>3. CASE i = p
    <3>1. p - 1 \in 0 .. n /\ p - 1 <= p - 1 /\ (p - 1) + 1 = p
      BY <1>1
    <3>2. GapStart(b, i) = m.addr + MINOR + m.size /\ GapEnd(b, (p - 1) + 1) = GapEnd(a, p - 1)
      BY <2>3, <3>1, GapsWithOneMore
    <3>3. QED
      BY <2>3, <3>1, <3>2
  <2>4. CASE i > p
    <3>1. i - 1 \in 0 .. n /\ p <= i - 1 /\ p - 1 <= i - 1 /\ (i - 1) + 1 = i
      BY <1>1, <2>4
    <3>2. GapStart(b, (i - 1) + 1) = GapStart(a, i - 1) /\ GapEnd(b, (i - 1) + 1) = GapEnd(a, i - 1)
      BY <3>1, GapsWithOneMore
    <3>3. QED
      BY <1>3, <3>1, <3>2
  <2>5. QED
    BY <1>1, <2>1, <2>2, <2>3, <2>4
<1>5. ASSUME NEW i \in 1 .. Len(b.minors) PROVE SizeFor(b.minors[i].req_size) <= b.minors[i].size
  <2>1. CASE i < p
    <3>1. i \in 1 .. n
      BY <1>1, <2>1
    <3>2. QED
      BY <1>1, <1>3, <2>1, <3>1
  <2>2. CASE i = p
    BY <1>1, <2>2
  <2>3. CASE i > p
    <3>1. i - 1 \in 1 .. n /\ p <= i - 1 /\ (i - 1) + 1 = i
      BY <1>1, <2>3
    <3>2. b.minors[(i - 1) + 1] = a.minors[i - 1]
      BY <1>1, <3>1
    <3>3. QED
      BY <1>3, <3>1, <3>2
  <2>4. QED
    BY <1>1, <2>1, <2>2, <2>3
<1>6. DOMAIN b.minors = 1 .. Len(b.minors)
  BY OfMajor
<1>7. QED
  BY <1>2, <1>4, <1>5, <1>6 DEF MajorInOrder

\* So does taking a minor out.
LEMMA MinorUnlinked ==
    ASSUME NEW a \in Major, NEW b \in Major, NEW p, NEW m, OneMore(a, b, p, m), MajorInOrder(b)
    PROVE  MajorInOrder(a)
<1> DEFINE n == Len(a.minors)
<1>1. /\ n \in Nat /\ p \in 1 .. n + 1 /\ Len(b.minors) = n + 1 /\ b.minors[p] = m
      /\ \A i \in 1 .. n : i < p => b.minors[i] = a.minors[i]
      /\ \A i \in 1 .. n : p <= i => b.minors[i + 1] = a.minors[i]
      /\ m.addr \in Nat /\ m.size \in Nat /\ MINOR \in Nat
  <2>1. n \in Nat /\ MINOR \in Nat
    BY OfMajor, Units
  <2>2. QED
    BY <2>1, MinorsWithOneMore
<1>2. a.usage = MAJOR + Total(UnitsOf(a)) + Len(a.minors) * MINOR
  BY CountWithOneMore DEF MajorInOrder
<1>3. /\ \A i \in 0 .. n + 1 : GapStart(b, i) <= GapEnd(b, i)
      /\ \A i \in 1 .. n + 1 : SizeFor(b.minors[i].req_size) <= b.minors[i].size
  <2>1. DOMAIN b.minors = 1 .. n + 1
    BY <1>1, OfMajor
  <2>2. QED
    BY <1>1, <2>1 DEF MajorInOrder
<1>4. ASSUME NEW i \in 0 .. n PROVE GapStart(a, i) <= GapEnd(a, i)
  <2>1. CASE i < p - 1
    <3>1. i \in 0 .. n + 1 /\ i < p
      BY <1>1, <2>1
    <3>2. GapStart(b, i) = GapStart(a, i) /\ GapEnd(b, i) = GapEnd(a, i)
      BY <2>1, <3>1, GapsWithOneMore
    <3>3. QED
      BY <1>3, <3>1, <3>2
  <2>2. CASE i = p - 1
    <3>1. p - 1 \in 0 .. n /\ p - 1 < p /\ p - 1 <= p - 1 /\ (p - 1) + 1 = p
          /\ p - 1 \in 0 .. n + 1 /\ p \in 0 .. n + 1
      BY <1>1
    <3>2. GapStart(b, p - 1) = GapStart(a, p - 1) /\ GapEnd(b, (p - 1) + 1) = GapEnd(a, p - 1)
          /\ GapEnd(b, p - 1) = m.addr /\ GapStart(b, p) = m.addr + MINOR + m.size
      BY <3>1, GapsWithOneMore
    <3>3. GapStart(a, p - 1) <= m.addr /\ m.addr + MINOR + m.size <= GapEnd(a, p - 1)
      BY <1>3, <3>1, <3>2
    <3>4. GapStart(a, p - 1) \in Nat /\ GapEnd(a, p - 1) \in Nat
      BY <3>1, OfGap
    <3>5. GapStart(a, p - 1) <= GapEnd(a, p - 1)
      BY <1>1, <3>3, <3>4
    <3>6. QED
      BY <2>2, <3>5
  <2>3. CASE i >= p
    <3>1. i + 1 \in 0 .. n + 1 /\ p <= i /\ p - 1 <= i
      BY <1>1, <2>3
    <3>2. GapStart(b, i + 1) = GapStart(a, i) /\ GapEnd(b, i + 1) = GapEnd(a, i)
      BY <3>1, GapsWithOneMore
    <3>3. QED
      BY <1>3, <3>1, <3>2
  <2>4. QED
    BY <1>1, <2>1, <2>2, <2>3
<1>5. ASSUME NEW i \in 1 .. n PROVE SizeFor(a.minors[i].req_size) <= a.minors[i].size
  <2>1. i \in 1 .. n + 1 /\ i + 1 \in 1 .. n + 1
    BY <1>1
  <2>2. CASE i < p
    BY <1>1, <1>3, <2>1, <2>2
  <2>3. CASE p <= i
    BY <1>1, <1>3, <2>1, <2>3
  <2>4. QED
    BY <1>1, <2>2, <2>3
<1>6. DOMAIN a.minors = 1 .. n
  BY OfMajor
<1>7. QED
  BY <1>2, <1>4, <1>5, <1>6 DEF MajorInOrder

\* The new minor is none of the others.
LEMMA NewMinor ==
    ASSUME NEW a \in Major, NEW b \in Major, NEW p, NEW m, OneMore(a, b, p, m), MajorInOrder(b)
    PROVE  ToSet(b.minors) = ToSet(a.minors) \cup {m} /\ m \notin ToSet(a.minors)
<1> DEFINE n == Len(a.minors)
<1>1. /\ p \in 1 .. n + 1 /\ Len(b.minors) = n + 1 /\ b.minors[p] = m
      /\ \A i \in 1 .. n : i < p => b.minors[i] = a.minors[i]
      /\ \A i \in 1 .. n : p <= i => b.minors[i + 1] = a.minors[i]
      /\ m.addr \in Nat /\ m.size \in Nat
  BY MinorsWithOneMore
<1>2. n \in Nat /\ MINOR \in Nat /\ MINOR > 0 /\ DOMAIN a.minors = 1 .. n
  BY OfMajor, Units
<1>3. \A i, j \in 1 .. n + 1 :
         i < j => b.minors[i].addr + MINOR + b.minors[i].size <= b.minors[j].addr
  BY <1>1, InsideMajor
<1>4. ASSUME NEW i \in 1 .. n PROVE a.minors[i] # m
  <2>0. a.minors[i].addr \in Nat /\ a.minors[i].size \in Nat
    BY OfMajor
  <2>1. CASE i < p
    <3>1. i \in 1 .. n + 1 /\ b.minors[i] = a.minors[i]
      BY <1>1, <1>2, <2>1
    <3>2. a.minors[i].addr + MINOR + a.minors[i].size <= m.addr
      BY <1>1, <1>3, <2>1, <3>1
    <3>3. QED
      BY <1>1, <1>2, <2>0, <3>2
  <2>2. CASE p <= i
    <3>1. i + 1 \in 1 .. n + 1 /\ p < i + 1 /\ b.minors[i + 1] = a.minors[i]
      BY <1>1, <1>2, <2>2
    <3>2. m.addr + MINOR + m.size <= a.minors[i].addr
      BY <1>1, <1>3, <3>1
    <3>3. QED
      BY <1>1, <1>2, <2>0, <3>2
  <2>3. QED
    BY <1>1, <1>2, <2>1, <2>2
<1>5. a.minors \in Seq(Minor) /\ b.minors \in Seq(Minor) /\ Adds(a.minors, b.minors, p)
  BY OfMajor DEF OneMore
<1>6. ToSet(b.minors) = ToSet(a.minors) \cup {b.minors[p]}
  BY <1>5, ElementsWithOneMore
<1>7. QED
  BY <1>1, <1>2, <1>4, <1>6 DEF ToSet

\* The minor that kmalloc puts into the first gap with room.
PlacedBy(a, req_size, i) ==
    [addr |-> GapStart(a, i), size |-> SizeFor(req_size), req_size |-> req_size]

\* Place puts a minor into the first gap with room, and keeps the major in order.
LEMMA Placing ==
    ASSUME NEW a \in Major, MajorInOrder(a), NEW r \in Request, Gaps(a, r) # {}
    PROVE  \E i \in 0 .. Len(a.minors) :
             LET m == PlacedBy(a, r, i)
             IN  /\ Place(a, r) \in Major /\ MajorInOrder(Place(a, r))
                 /\ OneMore(a, Place(a, r), i + 1, m) /\ m \in Minor
<1> DEFINE i == Min(Gaps(a, r))
           m == PlacedBy(a, r, i)
           b == Place(a, r)
<1>1. Len(a.minors) \in Nat
  BY OfMajor
<1>2. Gaps(a, r) \in SUBSET Nat
  BY <1>1 DEF Gaps
<1>3. i \in Gaps(a, r)
  BY <1>2, MinOfNat
<1> HIDE DEF i
<1>4. i \in 0 .. Len(a.minors) /\ GapEnd(a, i) - GapStart(a, i) >= Need(r)
  BY <1>3 DEF Gaps
<1>5. /\ GapStart(a, i) \in Nat /\ GapEnd(a, i) \in Nat /\ SizeFor(r) \in Nat /\ MINOR \in Nat
      /\ Need(r) = SizeFor(r) + MINOR
  BY <1>4, OfGap, Units
<1>6. /\ m.addr = GapStart(a, i) /\ m.size = SizeFor(r) /\ m.req_size = r /\ m \in Minor
  BY <1>5 DEF PlacedBy, Minor
<1>7. b = [a EXCEPT !.usage = @ + Need(r), !.minors = InsertAt(@, i + 1, m)]
  BY DEF Place, PlacedBy, i
<1> HIDE DEF m
<1>8. /\ a = [addr |-> a.addr, pages |-> a.pages, usage |-> a.usage, minors |-> a.minors]
      /\ a.minors \in Seq(Minor) /\ a.usage \in Nat /\ a.addr \in Nat /\ a.pages \in 1 .. MaxPages
  BY OfMajor DEF Major
<1>9. b = [addr |-> a.addr, pages |-> a.pages, usage |-> a.usage + Need(r),
           minors |-> InsertAt(a.minors, i + 1, m)]
  BY <1>7, <1>8
<1>10. i + 1 \in 1 .. Len(a.minors) + 1
  BY <1>1, <1>4
<1>11. /\ InsertAt(a.minors, i + 1, m) \in Seq(Minor) /\ InsertAt(a.minors, i + 1, m)[i + 1] = m
       /\ Adds(a.minors, InsertAt(a.minors, i + 1, m), i + 1)
  BY <1>6, <1>8, <1>10, InsertAdds
<1>12. a.usage + Need(r) = a.usage + m.size + MINOR /\ a.usage + Need(r) \in Nat
  BY <1>5, <1>6, <1>8
<1> HIDE DEF b
<1>13. b \in Major
  <2>1. [addr |-> a.addr, pages |-> a.pages, usage |-> a.usage + Need(r),
         minors |-> InsertAt(a.minors, i + 1, m)] \in Major
    BY <1>8, <1>11, <1>12 DEF Major
  <2>2. QED
    BY <1>9, <2>1
<1>14. OneMore(a, b, i + 1, m)
  BY <1>9, <1>11, <1>12 DEF OneMore
<1>15. MajorInOrder(b)
  <2>1. (i + 1) - 1 = i /\ m.addr + MINOR + m.size <= GapEnd(a, i) /\ GapStart(a, i) <= m.addr
    BY <1>4, <1>5, <1>6
  <2>2. SizeFor(m.req_size) <= m.size
    BY <1>5, <1>6
  <2>3. QED
    BY <1>13, <1>14, <2>1, <2>2, MinorPlaced
<1>16. QED
  BY <1>4, <1>6, <1>13, <1>14, <1>15 DEF m, b

\* kfree takes a minor out of its major.
LEMMA Unlinking ==
    ASSUME NEW b \in Major, MajorInOrder(b), NEW i \in 1 .. Len(b.minors)
    PROVE  /\ Without(b, i) \in Major /\ MajorInOrder(Without(b, i))
           /\ OneMore(Without(b, i), b, i, b.minors[i])
<1> DEFINE a == Without(b, i)
           m == b.minors[i]
           rest == RemoveAt(b.minors, i)
<1>1. /\ b = [addr |-> b.addr, pages |-> b.pages, usage |-> b.usage, minors |-> b.minors]
      /\ b.minors \in Seq(Minor) /\ b.usage \in Nat /\ b.addr \in Nat /\ b.pages \in 1 .. MaxPages
      /\ Len(b.minors) \in Nat /\ Total(UnitsOf(b)) \in Nat /\ UnitsOf(b) \in Seq(Nat)
      /\ Len(UnitsOf(b)) = Len(b.minors) /\ UnitsOf(b)[i] = m.size /\ m.size \in Nat
      /\ MINOR \in Nat /\ MAJOR \in Nat
  <2>1. b.pages \in 1 .. MaxPages
    BY DEF Major
  <2>2. QED
    BY <2>1, OfMajor, Units
<1>2. rest \in Seq(Minor) /\ Adds(rest, b.minors, i)
  BY <1>1, RemoveAdds
<1>3. a = [addr |-> b.addr, pages |-> b.pages, usage |-> b.usage - (m.size + MINOR), minors |-> rest]
  <2>1. b = [addr |-> b.addr, pages |-> b.pages, usage |-> b.usage, minors |-> b.minors]
    BY <1>1
  <2>2. a = [b EXCEPT !.usage = b.usage - (m.size + MINOR), !.minors = rest]
    BY <2>1, Zenon DEF Without
  <2> HIDE DEF a, m, rest
  <2>3. QED
    BY <2>1, <2>2
<1> HIDE DEF rest, a
\* The major counts at least this minor.
<1>4. b.usage - (m.size + MINOR) \in Nat
  <2>1. b.usage = MAJOR + Total(UnitsOf(b)) + Len(b.minors) * MINOR
    BY DEF MajorInOrder
  <2>2. m.size <= Total(UnitsOf(b))
    <3>1. /\ RemoveAt(UnitsOf(b), i) \in Seq(Nat) /\ Adds(RemoveAt(UnitsOf(b), i), UnitsOf(b), i)
      BY <1>1, RemoveAdds
    <3>2. Total(UnitsOf(b)) = Total(RemoveAt(UnitsOf(b), i)) + m.size
      BY <1>1, <3>1, TotalWithOneMore
    <3>3. Total(RemoveAt(UnitsOf(b), i)) \in Nat
      BY <3>1, TotalIsNat
    <3>4. QED
      BY <1>1, <3>2, <3>3
  <2>3. MINOR <= Len(b.minors) * MINOR /\ Len(b.minors) * MINOR \in Nat
    <3>1. Len(b.minors) >= 1
      BY <1>1
    <3>2. \A n, k \in Nat : n >= 1 => k <= n * k /\ n * k \in Nat
      OBVIOUS
    <3>3. QED
      BY <1>1, <3>1, <3>2
  <2> DEFINE c == Len(b.minors) * MINOR
             t == Total(UnitsOf(b))
  <2>4. /\ b.usage = MAJOR + t + c /\ m.size <= t /\ MINOR <= c
        /\ c \in Nat /\ t \in Nat /\ m.size \in Nat /\ MINOR \in Nat /\ MAJOR \in Nat
    BY <1>1, <2>1, <2>2, <2>3
  <2> HIDE DEF c, t
  <2>5. QED
    BY <2>4
<1>5. a \in Major
  <2>1. [addr |-> b.addr, pages |-> b.pages, usage |-> b.usage - (m.size + MINOR), minors |-> rest]
          \in Major
    BY <1>1, <1>2, <1>4 DEF Major
  <2>2. QED
    BY <1>3, <2>1
<1>6. OneMore(a, b, i, m)
  <2>1. b.usage = a.usage + m.size + MINOR
    <3>1. \A u, v, w \in Nat : u - (v + w) \in Nat => u = (u - (v + w)) + v + w
      OBVIOUS
    <3>2. b.usage \in Nat /\ m.size \in Nat /\ MINOR \in Nat
      BY <1>1
    <3>3. a.usage = b.usage - (m.size + MINOR)
      BY <1>3
    <3>4. b.usage = (b.usage - (m.size + MINOR)) + m.size + MINOR
      BY <1>4, <3>1, <3>2, Zenon
    <3>5. QED
      BY <3>3, <3>4, Zenon
  <2>2. QED
    BY <1>1, <1>2, <1>3, <2>1 DEF OneMore
<1>7. MajorInOrder(a)
  BY <1>5, <1>6, MinorUnlinked
<1>8. QED
  BY <1>5, <1>6, <1>7 DEF a

\* krealloc of a minor to less.
Shrunk(b, i, size) == [b EXCEPT !.minors[i].req_size = size]

\* A major with a smaller request in one minor is in order still.
LEMMA Shrinking ==
    ASSUME NEW b \in Major, MajorInOrder(b), NEW i \in 1 .. Len(b.minors), NEW r \in Request,
           r <= b.minors[i].req_size
    PROVE  /\ Shrunk(b, i, r) \in Major /\ MajorInOrder(Shrunk(b, i, r))
           /\ Shrunk(b, i, r).addr = b.addr /\ Shrunk(b, i, r).pages = b.pages
           /\ UnitsOf(Shrunk(b, i, r)) = UnitsOf(b)
           /\ Len(Shrunk(b, i, r).minors) = Len(b.minors)
           /\ \A j \in 1 .. Len(b.minors) :
                 Shrunk(b, i, r).minors[j] = IF j = i THEN [b.minors[i] EXCEPT !.req_size = r]
                                             ELSE b.minors[j]
<1> DEFINE a == Shrunk(b, i, r)
           n == Len(b.minors)
           minor == [b.minors[i] EXCEPT !.req_size = r]
           minors == [b.minors EXCEPT ![i] = minor]
<1>1. /\ b = [addr |-> b.addr, pages |-> b.pages, usage |-> b.usage, minors |-> b.minors]
      /\ b.minors \in Seq(Minor) /\ b.usage \in Nat /\ b.addr \in Nat /\ b.pages \in 1 .. MaxPages
      /\ n \in Nat /\ DOMAIN b.minors = 1 .. n /\ b.minors[i] \in Minor
  <2>1. b.pages \in 1 .. MaxPages
    BY DEF Major
  <2>2. QED
    BY <2>1, OfMajor
<1>2. minor \in Minor /\ minor.addr = b.minors[i].addr /\ minor.size = b.minors[i].size
      /\ minor.req_size = r
  BY <1>1 DEF Minor
<1>3. a = [addr |-> b.addr, pages |-> b.pages, usage |-> b.usage, minors |-> minors]
  BY <1>1 DEF Shrunk
<1> HIDE DEF minor
<1>4. /\ minors \in Seq(Minor) /\ Len(minors) = n /\ DOMAIN minors = 1 .. n
      /\ \A j \in 1 .. n : minors[j] = IF j = i THEN minor ELSE b.minors[j]
  BY <1>1, <1>2
<1> HIDE DEF minors, a
<1>5. a \in Major
  <2>1. [addr |-> b.addr, pages |-> b.pages, usage |-> b.usage, minors |-> minors] \in Major
    BY <1>1, <1>4 DEF Major
  <2>2. QED
    BY <1>3, <2>1
<1>6. \A j \in 1 .. n : a.minors[j].addr = b.minors[j].addr /\ a.minors[j].size = b.minors[j].size
  BY <1>2, <1>3, <1>4
<1>7. UnitsOf(a) = UnitsOf(b)
  BY <1>1, <1>3, <1>4, <1>6 DEF UnitsOf
<1>8. \A j \in 0 .. n : GapStart(a, j) = GapStart(b, j) /\ GapEnd(a, j) = GapEnd(b, j)
  <2>1. SUFFICES ASSUME NEW j \in 0 .. n
                 PROVE  GapStart(a, j) = GapStart(b, j) /\ GapEnd(a, j) = GapEnd(b, j)
    OBVIOUS
  <2>2. a.addr = b.addr /\ Size(a) = Size(b) /\ Len(a.minors) = n
    BY <1>3, <1>4 DEF Size
  <2>3. GapStart(a, j) = GapStart(b, j)
    <3>1. CASE j = 0
      BY <2>2, <3>1 DEF GapStart
    <3>2. CASE j # 0
      <4>1. j \in 1 .. n
        BY <1>1, <3>2
      <4>2. QED
        BY <1>6, <3>2, <4>1 DEF GapStart
    <3>3. QED
      BY <3>1, <3>2
  <2>4. GapEnd(a, j) = GapEnd(b, j)
    <3>1. CASE j = n
      BY <2>2, <3>1 DEF GapEnd
    <3>2. CASE j # n
      <4>1. j + 1 \in 1 .. n
        BY <1>1, <3>2
      <4>2. QED
        BY <1>6, <2>2, <3>2, <4>1 DEF GapEnd
    <3>3. QED
      BY <3>1, <3>2
  <2>5. QED
    BY <2>3, <2>4
<1>9. \A j \in 1 .. n : SizeFor(a.minors[j].req_size) <= a.minors[j].size
  <2>1. SUFFICES ASSUME NEW j \in 1 .. n
                 PROVE  SizeFor(a.minors[j].req_size) <= a.minors[j].size
    OBVIOUS
  <2>2. SizeFor(b.minors[j].req_size) <= b.minors[j].size
    BY <1>1 DEF MajorInOrder
  <2>3. CASE j # i
    BY <1>3, <1>4, <2>2, <2>3
  <2>4. CASE j = i
    <3>1. a.minors[j].req_size = r /\ a.minors[j].size = b.minors[i].size
      BY <1>2, <1>3, <1>4, <2>4
    <3>2. b.minors[i].req_size \in Request /\ b.minors[i].size \in Nat
      BY <1>1 DEF Minor
    <3>3. SizeFor(r) <= SizeFor(b.minors[i].req_size)
      <4>1. b.minors[i].req_size \in Nat /\ r \in Nat /\ ALIGNMENT \in Nat
        BY <3>2, Units
      <4>2. /\ SizeFor(r) = r + ALIGNMENT + ALIGNMENT
            /\ SizeFor(b.minors[i].req_size) = b.minors[i].req_size + ALIGNMENT + ALIGNMENT
        BY <3>2, Units
      <4>3. QED
        BY <4>1, <4>2
    <3>4. SizeFor(r) \in Nat /\ SizeFor(b.minors[i].req_size) \in Nat
      BY <3>2, Units
    <3>5. QED
      BY <2>2, <2>4, <3>1, <3>2, <3>3, <3>4
  <2>5. QED
    BY <2>3, <2>4
<1>10. MajorInOrder(a)
  <2>1. a.usage = b.usage /\ DOMAIN a.minors = 1 .. n /\ Len(a.minors) = n
    BY <1>3, <1>4
  <2>2. /\ b.usage = MAJOR + Total(UnitsOf(b)) + n * MINOR
        /\ \A j \in 0 .. n : GapStart(b, j) <= GapEnd(b, j)
    BY DEF MajorInOrder
  <2>3. a.usage = MAJOR + Total(UnitsOf(a)) + Len(a.minors) * MINOR
    BY <1>7, <2>1, <2>2, Zenon
  <2>4. QED
    BY <1>8, <1>9, <2>1, <2>2, <2>3 DEF MajorInOrder
<1>11. /\ a.addr = b.addr /\ a.pages = b.pages /\ Len(a.minors) = n
       /\ \A j \in 1 .. n : a.minors[j] = IF j = i THEN minor ELSE b.minors[j]
  BY <1>3, <1>4
<1>12. QED
  BY <1>5, <1>7, <1>10, <1>11 DEF a, minor

-----------------------------------------------------------------------------
(***************************************************************************)
(* The heap.                                                               *)
(***************************************************************************)
UnitsIn(h) == [k \in DOMAIN h.majors |-> Total(UnitsOf(h.majors[k]))]
SizesIn(h) == [k \in DOMAIN h.majors |-> Size(h.majors[k])]

\* A heap's own fields.
LEMMA OfHeap ==
    ASSUME NEW h \in Heap
    PROVE  /\ h = [majors |-> h.majors, bestBet |-> h.bestBet, allocated |-> h.allocated,
                   inuse |-> h.inuse, pagesOut |-> h.pagesOut]
           /\ h.majors \in Seq(Major) /\ Len(h.majors) \in Nat
           /\ DOMAIN h.majors = 1 .. Len(h.majors)
           /\ \A k \in 1 .. Len(h.majors) : h.majors[k] \in Major
           /\ h.bestBet \in Nat /\ h.allocated \in Nat /\ h.inuse \in Nat
           /\ h.pagesOut \in 0 .. MaxPages /\ h.pagesOut \in Nat
           /\ UnitsIn(h) \in Seq(Nat) /\ Len(UnitsIn(h)) = Len(h.majors)
           /\ \A k \in 1 .. Len(h.majors) : UnitsIn(h)[k] = Total(UnitsOf(h.majors[k]))
           /\ SizesIn(h) \in Seq(Nat) /\ Len(SizesIn(h)) = Len(h.majors)
           /\ \A k \in 1 .. Len(h.majors) : SizesIn(h)[k] = Size(h.majors[k])
<1>1. /\ h = [majors |-> h.majors, bestBet |-> h.bestBet, allocated |-> h.allocated,
              inuse |-> h.inuse, pagesOut |-> h.pagesOut]
      /\ h.majors \in Seq(Major) /\ h.bestBet \in Nat /\ h.allocated \in Nat /\ h.inuse \in Nat
      /\ h.pagesOut \in 0 .. MaxPages
  BY DEF Heap
<1>2. Len(h.majors) \in Nat /\ DOMAIN h.majors = 1 .. Len(h.majors) /\ h.pagesOut \in Nat
  BY <1>1, Units
<1>3. \A k \in 1 .. Len(h.majors) : h.majors[k] \in Major
  BY <1>1, <1>2
<1>4. \A k \in 1 .. Len(h.majors) : Total(UnitsOf(h.majors[k])) \in Nat /\ Size(h.majors[k]) \in Nat
  BY <1>3, OfMajor
<1>5. /\ UnitsIn(h) \in Seq(Nat) /\ Len(UnitsIn(h)) = Len(h.majors)
      /\ \A k \in 1 .. Len(h.majors) : UnitsIn(h)[k] = Total(UnitsOf(h.majors[k]))
  BY <1>2, <1>4 DEF UnitsIn
<1>6. /\ SizesIn(h) \in Seq(Nat) /\ Len(SizesIn(h)) = Len(h.majors)
      /\ \A k \in 1 .. Len(h.majors) : SizesIn(h)[k] = Size(h.majors[k])
  BY <1>2, <1>4 DEF SizesIn
<1>7. QED
  BY <1>1, <1>2, <1>3, <1>5, <1>6

\* The header and the units of a minor do not meet those of another.
Clear(x, y) == x.addr + MINOR + x.size <= y.addr \/ y.addr + MINOR + y.size <= x.addr

\* A minor of a major.
LEMMA MinorOfMajor ==
    ASSUME NEW maj \in Major, MajorInOrder(maj), NEW x \in ToSet(maj.minors)
    PROVE  /\ x \in Minor /\ x.addr \in Nat /\ x.size \in Nat /\ SizeFor(x.req_size) <= x.size
           /\ maj.addr + MAJOR <= x.addr /\ x.addr + MINOR + x.size <= End(maj)
           /\ \A y \in ToSet(maj.minors) : x # y => Clear(x, y)
<1>1. DOMAIN maj.minors = 1 .. Len(maj.minors) /\ Len(maj.minors) \in Nat
  BY OfMajor
<1>2. PICK i \in 1 .. Len(maj.minors) : x = maj.minors[i]
  BY <1>1 DEF ToSet
<1>3. x \in Minor /\ x.addr \in Nat /\ x.size \in Nat
  BY <1>2, OfMajor
<1>4. SizeFor(x.req_size) <= x.size
  BY <1>1, <1>2 DEF MajorInOrder
<1>5. maj.addr + MAJOR <= x.addr /\ x.addr + MINOR + x.size <= End(maj)
  BY <1>2, InsideMajor
<1>6. ASSUME NEW y \in ToSet(maj.minors), x # y PROVE Clear(x, y)
  <2>1. PICK j \in 1 .. Len(maj.minors) : y = maj.minors[j]
    BY <1>1 DEF ToSet
  <2>2. i < j \/ j < i
    BY <1>2, <1>6, <2>1
  <2>3. CASE i < j
    BY <1>2, <2>1, <2>3, InsideMajor DEF Clear
  <2>4. CASE j < i
    BY <1>2, <2>1, <2>4, InsideMajor DEF Clear
  <2>5. QED
    BY <2>2, <2>3, <2>4
<1>7. QED
  BY <1>3, <1>4, <1>5, <1>6

\* Minors of different majors.
LEMMA MinorsOfMajors ==
    ASSUME NEW h \in Heap, MajorsInOrder(h), NEW k \in 1 .. Len(h.majors), NEW l \in 1 .. Len(h.majors),
           k # l, NEW x \in ToSet(h.majors[k].minors), NEW y \in ToSet(h.majors[l].minors)
    PROVE  Clear(x, y)
<1>1. \A j, m \in 1 .. Len(h.majors) : j < m => End(h.majors[j]) <= h.majors[m].addr
  BY OfHeap DEF MajorsInOrder
<1>2. /\ h.majors[k] \in Major /\ MajorInOrder(h.majors[k])
      /\ h.majors[l] \in Major /\ MajorInOrder(h.majors[l])
  BY OfHeap DEF MajorsInOrder
<1>3. /\ h.majors[k].addr + MAJOR <= x.addr /\ x.addr + MINOR + x.size <= End(h.majors[k])
      /\ h.majors[l].addr + MAJOR <= y.addr /\ y.addr + MINOR + y.size <= End(h.majors[l])
      /\ x.addr \in Nat /\ x.size \in Nat /\ y.addr \in Nat /\ y.size \in Nat
  BY <1>2, MinorOfMajor
<1>4. /\ h.majors[k].addr \in Nat /\ h.majors[l].addr \in Nat /\ MAJOR \in Nat /\ MINOR \in Nat
      /\ End(h.majors[k]) \in Nat /\ End(h.majors[l]) \in Nat
  <2>1. \A maj \in Major : maj.addr \in Nat /\ End(maj) \in Nat
    BY OfMajor DEF End
  <2>2. QED
    BY <1>2, <2>1, Units
<1>5. k < l \/ l < k
  OBVIOUS
<1>6. CASE k < l
  <2>1. End(h.majors[k]) <= h.majors[l].addr
    BY <1>1, <1>6
  <2>2. x.addr + MINOR + x.size <= y.addr
    <3>1. /\ x.addr + MINOR + x.size \in Nat /\ End(h.majors[k]) \in Nat
          /\ h.majors[l].addr \in Nat /\ MAJOR \in Nat /\ y.addr \in Nat
      <4>1. x.addr \in Nat /\ x.size \in Nat /\ MINOR \in Nat
        BY <1>3, <1>4, Zenon
      <4>2. x.addr + MINOR + x.size \in Nat
        BY <4>1
      <4>3. QED
        BY <1>3, <1>4, <4>2, Zenon
    <3>2. x.addr + MINOR + x.size <= End(h.majors[k]) /\ h.majors[l].addr + MAJOR <= y.addr
      BY <1>3
    <3>3. \A s, e, m, c, t \in Nat : s <= e /\ e <= m /\ m + c <= t => s <= t
      OBVIOUS
    <3>4. QED
      BY <2>1, <3>1, <3>2, <3>3, Zenon
  <2>3. QED
    BY <2>2 DEF Clear
<1>7. CASE l < k
  <2>1. End(h.majors[l]) <= h.majors[k].addr
    BY <1>1, <1>7
  <2>2. y.addr + MINOR + y.size <= x.addr
    <3>1. /\ y.addr + MINOR + y.size \in Nat /\ End(h.majors[l]) \in Nat
          /\ h.majors[k].addr \in Nat /\ MAJOR \in Nat /\ x.addr \in Nat
      <4>1. y.addr \in Nat /\ y.size \in Nat /\ MINOR \in Nat
        BY <1>3, <1>4, Zenon
      <4>2. y.addr + MINOR + y.size \in Nat
        BY <4>1
      <4>3. QED
        BY <1>3, <1>4, <4>2, Zenon
    <3>2. y.addr + MINOR + y.size <= End(h.majors[l]) /\ h.majors[k].addr + MAJOR <= x.addr
      BY <1>3
    <3>3. \A s, e, m, c, t \in Nat : s <= e /\ e <= m /\ m + c <= t => s <= t
      OBVIOUS
    <3>4. QED
      BY <2>1, <3>1, <3>2, <3>3, Zenon
  <2>3. QED
    BY <2>2 DEF Clear
<1>8. QED
  BY <1>5, <1>6, <1>7

\* All the minors of a heap.
LEMMA MinorsOfHeap ==
    ASSUME NEW h \in Heap, MajorsInOrder(h)
    PROVE  /\ \A k \in 1 .. Len(h.majors) : ToSet(h.majors[k].minors) \subseteq Minors(h)
           /\ \A x \in Minors(h) : \E k \in 1 .. Len(h.majors) : x \in ToSet(h.majors[k].minors)
           /\ \A x \in Minors(h) : /\ x \in Minor /\ x.addr \in Nat /\ x.size \in Nat
                                   /\ SizeFor(x.req_size) <= x.size
           /\ \A x, y \in Minors(h) : x # y => Clear(x, y) /\ x.addr # y.addr
<1>1. DOMAIN h.majors = 1 .. Len(h.majors)
  BY OfHeap
<1>2. \A k \in 1 .. Len(h.majors) : ToSet(h.majors[k].minors) \subseteq Minors(h)
  BY <1>1 DEF Minors
<1>3. \A x \in Minors(h) : \E k \in 1 .. Len(h.majors) : x \in ToSet(h.majors[k].minors)
  BY <1>1 DEF Minors
<1>4. \A k \in 1 .. Len(h.majors) : h.majors[k] \in Major /\ MajorInOrder(h.majors[k])
  BY OfHeap DEF MajorsInOrder
<1>5. \A x \in Minors(h) : /\ x \in Minor /\ x.addr \in Nat /\ x.size \in Nat
                           /\ SizeFor(x.req_size) <= x.size
  BY <1>3, <1>4, MinorOfMajor
<1>6. ASSUME NEW x \in Minors(h), NEW y \in Minors(h), x # y
      PROVE  Clear(x, y) /\ x.addr # y.addr
  <2>1. PICK k \in 1 .. Len(h.majors) : x \in ToSet(h.majors[k].minors)
    BY <1>3
  <2>2. PICK l \in 1 .. Len(h.majors) : y \in ToSet(h.majors[l].minors)
    BY <1>3
  <2>3. Clear(x, y)
    <3>1. CASE k = l
      BY <1>4, <1>6, <2>1, <2>2, <3>1, MinorOfMajor
    <3>2. CASE k # l
      BY <2>1, <2>2, <3>2, MinorsOfMajors
    <3>3. QED
      BY <3>1, <3>2
  <2>4. x.addr \in Nat /\ x.size \in Nat /\ y.addr \in Nat /\ y.size \in Nat /\ MINOR \in Nat /\ MINOR > 0
    BY <1>5, Units
  <2>5. QED
    BY <2>3, <2>4 DEF Clear
<1>7. QED
  BY <1>2, <1>3, <1>5, <1>6

\* What a heap counts with one more major.
LEMMA CountsWithOneMore ==
    ASSUME NEW h \in Heap, NEW g \in Heap, NEW p, Adds(h.majors, g.majors, p)
    PROVE  /\ Total(UnitsIn(g)) = Total(UnitsIn(h)) + Total(UnitsOf(g.majors[p]))
           /\ Total(SizesIn(g)) = Total(SizesIn(h)) + Size(g.majors[p])
<1>1. /\ p \in 1 .. Len(h.majors) + 1 /\ Len(g.majors) = Len(h.majors) + 1
      /\ \A k \in 1 .. Len(h.majors) + 1 :
            k # p => g.majors[k] = IF k < p THEN h.majors[k] ELSE h.majors[k - 1]
  BY DEF Adds
<1>2. Len(h.majors) \in Nat /\ Len(g.majors) \in Nat
  BY OfHeap
<1>3. /\ Len(UnitsIn(h)) = Len(h.majors) /\ Len(UnitsIn(g)) = Len(g.majors)
      /\ Len(SizesIn(h)) = Len(h.majors) /\ Len(SizesIn(g)) = Len(g.majors)
      /\ \A k \in 1 .. Len(h.majors) : UnitsIn(h)[k] = Total(UnitsOf(h.majors[k]))
      /\ \A k \in 1 .. Len(g.majors) : UnitsIn(g)[k] = Total(UnitsOf(g.majors[k]))
      /\ \A k \in 1 .. Len(h.majors) : SizesIn(h)[k] = Size(h.majors[k])
      /\ \A k \in 1 .. Len(g.majors) : SizesIn(g)[k] = Size(g.majors[k])
  BY OfHeap
<1>4. ASSUME NEW k \in 1 .. Len(h.majors) + 1, k # p
      PROVE  /\ UnitsIn(g)[k] = IF k < p THEN UnitsIn(h)[k] ELSE UnitsIn(h)[k - 1]
             /\ SizesIn(g)[k] = IF k < p THEN SizesIn(h)[k] ELSE SizesIn(h)[k - 1]
  <2>1. UnitsIn(g)[k] = Total(UnitsOf(g.majors[k])) /\ SizesIn(g)[k] = Size(g.majors[k])
    BY <1>1, <1>3
  <2>2. CASE k < p
    <3>1. k \in 1 .. Len(h.majors) /\ g.majors[k] = h.majors[k]
      BY <1>1, <1>2, <1>4, <2>2
    <3>2. QED
      BY <1>3, <2>1, <2>2, <3>1
  <2>3. CASE ~ (k < p)
    <3>1. k - 1 \in 1 .. Len(h.majors) /\ g.majors[k] = h.majors[k - 1]
      BY <1>1, <1>2, <1>4, <2>3
    <3>2. QED
      BY <1>3, <2>1, <2>3, <3>1
  <2>4. QED
    BY <2>2, <2>3
<1>5. Adds(UnitsIn(h), UnitsIn(g), p) /\ Adds(SizesIn(h), SizesIn(g), p)
  BY <1>1, <1>3, <1>4 DEF Adds
<1>6. p \in 1 .. Len(g.majors)
  BY <1>1, <1>2
<1>7. UnitsIn(g)[p] = Total(UnitsOf(g.majors[p])) /\ SizesIn(g)[p] = Size(g.majors[p])
  BY <1>3, <1>6
<1>8. UnitsIn(h) \in Seq(Nat) /\ UnitsIn(g) \in Seq(Nat) /\ SizesIn(h) \in Seq(Nat) /\ SizesIn(g) \in Seq(Nat)
  BY OfHeap
<1>9. Total(UnitsIn(g)) = Total(UnitsIn(h)) + UnitsIn(g)[p]
  BY <1>5, <1>8, TotalWithOneMore
<1>10. Total(SizesIn(g)) = Total(SizesIn(h)) + SizesIn(g)[p]
  BY <1>5, <1>8, TotalWithOneMore
<1>11. QED
  BY <1>7, <1>9, <1>10

-----------------------------------------------------------------------------
\* g is the heap h with another count and other minors in major k.
Changed(h, g, k) ==
    /\ k \in 1 .. Len(h.majors) /\ Len(g.majors) = Len(h.majors)
    /\ \A j \in 1 .. Len(h.majors) : j # k => g.majors[j] = h.majors[j]
    /\ g.majors[k].addr = h.majors[k].addr /\ g.majors[k].pages = h.majors[k].pages
    /\ g.pagesOut = h.pagesOut /\ g.allocated = h.allocated
    /\ g.inuse + Total(UnitsOf(h.majors[k])) = h.inuse + Total(UnitsOf(g.majors[k]))

\* A change within a major keeps the order when the major keeps it.
LEMMA MajorChanged ==
    ASSUME NEW h, HeapInOrderOf(h), NEW g \in Heap, NEW k, Changed(h, g, k),
           MajorInOrder(g.majors[k]), g.majors[k].minors # <<>>,
           g.bestBet # NULL => \E j \in 1 .. Len(h.majors) : h.majors[j].addr = g.bestBet
    PROVE  HeapInOrderOf(g)
<1> DEFINE n == Len(h.majors)
<1>1. h \in Heap /\ MajorsInOrder(h) /\ TotalsAgree(h) /\ BetIsKnown(h)
  BY DEF HeapInOrderOf
<1>2. /\ k \in 1 .. n /\ Len(g.majors) = n
      /\ \A j \in 1 .. n : j # k => g.majors[j] = h.majors[j]
      /\ g.majors[k].addr = h.majors[k].addr /\ g.majors[k].pages = h.majors[k].pages
      /\ g.pagesOut = h.pagesOut /\ g.allocated = h.allocated
      /\ g.inuse + Total(UnitsOf(h.majors[k])) = h.inuse + Total(UnitsOf(g.majors[k]))
  BY DEF Changed
<1>3. n \in Nat /\ DOMAIN h.majors = 1 .. n /\ DOMAIN g.majors = 1 .. n
  BY <1>1, <1>2, OfHeap
<1>4. \A j \in 1 .. n : /\ g.majors[j].addr = h.majors[j].addr
                        /\ Size(g.majors[j]) = Size(h.majors[j])
                        /\ End(g.majors[j]) = End(h.majors[j])
  <2>1. \A j \in 1 .. n : /\ g.majors[j].addr = h.majors[j].addr
                          /\ g.majors[j].pages = h.majors[j].pages
    BY <1>2
  <2>2. QED
    BY <2>1 DEF End, Size
<1>5. \A j \in 1 .. n : MajorInOrder(g.majors[j]) /\ g.majors[j].minors # <<>>
  BY <1>1, <1>2, <1>3 DEF MajorsInOrder
<1>6. MajorsInOrder(g)
  <2>1. \A j \in 1 .. n : h.majors[j].addr > 0 /\ End(h.majors[j]) <= (h.pagesOut + 1) * l_pageSize
    BY <1>1, <1>3 DEF MajorsInOrder
  <2>2. \A i, j \in 1 .. n : i < j => End(h.majors[i]) <= h.majors[j].addr
    BY <1>1, <1>3 DEF MajorsInOrder
  <2>3. \A i, j \in 1 .. n : i < j => End(g.majors[i]) <= g.majors[j].addr
    BY <1>4, <2>2
  <2>4. \A j \in 1 .. n : g.majors[j].addr > 0 /\ End(g.majors[j]) <= (g.pagesOut + 1) * l_pageSize
    BY <1>2, <1>4, <2>1
  <2>5. QED
    BY <1>3, <1>5, <2>3, <2>4, Zenon DEF MajorsInOrder
<1>7. TotalsAgree(g)
  <2>1. /\ UnitsIn(h) \in Seq(Nat) /\ UnitsIn(g) \in Seq(Nat) /\ Len(UnitsIn(h)) = n /\ Len(UnitsIn(g)) = n
        /\ \A j \in 1 .. n : UnitsIn(h)[j] = Total(UnitsOf(h.majors[j]))
        /\ \A j \in 1 .. n : UnitsIn(g)[j] = Total(UnitsOf(g.majors[j]))
    BY <1>1, <1>2, OfHeap
  <2>2. \A j \in 1 .. n : j # k => UnitsIn(g)[j] = UnitsIn(h)[j]
    BY <1>2, <2>1
  <2>3. k \in 1 .. Len(UnitsIn(h))
    BY <1>2, <2>1
  <2>4. Total(UnitsIn(g)) + UnitsIn(h)[k] = Total(UnitsIn(h)) + UnitsIn(g)[k]
    BY <2>1, <2>2, <2>3, TotalWithOneChanged
  <2>5. h.inuse = Total(UnitsIn(h)) /\ h.allocated = Total(SizesIn(h))
    BY <1>1 DEF TotalsAgree, UnitsIn, SizesIn
  <2>6. /\ Total(UnitsIn(g)) \in Nat /\ Total(UnitsIn(h)) \in Nat /\ UnitsIn(h)[k] \in Nat
        /\ UnitsIn(g)[k] \in Nat /\ g.inuse \in Nat
    <3>1. Total(UnitsIn(g)) \in Nat /\ Total(UnitsIn(h)) \in Nat
      BY <2>1, TotalIsNat
    <3>2. UnitsIn(h)[k] \in Nat /\ UnitsIn(g)[k] \in Nat
      BY <1>2, <2>1
    <3>3. QED
      BY <3>1, <3>2, OfHeap
  <2>7. g.inuse + UnitsIn(h)[k] = h.inuse + UnitsIn(g)[k]
    BY <1>2, <2>1
  <2>8. g.inuse = Total(UnitsIn(g))
    BY <2>4, <2>5, <2>6, <2>7
  <2>9. SizesIn(g) = SizesIn(h)
    BY <1>3, <1>4 DEF SizesIn
  <2>10. g.allocated = Total(SizesIn(g))
    BY <1>2, <2>5, <2>9
  <2>11. QED
    BY <2>8, <2>10 DEF TotalsAgree, UnitsIn, SizesIn
<1>8. BetIsKnown(g)
  BY <1>3, <1>4 DEF BetIsKnown
<1>9. QED
  BY <1>6, <1>7, <1>8 DEF HeapInOrderOf

\* A new major behind the others, in new pages.
LEMMA MajorAdded ==
    ASSUME NEW h, HeapInOrderOf(h), NEW g \in Heap, NEW b \in Major,
           g.majors = Append(h.majors, b), MajorInOrder(b), b.minors # <<>>,
           b.addr = (h.pagesOut + 1) * l_pageSize, g.pagesOut = h.pagesOut + b.pages,
           g.allocated = h.allocated + Size(b), g.inuse = h.inuse + Total(UnitsOf(b)),
           BetIsKnown(g)
    PROVE  HeapInOrderOf(g)
<1> DEFINE n == Len(h.majors)
<1>1. h \in Heap /\ MajorsInOrder(h) /\ TotalsAgree(h)
  BY DEF HeapInOrderOf
<1>2. /\ n \in Nat /\ DOMAIN h.majors = 1 .. n /\ h.majors \in Seq(Major)
      /\ h.pagesOut \in Nat /\ b.pages \in Nat /\ l_pageSize \in Nat /\ l_pageSize > 0
  BY <1>1, OfHeap, OfMajor, Units
<1>3. /\ Len(g.majors) = n + 1 /\ DOMAIN g.majors = 1 .. n + 1 /\ g.majors[n + 1] = b
      /\ \A k \in 1 .. n : g.majors[k] = h.majors[k]
  BY <1>2
<1>4. Adds(h.majors, g.majors, n + 1)
  BY <1>2, <1>3 DEF Adds
<1>5. TotalsAgree(g)
  <2>1. /\ Total(UnitsIn(g)) = Total(UnitsIn(h)) + Total(UnitsOf(b))
        /\ Total(SizesIn(g)) = Total(SizesIn(h)) + Size(b)
    BY <1>1, <1>3, <1>4, CountsWithOneMore
  <2>2. h.inuse = Total(UnitsIn(h)) /\ h.allocated = Total(SizesIn(h))
    BY <1>1 DEF TotalsAgree, UnitsIn, SizesIn
  <2>3. QED
    BY <2>1, <2>2 DEF TotalsAgree, UnitsIn, SizesIn
<1>6. /\ (h.pagesOut + 1) * l_pageSize <= (g.pagesOut + 1) * l_pageSize
      /\ (h.pagesOut + 1) * l_pageSize \in Nat /\ (g.pagesOut + 1) * l_pageSize \in Nat
      /\ (h.pagesOut + 1) * l_pageSize > 0
      /\ End(b) = (g.pagesOut + 1) * l_pageSize
  <2>1. \A u, v, w \in Nat : /\ ((u + v) + 1) * w = (u + 1) * w + v * w
                             /\ (u + 1) * w \in Nat /\ v * w \in Nat
                             /\ w > 0 => (u + 1) * w > 0
    OBVIOUS
  <2>2. /\ ((h.pagesOut + b.pages) + 1) * l_pageSize
             = (h.pagesOut + 1) * l_pageSize + b.pages * l_pageSize
        /\ (h.pagesOut + 1) * l_pageSize \in Nat /\ b.pages * l_pageSize \in Nat
        /\ (h.pagesOut + 1) * l_pageSize > 0
    <3>1. h.pagesOut \in Nat /\ b.pages \in Nat /\ l_pageSize \in Nat /\ l_pageSize > 0
      BY <1>2
    <3>2. QED
      BY <2>1, <3>1, Zenon
  <2>3. End(b) = (h.pagesOut + 1) * l_pageSize + b.pages * l_pageSize
    BY DEF End, Size
  <2> DEFINE from == (h.pagesOut + 1) * l_pageSize
             more == b.pages * l_pageSize
             upto == (g.pagesOut + 1) * l_pageSize
  <2>4. upto = from + more /\ from \in Nat /\ more \in Nat /\ from > 0 /\ End(b) = from + more
    BY <2>2, <2>3
  <2> HIDE DEF from, more, upto
  <2>5. from <= upto /\ upto \in Nat /\ End(b) = upto
    BY <2>4
  <2>6. QED
    BY <2>4, <2>5 DEF from, upto
<1>7. \A k \in 1 .. n : /\ MajorInOrder(h.majors[k]) /\ h.majors[k].minors # <<>> /\ h.majors[k].addr > 0
                        /\ End(h.majors[k]) <= (h.pagesOut + 1) * l_pageSize
                        /\ End(h.majors[k]) \in Nat
  <2>1. ASSUME NEW maj \in Major PROVE End(maj) \in Nat
    <3>1. maj.addr \in Nat /\ Size(maj) \in Nat
      BY OfMajor
    <3>2. QED
      BY <3>1 DEF End
  <2>2. \A k \in 1 .. n : h.majors[k] \in Major
    BY <1>1, OfHeap
  <2>3. QED
    BY <1>1, <1>2, <2>1, <2>2 DEF MajorsInOrder
<1> DEFINE from == (h.pagesOut + 1) * l_pageSize
           upto == (g.pagesOut + 1) * l_pageSize
<1> HIDE DEF from, upto
<1>8. MajorsInOrder(g)
  <2>1. ASSUME NEW k \in 1 .. n + 1
        PROVE  /\ MajorInOrder(g.majors[k]) /\ g.majors[k].minors # <<>> /\ g.majors[k].addr > 0
               /\ End(g.majors[k]) <= (g.pagesOut + 1) * l_pageSize
    <3>1. CASE k = n + 1
      <4>1. g.majors[k] = b
        BY <1>3, <3>1
      <4>2. End(b) <= (g.pagesOut + 1) * l_pageSize /\ b.addr > 0
        BY <1>6 DEF upto, from
      <4>3. QED
        BY <4>1, <4>2
    <3>2. CASE k # n + 1
      <4>1. k \in 1 .. n
        BY <1>2, <3>2
      <4>2. g.majors[k] = h.majors[k] /\ End(h.majors[k]) <= from /\ End(h.majors[k]) \in Nat
        BY <1>3, <1>7, <4>1 DEF from
      <4>3. from <= upto /\ from \in Nat /\ upto \in Nat
        BY <1>6 DEF from, upto
      <4>4. End(g.majors[k]) <= upto
        BY <4>2, <4>3
      <4>5. MajorInOrder(h.majors[k]) /\ h.majors[k].minors # <<>> /\ h.majors[k].addr > 0
        BY <1>7, <4>1
      <4>6. QED
        BY <4>2, <4>4, <4>5 DEF upto
    <3>3. QED
      BY <3>1, <3>2
  <2>2. ASSUME NEW j \in 1 .. n + 1, NEW k \in 1 .. n + 1, j < k
        PROVE  End(g.majors[j]) <= g.majors[k].addr
    <3>1. j \in 1 .. n /\ g.majors[j] = h.majors[j]
      BY <1>2, <1>3, <2>2
    <3>2. CASE k = n + 1
      <4>1. g.majors[k] = b
        BY <1>3, <3>2
      <4>2. End(h.majors[j]) <= (h.pagesOut + 1) * l_pageSize
        BY <1>7, <3>1
      <4>3. QED
        BY <3>1, <4>1, <4>2
    <3>3. CASE k # n + 1
      <4>1. k \in 1 .. n /\ g.majors[k] = h.majors[k]
        BY <1>2, <1>3, <3>3
      <4>2. End(h.majors[j]) <= h.majors[k].addr
        BY <1>1, <1>2, <2>2, <3>1, <4>1 DEF MajorsInOrder
      <4>3. QED
        BY <3>1, <4>1, <4>2
    <3>4. QED
      BY <3>2, <3>3
  <2>3. QED
    BY <1>3, <2>1, <2>2 DEF MajorsInOrder
<1>9. QED
  BY <1>5, <1>8 DEF HeapInOrderOf

\* A major taken out.
LEMMA MajorDropped ==
    ASSUME NEW h, HeapInOrderOf(h), NEW g \in Heap, NEW k \in 1 .. Len(h.majors),
           g.majors = RemoveAt(h.majors, k), g.pagesOut = h.pagesOut,
           g.allocated = h.allocated - Size(h.majors[k]),
           g.inuse = h.inuse - Total(UnitsOf(h.majors[k])),
           g.bestBet = IF h.bestBet = h.majors[k].addr THEN NULL ELSE h.bestBet
    PROVE  HeapInOrderOf(g)
<1> DEFINE n == Len(g.majors)
           b == h.majors[k]
           Of(j) == IF j < k THEN j ELSE j + 1
<1>1. h \in Heap /\ MajorsInOrder(h) /\ TotalsAgree(h) /\ BetIsKnown(h)
  BY DEF HeapInOrderOf
<1>2. /\ Len(h.majors) \in Nat /\ DOMAIN h.majors = 1 .. Len(h.majors) /\ h.majors \in Seq(Major)
      /\ n \in Nat /\ DOMAIN g.majors = 1 .. n
  BY <1>1, OfHeap
<1>3. /\ n = Len(h.majors) - 1 /\ Adds(g.majors, h.majors, k)
      /\ \A j \in 1 .. Len(h.majors) - 1 :
            g.majors[j] = IF j < k THEN h.majors[j] ELSE h.majors[j + 1]
  <2>1. /\ Len(g.majors) = Len(h.majors) - 1
        /\ \A j \in 1 .. Len(h.majors) - 1 :
              g.majors[j] = IF j < k THEN h.majors[j] ELSE h.majors[j + 1]
    <3>1. g.majors = RemoveAt(h.majors, k) /\ h.majors \in Seq(Major)
      BY <1>2
    <3> DEFINE s == h.majors
               t == g.majors
    <3>2. t = RemoveAt(s, k) /\ s \in Seq(Major) /\ k \in 1 .. Len(s)
      BY <3>1
    <3> HIDE DEF s, t
    <3>3. /\ Len(t) = Len(s) - 1
          /\ \A j \in 1 .. Len(s) - 1 : t[j] = IF j < k THEN s[j] ELSE s[j + 1]
      BY <3>2, RemovedAt
    <3>4. QED
      BY <3>3 DEF s, t
  <2>2. Adds(g.majors, h.majors, k)
    BY <1>2, RemoveAdds, Zenon
  <2>3. QED
    BY <2>1, <2>2, Zenon
<1>4. \A j \in 1 .. n : /\ Of(j) \in 1 .. Len(h.majors) /\ Of(j) # k /\ g.majors[j] = h.majors[Of(j)]
  BY <1>2, <1>3
<1>5. \A i, j \in 1 .. n : i < j => Of(i) < Of(j)
  OBVIOUS
<1> HIDE DEF Of
<1>6. MajorsInOrder(g)
  <2>1. \A j \in 1 .. n : /\ MajorInOrder(g.majors[j]) /\ g.majors[j].minors # <<>>
                          /\ g.majors[j].addr > 0
                          /\ End(g.majors[j]) <= (g.pagesOut + 1) * l_pageSize
    BY <1>1, <1>2, <1>4 DEF MajorsInOrder
  <2>2. \A i, j \in 1 .. n : i < j => End(g.majors[i]) <= g.majors[j].addr
    BY <1>1, <1>2, <1>4, <1>5 DEF MajorsInOrder
  <2>3. QED
    BY <1>2, <2>1, <2>2 DEF MajorsInOrder
<1>7. TotalsAgree(g)
  <2>1. /\ Total(UnitsIn(h)) = Total(UnitsIn(g)) + Total(UnitsOf(b))
        /\ Total(SizesIn(h)) = Total(SizesIn(g)) + Size(b)
    BY <1>1, <1>3, CountsWithOneMore
  <2>2. h.inuse = Total(UnitsIn(h)) /\ h.allocated = Total(SizesIn(h))
    BY <1>1 DEF TotalsAgree, UnitsIn, SizesIn
  <2>3. /\ Total(UnitsIn(g)) \in Nat /\ Total(SizesIn(g)) \in Nat
        /\ Total(UnitsOf(b)) \in Nat /\ Size(b) \in Nat
    <3>1. UnitsIn(g) \in Seq(Nat) /\ SizesIn(g) \in Seq(Nat) /\ b \in Major
      BY <1>1, OfHeap
    <3>2. QED
      BY <3>1, TotalIsNat, OfMajor
  <2>4. g.inuse = Total(UnitsIn(g)) /\ g.allocated = Total(SizesIn(g))
    BY <2>1, <2>2, <2>3
  <2>5. QED
    BY <2>4 DEF TotalsAgree, UnitsIn, SizesIn
<1>8. BetIsKnown(g)
  <2>1. SUFFICES ASSUME g.bestBet # NULL PROVE \E j \in 1 .. n : g.majors[j].addr = g.bestBet
    BY <1>2 DEF BetIsKnown
  <2>2. g.bestBet = h.bestBet /\ h.bestBet # b.addr
    BY <2>1
  <2>3. PICK l \in 1 .. Len(h.majors) : h.majors[l].addr = h.bestBet
    BY <1>1, <1>2, <2>1, <2>2 DEF BetIsKnown
  <2>4. l # k
    BY <2>2, <2>3
  <2>5. CASE l < k
    <3>1. l \in 1 .. n /\ l \in 1 .. Len(h.majors) - 1
      BY <1>2, <1>3, <2>5
    <3>2. g.majors[l] = h.majors[l]
      BY <1>3, <2>5, <3>1
    <3>3. QED
      BY <2>2, <2>3, <3>1, <3>2
  <2>6. CASE l > k
    <3>1. l - 1 \in 1 .. n /\ l - 1 \in 1 .. Len(h.majors) - 1 /\ ~ (l - 1 < k) /\ (l - 1) + 1 = l
      BY <1>2, <1>3, <2>6
    <3>2. g.majors[l - 1] = h.majors[l]
      BY <1>3, <3>1
    <3>3. QED
      BY <2>2, <2>3, <3>1, <3>2
  <2>7. QED
    BY <2>4, <2>5, <2>6
<1>9. QED
  BY <1>6, <1>7, <1>8 DEF HeapInOrderOf

-----------------------------------------------------------------------------
(***************************************************************************)
(* The calls.                                                              *)
(***************************************************************************)
\* A best bet the heap knows, if it is one.
Known(h, bet) ==
    bet \in Nat /\ (bet # NULL => \E k \in 1 .. Len(h.majors) : h.majors[k].addr = bet)

\* The best bet after a search is the one before or one that was looked at.
LEMMA BetAmong ==
    ASSUME NEW h, NEW A, NEW seen, NEW n \in Nat, DOMAIN seen = 1 .. n,
           \A j \in 1 .. n : seen[j].addr \in A
    PROVE  BestBetAfter(h, seen) = h.bestBet \/ BestBetAfter(h, seen) \in A
<1> DEFINE room == IF h.bestBet = NULL THEN 0 ELSE FreeIn(h.majors[IndexOf(h, h.bestBet)])
           better == {j \in DOMAIN seen : FreeIn(seen[j]) > room}
           best == {j \in better : \A i \in better : FreeIn(seen[i]) <= FreeIn(seen[j])}
<1>1. BestBetAfter(h, seen) = IF best = {} THEN h.bestBet ELSE seen[Min(best)].addr
  BY Zenon DEF BestBetAfter
<1>2. best \in SUBSET (1 .. n)
  OBVIOUS
<1> HIDE DEF best
<1>3. best \in SUBSET Nat
  BY <1>2
<1>4. best # {} => Min(best) \in 1 .. n
  BY <1>2, <1>3, MinOfNat
<1>5. QED
  BY <1>1, <1>4

\* The majors that kmalloc looks at are those of the heap.
LEMMA Looked ==
    ASSUME NEW h, HeapInOrderOf(h), NEW r \in Request
    PROVE  SearchOrder(h, r) \in Seq(1 .. Len(h.majors))
<1> DEFINE n == Len(h.majors)
           all == [k \in DOMAIN h.majors |-> k]
           at == IndexOf(h, h.bestBet)
<1>1. h \in Heap /\ BetIsKnown(h) /\ n \in Nat /\ DOMAIN h.majors = 1 .. n
  BY OfHeap DEF HeapInOrderOf
<1>2. all \in Seq(1 .. n) /\ Len(all) = n
  BY <1>1
<1>3. h.bestBet # NULL => at \in 1 .. n
  BY <1>1, Zenon DEF BetIsKnown, IndexOf
<1> HIDE DEF all, at, n
<1>4. h.bestBet # NULL => SubSeq(all, at, Len(all)) \in Seq(1 .. n)
  BY <1>1, <1>2, <1>3
<1>5. h.bestBet # NULL => SubSeq(all, at, Len(all)) \o all \in Seq(1 .. n)
  BY <1>2, <1>4, ConcatProperties, Zenon
<1>6. SearchOrder(h, r) \in {all, SubSeq(all, at, Len(all)) \o all}
      /\ (h.bestBet = NULL => SearchOrder(h, r) = all)
  BY Zenon DEF SearchOrder, all, at
<1>7. QED
  BY <1>2, <1>5, <1>6 DEF n

\* The three ways a call of kmalloc ends: a gap is found, there are new pages, or
\* the call fails.
FoundGap(h, r, k, bet) ==
    /\ k \in 1 .. Len(h.majors) /\ Known(h, bet) /\ Gaps(h.majors[k], r) # {}
    /\ kmalloc(h, r) = [h EXCEPT !.majors[k] = Place(@, r), !.bestBet = bet,
                                 !.inuse = @ + SizeFor(r)]

TookPages(h, r, bet) ==
    /\ Known(h, bet) \/ bet = NewMajor(h, r).addr
    /\ h.pagesOut + NewMajor(h, r).pages <= MaxPages
    /\ kmalloc(h, r) = [h EXCEPT !.majors = Append(@, Place(NewMajor(h, r), r)), !.bestBet = bet,
                                 !.allocated = @ + Size(NewMajor(h, r)),
                                 !.inuse = @ + SizeFor(r),
                                 !.pagesOut = @ + NewMajor(h, r).pages]

Failed(h, r, bet) == Known(h, bet) /\ kmalloc(h, r) = [h EXCEPT !.bestBet = bet]

\* Every call of kmalloc ends in one of them.
LEMMA WaysOfKmalloc ==
    ASSUME NEW h, HeapInOrderOf(h), NEW r \in Request
    PROVE  \/ \E k, bet : FoundGap(h, r, k, bet)
           \/ \E bet : TookPages(h, r, bet)
           \/ \E bet : Failed(h, r, bet)
<1> DEFINE order == SearchOrder(h, r)
           seen == [j \in DOMAIN order |-> h.majors[order[j]]]
           hits == {j \in DOMAIN order : HasRoom(seen[j], r)}
           new == NewMajor(h, r)
           fallsThrough == seen # <<>> /\ FreeIn(Last(seen)) < Need(r)
           n == Len(h.majors)
           Addrs == {h.majors[k].addr : k \in 1 .. n}
<1>1. kmalloc(h, r) =
        IF hits # {} THEN
            [h EXCEPT !.majors[order[Min(hits)]] = Place(@, r),
                      !.bestBet = BestBetAfter(h, SubSeq(seen, 1, Min(hits))),
                      !.inuse = @ + SizeFor(r)]
        ELSE IF h.pagesOut + new.pages <= MaxPages THEN
            [h EXCEPT !.majors = Append(@, Place(new, r)),
                      !.bestBet = BestBetAfter(h, IF fallsThrough THEN seen ELSE Append(seen, new)),
                      !.allocated = @ + Size(new),
                      !.inuse = @ + SizeFor(r),
                      !.pagesOut = @ + new.pages]
        ELSE [h EXCEPT !.bestBet = BestBetAfter(h, seen)]
  BY Zenon DEF kmalloc
<1>2. /\ h \in Heap /\ BetIsKnown(h) /\ n \in Nat /\ DOMAIN h.majors = 1 .. n
      /\ \A k \in 1 .. n : h.majors[k] \in Major
  BY OfHeap DEF HeapInOrderOf
<1>3. order \in Seq(1 .. n)
  BY Looked
<1> HIDE DEF order
<1> DEFINE l == Len(order)
<1>4. l \in Nat /\ DOMAIN order = 1 .. l /\ \A j \in 1 .. l : order[j] \in 1 .. n
  BY <1>3
<1>5. /\ seen \in Seq(Major) /\ Len(seen) = l /\ DOMAIN seen = 1 .. l
      /\ \A j \in 1 .. l : seen[j] = h.majors[order[j]] /\ seen[j].addr \in Addrs
  BY <1>2, <1>4
<1> HIDE DEF seen, l
<1>6. hits \subseteq 1 .. l /\ \A j \in hits : Gaps(seen[j], r) # {}
  BY <1>4 DEF HasRoom
<1> HIDE DEF hits, fallsThrough, new
<1>7. \A bet : bet = h.bestBet \/ bet \in Addrs => Known(h, bet)
  <2>1. SUFFICES ASSUME NEW bet, bet = h.bestBet \/ bet \in Addrs PROVE Known(h, bet)
    OBVIOUS
  <2>2. CASE bet = h.bestBet
    BY <1>2, <2>2, OfHeap DEF Known, BetIsKnown
  <2>3. CASE bet \in Addrs
    BY <1>2, <2>3, OfMajor DEF Known
  <2>4. QED
    BY <2>1, <2>2, <2>3
<1>8. CASE hits # {}
  <2> DEFINE j == Min(hits)
             part == SubSeq(seen, 1, j)
             bet == BestBetAfter(h, part)
  <2>1. hits \in SUBSET Nat
    BY <1>6
  <2>2. j \in hits
    BY <1>8, <2>1, MinOfNat
  <2> HIDE DEF j
  <2>3. j \in 1 .. l /\ j \in Nat /\ Gaps(h.majors[order[j]], r) # {} /\ order[j] \in 1 .. n
    <3>1. j \in 1 .. l /\ Gaps(seen[j], r) # {}
      BY <1>6, <2>2
    <3>2. seen[j] = h.majors[order[j]] /\ order[j] \in 1 .. n /\ j \in Nat
      BY <1>4, <1>5, <3>1
    <3>3. QED
      BY <3>1, <3>2
  <2>4. /\ DOMAIN part = 1 .. j /\ \A i \in 1 .. j : part[i] = seen[i]
    BY <1>4, <1>5, <2>3
  <2>5. \A i \in 1 .. j : part[i].addr \in Addrs
    BY <1>4, <1>5, <2>3, <2>4
  <2> HIDE DEF part, Addrs
  <2>6. bet = h.bestBet \/ bet \in Addrs
    BY <2>3, <2>4, <2>5, BetAmong
  <2>7. Known(h, bet)
    BY <1>7, <2>6
  <2>8. kmalloc(h, r) = [h EXCEPT !.majors[order[j]] = Place(@, r), !.bestBet = bet,
                                  !.inuse = @ + SizeFor(r)]
    BY <1>1, <1>8, Zenon DEF j, part
  <2> HIDE DEF bet, n
  <2>9. FoundGap(h, r, order[j], bet)
    BY <2>3, <2>7, <2>8, Zenon DEF FoundGap, n
  <2>10. QED
    BY <2>9, Zenon
<1>9. CASE hits = {} /\ h.pagesOut + new.pages <= MaxPages
  <2> DEFINE looked == IF fallsThrough THEN seen ELSE Append(seen, new)
             bet == BestBetAfter(h, looked)
             A == Addrs \cup {new.addr}
  <2>1. \E m \in Nat : DOMAIN looked = 1 .. m /\ \A i \in 1 .. m : looked[i].addr \in A
    <3>1. CASE fallsThrough
      BY <1>4, <1>5, <3>1
    <3>2. CASE ~ fallsThrough
      <4>1. /\ DOMAIN Append(seen, new) = 1 .. l + 1 /\ Append(seen, new)[l + 1] = new
            /\ \A i \in 1 .. l : Append(seen, new)[i] = seen[i]
        BY <1>4, <1>5
      <4>2. \A i \in 1 .. l + 1 : Append(seen, new)[i].addr \in A
        BY <1>4, <1>5, <4>1
      <4>3. QED
        BY <1>4, <3>2, <4>1, <4>2
    <3>3. QED
      BY <3>1, <3>2
  <2> HIDE DEF looked, A
  <2>2. bet = h.bestBet \/ bet \in A
    BY <2>1, BetAmong
  <2>3. Known(h, bet) \/ bet = new.addr
    BY <1>7, <2>2 DEF A
  <2>4. kmalloc(h, r) = [h EXCEPT !.majors = Append(@, Place(new, r)), !.bestBet = bet,
                                  !.allocated = @ + Size(new), !.inuse = @ + SizeFor(r),
                                  !.pagesOut = @ + new.pages]
    BY <1>1, <1>9, Zenon DEF looked
  <2> HIDE DEF bet
  <2>5. TookPages(h, r, bet)
    BY <1>9, <2>3, <2>4, Zenon DEF TookPages, new
  <2>6. QED
    BY <2>5, Zenon
<1>10. CASE hits = {} /\ ~ (h.pagesOut + new.pages <= MaxPages)
  <2> DEFINE bet == BestBetAfter(h, seen)
  <2>1. bet = h.bestBet \/ bet \in Addrs
    BY <1>4, <1>5, BetAmong
  <2>2. kmalloc(h, r) = [h EXCEPT !.bestBet = bet]
    BY <1>1, <1>10, Zenon
  <2> HIDE DEF bet
  <2>3. Failed(h, r, bet)
    BY <1>7, <2>1, <2>2 DEF Failed
  <2>4. QED
    BY <2>3, Zenon
<1>11. QED
  BY <1>8, <1>9, <1>10

\* No minor is in two majors.
LEMMA OneMajorEach ==
    ASSUME NEW h \in Heap, MajorsInOrder(h), NEW k \in 1 .. Len(h.majors), NEW l \in 1 .. Len(h.majors),
           k # l, NEW x \in ToSet(h.majors[k].minors)
    PROVE  x \notin ToSet(h.majors[l].minors)
<1>1. SUFFICES ASSUME x \in ToSet(h.majors[l].minors) PROVE FALSE
  OBVIOUS
<1>2. Clear(x, x)
  BY <1>1, MinorsOfMajors
<1>3. x \in Minors(h)
  BY MinorsOfHeap
<1>4. x.addr \in Nat /\ x.size \in Nat /\ MINOR \in Nat /\ MINOR > 0
  BY <1>3, MinorsOfHeap, Units
<1>5. QED
  BY <1>2, <1>4 DEF Clear

\* What the heap holds after a change in major k.
LEMMA MinorsWhenChanged ==
    ASSUME NEW h \in Heap, NEW g \in Heap, NEW k, Changed(h, g, k)
    PROVE  \A x : x \in Minors(g) <=> \/ x \in ToSet(g.majors[k].minors)
                                      \/ \E l \in 1 .. Len(h.majors) :
                                            l # k /\ x \in ToSet(h.majors[l].minors)
<1>1. /\ k \in 1 .. Len(h.majors) /\ Len(g.majors) = Len(h.majors)
      /\ \A j \in 1 .. Len(h.majors) : j # k => g.majors[j] = h.majors[j]
  BY DEF Changed
<1>2. DOMAIN g.majors = 1 .. Len(h.majors)
  BY <1>1, OfHeap
<1>3. QED
  BY <1>1, <1>2 DEF Minors

\* One term is at most the total.
LEMMA TermBelowTotal ==
    ASSUME NEW x \in Seq(Nat), NEW p \in 1 .. Len(x)
    PROVE  x[p] \in Nat /\ x[p] <= Total(x)
<1>1. RemoveAt(x, p) \in Seq(Nat) /\ Adds(RemoveAt(x, p), x, p)
  BY RemoveAdds
<1>2. Total(x) = Total(RemoveAt(x, p)) + x[p]
  BY <1>1, TotalWithOneMore
<1>3. Total(RemoveAt(x, p)) \in Nat
  BY <1>1, TotalIsNat
<1>4. x[p] \in Nat
  OBVIOUS
<1>5. QED
  BY <1>2, <1>3, <1>4

\* kmalloc, when it finds a gap.
LEMMA GapIsUsed ==
    ASSUME NEW h, HeapInOrderOf(h), NEW r \in Request, NEW k, NEW bet, FoundGap(h, r, k, bet)
    PROVE  /\ HeapInOrderOf(kmalloc(h, r))
           /\ \E m \in Minor : /\ m.req_size = r /\ m \notin Minors(h)
                               /\ Minors(kmalloc(h, r)) = Minors(h) \cup {m}
<1> DEFINE a == h.majors[k]
           b == Place(a, r)
           g == kmalloc(h, r)
<1>1. /\ h \in Heap /\ MajorsInOrder(h) /\ h.majors \in Seq(Major) /\ Len(h.majors) \in Nat
      /\ DOMAIN h.majors = 1 .. Len(h.majors)
      /\ h = [majors |-> h.majors, bestBet |-> h.bestBet, allocated |-> h.allocated,
              inuse |-> h.inuse, pagesOut |-> h.pagesOut]
      /\ h.allocated \in Nat /\ h.inuse \in Nat /\ h.pagesOut \in 0 .. MaxPages
  BY OfHeap DEF HeapInOrderOf
<1>2. k \in 1 .. Len(h.majors) /\ Known(h, bet) /\ Gaps(a, r) # {} /\ bet \in Nat
  BY DEF FoundGap, Known
<1>3. a \in Major /\ MajorInOrder(a)
  BY <1>1, <1>2 DEF MajorsInOrder
<1>4. PICK i \in 0 .. Len(a.minors) : LET m == PlacedBy(a, r, i)
                                      IN  /\ b \in Major /\ MajorInOrder(b)
                                          /\ OneMore(a, b, i + 1, m) /\ m \in Minor
  BY <1>2, <1>3, Placing
<1> DEFINE m == PlacedBy(a, r, i)
<1>5. b \in Major /\ MajorInOrder(b) /\ OneMore(a, b, i + 1, m) /\ m \in Minor
  BY <1>4
<1>6. m.size = SizeFor(r) /\ m.req_size = r /\ SizeFor(r) \in Nat
  BY Units DEF PlacedBy
<1>7. g = [h EXCEPT !.majors[k] = Place(@, r), !.bestBet = bet, !.inuse = @ + SizeFor(r)]
  BY DEF FoundGap
<1> DEFINE majors == [h.majors EXCEPT ![k] = b]
<1>8. g = [majors |-> majors, bestBet |-> bet, allocated |-> h.allocated,
           inuse |-> h.inuse + SizeFor(r), pagesOut |-> h.pagesOut]
  BY <1>1, <1>2, <1>7
<1> HIDE DEF m, b, g
<1>9. /\ majors \in Seq(Major) /\ Len(majors) = Len(h.majors) /\ majors[k] = b
      /\ \A j \in 1 .. Len(h.majors) : j # k => majors[j] = h.majors[j]
  BY <1>1, <1>2, <1>5
<1> HIDE DEF majors
<1>10. g \in Heap
  <2>1. h.inuse + SizeFor(r) \in Nat
    BY <1>1, <1>6
  <2>2. [majors |-> majors, bestBet |-> bet, allocated |-> h.allocated,
         inuse |-> h.inuse + SizeFor(r), pagesOut |-> h.pagesOut] \in Heap
    BY <1>1, <1>2, <1>9, <2>1 DEF Heap
  <2>3. QED
    BY <1>8, <2>2
<1>11. Total(UnitsOf(b)) = Total(UnitsOf(a)) + SizeFor(r) /\ Total(UnitsOf(a)) \in Nat
  <2>1. Total(UnitsOf(b)) = Total(UnitsOf(a)) + m.size
    BY <1>3, <1>5, CountWithOneMore
  <2>2. Total(UnitsOf(a)) \in Nat
    BY <1>3, OfMajor
  <2>3. QED
    BY <1>6, <2>1, <2>2
<1>12. b.addr = a.addr /\ b.pages = a.pages /\ b.minors # <<>>
  <2>1. Len(b.minors) = Len(a.minors) + 1 /\ Len(a.minors) \in Nat
    BY <1>3, <1>5, MinorsWithOneMore, OfMajor
  <2>2. b.minors # <<>>
    BY <2>1
  <2>3. QED
    BY <1>5, <2>2 DEF OneMore
<1>13. g.majors = majors /\ g.bestBet = bet /\ g.allocated = h.allocated
       /\ g.inuse = h.inuse + SizeFor(r) /\ g.pagesOut = h.pagesOut
  BY <1>8
<1>14. Changed(h, g, k)
  <2>1. g.inuse + Total(UnitsOf(a)) = h.inuse + Total(UnitsOf(b))
    BY <1>1, <1>6, <1>11, <1>13
  <2>2. QED
    BY <1>2, <1>9, <1>12, <1>13, <2>1 DEF Changed
<1>15. HeapInOrderOf(g)
  <2>1. MajorInOrder(g.majors[k]) /\ g.majors[k].minors # <<>>
    BY <1>5, <1>9, <1>12, <1>13
  <2>2. g.bestBet # NULL => \E j \in 1 .. Len(h.majors) : h.majors[j].addr = g.bestBet
    BY <1>2, <1>13 DEF Known
  <2>3. QED
    BY <1>10, <1>14, <2>1, <2>2, MajorChanged
<1>16. ToSet(b.minors) = ToSet(a.minors) \cup {m}
  BY <1>3, <1>5, NewMinor
<1>17. m \notin ToSet(a.minors)
  BY <1>3, <1>5, NewMinor
<1>18. \A x : x \in Minors(g) <=> \/ x \in ToSet(b.minors)
                                  \/ \E l \in 1 .. Len(h.majors) :
                                        l # k /\ x \in ToSet(h.majors[l].minors)
  <2>1. \A x : x \in Minors(g) <=> \/ x \in ToSet(g.majors[k].minors)
                                    \/ \E l \in 1 .. Len(h.majors) :
                                          l # k /\ x \in ToSet(h.majors[l].minors)
    BY <1>1, <1>10, <1>14, MinorsWhenChanged, Zenon
  <2>2. g.majors[k] = b
    BY <1>9, <1>13
  <2>3. QED
    BY <2>1, <2>2, Zenon
<1>19. \A x : x \in Minors(h) <=> \E l \in 1 .. Len(h.majors) : x \in ToSet(h.majors[l].minors)
  BY <1>1 DEF Minors
<1>20. Minors(g) = Minors(h) \cup {m}
  BY <1>2, <1>16, <1>18, <1>19
<1>21. m \notin Minors(h)
  <2>1. SUFFICES ASSUME NEW l \in 1 .. Len(h.majors), l # k, m \in ToSet(h.majors[l].minors) PROVE FALSE
    BY <1>17, <1>19
  <2>2. m \in ToSet(g.majors[k].minors) /\ m \in ToSet(g.majors[l].minors)
    BY <1>9, <1>13, <1>16, <2>1
  <2>3. MajorsInOrder(g) /\ Len(g.majors) = Len(h.majors)
    BY <1>9, <1>13, <1>15 DEF HeapInOrderOf
  <2>4. QED
    BY <1>2, <1>10, <2>1, <2>2, <2>3, OneMajorEach
<1>22. QED
  BY <1>5, <1>6, <1>15, <1>20, <1>21 DEF g

\* The pages of a new major are enough.
LEMMA NewPages ==
    ASSUME NEW h \in Heap, NEW r \in Request, h.pagesOut + NewMajor(h, r).pages <= MaxPages
    PROVE  LET new == NewMajor(h, r)
           IN  /\ new \in Major /\ MajorInOrder(new) /\ Gaps(new, r) # {}
               /\ new.addr = (h.pagesOut + 1) * l_pageSize /\ Total(UnitsOf(new)) = 0
<1> DEFINE new == NewMajor(h, r)
           st == SizeFor(r) + MAJOR + MINOR
           q == st \div l_pageSize
           rest == st % l_pageSize
           pages == PagesFor(r)
<1>1. /\ SizeFor(r) \in Nat /\ MAJOR \in Nat /\ MAJOR > 0 /\ MINOR \in Nat
      /\ l_pageSize \in Nat /\ l_pageSize > 0 /\ MaxPages \in Nat
      /\ Need(r) = SizeFor(r) + MINOR /\ h.pagesOut \in Nat
  BY Units, OfHeap
<1>2. st \in Nat /\ st > 0
  BY <1>1
<1>3. /\ new.addr = (h.pagesOut + 1) * l_pageSize /\ new.pages = pages /\ new.usage = MAJOR
      /\ new.minors = <<>>
      /\ new = [addr |-> (h.pagesOut + 1) * l_pageSize, pages |-> pages, usage |-> MAJOR,
                minors |-> <<>>]
  BY DEF NewMajor
<1>4. pages = IF rest = 0 THEN q ELSE q + 1
  BY DEF PagesFor
<1> HIDE DEF st, new, pages
<1>5. /\ q \in Nat /\ rest \in Nat /\ rest < l_pageSize /\ st = l_pageSize * q + rest
  <2>1. l_pageSize \in Nat \ {0}
    BY PageAssumption
  <2>2. rest \in 0 .. l_pageSize - 1 /\ q \in Nat /\ st = l_pageSize * q + rest
    BY <1>2, <2>1, Division, Zenon
  <2>3. QED
    BY <1>1, <2>2
<1> HIDE DEF q, rest
<1>6. pages \in Nat /\ pages >= 1 /\ pages * l_pageSize >= st
  <2>1. CASE rest = 0
    <3>1. q # 0
      BY <1>1, <1>2, <1>5, <2>1
    <3>2. pages = q /\ pages * l_pageSize = st
      BY <1>1, <1>4, <1>5, <2>1
    <3>3. QED
      BY <1>2, <1>5, <3>1, <3>2
  <2>2. CASE rest # 0
    <3>1. pages = q + 1 /\ (q + 1) * l_pageSize = l_pageSize * q + l_pageSize /\ l_pageSize * q \in Nat
      BY <1>1, <1>4, <1>5, <2>2
    <3> DEFINE c == l_pageSize * q
    <3>2. c \in Nat /\ st = c + rest /\ pages * l_pageSize = c + l_pageSize
      BY <1>5, <3>1
    <3> HIDE DEF c
    <3>3. c + l_pageSize >= st
      BY <1>1, <1>5, <3>2
    <3>4. QED
      BY <1>5, <3>1, <3>2, <3>3
  <2>3. QED
    BY <2>1, <2>2
<1>7. pages \in 1 .. MaxPages
  BY <1>1, <1>3, <1>6 DEF new
<1>8. (h.pagesOut + 1) * l_pageSize \in Nat
  BY <1>1
<1>9. new \in Major
  <2>1. <<>> \in Seq(Minor)
    BY EmptySeq
  <2>2. [addr |-> (h.pagesOut + 1) * l_pageSize, pages |-> pages, usage |-> MAJOR,
         minors |-> <<>>] \in Major
    BY <1>1, <1>7, <1>8, <2>1 DEF Major
  <2>3. QED
    BY <1>3, <2>2
<1>10. Len(new.minors) = 0 /\ DOMAIN new.minors = {}
  BY <1>3
<1>11. UnitsOf(new) = <<>> /\ Total(UnitsOf(new)) = 0
  <2>1. UnitsOf(new) \in Seq(Nat) /\ Len(UnitsOf(new)) = 0
    BY <1>9, <1>10, OfMajor
  <2>2. UnitsOf(new) = <<>>
    BY <2>1
  <2>3. QED
    BY <2>2, TotalOfNone
<1>12. /\ GapStart(new, 0) = new.addr + MAJOR /\ GapEnd(new, 0) = new.addr + Size(new)
       /\ Size(new) = pages * l_pageSize /\ new.addr \in Nat /\ Size(new) \in Nat
  <2>1. 0 \in 0 .. Len(new.minors)
    BY <1>10
  <2>2. GapStart(new, 0) = new.addr + MAJOR /\ GapEnd(new, 0) = new.addr + Size(new)
    BY <1>9, <1>10, <2>1, OfGap
  <2>3. new.addr \in Nat /\ Size(new) \in Nat
    BY <1>9, OfMajor
  <2>4. QED
    BY <1>3, <2>2, <2>3 DEF Size
<1>13. Size(new) >= SizeFor(r) + MAJOR + MINOR
  BY <1>6, <1>12 DEF st
<1>14. /\ GapStart(new, 0) <= GapEnd(new, 0)
       /\ GapEnd(new, 0) - GapStart(new, 0) >= Need(r)
  BY <1>1, <1>12, <1>13
<1>15. Gaps(new, r) # {}
  BY <1>10, <1>14 DEF Gaps
<1>16. MajorInOrder(new)
  <2>1. new.usage = MAJOR + Total(UnitsOf(new)) + Len(new.minors) * MINOR
    BY <1>1, <1>3, <1>10, <1>11
  <2>2. \A i \in 0 .. Len(new.minors) : GapStart(new, i) <= GapEnd(new, i)
    BY <1>10, <1>14
  <2>3. QED
    BY <1>10, <2>1, <2>2 DEF MajorInOrder
<1>17. QED
  BY <1>3, <1>9, <1>11, <1>15, <1>16 DEF new

\* kmalloc, when it takes new pages.
LEMMA PagesAreUsed ==
    ASSUME NEW h, HeapInOrderOf(h), NEW r \in Request, NEW bet, TookPages(h, r, bet)
    PROVE  /\ HeapInOrderOf(kmalloc(h, r))
           /\ \E m \in Minor : /\ m.req_size = r /\ m \notin Minors(h)
                               /\ Minors(kmalloc(h, r)) = Minors(h) \cup {m}
<1> DEFINE a == NewMajor(h, r)
           b == Place(a, r)
           g == kmalloc(h, r)
           n == Len(h.majors)
<1>1. /\ h \in Heap /\ MajorsInOrder(h) /\ h.majors \in Seq(Major) /\ n \in Nat
      /\ DOMAIN h.majors = 1 .. n
      /\ h = [majors |-> h.majors, bestBet |-> h.bestBet, allocated |-> h.allocated,
              inuse |-> h.inuse, pagesOut |-> h.pagesOut]
      /\ h.allocated \in Nat /\ h.inuse \in Nat /\ h.pagesOut \in Nat
  BY OfHeap DEF HeapInOrderOf
<1>2. /\ Known(h, bet) \/ bet = a.addr
      /\ h.pagesOut + a.pages <= MaxPages
      /\ g = [h EXCEPT !.majors = Append(@, b), !.bestBet = bet, !.allocated = @ + Size(a),
                       !.inuse = @ + SizeFor(r), !.pagesOut = @ + a.pages]
  BY Zenon DEF TookPages
<1>3. /\ a \in Major /\ MajorInOrder(a) /\ Gaps(a, r) # {}
      /\ a.addr = (h.pagesOut + 1) * l_pageSize /\ Total(UnitsOf(a)) = 0
  BY <1>1, <1>2, NewPages
<1> HIDE DEF a, g
<1>4. PICK i \in 0 .. Len(a.minors) : LET m == PlacedBy(a, r, i)
                                      IN  /\ b \in Major /\ MajorInOrder(b)
                                          /\ OneMore(a, b, i + 1, m) /\ m \in Minor
  BY <1>3, Placing
<1> DEFINE m == PlacedBy(a, r, i)
<1>5. b \in Major /\ MajorInOrder(b) /\ OneMore(a, b, i + 1, m) /\ m \in Minor
  BY <1>4
<1>6. m.size = SizeFor(r) /\ m.req_size = r /\ SizeFor(r) \in Nat
  BY Units DEF PlacedBy
<1> HIDE DEF m, b
<1>7. g = [majors |-> Append(h.majors, b), bestBet |-> bet, allocated |-> h.allocated + Size(a),
           inuse |-> h.inuse + SizeFor(r), pagesOut |-> h.pagesOut + a.pages]
  BY <1>1, <1>2
<1>8. b.addr = a.addr /\ b.pages = a.pages /\ Size(b) = Size(a) /\ Size(a) \in Nat /\ a.pages \in Nat
  BY <1>3, <1>5, OfMajor DEF OneMore, Size
<1>9. b.minors # <<>>
  <2>1. Len(b.minors) = Len(a.minors) + 1 /\ Len(a.minors) \in Nat
    BY <1>3, <1>5, MinorsWithOneMore, OfMajor
  <2>2. QED
    BY <2>1
<1>10. Total(UnitsOf(b)) = SizeFor(r)
  <2>1. Total(UnitsOf(b)) = Total(UnitsOf(a)) + m.size
    BY <1>3, <1>5, CountWithOneMore
  <2>2. QED
    BY <1>3, <1>6, <2>1
<1>11. /\ Append(h.majors, b) \in Seq(Major) /\ Len(Append(h.majors, b)) = n + 1
       /\ Append(h.majors, b)[n + 1] = b
       /\ \A k \in 1 .. n : Append(h.majors, b)[k] = h.majors[k]
  BY <1>1, <1>5
<1>12. bet \in Nat
  BY <1>2, <1>3, OfMajor DEF Known
<1>13. g \in Heap
  <2>1. /\ h.inuse + SizeFor(r) \in Nat /\ h.allocated + Size(a) \in Nat
        /\ h.pagesOut + a.pages \in 0 .. MaxPages
    <3>1. h.inuse + SizeFor(r) \in Nat /\ h.allocated + Size(a) \in Nat
      BY <1>1, <1>6, <1>8
    <3>2. h.pagesOut \in Nat /\ a.pages \in Nat /\ h.pagesOut + a.pages <= MaxPages /\ MaxPages \in Nat
      BY <1>1, <1>2, <1>8, Units
    <3>3. h.pagesOut + a.pages \in 0 .. MaxPages
      BY <3>2
    <3>4. QED
      BY <3>1, <3>3
  <2>2. [majors |-> Append(h.majors, b), bestBet |-> bet, allocated |-> h.allocated + Size(a),
         inuse |-> h.inuse + SizeFor(r), pagesOut |-> h.pagesOut + a.pages] \in Heap
    BY <1>11, <1>12, <2>1 DEF Heap
  <2>3. QED
    BY <1>7, <2>2
<1>14. /\ g.majors = Append(h.majors, b) /\ g.bestBet = bet /\ g.allocated = h.allocated + Size(b)
       /\ g.inuse = h.inuse + Total(UnitsOf(b)) /\ g.pagesOut = h.pagesOut + b.pages
  BY <1>7, <1>8, <1>10
<1>15. Len(g.majors) = n + 1 /\ DOMAIN g.majors = 1 .. n + 1
  BY <1>11, <1>13, <1>14, OfHeap
<1>16. BetIsKnown(g)
  <2>1. SUFFICES ASSUME bet # NULL PROVE \E k \in 1 .. n + 1 : g.majors[k].addr = bet
    BY <1>14, <1>15 DEF BetIsKnown
  <2>2. CASE Known(h, bet)
    <3>1. PICK k \in 1 .. n : h.majors[k].addr = bet
      BY <2>1, <2>2 DEF Known
    <3>2. k \in 1 .. n + 1 /\ g.majors[k] = h.majors[k]
      BY <1>1, <1>11, <1>14
    <3>3. QED
      BY <3>1, <3>2
  <2>3. CASE bet = a.addr
    <3>1. n + 1 \in 1 .. n + 1 /\ g.majors[n + 1].addr = bet
      BY <1>1, <1>8, <1>11, <1>14, <2>3
    <3>2. QED
      BY <3>1
  <2>4. QED
    BY <1>2, <2>2, <2>3
<1>17. HeapInOrderOf(g)
  <2>1. b.addr = (h.pagesOut + 1) * l_pageSize
    BY <1>3, <1>8
  <2>2. QED
    BY <1>5, <1>9, <1>13, <1>14, <1>16, <2>1, MajorAdded
<1>18. ToSet(b.minors) = {m}
  <2>1. ToSet(b.minors) = ToSet(a.minors) \cup {m}
    BY <1>3, <1>5, NewMinor
  <2>2. a.minors = <<>>
    BY DEF a, NewMajor
  <2>3. ToSet(a.minors) = {}
    BY <2>2 DEF ToSet
  <2>4. QED
    BY <2>1, <2>3
<1>19. Minors(g) = Minors(h) \cup {m}
  <2>1. \A x : x \in Minors(g) <=> \E l \in 1 .. n + 1 : x \in ToSet(g.majors[l].minors)
    BY <1>15 DEF Minors
  <2>2. \A x : x \in Minors(h) <=> \E l \in 1 .. n : x \in ToSet(h.majors[l].minors)
    BY <1>1 DEF Minors
  <2>3. g.majors[n + 1] = b /\ \A l \in 1 .. n : g.majors[l] = h.majors[l]
    BY <1>11, <1>14
  <2>4. \A l \in 1 .. n + 1 : l \in 1 .. n \/ l = n + 1
    BY <1>1
  <2>5. n + 1 \in 1 .. n + 1 /\ \A l \in 1 .. n : l \in 1 .. n + 1
    BY <1>1
  <2>6. ASSUME NEW x \in Minors(g) PROVE x \in Minors(h) \cup {m}
    BY <1>18, <2>1, <2>2, <2>3, <2>4, <2>6
  <2>7. ASSUME NEW x \in Minors(h) \cup {m} PROVE x \in Minors(g)
    BY <1>18, <2>1, <2>2, <2>3, <2>5, <2>7
  <2>8. QED
    BY <2>6, <2>7
<1>20. m \notin Minors(h)
  <2>1. SUFFICES ASSUME NEW l \in 1 .. n, m \in ToSet(h.majors[l].minors) PROVE FALSE
    BY <1>1 DEF Minors
  <2>2. l \in 1 .. n + 1 /\ n + 1 \in 1 .. n + 1 /\ l # n + 1
    BY <1>1
  <2>3. m \in ToSet(g.majors[l].minors) /\ m \in ToSet(g.majors[n + 1].minors)
    BY <1>11, <1>14, <1>18, <2>1
  <2>4. MajorsInOrder(g)
    BY <1>17 DEF HeapInOrderOf
  <2>5. QED
    BY <1>13, <1>15, <2>2, <2>3, <2>4, OneMajorEach
<1>21. QED
  BY <1>5, <1>6, <1>17, <1>19, <1>20 DEF g

\* What a call of kmalloc does: it hands out a minor of the size asked for that
\* was not there, or nothing.
LEMMA CallOfKmalloc ==
    ASSUME NEW h, HeapInOrderOf(h), NEW r \in Request
    PROVE  /\ HeapInOrderOf(kmalloc(h, r))
           /\ \/ kmalloc(h, r).inuse = h.inuse /\ Minors(kmalloc(h, r)) = Minors(h)
              \/ \E m \in Minor : /\ m.req_size = r /\ m \notin Minors(h)
                                  /\ Minors(kmalloc(h, r)) = Minors(h) \cup {m}
<1>1. CASE \E k, bet : FoundGap(h, r, k, bet)
  BY <1>1, GapIsUsed
<1>2. CASE \E bet : TookPages(h, r, bet)
  BY <1>2, PagesAreUsed
<1>3. CASE \E bet : Failed(h, r, bet)
  <2> DEFINE g == kmalloc(h, r)
  <2>1. PICK bet : Known(h, bet) /\ g = [h EXCEPT !.bestBet = bet]
    BY <1>3 DEF Failed
  <2>2. /\ h \in Heap /\ MajorsInOrder(h) /\ TotalsAgree(h) /\ DOMAIN h.majors = 1 .. Len(h.majors)
    BY OfHeap DEF HeapInOrderOf
  <2> HIDE DEF g
  <2>3. /\ g \in Heap /\ g.majors = h.majors /\ g.bestBet = bet /\ g.allocated = h.allocated
        /\ g.inuse = h.inuse /\ g.pagesOut = h.pagesOut
    BY <2>1, <2>2 DEF Heap, Known
  <2>4. MajorsInOrder(g) /\ TotalsAgree(g) /\ BetIsKnown(g)
    BY <2>1, <2>2, <2>3 DEF MajorsInOrder, TotalsAgree, BetIsKnown, Known
  <2>5. HeapInOrderOf(g) /\ g.inuse = h.inuse /\ Minors(g) = Minors(h)
    BY <2>3, <2>4 DEF HeapInOrderOf, Minors
  <2>6. QED
    BY <2>5 DEF g
<1>4. QED
  BY <1>1, <1>2, <1>3, WaysOfKmalloc

\* A heap with other majors and another count.
LEMMA WithMajors ==
    ASSUME NEW x, NEW majors, NEW inuse,
           x = [majors |-> x.majors, bestBet |-> x.bestBet, allocated |-> x.allocated,
                inuse |-> x.inuse, pagesOut |-> x.pagesOut]
    PROVE  [x EXCEPT !.majors = majors, !.inuse = inuse] =
             [majors |-> majors, bestBet |-> x.bestBet, allocated |-> x.allocated, inuse |-> inuse,
              pagesOut |-> x.pagesOut]
<1> DEFINE y == [x EXCEPT !.majors = majors]
<1>1. y = [majors |-> majors, bestBet |-> x.bestBet, allocated |-> x.allocated,
           inuse |-> x.inuse, pagesOut |-> x.pagesOut]
  OBVIOUS
<1>2. [x EXCEPT !.majors = majors, !.inuse = inuse] = [y EXCEPT !.inuse = inuse]
  OBVIOUS
<1> HIDE DEF y
<1>3. QED
  BY <1>1, <1>2

\* The heap without minor i of major k, and with another size for it.
LEMMA UnlinkIs ==
    ASSUME NEW h \in Heap, NEW k \in 1 .. Len(h.majors), NEW i \in 1 .. Len(h.majors[k].minors)
    PROVE  Unlink(h, k, i) =
             [majors |-> [h.majors EXCEPT ![k] = Without(h.majors[k], i)], bestBet |-> h.bestBet,
              allocated |-> h.allocated, inuse |-> h.inuse - h.majors[k].minors[i].size,
              pagesOut |-> h.pagesOut]
<1>1. /\ h = [majors |-> h.majors, bestBet |-> h.bestBet, allocated |-> h.allocated,
              inuse |-> h.inuse, pagesOut |-> h.pagesOut]
      /\ DOMAIN h.majors = 1 .. Len(h.majors) /\ h.majors \in Seq(Major)
  BY OfHeap
<1> DEFINE b == Without(h.majors[k], i)
           majors == [h.majors EXCEPT ![k] = b]
           inuse == h.inuse - h.majors[k].minors[i].size
<1>2. Unlink(h, k, i) = [h EXCEPT !.majors = majors, !.inuse = inuse]
  BY DEF Unlink
<1> HIDE DEF majors, inuse
<1>3. [h EXCEPT !.majors = majors, !.inuse = inuse] =
        [majors |-> majors, bestBet |-> h.bestBet, allocated |-> h.allocated, inuse |-> inuse,
         pagesOut |-> h.pagesOut]
  <2>1. h = [majors |-> h.majors, bestBet |-> h.bestBet, allocated |-> h.allocated,
             inuse |-> h.inuse, pagesOut |-> h.pagesOut]
    BY <1>1
  <2>2. QED
    BY <2>1, WithMajors
<1>4. QED
  BY <1>2, <1>3, Zenon DEF majors, inuse

\* What the heap h is without minor i of major k, before the rest of kfree.
Freed(h, g, k, i) ==
    /\ g \in Heap /\ Changed(h, g, k) /\ g.bestBet = h.bestBet
    /\ g.majors = [h.majors EXCEPT ![k] = Without(h.majors[k], i)]
    /\ g.majors[k] = Without(h.majors[k], i)
    /\ g.inuse = h.inuse - h.majors[k].minors[i].size
    /\ g.majors[k] \in Major /\ MajorInOrder(g.majors[k])
    /\ OneMore(g.majors[k], h.majors[k], i, h.majors[k].minors[i])
    /\ \A x : (\/ x \in ToSet(g.majors[k].minors)
               \/ \E l \in 1 .. Len(h.majors) : l # k /\ x \in ToSet(h.majors[l].minors))
              <=> x \in Minors(h) /\ x # h.majors[k].minors[i]

\* Taking the minor out of the lists leaves the heap in order up to an empty major.
LEMMA UnlinkFrees ==
    ASSUME NEW h, HeapInOrderOf(h), NEW k \in 1 .. Len(h.majors), NEW i \in 1 .. Len(h.majors[k].minors)
    PROVE  Freed(h, Unlink(h, k, i), k, i)
<1> DEFINE b == h.majors[k]
           a == Without(b, i)
           m == b.minors[i]
           g == Unlink(h, k, i)
           majors == [h.majors EXCEPT ![k] = a]
           n == Len(h.majors)
<1>1. /\ h \in Heap /\ MajorsInOrder(h) /\ h.majors \in Seq(Major) /\ n \in Nat
      /\ DOMAIN h.majors = 1 .. n /\ h.allocated \in Nat /\ h.inuse \in Nat /\ h.bestBet \in Nat
      /\ h.pagesOut \in 0 .. MaxPages /\ b \in Major
      /\ h.inuse = Total(UnitsIn(h)) /\ UnitsIn(h) \in Seq(Nat) /\ Len(UnitsIn(h)) = n
      /\ UnitsIn(h)[k] = Total(UnitsOf(b))
  BY OfHeap DEF HeapInOrderOf, TotalsAgree, UnitsIn
<1>2. MajorInOrder(b)
  BY <1>1 DEF MajorsInOrder
<1>3. a \in Major /\ MajorInOrder(a) /\ OneMore(a, b, i, m)
  BY <1>1, <1>2, Unlinking
<1>4. g = [majors |-> majors, bestBet |-> h.bestBet, allocated |-> h.allocated,
           inuse |-> h.inuse - m.size, pagesOut |-> h.pagesOut]
  BY <1>1, UnlinkIs
<1>5. /\ m.size \in Nat /\ Total(UnitsOf(b)) \in Nat /\ Total(UnitsOf(a)) \in Nat
      /\ Total(UnitsOf(b)) = Total(UnitsOf(a)) + m.size
  <2>1. m.size \in Nat /\ Total(UnitsOf(b)) \in Nat
    BY <1>1, OfMajor
  <2>2. Total(UnitsOf(a)) \in Nat
    BY <1>3, OfMajor, Zenon
  <2>3. b \in Major
    BY <1>1
  <2> HIDE DEF a, b, m
  <2>4. Total(UnitsOf(b)) = Total(UnitsOf(a)) + m.size
    BY <1>3, <2>3, CountWithOneMore
  <2>5. QED
    BY <2>1, <2>2, <2>4
<1>6. Total(UnitsOf(b)) <= h.inuse
  BY <1>1, TermBelowTotal
<1>7. h.inuse - m.size \in Nat
  <2>1. \A s, t, u, v \in Nat : t = u + s /\ t <= v => v - s \in Nat
    OBVIOUS
  <2>2. QED
    BY <1>1, <1>5, <1>6, <2>1, Zenon
<1> HIDE DEF a, g, m
<1>8. /\ majors \in Seq(Major) /\ Len(majors) = n /\ majors[k] = a
      /\ \A j \in 1 .. n : j # k => majors[j] = h.majors[j]
  BY <1>1, <1>3
<1>9. ToSet(b.minors) = ToSet(a.minors) \cup {m} /\ m \notin ToSet(a.minors)
  BY <1>1, <1>2, <1>3, NewMinor
<1> HIDE DEF majors, b
<1>10. /\ g.majors = majors /\ g.bestBet = h.bestBet /\ g.allocated = h.allocated
       /\ g.inuse = h.inuse - m.size /\ g.pagesOut = h.pagesOut
  BY <1>4
<1>11. g \in Heap
  <2>1. [majors |-> majors, bestBet |-> h.bestBet, allocated |-> h.allocated,
         inuse |-> h.inuse - m.size, pagesOut |-> h.pagesOut] \in Heap
    BY <1>1, <1>7, <1>8 DEF Heap
  <2>2. QED
    BY <1>4, <2>1
<1>12. Changed(h, g, k)
  <2>1. g.inuse + Total(UnitsOf(b)) = h.inuse + Total(UnitsOf(a))
    BY <1>1, <1>5, <1>7, <1>10
  <2>2. a.addr = b.addr /\ a.pages = b.pages
    BY <1>3 DEF OneMore
  <2>3. QED
    BY <1>8, <1>10, <2>1, <2>2 DEF Changed, b
<1>13. \A l \in 1 .. n : l # k => m \notin ToSet(h.majors[l].minors)
  BY <1>1, <1>9, OneMajorEach DEF b
<1>14. \A x : x \in Minors(h) <=> \/ x \in ToSet(b.minors)
                                  \/ \E l \in 1 .. n : l # k /\ x \in ToSet(h.majors[l].minors)
  BY <1>1 DEF Minors, b
<1>15. \A x : (\/ x \in ToSet(a.minors)
               \/ \E l \in 1 .. n : l # k /\ x \in ToSet(h.majors[l].minors))
              <=> x \in Minors(h) /\ x # m
  BY <1>9, <1>13, <1>14
<1>16. g.majors[k] = a
  BY <1>8, <1>10
<1>17. QED
  BY <1>3, <1>10, <1>11, <1>12, <1>15, <1>16 DEF Freed, a, b, m, g, majors

\* kfree, when other minors are left in the major.
LEMMA OthersAreLeft ==
    ASSUME NEW h, HeapInOrderOf(h), NEW g, NEW k \in 1 .. Len(h.majors),
           NEW i \in 1 .. Len(h.majors[k].minors), Freed(h, g, k, i), g.majors[k].minors # <<>>
    PROVE  /\ HeapInOrderOf(Reconsider(g, k))
           /\ Minors(Reconsider(g, k)) = Minors(h) \ {h.majors[k].minors[i]}
<1> DEFINE n == Len(h.majors)
           f == Reconsider(g, k)
<1>1. h \in Heap /\ BetIsKnown(h) /\ DOMAIN h.majors = 1 .. n
  BY OfHeap DEF HeapInOrderOf
<1>2. /\ g \in Heap /\ Changed(h, g, k) /\ g.bestBet = h.bestBet /\ MajorInOrder(g.majors[k])
      /\ g.majors[k] \in Major
      /\ \A x : (\/ x \in ToSet(g.majors[k].minors)
                 \/ \E l \in 1 .. n : l # k /\ x \in ToSet(h.majors[l].minors))
                <=> x \in Minors(h) /\ x # h.majors[k].minors[i]
  BY DEF Freed
<1>3. f \in {g, [g EXCEPT !.bestBet = g.majors[k].addr]}
  BY Zenon DEF Reconsider
<1>4. /\ f \in Heap /\ f.majors = g.majors /\ f.pagesOut = g.pagesOut
      /\ f.allocated = g.allocated /\ f.inuse = g.inuse
      /\ f.bestBet = g.bestBet \/ f.bestBet = g.majors[k].addr
  <2>1. CASE f = g
    BY <1>2, <2>1
  <2>2. CASE f = [g EXCEPT !.bestBet = g.majors[k].addr]
    <3>1. g.majors[k].addr \in Nat
      BY <1>2, OfMajor
    <3>2. QED
      BY <1>2, <2>2, <3>1 DEF Heap
  <2>3. QED
    BY <1>3, <2>1, <2>2
<1> HIDE DEF f
<1>5. Changed(h, f, k)
  BY <1>2, <1>4 DEF Changed
<1>6. f.bestBet # NULL => \E j \in 1 .. n : h.majors[j].addr = f.bestBet
  BY <1>1, <1>2, <1>4 DEF BetIsKnown, Changed
<1>7. HeapInOrderOf(f)
  BY <1>2, <1>4, <1>5, <1>6, MajorChanged
<1>8. \A x : x \in Minors(f) <=> x \in Minors(h) /\ x # h.majors[k].minors[i]
  <2>1. \A x : x \in Minors(f) <=> \/ x \in ToSet(f.majors[k].minors)
                                    \/ \E l \in 1 .. n : l # k /\ x \in ToSet(h.majors[l].minors)
    BY <1>1, <1>4, <1>5, MinorsWhenChanged, Zenon
  <2>2. f.majors[k] = g.majors[k]
    BY <1>4
  <2>3. QED
    BY <1>2, <2>1, <2>2, Zenon
<1>9. QED
  BY <1>7, <1>8 DEF f

\* kfree of the last minor of a major.
LEMMA NoneAreLeft ==
    ASSUME NEW h, HeapInOrderOf(h), NEW g, NEW k \in 1 .. Len(h.majors),
           NEW i \in 1 .. Len(h.majors[k].minors), Freed(h, g, k, i), g.majors[k].minors = <<>>
    PROVE  /\ HeapInOrderOf(DropMajor(g, k))
           /\ Minors(DropMajor(g, k)) = Minors(h) \ {h.majors[k].minors[i]}
<1> DEFINE n == Len(h.majors)
           f == DropMajor(g, k)
           b == h.majors[k]
           a == g.majors[k]
           m == b.minors[i]
           rest == RemoveAt(h.majors, k)
           bet == IF g.bestBet = a.addr THEN NULL ELSE g.bestBet
           left == g.allocated - Size(a)
<1>1. /\ h \in Heap /\ h.majors \in Seq(Major) /\ n \in Nat /\ DOMAIN h.majors = 1 .. n
      /\ b \in Major /\ h.allocated = Total(SizesIn(h)) /\ SizesIn(h) \in Seq(Nat)
      /\ Len(SizesIn(h)) = n /\ SizesIn(h)[k] = Size(b)
  BY OfHeap DEF HeapInOrderOf, TotalsAgree, SizesIn
<1>2. /\ g \in Heap /\ Changed(h, g, k) /\ g.bestBet = h.bestBet /\ g.inuse = h.inuse - m.size
      /\ a \in Major /\ OneMore(a, b, i, m)
      /\ \A x : (\/ x \in ToSet(a.minors)
                 \/ \E l \in 1 .. n : l # k /\ x \in ToSet(h.majors[l].minors))
                <=> x \in Minors(h) /\ x # m
  BY DEF Freed
<1>3. /\ Len(g.majors) = n /\ g.pagesOut = h.pagesOut /\ g.allocated = h.allocated
      /\ \A j \in 1 .. n : j # k => g.majors[j] = h.majors[j]
      /\ a.addr = b.addr /\ a.pages = b.pages
  BY <1>2 DEF Changed
<1>4. RemoveAt(g.majors, k) = rest
  <2>1. g.majors \in Seq(Major)
    BY <1>2, OfHeap, Zenon
  <2>2. /\ rest \in Seq(Major) /\ Len(rest) = n - 1
        /\ \A j \in 1 .. n - 1 : rest[j] = IF j < k THEN h.majors[j] ELSE h.majors[j + 1]
    BY <1>1, RemovedAt
  <2>3. /\ RemoveAt(g.majors, k) \in Seq(Major) /\ Len(RemoveAt(g.majors, k)) = n - 1
        /\ \A j \in 1 .. n - 1 :
              RemoveAt(g.majors, k)[j] = IF j < k THEN g.majors[j] ELSE g.majors[j + 1]
    <3>1. Len(g.majors) = n /\ k \in 1 .. Len(g.majors)
      BY <1>3
    <3>2. /\ RemoveAt(g.majors, k) \in Seq(Major)
          /\ Len(RemoveAt(g.majors, k)) = Len(g.majors) - 1
          /\ \A j \in 1 .. Len(g.majors) - 1 :
                RemoveAt(g.majors, k)[j] = IF j < k THEN g.majors[j] ELSE g.majors[j + 1]
      BY <2>1, <3>1, RemovedAt, Zenon
    <3>3. QED
      BY <3>1, <3>2, Zenon
  <2> HIDE DEF rest
  <2>4. ASSUME NEW j \in 1 .. n - 1 PROVE RemoveAt(g.majors, k)[j] = rest[j]
    <3>1. n \in Nat /\ k \in Nat
      <4>1. n \in Nat
        BY <1>1, Zenon
      <4>2. QED
        BY <4>1
    <3>2. CASE j < k
      <4>1. j \in 1 .. n /\ j # k
        BY <3>1, <3>2
      <4>2. QED
        BY <1>3, <2>2, <2>3, <3>2, <4>1, Zenon
    <3>3. CASE ~ (j < k)
      <4>1. j + 1 \in 1 .. n /\ j + 1 # k
        BY <3>1, <3>3
      <4>2. QED
        BY <1>3, <2>2, <2>3, <3>3, <4>1, Zenon
    <3>4. QED
      BY <3>2, <3>3
  <2>5. QED
    BY <2>2, <2>3, <2>4, SeqEqual
<1>5. rest \in Seq(Major)
  BY <1>1, RemovedAt
<1>6. f = [g EXCEPT !.majors = rest, !.bestBet = bet, !.allocated = left]
  BY <1>4, Zenon DEF DropMajor
<1>7. left = h.allocated - Size(b) /\ left \in Nat
  <2>1. Size(a) = Size(b)
    BY <1>3 DEF Size
  <2>2. Size(b) \in Nat /\ Size(b) <= Total(SizesIn(h)) /\ h.allocated \in Nat
    BY <1>1, TermBelowTotal, OfHeap
  <2>3. QED
    BY <1>1, <1>3, <2>1, <2>2
<1>8. bet = IF h.bestBet = b.addr THEN NULL ELSE h.bestBet
  BY <1>2, <1>3
<1>9. bet \in Nat
  BY <1>2, OfHeap DEF NULL
<1>10. g.inuse = h.inuse - Total(UnitsOf(b))
  <2>1. UnitsOf(a) = <<>>
    BY DEF UnitsOf
  <2>2. m.size \in Nat
    BY <1>1, OfMajor
  <2>3. Total(UnitsOf(b)) = Total(UnitsOf(a)) + m.size
    <3>1. b \in Major /\ a \in Major /\ OneMore(a, b, i, m)
      BY <1>1, <1>2
    <3> HIDE DEF a, b, m
    <3>2. QED
      BY <3>1, CountWithOneMore
  <2>4. Total(UnitsOf(b)) = m.size
    BY <2>1, <2>2, <2>3, TotalOfNone
  <2>5. QED
    BY <1>2, <2>4
<1> HIDE DEF left, bet, rest, f
<1>11. /\ f \in Heap /\ f.majors = rest /\ f.bestBet = bet /\ f.allocated = left
       /\ f.inuse = g.inuse /\ f.pagesOut = g.pagesOut
  <2>1. /\ g = [majors |-> g.majors, bestBet |-> g.bestBet, allocated |-> g.allocated,
                inuse |-> g.inuse, pagesOut |-> g.pagesOut]
        /\ g.inuse \in Nat /\ g.pagesOut \in 0 .. MaxPages
    BY <1>2, OfHeap
  <2>2. f = [majors |-> rest, bestBet |-> bet, allocated |-> left, inuse |-> g.inuse,
             pagesOut |-> g.pagesOut]
    BY <1>6, <2>1
  <2>3. QED
    BY <1>5, <1>7, <1>9, <2>1, <2>2 DEF Heap
<1>12. HeapInOrderOf(f)
  BY <1>3, <1>7, <1>8, <1>10, <1>11, MajorDropped DEF rest
<1>13. \A x : x \in Minors(f) <=> \E l \in 1 .. n : l # k /\ x \in ToSet(h.majors[l].minors)
  <2>1. /\ Len(rest) = n - 1 /\ DOMAIN rest = 1 .. n - 1
        /\ \A j \in 1 .. n - 1 : rest[j] = IF j < k THEN h.majors[j] ELSE h.majors[j + 1]
    <3>1. /\ Len(rest) = n - 1
          /\ \A j \in 1 .. n - 1 : rest[j] = IF j < k THEN h.majors[j] ELSE h.majors[j + 1]
      BY <1>1, RemovedAt DEF rest
    <3>2. DOMAIN rest = 1 .. Len(rest)
      BY <1>5
    <3>3. QED
      BY <3>1, <3>2, Zenon
  <2>2. \A x : x \in Minors(f) <=> \E j \in 1 .. n - 1 : x \in ToSet(rest[j].minors)
    BY <1>11, <2>1 DEF Minors
  <2>3. \A j \in 1 .. n - 1 : \E l \in 1 .. n : l # k /\ rest[j] = h.majors[l]
    <3>1. SUFFICES ASSUME NEW j \in 1 .. n - 1
                   PROVE  \E l \in 1 .. n : l # k /\ rest[j] = h.majors[l]
      OBVIOUS
    <3>2. CASE j < k
      <4>1. n \in Nat /\ k \in Nat
        <5>1. n \in Nat
          BY <1>1, Zenon
        <5>2. QED
          BY <5>1
      <4>2. j \in 1 .. n /\ j # k
        BY <3>2, <4>1
      <4>3. rest[j] = h.majors[j]
        BY <2>1, <3>2, Zenon
      <4>4. QED
        BY <4>2, <4>3, Zenon
    <3>3. CASE ~ (j < k)
      <4>1. n \in Nat /\ k \in Nat
        <5>1. n \in Nat
          BY <1>1, Zenon
        <5>2. QED
          BY <5>1
      <4>2. j + 1 \in 1 .. n /\ j + 1 # k
        BY <3>3, <4>1
      <4>3. rest[j] = h.majors[j + 1]
        BY <2>1, <3>3, Zenon
      <4>4. QED
        BY <4>2, <4>3, Zenon
    <3>4. QED
      BY <3>2, <3>3
  <2>4. \A l \in 1 .. n : l # k => \E j \in 1 .. n - 1 : rest[j] = h.majors[l]
    <3>1. SUFFICES ASSUME NEW l \in 1 .. n, l # k PROVE \E j \in 1 .. n - 1 : rest[j] = h.majors[l]
      OBVIOUS
    <3>2. CASE l < k
      <4>1. l \in 1 .. n - 1
        BY <1>1, <3>2
      <4>2. rest[l] = h.majors[l]
        BY <2>1, <3>2, <4>1
      <4>3. QED
        BY <4>1, <4>2
    <3>3. CASE l > k
      <4>1. l - 1 \in 1 .. n - 1 /\ ~ (l - 1 < k) /\ (l - 1) + 1 = l
        BY <1>1, <3>3
      <4>2. rest[l - 1] = h.majors[l]
        BY <2>1, <4>1
      <4>3. QED
        BY <4>1, <4>2
    <3>4. QED
      BY <3>1, <3>2, <3>3
  <2>5. ASSUME NEW x, \E j \in 1 .. n - 1 : x \in ToSet(rest[j].minors)
        PROVE  \E l \in 1 .. n : l # k /\ x \in ToSet(h.majors[l].minors)
    <3>1. PICK j \in 1 .. n - 1 : x \in ToSet(rest[j].minors)
      BY <2>5
    <3>2. PICK l \in 1 .. n : l # k /\ rest[j] = h.majors[l]
      BY <2>3
    <3>3. QED
      BY <3>1, <3>2, Zenon
  <2>6. ASSUME NEW x, \E l \in 1 .. n : l # k /\ x \in ToSet(h.majors[l].minors)
        PROVE  \E j \in 1 .. n - 1 : x \in ToSet(rest[j].minors)
    <3>1. PICK l \in 1 .. n : l # k /\ x \in ToSet(h.majors[l].minors)
      BY <2>6
    <3>2. PICK j \in 1 .. n - 1 : rest[j] = h.majors[l]
      BY <2>4, <3>1
    <3>3. QED
      BY <3>1, <3>2, Zenon
  <2>7. QED
    BY <2>2, <2>5, <2>6, Zenon
<1>14. ToSet(a.minors) = {}
  BY DEF ToSet
<1>15. \A x : x \in Minors(f) <=> x \in Minors(h) /\ x # m
  BY <1>2, <1>13, <1>14
<1>16. QED
  BY <1>12, <1>15 DEF f

\* kfree takes away the one minor at the address.
LEMMA CallOfKfree ==
    ASSUME NEW h, HeapInOrderOf(h), NEW x \in Minors(h)
    PROVE  HeapInOrderOf(kfree(h, x.addr)) /\ Minors(kfree(h, x.addr)) = Minors(h) \ {x}
<1> DEFINE k == CHOOSE m \in DOMAIN h.majors : \E y \in ToSet(h.majors[m].minors) : y.addr = x.addr
           i == CHOOSE j \in DOMAIN h.majors[k].minors : h.majors[k].minors[j].addr = x.addr
           g == Unlink(h, k, i)
<1>1. kfree(h, x.addr) = IF g.majors[k].minors = <<>> THEN DropMajor(g, k) ELSE Reconsider(g, k)
  BY Zenon DEF kfree
<1>2. /\ h \in Heap /\ MajorsInOrder(h) /\ DOMAIN h.majors = 1 .. Len(h.majors)
      /\ \A l \in 1 .. Len(h.majors) : h.majors[l] \in Major
  BY OfHeap DEF HeapInOrderOf
<1>3. /\ \A l \in 1 .. Len(h.majors) : ToSet(h.majors[l].minors) \subseteq Minors(h)
      /\ \E l \in 1 .. Len(h.majors) : x \in ToSet(h.majors[l].minors)
      /\ \A y \in Minors(h) : x # y => x.addr # y.addr
  BY <1>2, MinorsOfHeap
<1>4. \E m \in DOMAIN h.majors : \E y \in ToSet(h.majors[m].minors) : y.addr = x.addr
  BY <1>2, <1>3
<1>5. k \in DOMAIN h.majors /\ \E y \in ToSet(h.majors[k].minors) : y.addr = x.addr
  BY <1>4, Zenon
<1> HIDE DEF k
<1>6. x \in ToSet(h.majors[k].minors)
  BY <1>2, <1>3, <1>5
<1>7. DOMAIN h.majors[k].minors = 1 .. Len(h.majors[k].minors)
  BY <1>2, <1>5, OfMajor
<1>8. \E j \in DOMAIN h.majors[k].minors : h.majors[k].minors[j].addr = x.addr
  BY <1>6 DEF ToSet
<1>9. i \in DOMAIN h.majors[k].minors /\ h.majors[k].minors[i].addr = x.addr
  BY <1>8, Zenon
<1> HIDE DEF i
<1>10. h.majors[k].minors[i] = x
  <2>1. h.majors[k].minors[i] \in ToSet(h.majors[k].minors)
    BY <1>9 DEF ToSet
  <2>2. h.majors[k].minors[i] \in Minors(h)
    BY <1>2, <1>3, <1>5, <2>1
  <2>3. QED
    BY <1>3, <1>9, <2>2, Zenon
<1>11. k \in 1 .. Len(h.majors) /\ i \in 1 .. Len(h.majors[k].minors)
  BY <1>2, <1>5, <1>7, <1>9
<1>12. Freed(h, g, k, i)
  BY <1>11, UnlinkFrees
<1> HIDE DEF g
<1>13. CASE g.majors[k].minors = <<>>
  BY <1>1, <1>10, <1>11, <1>12, <1>13, NoneAreLeft
<1>14. CASE g.majors[k].minors # <<>>
  BY <1>1, <1>10, <1>11, <1>12, <1>14, OthersAreLeft
<1>15. QED
  BY <1>13, <1>14

\* The minor that krealloc leaves behind when the block need not grow.
Less(m, size) == [m EXCEPT !.req_size = size]

\* krealloc, when the block need not grow.
LEMMA CallOfShrink ==
    ASSUME NEW h, HeapInOrderOf(h), NEW k \in 1 .. Len(h.majors),
           NEW i \in 1 .. Len(h.majors[k].minors), NEW size \in Request,
           size <= h.majors[k].minors[i].req_size
    PROVE  /\ HeapInOrderOf(Shrink(h, k, i, size))
           /\ Minors(Shrink(h, k, i, size)) =
                (Minors(h) \ {h.majors[k].minors[i]}) \cup {Less(h.majors[k].minors[i], size)}
<1> DEFINE n == Len(h.majors)
           b == h.majors[k]
           a == Shrunk(b, i, size)
           m == b.minors[i]
           g == Shrink(h, k, i, size)
           majors == [h.majors EXCEPT ![k] = a]
<1>1. /\ h \in Heap /\ MajorsInOrder(h) /\ BetIsKnown(h) /\ h.majors \in Seq(Major) /\ n \in Nat
      /\ DOMAIN h.majors = 1 .. n /\ h.bestBet \in Nat /\ h.allocated \in Nat /\ h.inuse \in Nat
      /\ h.pagesOut \in 0 .. MaxPages /\ b \in Major
  BY OfHeap DEF HeapInOrderOf
<1>2. MajorInOrder(b) /\ b.minors # <<>>
  BY <1>1 DEF MajorsInOrder
<1>3. Len(b.minors) \in Nat /\ DOMAIN b.minors = 1 .. Len(b.minors)
  <2>1. b.minors \in Seq(Minor)
    BY <1>1, OfMajor
  <2>2. QED
    BY <2>1
<1>4. /\ a \in Major /\ MajorInOrder(a) /\ a.addr = b.addr /\ a.pages = b.pages
      /\ UnitsOf(a) = UnitsOf(b) /\ Len(a.minors) = Len(b.minors)
      /\ \A j \in 1 .. Len(b.minors) : a.minors[j] = IF j = i THEN Less(m, size) ELSE b.minors[j]
  <2>1. b \in Major /\ MajorInOrder(b)
    BY <1>1, <1>2
  <2>2. Less(m, size) = [m EXCEPT !.req_size = size]
    BY DEF Less
  <2>3. QED
    BY <2>1, <2>2, Shrinking
<1>5. g = [majors |-> majors, bestBet |-> h.bestBet, allocated |-> h.allocated,
           inuse |-> h.inuse, pagesOut |-> h.pagesOut]
  <2>1. h = [majors |-> h.majors, bestBet |-> h.bestBet, allocated |-> h.allocated,
             inuse |-> h.inuse, pagesOut |-> h.pagesOut]
    BY <1>1, OfHeap
  <2>2. g = [h EXCEPT !.majors = majors]
    BY DEF Shrink, Shrunk
  <2> HIDE DEF g, majors
  <2>3. QED
    BY <2>1, <2>2
<1> HIDE DEF a, g
<1>6. /\ majors \in Seq(Major) /\ Len(majors) = n /\ majors[k] = a
      /\ \A j \in 1 .. n : j # k => majors[j] = h.majors[j]
  BY <1>1, <1>4
<1> HIDE DEF majors
<1>7. /\ g.majors = majors /\ g.bestBet = h.bestBet /\ g.allocated = h.allocated
      /\ g.inuse = h.inuse /\ g.pagesOut = h.pagesOut
  BY <1>5
<1>8. g \in Heap
  <2>1. [majors |-> majors, bestBet |-> h.bestBet, allocated |-> h.allocated,
         inuse |-> h.inuse, pagesOut |-> h.pagesOut] \in Heap
    BY <1>1, <1>6 DEF Heap
  <2>2. QED
    BY <1>5, <2>1
<1>9. g.majors[k] = a
  BY <1>6, <1>7
<1>10. Changed(h, g, k)
  BY <1>4, <1>6, <1>7, <1>9 DEF Changed
<1>11. a.minors # <<>>
  <2>1. a.minors \in Seq(Minor) /\ Len(a.minors) > 0
    BY <1>3, <1>4, OfMajor
  <2>2. QED
    BY <2>1
<1>12. g.bestBet # NULL => \E j \in 1 .. n : h.majors[j].addr = g.bestBet
  BY <1>1, <1>7 DEF BetIsKnown
<1>13. HeapInOrderOf(g)
  BY <1>4, <1>8, <1>9, <1>10, <1>11, <1>12, MajorChanged
<1>14. \A x : x \in Minors(g) <=> \/ x \in ToSet(a.minors)
                                  \/ \E l \in 1 .. n : l # k /\ x \in ToSet(h.majors[l].minors)
  <2>1. \A x : x \in Minors(g) <=> \/ x \in ToSet(g.majors[k].minors)
                                   \/ \E l \in 1 .. n : l # k /\ x \in ToSet(h.majors[l].minors)
    BY <1>1, <1>8, <1>10, MinorsWhenChanged, Zenon
  <2>2. QED
    BY <1>9, <2>1, Zenon
<1>15. \A x : x \in Minors(h) <=> \/ x \in ToSet(b.minors)
                                  \/ \E l \in 1 .. n : l # k /\ x \in ToSet(h.majors[l].minors)
  BY <1>1 DEF Minors
<1>16. \A l \in 1 .. n : l # k => m \notin ToSet(h.majors[l].minors)
  <2>1. m \in ToSet(b.minors)
    BY <1>3 DEF ToSet
  <2>2. QED
    BY <1>1, <2>1, OneMajorEach
<1>17. \A j \in 1 .. Len(b.minors) : j # i => b.minors[j] # m
  <2>1. SUFFICES ASSUME NEW j \in 1 .. Len(b.minors), j # i, b.minors[j] = m PROVE FALSE
    OBVIOUS
  <2>2. /\ \A u, v \in 1 .. Len(b.minors) :
               u < v => b.minors[u].addr + MINOR + b.minors[u].size <= b.minors[v].addr
        /\ m.addr \in Nat /\ m.size \in Nat /\ MINOR \in Nat /\ MINOR > 0
    BY <1>1, <1>2, InsideMajor, OfMajor, Units
  <2>3. i < j \/ j < i
    BY <2>1
  <2>4. m.addr + MINOR + m.size <= m.addr
    BY <2>1, <2>2, <2>3
  <2>5. \A u, v, w \in Nat : w > 0 => ~ (u + w + v <= u)
    OBVIOUS
  <2>6. QED
    BY <2>2, <2>4, <2>5, Zenon
<1>18. \A x : x \in ToSet(a.minors) <=> (x \in ToSet(b.minors) /\ x # m) \/ x = Less(m, size)
  <2>1. DOMAIN a.minors = 1 .. Len(b.minors)
    BY <1>4, OfMajor
  <2>2. \A x : x \in ToSet(a.minors) <=> \E j \in 1 .. Len(b.minors) : x = a.minors[j]
    BY <2>1 DEF ToSet
  <2>3. \A x : x \in ToSet(b.minors) <=> \E j \in 1 .. Len(b.minors) : x = b.minors[j]
    BY <1>3 DEF ToSet
  <2>4. i \in 1 .. Len(b.minors) /\ b.minors[i] = m
    OBVIOUS
  <2> HIDE DEF b, m
  <2>5. QED
    BY <1>4, <1>17, <2>2, <2>3, <2>4
<1>19. \A x : x \in Minors(g) <=> (x \in Minors(h) /\ x # m) \/ x = Less(m, size)
  BY <1>14, <1>15, <1>16, <1>18
<1>20. QED
  BY <1>13, <1>19 DEF g

\* krealloc leaves a smaller block where it was, or exchanges it for a new one.
LEMMA CallOfKrealloc ==
    ASSUME NEW h, HeapInOrderOf(h), NEW k \in 1 .. Len(h.majors),
           NEW i \in 1 .. Len(h.majors[k].minors), NEW size \in Request, NEW m,
           m = h.majors[k].minors[i], m.req_size < size => kmalloc(h, size).inuse > h.inuse
    PROVE  /\ HeapInOrderOf(krealloc(h, k, i, size))
           /\ m \in Minors(h)
           /\ \/ /\ size <= m.req_size
                 /\ Minors(krealloc(h, k, i, size)) = (Minors(h) \ {m}) \cup {Less(m, size)}
              \/ \E c \in Minor : /\ c.req_size = size /\ c \notin Minors(h) /\ m.req_size < size
                                  /\ Minors(krealloc(h, k, i, size)) = (Minors(h) \cup {c}) \ {m}
<1>1. /\ h \in Heap /\ MajorsInOrder(h) /\ h.majors[k] \in Major /\ h.inuse \in Nat
  BY OfHeap DEF HeapInOrderOf
<1>2. m \in Minors(h)
  <2>1. h.majors[k].minors \in Seq(Minor)
    BY <1>1, OfMajor
  <2>2. m \in ToSet(h.majors[k].minors)
    BY <2>1 DEF ToSet
  <2>3. QED
    BY <1>1, <2>2, MinorsOfHeap
<1>3. m.req_size \in Nat /\ size \in Nat
  BY <1>1, <1>2, MinorsOfHeap, RequestAssumption DEF Minor
<1>4. krealloc(h, k, i, size) = IF m.req_size >= size THEN Shrink(h, k, i, size)
                                ELSE kfree(kmalloc(h, size), m.addr)
  BY Zenon DEF krealloc
<1>5. CASE m.req_size >= size
  <2>1. krealloc(h, k, i, size) = Shrink(h, k, i, size)
    BY <1>4, <1>5
  <2>2. size <= h.majors[k].minors[i].req_size
    BY <1>3, <1>5
  <2>3. /\ HeapInOrderOf(Shrink(h, k, i, size))
        /\ Minors(Shrink(h, k, i, size)) =
             (Minors(h) \ {h.majors[k].minors[i]}) \cup {Less(h.majors[k].minors[i], size)}
    BY <2>2, CallOfShrink
  <2>4. QED
    BY <1>2, <2>1, <2>2, <2>3
<1>6. CASE ~ (m.req_size >= size)
  <2> DEFINE g == kmalloc(h, size)
  <2>1. m.req_size < size /\ g.inuse > h.inuse
    BY <1>3, <1>6
  <2>2. HeapInOrderOf(g)
    BY CallOfKmalloc
  <2>3. ~ (g.inuse = h.inuse)
    <3>1. g \in Heap
      BY <2>2 DEF HeapInOrderOf
    <3>2. g.inuse \in Nat
      BY <3>1, OfHeap, Zenon
    <3> HIDE DEF g
    <3>3. QED
      BY <1>1, <2>1, <3>2
  <2>4. PICK c \in Minor : c.req_size = size /\ c \notin Minors(h) /\ Minors(g) = Minors(h) \cup {c}
    BY <2>3, CallOfKmalloc
  <2>5. m \in Minors(g)
    BY <1>2, <2>4
  <2>6. HeapInOrderOf(kfree(g, m.addr)) /\ Minors(kfree(g, m.addr)) = Minors(g) \ {m}
    BY <2>2, <2>5, CallOfKfree
  <2>7. krealloc(h, k, i, size) = kfree(g, m.addr)
    BY <1>4, <1>6
  <2>8. QED
    BY <1>2, <2>1, <2>4, <2>6, <2>7
<1>7. QED
  BY <1>5, <1>6

-----------------------------------------------------------------------------
(***************************************************************************)
(* The theorems.                                                           *)
(***************************************************************************)
\* The empty heap is in order.
LEMMA EmptyHeapInOrder == Init => HeapInv
<1>1. SUFFICES ASSUME Init PROVE HeapInOrderOf(heap)
  BY DEF HeapInv
<1>2. /\ heap = [majors |-> <<>>, bestBet |-> 0, allocated |-> 0, inuse |-> 0, pagesOut |-> 0]
      /\ heap.majors = <<>> /\ heap.bestBet = 0 /\ heap.allocated = 0 /\ heap.inuse = 0
      /\ DOMAIN heap.majors = {}
  BY <1>1 DEF Init, NULL
<1>3. heap \in Heap
  <2>1. <<>> \in Seq(Major) /\ 0 \in 0 .. MaxPages
    BY Units, EmptySeq
  <2>2. QED
    BY <1>2, <2>1 DEF Heap
<1>4. MajorsInOrder(heap) /\ BetIsKnown(heap)
  BY <1>2 DEF MajorsInOrder, BetIsKnown, NULL
<1>5. TotalsAgree(heap)
  <2>1. /\ [k \in DOMAIN heap.majors |-> Total(UnitsOf(heap.majors[k]))] = <<>>
        /\ [k \in DOMAIN heap.majors |-> Size(heap.majors[k])] = <<>>
    BY <1>2
  <2>2. QED
    BY <1>2, <2>1, TotalOfNone DEF TotalsAgree
<1>6. QED
  BY <1>3, <1>4, <1>5 DEF HeapInOrderOf

\* Every call leaves the heap in order.
LEMMA CallsKeepOrder == HeapInv /\ [Next]_heap => HeapInv'
<1>1. SUFFICES ASSUME HeapInOrderOf(heap), [Next]_heap PROVE HeapInOrderOf(heap')
  BY DEF HeapInv
<1>2. ASSUME NEW req_size \in Request, heap' = kmalloc(heap, req_size) PROVE HeapInOrderOf(heap')
  BY <1>1, <1>2, CallOfKmalloc
<1>3. ASSUME NEW minor \in Minors(heap), heap' = kfree(heap, minor.addr) PROVE HeapInOrderOf(heap')
  BY <1>1, <1>3, CallOfKfree
<1>4. ASSUME NEW size \in Request \ {0}, NEW k \in DOMAIN heap.majors,
             NEW i \in DOMAIN heap.majors[k].minors,
             heap.majors[k].minors[i].req_size < size => CanGrow(size),
             heap' = krealloc(heap, k, i, size)
      PROVE  HeapInOrderOf(heap')
  <2>1. k \in 1 .. Len(heap.majors) /\ heap.majors[k] \in Major
    BY <1>1, OfHeap DEF HeapInOrderOf
  <2>2. heap.majors[k].minors \in Seq(Minor)
    BY <2>1, OfMajor
  <2>3. i \in 1 .. Len(heap.majors[k].minors)
    BY <2>2
  <2> DEFINE m == heap.majors[k].minors[i]
  <2>4. m.req_size < size => kmalloc(heap, size).inuse > heap.inuse
    BY <1>4 DEF CanGrow
  <2>5. size \in Request /\ m = heap.majors[k].minors[i]
    OBVIOUS
  <2> HIDE DEF m
  <2>6. HeapInOrderOf(krealloc(heap, k, i, size))
    BY <1>1, <2>1, <2>3, <2>4, <2>5, CallOfKrealloc
  <2>7. QED
    BY <1>4, <2>6
<1>5. CASE UNCHANGED heap
  BY <1>1, <1>5
<1>6. QED
  BY <1>1, <1>2, <1>3, <1>4, <1>5 DEF Next

\* Whatever the order of kmalloc, kfree and krealloc: the majors, the minors and
\* the counters are what HeapInv says.
THEOREM HeapInvariance == Spec => []HeapInv
  BY EmptyHeapInOrder, CallsKeepOrder, PTL DEF Spec

\* What the invariant gives.
LEMMA HeapInvImplies == HeapInv => HeapInOrder /\ CountersAgree /\ NoDanglingBet
<1>1. SUFFICES ASSUME HeapInOrderOf(heap) PROVE HeapInOrder /\ CountersAgree /\ NoDanglingBet
  BY DEF HeapInv
<1> DEFINE n == Len(heap.majors)
<1>2. /\ heap \in Heap /\ MajorsInOrder(heap) /\ TotalsAgree(heap) /\ BetIsKnown(heap)
      /\ DOMAIN heap.majors = 1 .. n /\ heap.pagesOut \in 0 .. MaxPages
      /\ heap.majors \in Seq(Major) /\ {heap.bestBet, heap.allocated, heap.inuse} \subseteq Nat
      /\ \A k \in 1 .. n : heap.majors[k] \in Major
  BY <1>1, OfHeap DEF HeapInOrderOf
<1>3. \A k \in 1 .. n : /\ MajorInOrder(heap.majors[k]) /\ heap.majors[k].minors # <<>>
                        /\ heap.majors[k].addr > 0
                        /\ End(heap.majors[k]) <= (heap.pagesOut + 1) * l_pageSize
  BY <1>2 DEF MajorsInOrder
<1>4. ASSUME NEW k \in 1 .. n
      PROVE  /\ heap.majors[k].addr \in 1 .. (MaxPages + 1) * l_pageSize
             /\ heap.majors[k].usage <= Size(heap.majors[k])
  <2>1. heap.majors[k].usage <= Size(heap.majors[k])
    BY <1>2, <1>3, InsideMajor
  <2>2. /\ heap.majors[k].addr \in Nat /\ Size(heap.majors[k]) \in Nat /\ heap.pagesOut \in Nat
        /\ MaxPages \in Nat /\ l_pageSize \in Nat /\ heap.pagesOut <= MaxPages
    <3>1. heap.majors[k] \in Major
      BY <1>2
    <3>2. heap.majors[k].addr \in Nat /\ Size(heap.majors[k]) \in Nat
      BY <3>1, OfMajor
    <3>3. MaxPages \in Nat /\ l_pageSize \in Nat
      BY Units
    <3>4. QED
      BY <1>2, <3>2, <3>3
  <2>3. (heap.pagesOut + 1) * l_pageSize <= (MaxPages + 1) * l_pageSize
    <3>1. \A u, v, w \in Nat : u <= v => (u + 1) * w <= (v + 1) * w
      OBVIOUS
    <3>2. QED
      BY <2>2, <3>1
  <2>4. heap.majors[k].addr + Size(heap.majors[k]) <= (heap.pagesOut + 1) * l_pageSize
    BY <1>3 DEF End
  <2> DEFINE c == (heap.pagesOut + 1) * l_pageSize
             d == (MaxPages + 1) * l_pageSize
  <2>5. c \in Nat /\ d \in Nat /\ c <= d /\ heap.majors[k].addr + Size(heap.majors[k]) <= c
    <3>1. \A u, w \in Nat : (u + 1) * w \in Nat
      OBVIOUS
    <3>2. QED
      BY <2>2, <2>3, <2>4, <3>1, Zenon
  <2> HIDE DEF c, d
  <2>6. heap.majors[k].addr \in 1 .. d
    BY <1>3, <2>2, <2>5
  <2>7. QED
    BY <2>1, <2>6 DEF d
<1>5. TypeOK
  BY <1>2, <1>4 DEF TypeOK
<1>6. HeapInOrder
  BY <1>2, <1>3, <1>5 DEF HeapInOrder, MajorInOrder, MajorsInOrder, End
<1>7. CountersAgree
  BY <1>2, <1>3 DEF CountersAgree, MajorInOrder, TotalsAgree
<1>8. NoDanglingBet
  BY <1>2, <1>3 DEF NoDanglingBet, BetIsKnown
<1>9. QED
  BY <1>6, <1>7, <1>8

\* The minors of a major lie in it one behind the other and the majors are apart,
\* so no allocation meets another one's header (kmalloc's cases 1 to 4).
THEOREM HeapStaysInOrder == Spec => []HeapInOrder
  BY HeapInvariance, HeapInvImplies, PTL

\* usage, l_inuse and l_allocated are sums over the lists, whichever calls
\* happened before.
THEOREM CountersStayRight == Spec => []CountersAgree
  BY HeapInvariance, HeapInvImplies, PTL

\* kfree leaves no reference to a major it dropped, and no major without minors.
THEOREM BetIsNeverDangling == Spec => []NoDanglingBet
  BY HeapInvariance, HeapInvImplies, PTL

-----------------------------------------------------------------------------
(***************************************************************************)
(* The heap implements Allocator.                                          *)
(***************************************************************************)
\* ALIGN moves a pointer up to the next multiple, by less than ALIGNMENT.
LEMMA Aligned ==
    ASSUME NEW a \in Nat
    PROVE  /\ ALIGN(a) \in Nat /\ ALIGN(a) % ALIGNMENT = 0
           /\ a + MINOR + ALIGNMENT <= ALIGN(a)
           /\ ALIGN(a) < a + MINOR + ALIGNMENT + ALIGNMENT
<1> DEFINE p == a + MINOR + ALIGNMENT
           r == p % ALIGNMENT
           q == p \div ALIGNMENT
           up == ALIGNMENT * (q + 1)
<1>1. ALIGNMENT \in Nat \ {0} /\ MINOR \in Nat
  BY Units
<1>2. p \in Nat
  BY <1>1
<1>3. ALIGN(a) = p + (IF r = 0 THEN 0 ELSE ALIGNMENT - r)
  BY DEF ALIGN, ALIGN_INFO
<1> HIDE DEF p
<1>4. r \in 0 .. ALIGNMENT - 1 /\ q \in Nat /\ p = ALIGNMENT * q + r
  BY <1>1, <1>2, Division
<1> HIDE DEF q, r
<1>5. up = ALIGNMENT * q + ALIGNMENT /\ up \in Nat /\ up % ALIGNMENT = 0
  <2>1. \A x, y \in Nat : x * (y + 1) = x * y + x /\ x * (y + 1) \in Nat
    OBVIOUS
  <2>2. q + 1 \in Nat /\ 0 \in 0 .. ALIGNMENT - 1 /\ ALIGNMENT \in Nat
    BY <1>1, <1>4
  <2>3. up = ALIGNMENT * q + ALIGNMENT /\ up \in Nat
    BY <1>4, <2>1, <2>2, Zenon
  <2>4. (ALIGNMENT * (q + 1) + 0) % ALIGNMENT = 0
    BY <1>1, <2>2, DivisionUnique, Zenon
  <2>5. ALIGNMENT * (q + 1) + 0 = up
    BY <2>3
  <2>6. QED
    BY <2>3, <2>4, <2>5, Zenon
<1>6. CASE r = 0
  <2>1. ALIGN(a) = p
    BY <1>2, <1>3, <1>6
  <2>2. p % ALIGNMENT = 0
    BY <1>6 DEF r
  <2>3. QED
    BY <1>1, <1>2, <2>1, <2>2 DEF p
<1>7. CASE r # 0
  <2> DEFINE c == ALIGNMENT * q
  <2>1. c \in Nat
    <3>1. \A x, y \in Nat : x * y \in Nat
      OBVIOUS
    <3>2. QED
      BY <1>1, <1>4, <3>1
  <2>2. p = c + r /\ up = c + ALIGNMENT /\ up \in Nat /\ up % ALIGNMENT = 0
    BY <1>4, <1>5
  <2> HIDE DEF c, up
  <2>3. ALIGN(a) = up
    BY <1>1, <1>2, <1>3, <1>4, <1>7, <2>1, <2>2
  <2>4. p <= up /\ up < p + ALIGNMENT
    BY <1>1, <1>4, <1>7, <2>1, <2>2
  <2>5. QED
    BY <1>1, <2>2, <2>3, <2>4 DEF p
<1>8. QED
  BY <1>6, <1>7

\* A minor as its owner sees it.
BlockOf(m) == [addr |-> ALIGN(m.addr), len |-> m.req_size]
Blocks(h) == {BlockOf(m) : m \in Minors(h)}

\* The block of a minor lies between its header and its end.
LEMMA InsideMinor ==
    ASSUME NEW h, HeapInOrderOf(h), NEW x \in Minors(h)
    PROVE  /\ BlockOf(x).addr = ALIGN(x.addr) /\ BlockOf(x).len = x.req_size
           /\ BlockOf(x).len \in Request /\ BlockOf(x).len \in Nat /\ BlockOf(x).addr \in Nat
           /\ BlockOf(x).addr % ALIGNMENT = 0
           /\ x.addr \in Nat /\ x.size \in Nat
           /\ x.addr < BlockOf(x).addr
           /\ BlockOf(x).addr + BlockOf(x).len < x.addr + MINOR + x.size
<1>1. BlockOf(x).addr = ALIGN(x.addr) /\ BlockOf(x).len = x.req_size
  BY DEF BlockOf
<1>2. /\ x \in Minor /\ x.addr \in Nat /\ x.size \in Nat /\ SizeFor(x.req_size) <= x.size
      /\ x.req_size \in Request
  BY MinorsOfHeap DEF HeapInOrderOf, Minor
<1>3. /\ ALIGN(x.addr) \in Nat /\ ALIGN(x.addr) % ALIGNMENT = 0
      /\ x.addr + MINOR + ALIGNMENT <= ALIGN(x.addr)
      /\ ALIGN(x.addr) < x.addr + MINOR + ALIGNMENT + ALIGNMENT
  BY <1>2, Aligned
<1>4. /\ x.req_size \in Nat /\ SizeFor(x.req_size) = x.req_size + ALIGNMENT + ALIGNMENT
      /\ ALIGNMENT \in Nat /\ ALIGNMENT > 0 /\ MINOR \in Nat
  BY <1>2, Units
<1> DEFINE b == ALIGN(x.addr)
           u == x.addr
           s == x.size
           r == x.req_size
<1>5. /\ b \in Nat /\ u \in Nat /\ s \in Nat /\ r \in Nat /\ ALIGNMENT \in Nat /\ MINOR \in Nat
      /\ r + ALIGNMENT + ALIGNMENT <= s /\ u + MINOR + ALIGNMENT <= b /\ ALIGNMENT > 0
      /\ b < u + MINOR + ALIGNMENT + ALIGNMENT
  BY <1>2, <1>3, <1>4
<1> HIDE DEF b, u, s, r
<1>6. u < b /\ b + r < u + MINOR + s
  BY <1>5
<1>7. QED
  BY <1>1, <1>2, <1>3, <1>4, <1>6 DEF b, u, s, r

\* Different minors are different blocks, and apart.
LEMMA BlocksApart ==
    ASSUME NEW h, HeapInOrderOf(h), NEW x \in Minors(h), NEW y \in Minors(h), x # y
    PROVE  Abstract!Disjoint(BlockOf(x), BlockOf(y)) /\ BlockOf(x) # BlockOf(y)
<1> DEFINE b == BlockOf(x).addr
           c == BlockOf(y).addr
           k == BlockOf(x).len
           l == BlockOf(y).len
           u == x.addr
           v == y.addr
           s == x.size
           t == y.size
<1>1. b \in Nat /\ k \in Nat /\ u \in Nat /\ s \in Nat /\ u < b /\ b + k < u + MINOR + s
  BY InsideMinor
<1>2. c \in Nat /\ l \in Nat /\ v \in Nat /\ t \in Nat /\ v < c /\ c + l < v + MINOR + t
  BY InsideMinor
<1>3. Clear(x, y)
  BY MinorsOfHeap DEF HeapInOrderOf
<1>4. u + MINOR + s <= v \/ v + MINOR + t <= u
  BY <1>3 DEF Clear
<1>5. MINOR \in Nat
  BY Units
<1> HIDE DEF b, c, k, l, u, v, s, t
<1>6. b + k < c \/ c + l < b
  BY <1>1, <1>2, <1>4, <1>5
<1>7. b + k <= c \/ c + l <= b
  BY <1>1, <1>2, <1>6
<1>8. b # c
  BY <1>1, <1>2, <1>6
<1>9. QED
  BY <1>7, <1>8 DEF Abstract!Disjoint, b, c, k, l

\* One more minor is one more block.
LEMMA MoreIsAlloc ==
    ASSUME HeapInOrderOf(heap), HeapInOrderOf(heap'), NEW m, m \notin Minors(heap),
           Minors(heap') = Minors(heap) \cup {m}
    PROVE  BlockOf(m) \in blocksBar' /\ Abstract!Alloc(BlockOf(m))
<1> DEFINE b == BlockOf(m)
<1>1. blocksBar = Blocks(heap) /\ blocksBar' = Blocks(heap')
  BY DEF blocksBar, Blocks, BlockOf
<1>2. m \in Minors(heap') /\ Minors(heap) \subseteq Minors(heap')
  OBVIOUS
<1>3. b.len \in Request /\ b.addr % ALIGNMENT = 0
  BY <1>2, InsideMinor
<1>4. \A c \in Blocks(heap) : Abstract!Disjoint(b, c)
  <2>1. SUFFICES ASSUME NEW x \in Minors(heap) PROVE Abstract!Disjoint(b, BlockOf(x))
    BY DEF Blocks
  <2>2. x # m /\ x \in Minors(heap')
    BY <1>2
  <2>3. QED
    BY <1>2, <2>2, BlocksApart
<1>5. Blocks(heap') = Blocks(heap) \cup {b}
  BY DEF Blocks
<1>6. QED
  BY <1>1, <1>3, <1>4, <1>5 DEF Abstract!Alloc

\* Without a minor its block is gone, and no other.
LEMMA LessIsGone ==
    ASSUME NEW h, HeapInOrderOf(h), NEW m \in Minors(h)
    PROVE  Blocks(h) \ {BlockOf(m)} = {BlockOf(x) : x \in Minors(h) \ {m}}
<1>1. \A x \in Minors(h) : x # m => BlockOf(x) # BlockOf(m)
  BY BlocksApart
<1>2. QED
  BY <1>1 DEF Blocks

\* One minor exchanged for another is a block that was resized.
LEMMA ExchangeIsResize ==
    ASSUME HeapInOrderOf(heap), HeapInOrderOf(heap'), NEW m \in Minors(heap), NEW c,
           Minors(heap') = (Minors(heap) \ {m}) \cup {c},
           c \notin Minors(heap) \ {m},
           c.req_size <= m.req_size => c.addr = m.addr
    PROVE  BlockOf(c) \in blocksBar' /\ BlockOf(m) \in blocksBar /\ Abstract!Resize(BlockOf(m), BlockOf(c))
<1> DEFINE b == BlockOf(m)
           d == BlockOf(c)
<1>1. blocksBar = Blocks(heap) /\ blocksBar' = Blocks(heap')
  BY DEF blocksBar, Blocks, BlockOf
<1>2. c \in Minors(heap')
  OBVIOUS
<1>3. d.len \in Request /\ d.addr % ALIGNMENT = 0
  BY <1>2, InsideMinor
<1>4. d.len <= b.len => d.addr = b.addr
  BY DEF BlockOf
<1>5. Blocks(heap) \ {b} = {BlockOf(x) : x \in Minors(heap) \ {m}}
  BY LessIsGone
<1>6. \A e \in Blocks(heap) \ {b} : Abstract!Disjoint(d, e)
  <2>1. SUFFICES ASSUME NEW x \in Minors(heap) \ {m} PROVE Abstract!Disjoint(d, BlockOf(x))
    BY <1>5
  <2>2. x # c /\ x \in Minors(heap')
    OBVIOUS
  <2>3. QED
    BY <1>2, <2>2, BlocksApart
<1>7. Blocks(heap') = (Blocks(heap) \ {b}) \cup {d}
  BY <1>5 DEF Blocks
<1>8. b \in Blocks(heap) /\ d \in Blocks(heap')
  BY <1>2 DEF Blocks
<1>9. QED
  BY <1>1, <1>3, <1>4, <1>6, <1>7, <1>8 DEF Abstract!Resize

\* Every call is a step of the allocator, or one that callers do not see.
LEMMA CallsImplement == HeapInv /\ [Next]_heap => [Abstract!Next]_blocksBar
<1>1. SUFFICES ASSUME HeapInOrderOf(heap), [Next]_heap PROVE [Abstract!Next]_blocksBar
  BY DEF HeapInv
<1>2. HeapInOrderOf(heap')
  BY <1>1, CallsKeepOrder DEF HeapInv
<1>3. blocksBar = Blocks(heap) /\ blocksBar' = Blocks(heap')
  BY DEF blocksBar, Blocks, BlockOf
<1>4. ASSUME NEW req_size \in Request, heap' = kmalloc(heap, req_size) PROVE [Abstract!Next]_blocksBar
  <2>1. CASE Minors(heap') = Minors(heap)
    BY <1>3, <2>1 DEF Blocks
  <2>2. CASE \E m \in Minor : m \notin Minors(heap) /\ Minors(heap') = Minors(heap) \cup {m}
    <3>1. PICK m \in Minor : m \notin Minors(heap) /\ Minors(heap') = Minors(heap) \cup {m}
      BY <2>2
    <3>2. BlockOf(m) \in blocksBar' /\ Abstract!Alloc(BlockOf(m))
      BY <1>1, <1>2, <3>1, MoreIsAlloc
    <3>3. QED
      BY <3>2 DEF Abstract!Next
  <2>3. QED
    BY <1>1, <1>4, <2>1, <2>2, CallOfKmalloc
<1>5. ASSUME NEW minor \in Minors(heap), heap' = kfree(heap, minor.addr) PROVE [Abstract!Next]_blocksBar
  <2>1. Minors(heap') = Minors(heap) \ {minor}
    BY <1>1, <1>5, CallOfKfree
  <2>2. Blocks(heap') = Blocks(heap) \ {BlockOf(minor)}
    BY <1>1, <2>1, LessIsGone DEF Blocks
  <2>3. BlockOf(minor) \in blocksBar /\ Abstract!Free(BlockOf(minor))
    BY <1>3, <2>2 DEF Abstract!Free, Blocks
  <2>4. QED
    BY <2>3 DEF Abstract!Next
<1>6. ASSUME NEW size \in Request \ {0}, NEW k \in DOMAIN heap.majors,
             NEW i \in DOMAIN heap.majors[k].minors,
             heap.majors[k].minors[i].req_size < size => CanGrow(size),
             heap' = krealloc(heap, k, i, size)
      PROVE  [Abstract!Next]_blocksBar
  <2> DEFINE m == heap.majors[k].minors[i]
  <2>1. k \in 1 .. Len(heap.majors) /\ heap.majors[k] \in Major
    BY <1>1, OfHeap DEF HeapInOrderOf
  <2>2. heap.majors[k].minors \in Seq(Minor)
    BY <2>1, OfMajor
  <2>3. i \in 1 .. Len(heap.majors[k].minors)
    BY <2>2
  <2>4. m.req_size < size => kmalloc(heap, size).inuse > heap.inuse
    BY <1>6 DEF CanGrow
  <2>5. size \in Request /\ m = heap.majors[k].minors[i]
    OBVIOUS
  <2> HIDE DEF m
  <2>6. /\ m \in Minors(heap)
        /\ \/ /\ size <= m.req_size
              /\ Minors(heap') = (Minors(heap) \ {m}) \cup {Less(m, size)}
           \/ \E c \in Minor : /\ c.req_size = size /\ c \notin Minors(heap) /\ m.req_size < size
                               /\ Minors(heap') = (Minors(heap) \cup {c}) \ {m}
    BY <1>1, <1>6, <2>1, <2>3, <2>4, <2>5, CallOfKrealloc
  <2>7. /\ m \in Minor /\ \A x \in Minors(heap) : x # m => x.addr # m.addr
    BY <1>1, <2>6, MinorsOfHeap DEF HeapInOrderOf
  <2>8. CASE Minors(heap') = (Minors(heap) \ {m}) \cup {Less(m, size)}
    <3>1. Less(m, size).addr = m.addr
      BY <2>7 DEF Less, Minor
    <3>2. Less(m, size) \notin Minors(heap) \ {m}
      BY <2>7, <3>1
    <3>3. /\ BlockOf(Less(m, size)) \in blocksBar' /\ BlockOf(m) \in blocksBar
          /\ Abstract!Resize(BlockOf(m), BlockOf(Less(m, size)))
      BY <1>1, <1>2, <2>6, <2>8, <3>1, <3>2, ExchangeIsResize
    <3>4. QED
      BY <3>3 DEF Abstract!Next
  <2>9. CASE \E c \in Minor : /\ c.req_size = size /\ c \notin Minors(heap) /\ m.req_size < size
                              /\ Minors(heap') = (Minors(heap) \cup {c}) \ {m}
    <3>1. PICK c \in Minor : /\ c.req_size = size /\ c \notin Minors(heap) /\ m.req_size < size
                             /\ Minors(heap') = (Minors(heap) \cup {c}) \ {m}
      BY <2>9
    <3>2. Minors(heap') = (Minors(heap) \ {m}) \cup {c} /\ c \notin Minors(heap) \ {m}
      BY <2>6, <3>1
    <3>3. ~ (c.req_size <= m.req_size)
      <4>1. size \in Nat /\ m.req_size \in Nat
        BY <2>5, <2>7, RequestAssumption DEF Minor
      <4>2. QED
        BY <3>1, <4>1
    <3>4. /\ BlockOf(c) \in blocksBar' /\ BlockOf(m) \in blocksBar
          /\ Abstract!Resize(BlockOf(m), BlockOf(c))
      BY <1>1, <1>2, <2>6, <3>2, <3>3, ExchangeIsResize
    <3>5. QED
      BY <3>4 DEF Abstract!Next
  <2>10. QED
    BY <2>6, <2>8, <2>9
<1>7. CASE UNCHANGED heap
  BY <1>3, <1>7
<1>8. QED
  BY <1>1, <1>4, <1>5, <1>6, <1>7 DEF Next

\* Whatever the order of kmalloc, kfree and krealloc: a returned pointer is
\* aligned, and its block meets no block that its owner has not freed.
THEOREM BlocksAreOwned == Spec => ImplementsAllocator
<1>1. Init => Abstract!Init
  BY DEF Init, Abstract!Init, blocksBar, Minors
<1>2. HeapInv /\ [Next]_heap => [Abstract!Next]_blocksBar
  BY CallsImplement
<1>3. QED
  BY <1>1, <1>2, HeapInvariance, PTL DEF Spec, ImplementsAllocator, Abstract!Spec
=============================================================================
