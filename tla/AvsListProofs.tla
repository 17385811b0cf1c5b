----------------------------- MODULE AvsListProofs -----------------------------
(***************************************************************************)
(* Proofs about AvsList, for any number of nodes: the pointers always      *)
(* spell out one sequence, and every call does to it what AvsSequence      *)
(* says.                                                                   *)
(***************************************************************************)
EXTENDS AvsList, LibraryLemmas, SequenceTheorems, FiniteSetTheorems, TLAPS

\* Following next from the first node spells out a sequence that is linked so.
LEMMA FollowingSpells ==
    ASSUME NEW first, NEW nxt, NEW s \in Seq(Node),
           Len(s) > 0 => s[1] = first,
           \A i \in 1 .. Len(s) - 1 : nxt[s[i]] = s[i + 1]
    PROVE  Following(first, nxt, Len(s)) = s
<1> DEFINE n == Len(s)
           walk == CHOOSE w : w = [i \in 1 .. n |-> IF i = 1 THEN first ELSE nxt[w[i - 1]]]
<1>0. n \in Nat /\ DOMAIN s = 1 .. n
  OBVIOUS
<1>1. s = [i \in 1 .. n |-> IF i = 1 THEN first ELSE nxt[s[i - 1]]]
  <2>1. ASSUME NEW i \in 1 .. n PROVE s[i] = IF i = 1 THEN first ELSE nxt[s[i - 1]]
    <3>1. CASE i = 1
      BY <3>1, <1>0
    <3>2. CASE i # 1
      <4>1. i - 1 \in 1 .. n - 1 /\ (i - 1) + 1 = i
        BY <3>2, <1>0
      <4>2. QED
        BY <4>1, <3>2
    <3>3. QED
      BY <3>1, <3>2
  <2>2. QED
    BY <1>0, <2>1
<1>2. walk = [i \in 1 .. n |-> IF i = 1 THEN first ELSE nxt[walk[i - 1]]]
  BY <1>1, Zenon
<1>3. Following(first, nxt, n) = [i \in 1 .. n |-> walk[i]]
  BY Zenon DEF Following
<1> HIDE DEF walk
<1>4. \A i \in 1 .. n : walk[i] = s[i]
  <2> DEFINE Wrong == {i \in 1 .. n : walk[i] # s[i]}
  <2>1. SUFFICES ASSUME Wrong # {} PROVE FALSE
    OBVIOUS
  <2>2. PICK i \in Wrong : \A j \in Wrong : i <= j
    <3>1. Wrong \in SUBSET Nat
      BY <1>0
    <3>2. QED
      BY <2>1, <3>1, LeastExists
  <2>3. walk[i] = IF i = 1 THEN first ELSE nxt[walk[i - 1]]
    BY <1>2
  <2>4. i # 1
    BY <2>3, <1>0
  <2>5. i - 1 \in 1 .. n - 1 /\ i - 1 \notin Wrong /\ (i - 1) + 1 = i
    BY <2>2, <2>4, <1>0
  <2>6. walk[i - 1] = s[i - 1] /\ nxt[s[i - 1]] = s[i]
    BY <2>5, <1>0
  <2>7. QED
    BY <2>3, <2>4, <2>6
<1>5. QED
  BY <1>0, <1>3, <1>4

\* The nodes of such a sequence are as many as its length.
LEMMA SpelledSize ==
    ASSUME NEW s \in Seq(Node), \A i, j \in 1 .. Len(s) : s[i] = s[j] => i = j
    PROVE  LET nodes == {s[i] : i \in 1 .. Len(s)}
           IN  /\ IsFiniteSet(nodes) /\ nodes \subseteq Node /\ Cardinality(nodes) = Len(s)
               /\ Len(s) <= Cardinality(Node)
               /\ nodes # Node => Len(s) < Cardinality(Node)
<1> DEFINE nodes == {s[i] : i \in 1 .. Len(s)}
<1>0. Len(s) \in Nat /\ s \in [1 .. Len(s) -> nodes] /\ nodes \in SUBSET Node
  OBVIOUS
<1>1. s \in Injection(1 .. Len(s), nodes)
  BY <1>0 DEF Injection, IsInjective
<1>2. s \in Bijection(1 .. Len(s), nodes)
  BY <1>0, <1>1 DEF Bijection, Surjection
<1>3. ExistsBijection(1 .. Len(s), nodes)
  BY <1>2, Zenon DEF ExistsBijection
<1>4. Cardinality(nodes) = Len(s)
  BY <1>0, <1>3, FS_CountingElements, Zenon
<1>5. /\ IsFiniteSet(nodes)
      /\ Cardinality(nodes) <= Cardinality(Node)
      /\ Cardinality(Node) = Cardinality(nodes) => Node = nodes
  BY <1>0, NodeFinite, FS_Subset, Zenon
<1>6. Cardinality(Node) \in Nat
  BY NodeFinite, FS_CardinalityType, Zenon
<1> HIDE DEF nodes
<1>7. nodes # Node => Len(s) < Cardinality(Node)
  BY <1>0, <1>4, <1>5, <1>6
<1>8. QED
  BY <1>0, <1>4, <1>5, <1>7 DEF nodes

\* What the two insertions write, whichever of their cases applies, when they
\* link a node in at position p of a chain, and what avs_list_remove writes to
\* take the node at position p out.
LinkedAt(p, node, s, first, final, nxt, prv, first2, final2, nxt2, prv2) ==
    /\ first2 = IF p = 1 THEN node ELSE first
    /\ final2 = IF p = Len(s) + 1 THEN node ELSE final
    /\ nxt2[node] = IF p = Len(s) + 1 THEN NULL ELSE s[p]
    /\ prv2[node] = IF p = 1 THEN NULL ELSE s[p - 1]
    /\ \A i \in 1 .. Len(s) : nxt2[s[i]] = IF i = p - 1 THEN node ELSE nxt[s[i]]
    /\ \A i \in 1 .. Len(s) : prv2[s[i]] = IF i = p THEN node ELSE prv[s[i]]

UnlinkedAt(p, s, first, final, nxt, prv, first2, final2, nxt2, prv2) ==
    /\ first2 = IF p # 1 THEN first ELSE IF Len(s) = 1 THEN NULL ELSE s[2]
    /\ final2 = IF p # Len(s) THEN final ELSE IF Len(s) = 1 THEN NULL ELSE s[Len(s) - 1]
    /\ \A i \in 1 .. Len(s) : i # p =>
          nxt2[s[i]] = IF i = p - 1 THEN (IF p = Len(s) THEN NULL ELSE s[p + 1]) ELSE nxt[s[i]]
    /\ \A i \in 1 .. Len(s) : i # p =>
          prv2[s[i]] = IF i = p + 1 THEN (IF p = 1 THEN NULL ELSE s[p - 1]) ELSE prv[s[i]]

\* A node linked in leaves a chain.
LEMMA ChainInserted ==
    ASSUME NEW s, NEW first, NEW final, NEW nxt, NEW prv, ChainOf(s, first, final, nxt, prv),
           NEW node \in Node, \A i \in 1 .. Len(s) : s[i] # node,
           NEW p \in 1 .. Len(s) + 1, NEW first2, NEW final2, NEW nxt2, NEW prv2,
           LinkedAt(p, node, s, first, final, nxt, prv, first2, final2, nxt2, prv2)
    PROVE  ChainOf(InsertAt(s, p, node), first2, final2, nxt2, prv2)
<1> USE DEF LinkedAt
<1>0. s \in Seq(Node) /\ Len(s) \in Nat /\ p \in Nat
  BY DEF ChainOf
<1>1. PICK t : t = InsertAt(s, p, node)
  OBVIOUS
<1>2. /\ t \in Seq(Node) /\ Len(t) = Len(s) + 1
      /\ \A i \in 1 .. Len(t) : t[i] = IF i < p THEN s[i] ELSE IF i = p THEN node ELSE s[i - 1]
  BY <1>0, <1>1, InsertedAt
<1>a. /\ \A i, j \in 1 .. Len(s) : s[i] = s[j] => i = j
      /\ \A i \in 1 .. Len(s) : nxt[s[i]] = IF i = Len(s) THEN NULL ELSE s[i + 1]
      /\ \A i \in 1 .. Len(s) : prv[s[i]] = IF i = 1 THEN NULL ELSE s[i - 1]
  BY DEF ChainOf
<1>3. ASSUME NEW i \in 1 .. Len(t), NEW j \in 1 .. Len(t), t[i] = t[j]
      PROVE  i = j
  <2>1. PICK k \in 1 .. Len(s) + 1, l \in 1 .. Len(s) + 1 : k = i /\ l = j
    BY <1>2
  <2>2. CASE k = p \/ l = p
    <3>1. t[p] = node
      BY <1>0, <1>2
    <3>2. ASSUME NEW m \in 1 .. Len(s) + 1, m # p PROVE t[m] # node
      <4>1. PICK x \in 1 .. Len(s) : x = IF m < p THEN m ELSE m - 1
        BY <1>0, <3>2
      <4>2. t[m] = s[x]
        BY <1>0, <1>2, <3>2, <4>1
      <4>3. QED
        BY <4>2
    <3>3. t[k] = t[l]
      BY <1>3, <2>1
    <3>4. k = p /\ l = p
      BY <2>2, <3>1, <3>2, <3>3
    <3>5. QED
      BY <2>1, <3>4
  <2>3. CASE k # p /\ l # p
    <3>1. PICK x \in 1 .. Len(s) : x = IF k < p THEN k ELSE k - 1
      BY <1>0, <2>3
    <3>2. PICK y \in 1 .. Len(s) : y = IF l < p THEN l ELSE l - 1
      BY <1>0, <2>3
    <3>3. t[i] = s[x] /\ t[j] = s[y]
      BY <1>0, <1>2, <2>1, <2>3, <3>1, <3>2
    <3>4. s[x] = s[y]
      BY <1>3, <3>3
    <3>5. x = y
      BY <1>a, <3>4, Zenon
    <3>6. QED
      BY <1>0, <2>1, <2>3, <3>1, <3>2, <3>5
  <2>4. QED
    BY <2>2, <2>3
<1>4. IF Len(t) = 0 THEN first2 = NULL /\ final2 = NULL ELSE first2 = t[1] /\ final2 = t[Len(t)]
  BY <1>0, <1>2 DEF ChainOf
<1>5. ASSUME NEW i \in 1 .. Len(t)
      PROVE  nxt2[t[i]] = IF i = Len(t) THEN NULL ELSE t[i + 1]
  <2>1. CASE i < p
    <3>1. i \in 1 .. Len(s) /\ i + 1 \in 1 .. Len(t) /\ t[i] = s[i] /\ i # Len(t)
      BY <1>0, <1>2, <2>1
    <3>2. CASE i = p - 1
      BY <1>0, <1>2, <3>1, <3>2
    <3>3. CASE i # p - 1
      <4>1. i + 1 < p /\ i # Len(s)
        BY <1>0, <2>1, <3>3
      <4>2. nxt2[s[i]] = s[i + 1]
        BY <1>a, <3>1, <3>3, <4>1
      <4>3. t[i + 1] = s[i + 1]
        BY <1>2, <3>1, <4>1
      <4>4. QED
        BY <3>1, <4>2, <4>3
    <3>4. QED
      BY <3>2, <3>3
  <2>2. CASE i = p
    <3>1. nxt2[t[i]] = IF p = Len(s) + 1 THEN NULL ELSE s[p]
      BY <1>0, <1>2, <2>2
    <3>2. i # Len(t) => i + 1 \in 1 .. Len(t) /\ ~ (i + 1 < p) /\ i + 1 # p /\ (i + 1) - 1 = p
      BY <1>0, <1>2, <2>2
    <3>3. QED
      BY <1>2, <2>2, <3>1, <3>2
  <2>3. CASE i > p
    <3>1. i - 1 \in 1 .. Len(s) /\ t[i] = s[i - 1] /\ i - 1 # p - 1
      BY <1>0, <1>2, <2>3
    <3>2. nxt2[t[i]] = IF i - 1 = Len(s) THEN NULL ELSE s[(i - 1) + 1]
      BY <1>a, <3>1
    <3>3. CASE i = Len(t)
      BY <1>2, <3>2, <3>3
    <3>4. CASE i # Len(t)
      <4>1. i + 1 \in 1 .. Len(t) /\ ~ (i + 1 < p) /\ i + 1 # p /\ (i + 1) - 1 = (i - 1) + 1 /\ i - 1 # Len(s)
        BY <1>0, <1>2, <2>3, <3>4
      <4>2. t[i + 1] = s[(i + 1) - 1]
        BY <1>2, <4>1
      <4>3. QED
        BY <3>2, <3>4, <4>1, <4>2
    <3>5. QED
      BY <3>3, <3>4
  <2>4. QED
    BY <1>0, <2>1, <2>2, <2>3
<1>6. ASSUME NEW i \in 1 .. Len(t)
      PROVE  prv2[t[i]] = IF i = 1 THEN NULL ELSE t[i - 1]
  <2>1. CASE i < p
    <3>1. i \in 1 .. Len(s) /\ t[i] = s[i] /\ i # p
      BY <1>0, <1>2, <2>1
    <3>2. prv2[t[i]] = IF i = 1 THEN NULL ELSE s[i - 1]
      BY <1>a, <3>1
    <3>3. i # 1 => i - 1 \in 1 .. Len(t) /\ i - 1 < p
      BY <1>0, <1>2, <2>1
    <3>4. QED
      BY <1>2, <3>2, <3>3
  <2>2. CASE i = p
    BY <1>0, <1>2, <2>2
  <2>3. CASE i > p
    <3>1. i - 1 \in 1 .. Len(s) /\ i - 1 \in 1 .. Len(t) /\ t[i] = s[i - 1] /\ i # 1
      BY <1>0, <1>2, <2>3
    <3>2. CASE i - 1 = p
      BY <1>0, <1>2, <3>1, <3>2
    <3>3. CASE i - 1 # p
      <4>1. i - 1 # 1 /\ ~ (i - 1 < p)
        BY <1>0, <2>3, <3>3
      <4>2. prv2[t[i]] = s[(i - 1) - 1]
        BY <1>a, <3>1, <3>3, <4>1
      <4>3. t[i - 1] = s[(i - 1) - 1]
        BY <1>2, <3>1, <3>3, <4>1
      <4>4. QED
        BY <3>1, <4>2, <4>3
    <3>4. QED
      BY <3>2, <3>3
  <2>4. QED
    BY <1>0, <2>1, <2>2, <2>3
<1>7. QED
  BY <1>1, <1>2, <1>3, <1>4, <1>5, <1>6 DEF ChainOf

\* So does a node taken out.
LEMMA ChainRemoved ==
    ASSUME NEW s, NEW first, NEW final, NEW nxt, NEW prv, ChainOf(s, first, final, nxt, prv),
           NEW p \in 1 .. Len(s), NEW first2, NEW final2, NEW nxt2, NEW prv2,
           UnlinkedAt(p, s, first, final, nxt, prv, first2, final2, nxt2, prv2)
    PROVE  ChainOf(RemoveAt(s, p), first2, final2, nxt2, prv2)
<1> USE DEF UnlinkedAt
<1>0. s \in Seq(Node) /\ Len(s) \in Nat /\ p \in Nat
  BY DEF ChainOf
<1>1. PICK t : t = RemoveAt(s, p)
  OBVIOUS
<1>2. /\ t \in Seq(Node) /\ Len(t) = Len(s) - 1
      /\ \A i \in 1 .. Len(t) : t[i] = IF i < p THEN s[i] ELSE s[i + 1]
  BY <1>0, <1>1, RemovedAt
<1>a. /\ \A i, j \in 1 .. Len(s) : s[i] = s[j] => i = j
      /\ \A i \in 1 .. Len(s) : nxt[s[i]] = IF i = Len(s) THEN NULL ELSE s[i + 1]
      /\ \A i \in 1 .. Len(s) : prv[s[i]] = IF i = 1 THEN NULL ELSE s[i - 1]
  BY DEF ChainOf
<1>3. ASSUME NEW i \in 1 .. Len(t), NEW j \in 1 .. Len(t), t[i] = t[j]
      PROVE  i = j
  <2>1. PICK x \in 1 .. Len(s) : x = IF i < p THEN i ELSE i + 1
    BY <1>0, <1>2
  <2>2. PICK y \in 1 .. Len(s) : y = IF j < p THEN j ELSE j + 1
    BY <1>0, <1>2
  <2>3. t[i] = s[x] /\ t[j] = s[y]
    BY <1>0, <1>2, <2>1, <2>2
  <2>a. s[x] = s[y]
    BY <1>3, <2>3
  <2>4. x = y
    BY <1>a, <2>a, Zenon
  <2>5. i \in Nat /\ j \in Nat
    BY <1>2
  <2>6. QED
    BY <1>0, <2>1, <2>2, <2>4, <2>5
<1>4. IF Len(t) = 0 THEN first2 = NULL /\ final2 = NULL ELSE first2 = t[1] /\ final2 = t[Len(t)]
  BY <1>0, <1>2 DEF ChainOf
<1>5. ASSUME NEW i \in 1 .. Len(t)
      PROVE  nxt2[t[i]] = IF i = Len(t) THEN NULL ELSE t[i + 1]
  <2>0. i \in Nat /\ i <= Len(s) - 1
    BY <1>0, <1>2
  <2>1. CASE i < p
    <3>1. i \in 1 .. Len(s) /\ t[i] = s[i] /\ i # p /\ i # Len(s)
      BY <1>0, <1>2, <2>0, <2>1
    <3>2. CASE i = p - 1
      <4>1. nxt2[t[i]] = IF p = Len(s) THEN NULL ELSE s[p + 1]
        BY <3>1, <3>2
      <4>2. p # Len(s) => i + 1 \in 1 .. Len(t) /\ ~ (i + 1 < p) /\ (i + 1) + 1 = p + 1 /\ i # Len(t)
        BY <1>0, <1>2, <2>0, <3>2
      <4>3. p = Len(s) => i = Len(t)
        BY <1>2, <3>2
      <4>4. QED
        BY <1>2, <4>1, <4>2, <4>3
    <3>3. CASE i # p - 1
      <4>1. i + 1 \in 1 .. Len(t) /\ i + 1 < p /\ i # Len(t)
        BY <1>0, <1>2, <2>0, <2>1, <3>3
      <4>2. nxt2[t[i]] = s[i + 1]
        BY <1>a, <3>1, <3>3
      <4>3. QED
        BY <1>2, <4>1, <4>2
    <3>4. QED
      BY <3>2, <3>3
  <2>2. CASE i >= p
    <3>1. i + 1 \in 1 .. Len(s) /\ t[i] = s[i + 1] /\ i + 1 # p /\ i + 1 # p - 1
      BY <1>0, <1>2, <2>0, <2>2
    <3>2. nxt2[t[i]] = IF i + 1 = Len(s) THEN NULL ELSE s[(i + 1) + 1]
      BY <1>a, <3>1
    <3>3. i = Len(t) <=> i + 1 = Len(s)
      BY <1>0, <1>2, <2>0
    <3>4. i # Len(t) => i + 1 \in 1 .. Len(t) /\ ~ (i + 1 < p)
      BY <1>0, <1>2, <2>0, <2>2
    <3>5. QED
      BY <1>2, <3>2, <3>3, <3>4
  <2>3. QED
    BY <1>0, <2>0, <2>1, <2>2
<1>6. ASSUME NEW i \in 1 .. Len(t)
      PROVE  prv2[t[i]] = IF i = 1 THEN NULL ELSE t[i - 1]
  <2>0. i \in Nat /\ i <= Len(s) - 1 /\ i >= 1
    BY <1>0, <1>2
  <2>1. CASE i < p
    <3>1. i \in 1 .. Len(s) /\ t[i] = s[i] /\ i # p /\ i # p + 1
      BY <1>0, <1>2, <2>0, <2>1
    <3>2. prv2[t[i]] = IF i = 1 THEN NULL ELSE s[i - 1]
      BY <1>a, <3>1
    <3>3. i # 1 => i - 1 \in 1 .. Len(t) /\ i - 1 < p
      BY <1>0, <1>2, <2>0, <2>1
    <3>4. QED
      BY <1>2, <3>2, <3>3
  <2>2. CASE i >= p
    <3>1. i + 1 \in 1 .. Len(s) /\ t[i] = s[i + 1] /\ i + 1 # p /\ i + 1 # 1
      BY <1>0, <1>2, <2>0, <2>2
    <3>2. CASE i = p
      <4>1. prv2[t[i]] = IF p = 1 THEN NULL ELSE s[p - 1]
        BY <3>1, <3>2
      <4>2. i # 1 => i - 1 \in 1 .. Len(t) /\ i - 1 < p
        BY <1>0, <1>2, <2>0, <3>2
      <4>3. QED
        BY <1>2, <3>2, <4>1, <4>2
    <3>3. CASE i # p
      <4>1. i - 1 \in 1 .. Len(t) /\ ~ (i - 1 < p) /\ (i - 1) + 1 = (i + 1) - 1 /\ i # 1 /\ i + 1 # p + 1
        BY <1>0, <1>2, <2>0, <2>2, <3>3
      <4>2. prv2[t[i]] = s[(i + 1) - 1]
        BY <1>a, <3>1, <4>1
      <4>3. QED
        BY <1>2, <4>1, <4>2
    <3>4. QED
      BY <3>2, <3>3
  <2>3. QED
    BY <1>0, <2>0, <2>1, <2>2
<1>7. QED
  BY <1>1, <1>2, <1>3, <1>4, <1>5, <1>6 DEF ChainOf

\* The data of a sequence of nodes.
DataOf(s, dat) == [i \in 1 .. Len(s) |-> dat[s[i]]]

\* With one node more it is the data with one element more.
LEMMA DataInserted ==
    ASSUME NEW s \in Seq(Node), NEW node \in Node, NEW p \in 1 .. Len(s) + 1,
           NEW dat \in [Node -> Data \cup {NULL}], NEW dat2, NEW d \in Data,
           dat2[node] = d, \A i \in 1 .. Len(s) : dat2[s[i]] = dat[s[i]]
    PROVE  DataOf(InsertAt(s, p, node), dat2) = InsertAt(DataOf(s, dat), p, d)
<1>0. Len(s) \in Nat /\ p \in Nat
  OBVIOUS
<1>1. PICK t : t = InsertAt(s, p, node)
  OBVIOUS
<1>2. /\ Len(t) = Len(s) + 1
      /\ \A i \in 1 .. Len(s) + 1 : t[i] = IF i < p THEN s[i] ELSE IF i = p THEN node ELSE s[i - 1]
  BY <1>1, InsertedAt
<1>3. PICK c : c = [i \in 1 .. Len(s) |-> dat[s[i]]]
  OBVIOUS
<1>4. c \in Seq(Data \cup {NULL}) /\ Len(c) = Len(s) /\ \A i \in 1 .. Len(s) : c[i] = dat[s[i]]
  <2>1. \A i \in 1 .. Len(s) : dat[s[i]] \in Data \cup {NULL}
    OBVIOUS
  <2>2. QED
    BY <1>0, <1>3, <2>1
<1>5. PICK c2 : c2 = InsertAt(c, p, d)
  OBVIOUS
<1>6. /\ c2 \in Seq(Data \cup {NULL}) /\ Len(c2) = Len(s) + 1
      /\ \A i \in 1 .. Len(s) + 1 : c2[i] = IF i < p THEN c[i] ELSE IF i = p THEN d ELSE c[i - 1]
  <2>1. p \in 1 .. Len(c) + 1 /\ d \in Data \cup {NULL}
    BY <1>4
  <2>2. QED
    BY <1>4, <1>5, <2>1, InsertedAt
<1>7. ASSUME NEW i \in 1 .. Len(s) + 1 PROVE dat2[t[i]] = c2[i]
  <2>1. CASE i < p
    BY <1>0, <1>2, <1>4, <1>6, <2>1
  <2>2. CASE i = p
    BY <1>0, <1>2, <1>6, <2>2
  <2>3. CASE i > p
    <3>1. i - 1 \in 1 .. Len(s) /\ ~ (i < p) /\ i # p
      BY <1>0, <2>3
    <3>2. QED
      BY <1>2, <1>4, <1>6, <3>1
  <2>4. QED
    BY <1>0, <2>1, <2>2, <2>3
<1>8. c2 = [i \in 1 .. Len(t) |-> dat2[t[i]]]
  BY <1>0, <1>2, <1>6, <1>7
<1>9. QED
  BY <1>1, <1>3, <1>5, <1>8 DEF DataOf

\* With one node less, one element less.
LEMMA DataRemoved ==
    ASSUME NEW s \in Seq(Node), NEW p \in 1 .. Len(s), NEW dat \in [Node -> Data \cup {NULL}]
    PROVE  DataOf(RemoveAt(s, p), dat) = RemoveAt(DataOf(s, dat), p)
<1>0. Len(s) \in Nat /\ p \in Nat
  OBVIOUS
<1>1. PICK t : t = RemoveAt(s, p)
  OBVIOUS
<1>2. /\ Len(t) = Len(s) - 1
      /\ \A i \in 1 .. Len(s) - 1 : t[i] = IF i < p THEN s[i] ELSE s[i + 1]
  BY <1>1, RemovedAt
<1>3. PICK c : c = [i \in 1 .. Len(s) |-> dat[s[i]]]
  OBVIOUS
<1>4. c \in Seq(Data \cup {NULL}) /\ Len(c) = Len(s) /\ \A i \in 1 .. Len(s) : c[i] = dat[s[i]]
  <2>1. \A i \in 1 .. Len(s) : dat[s[i]] \in Data \cup {NULL}
    OBVIOUS
  <2>2. QED
    BY <1>0, <1>3, <2>1
<1>5. PICK c2 : c2 = RemoveAt(c, p)
  OBVIOUS
<1>6. /\ c2 \in Seq(Data \cup {NULL}) /\ Len(c2) = Len(s) - 1
      /\ \A i \in 1 .. Len(s) - 1 : c2[i] = IF i < p THEN c[i] ELSE c[i + 1]
  <2>1. p \in 1 .. Len(c)
    BY <1>4
  <2>2. QED
    BY <1>4, <1>5, <2>1, RemovedAt
<1>7. ASSUME NEW i \in 1 .. Len(s) - 1 PROVE dat[t[i]] = c2[i]
  <2>0. i \in 1 .. Len(s) /\ i + 1 \in 1 .. Len(s)
    BY <1>0
  <2>1. CASE i < p
    BY <1>2, <1>4, <1>6, <2>0, <2>1, Zenon
  <2>2. CASE ~ (i < p)
    BY <1>2, <1>4, <1>6, <2>0, <2>2, Zenon
  <2>3. QED
    BY <2>1, <2>2
<1>8. c2 = [i \in 1 .. Len(t) |-> dat[t[i]]]
  <2>1. c2 = [i \in 1 .. Len(c2) |-> c2[i]]
    BY <1>6
  <2>2. Len(c2) = Len(s) - 1 /\ Len(t) = Len(s) - 1
    BY <1>2, <1>6, Zenon
  <2>3. QED
    BY <1>7, <2>1, <2>2, Zenon
<1>9. QED
  BY <1>1, <1>3, <1>5, <1>8 DEF DataOf

-----------------------------------------------------------------------------
(***************************************************************************)
(* What a call that inserts and a call that removes come to: the pointers  *)
(* still spell out a sequence, and its data has one element more or less.  *)
(***************************************************************************)
WellFormed ==
    /\ next \in [Node -> Node \cup {NULL}]
    /\ prev \in [Node -> Node \cup {NULL}]
    /\ data \in [Node -> Data \cup {NULL}]
    /\ \E s \in Seq(Node) : Spells(s)

Inserted(p, d) ==
    /\ WellFormed'
    /\ Len(contentsBar) < Cardinality(Node)
    /\ contentsBar' = InsertAt(contentsBar, p, d)

Removed(p) ==
    /\ WellFormed'
    /\ contentsBar' = RemoveAt(contentsBar, p)

\* The walk of the loops visits the sequence, and what a call takes to be the
\* contents is its data.
LEMMA Walked ==
    \A s \in Seq(Node) : Spells(s) =>
       /\ Forward = s
       /\ contentsBar = DataOf(s, data)
       /\ \A i \in 1 .. Len(s) : Position(s[i]) = i - 1
<1>1. SUFFICES ASSUME NEW s \in Seq(Node), Spells(s)
               PROVE  /\ Forward = s
                      /\ contentsBar = DataOf(s, data)
                      /\ \A i \in 1 .. Len(s) : Position(s[i]) = i - 1
  OBVIOUS
<1>2. Len(s) \in Nat /\ size = Len(s)
  BY <1>1 DEF Spells
<1>3. Len(s) > 0 => s[1] = head
  BY <1>1, <1>2 DEF Spells, ChainOf
<1>4. ASSUME NEW i \in 1 .. Len(s) - 1 PROVE next[s[i]] = s[i + 1]
  BY <1>1, <1>2 DEF Spells, ChainOf
<1>5. Forward = s
  BY <1>2, <1>3, <1>4, FollowingSpells DEF Forward
<1>6. ASSUME NEW i \in 1 .. Len(s) PROVE Position(s[i]) = i - 1
  <2>1. \A j \in 1 .. Len(s) : s[i] = s[j] => i = j
    BY <1>1 DEF Spells, ChainOf
  <2>2. (CHOOSE j \in 1 .. Len(s) : s[j] = s[i]) = i
    BY <2>1
  <2>3. QED
    BY <1>2, <1>5, <2>2 DEF Position
<1>7. QED
  BY <1>2, <1>5, <1>6 DEF contentsBar, DataOf

\* The rest of the inductive invariant follows from the sequence.
LEMMA ListInvFrom == WellFormed /\ last[3] \in Data \cup {NULL} => ListInv
<1>1. SUFFICES ASSUME WellFormed, last[3] \in Data \cup {NULL} PROVE ListInv
  BY <1>1
<1>2. PICK s \in Seq(Node) : Spells(s)
  BY <1>1 DEF WellFormed
<1>3. Len(s) \in Nat /\ Len(s) <= Cardinality(Node)
  <2>1. \A i, j \in 1 .. Len(s) : s[i] = s[j] => i = j
    BY <1>2 DEF Spells, ChainOf
  <2>2. Len(s) <= Cardinality(Node)
    BY <2>1, SpelledSize, Zenon
  <2>3. QED
    BY <2>2
<1>4. {head, tail} \subseteq Node \cup {NULL} /\ allocated \subseteq Node
  BY <1>2, <1>3 DEF Spells, ChainOf
<1>5. size \in 0 .. Cardinality(Node)
  <2>1. Cardinality(Node) \in Nat
    BY NodeFinite, FS_CardinalityType, Zenon
  <2>2. QED
    BY <1>2, <1>3, <2>1 DEF Spells
<1>6. TypeOK
  BY <1>1, <1>4, <1>5 DEF TypeOK, WellFormed
<1>7. Forward = s
  BY <1>2, Walked
<1>8. QED
  BY <1>2, <1>6, <1>7 DEF ListInv

\* The same of the state after a step.
LEMMA WalkedNext ==
    (\A s \in Seq(Node) : Spells(s) =>
       /\ Forward = s
       /\ contentsBar = DataOf(s, data)
       /\ \A i \in 1 .. Len(s) : Position(s[i]) = i - 1)'
  BY Walked, PTL

\* A step that links a new node in at position p inserts its data there.
LEMMA InsertionStep ==
    ASSUME WellFormed, NEW s \in Seq(Node), Spells(s),
           NEW node \in Node, NEW d \in Data, NewNode(node, d),
           NEW p \in 1 .. Len(s) + 1,
           next' \in [Node -> Node \cup {NULL}], prev' \in [Node -> Node \cup {NULL}],
           LinkedAt(p, node, s, head, tail, next, prev, head', tail', next', prev')
    PROVE  Inserted(p, d)
<1>0. Len(s) \in Nat /\ size = Len(s) /\ ChainOf(s, head, tail, next, prev)
  BY DEF Spells
<1>1. node \notin allocated /\ allocated = {s[i] : i \in 1 .. Len(s)}
  BY DEF NewNode, Spells
<1>2. \A i \in 1 .. Len(s) : s[i] # node
  BY <1>1
<1>3. PICK t : t = InsertAt(s, p, node)
  OBVIOUS
<1>4. /\ t \in Seq(Node) /\ Len(t) = Len(s) + 1
      /\ \A i \in 1 .. Len(s) + 1 : t[i] = IF i < p THEN s[i] ELSE IF i = p THEN node ELSE s[i - 1]
  <2>1. /\ InsertAt(s, p, node) \in Seq(Node) /\ Len(InsertAt(s, p, node)) = Len(s) + 1
        /\ \A i \in 1 .. Len(s) + 1 :
              InsertAt(s, p, node)[i] = IF i < p THEN s[i] ELSE IF i = p THEN node ELSE s[i - 1]
    BY InsertedAt
  <2>2. QED
    BY <1>3, <2>1, Zenon
<1>5. ChainOf(t, head', tail', next', prev')
  <2>1. ChainOf(InsertAt(s, p, node), head', tail', next', prev')
    BY <1>0, <1>2, ChainInserted, Zenon
  <2>2. QED
    BY <1>3, <2>1
<1>6. allocated' = {t[i] : i \in 1 .. Len(t)}
  <2>1. allocated' = allocated \cup {node}
    BY DEF NewNode
  <2>2. ASSUME NEW i \in 1 .. Len(s) + 1 PROVE t[i] \in allocated'
    <3>1. CASE i < p
      BY <1>0, <1>1, <1>4, <2>1, <3>1
    <3>2. CASE i = p
      BY <1>4, <2>1, <3>2
    <3>3. CASE i > p
      <4>1. i - 1 \in 1 .. Len(s) /\ ~ (i < p) /\ i # p
        BY <1>0, <3>3
      <4>2. QED
        BY <1>1, <1>4, <2>1, <4>1
    <3>4. QED
      BY <3>1, <3>2, <3>3
  <2>3. ASSUME NEW i \in 1 .. Len(s) PROVE \E j \in 1 .. Len(s) + 1 : s[i] = t[j]
    <3>1. CASE i < p
      <4>1. i \in 1 .. Len(s) + 1 /\ s[i] = t[i]
        BY <1>0, <1>4, <3>1
      <4>2. QED
        BY <4>1
    <3>2. CASE ~ (i < p)
      <4>1. i + 1 \in 1 .. Len(s) + 1 /\ ~ (i + 1 < p) /\ i + 1 # p /\ (i + 1) - 1 = i
        BY <1>0, <3>2
      <4>2. s[i] = t[i + 1]
        BY <1>4, <4>1
      <4>3. QED
        BY <4>1, <4>2
    <3>3. QED
      BY <3>1, <3>2
  <2>4. node = t[p]
    BY <1>0, <1>4
  <2>5. \A x \in allocated' : \E j \in 1 .. Len(s) + 1 : x = t[j]
    BY <1>1, <2>1, <2>3, <2>4
  <2>6. QED
    BY <1>4, <2>2, <2>5
<1>7. size' = Len(t)
  BY <1>0, <1>4 DEF NewNode
<1>8. Spells(t)'
  BY <1>5, <1>6, <1>7 DEF Spells
<1>9. data \in [Node -> Data \cup {NULL}] /\ data' = [data EXCEPT ![node] = d]
  BY DEF WellFormed, NewNode
<1>10. data' \in [Node -> Data \cup {NULL}] /\ data'[node] = d /\ \A i \in 1 .. Len(s) : data'[s[i]] = data[s[i]]
  BY <1>2, <1>9
<1>11. WellFormed'
  BY <1>4, <1>8, <1>10 DEF WellFormed
<1>12. Len(contentsBar) < Cardinality(Node)
  <2>1. contentsBar = DataOf(s, data)
    BY Walked
  <2>2. Len(contentsBar) = Len(s)
    BY <1>0, <2>1 DEF DataOf
  <2>3. \A i, j \in 1 .. Len(s) : s[i] = s[j] => i = j
    BY <1>0 DEF ChainOf
  <2>4. {s[i] : i \in 1 .. Len(s)} # Node
    BY <1>1
  <2>5. Len(s) < Cardinality(Node)
    BY <2>3, <2>4, SpelledSize
  <2>6. QED
    BY <2>2, <2>5
<1>13. contentsBar' = InsertAt(contentsBar, p, d)
  <2>1. contentsBar = DataOf(s, data)
    BY Walked
  <2>2. contentsBar' = DataOf(t, data')
    BY <1>4, <1>8, WalkedNext
  <2>3. DataOf(InsertAt(s, p, node), data') = InsertAt(DataOf(s, data), p, d)
    <3>1. data \in [Node -> Data \cup {NULL}]
      BY <1>9
    <3>2. data'[node] = d
      BY <1>10
    <3>3. \A i \in 1 .. Len(s) : data'[s[i]] = data[s[i]]
      BY <1>10
    <3>4. QED
      BY <3>1, <3>2, <3>3, DataInserted
  <2>4. QED
    BY <1>3, <2>1, <2>2, <2>3
<1>14. QED
  BY <1>11, <1>12, <1>13 DEF Inserted

\* A step that takes the node at position p out removes its data there.
LEMMA RemovalStep ==
    ASSUME WellFormed, NEW s \in Seq(Node), Spells(s), NEW p \in 1 .. Len(s),
           next' \in [Node -> Node \cup {NULL}], prev' \in [Node -> Node \cup {NULL}],
           UnlinkedAt(p, s, head, tail, next, prev, head', tail', next', prev'),
           size' = size - 1, avs_free(s[p]), UNCHANGED data
    PROVE  Removed(p)
<1>0. Len(s) \in Nat /\ size = Len(s) /\ ChainOf(s, head, tail, next, prev)
  BY DEF Spells
<1>1. allocated' = allocated \ {s[p]} /\ allocated = {s[i] : i \in 1 .. Len(s)}
  BY DEF avs_free, Spells
<1>2. \A i, j \in 1 .. Len(s) : s[i] = s[j] => i = j
  BY <1>0 DEF ChainOf
<1>3. PICK t : t = RemoveAt(s, p)
  OBVIOUS
<1>4. /\ t \in Seq(Node) /\ Len(t) = Len(s) - 1
      /\ \A i \in 1 .. Len(s) - 1 : t[i] = IF i < p THEN s[i] ELSE s[i + 1]
  BY <1>3, RemovedAt
<1>5. ChainOf(t, head', tail', next', prev')
  <2>1. ChainOf(RemoveAt(s, p), head', tail', next', prev')
    BY <1>0, ChainRemoved, Zenon
  <2>2. QED
    BY <1>3, <2>1
<1>6. allocated' = {t[i] : i \in 1 .. Len(t)}
  <2>1. ASSUME NEW i \in 1 .. Len(s) - 1 PROVE t[i] \in allocated'
    <3>1. PICK x \in 1 .. Len(s) : x = IF i < p THEN i ELSE i + 1
      BY <1>0
    <3>2. t[i] = s[x] /\ x # p
      BY <1>0, <1>4, <3>1
    <3>3. s[x] # s[p]
      BY <1>2, <3>2, Zenon
    <3>4. QED
      BY <1>1, <3>2, <3>3
  <2>2. ASSUME NEW x \in allocated' PROVE \E j \in 1 .. Len(s) - 1 : x = t[j]
    <3>1. PICK i \in 1 .. Len(s) : x = s[i] /\ i # p
      BY <1>1
    <3>2. PICK j \in 1 .. Len(s) - 1 : j = IF i < p THEN i ELSE i - 1
      BY <1>0, <3>1
    <3>3. x = t[j]
      BY <1>0, <1>4, <3>1, <3>2
    <3>4. QED
      BY <3>3
  <2>3. QED
    BY <1>4, <2>1, <2>2
<1>7. size' = Len(t)
  BY <1>0, <1>4
<1>8. Spells(t)'
  BY <1>5, <1>6, <1>7 DEF Spells
<1>9. data \in [Node -> Data \cup {NULL}] /\ data' = data
  BY DEF WellFormed
<1>10. WellFormed'
  BY <1>4, <1>8, <1>9 DEF WellFormed
<1>11. contentsBar' = RemoveAt(contentsBar, p)
  <2>1. contentsBar = DataOf(s, data)
    BY Walked
  <2>2. contentsBar' = DataOf(t, data')
    BY <1>4, <1>8, WalkedNext
  <2>3. DataOf(RemoveAt(s, p), data) = RemoveAt(DataOf(s, data), p)
    BY <1>9, DataRemoved
  <2>4. QED
    BY <1>3, <1>9, <2>1, <2>2, <2>3
<1>12. QED
  BY <1>10, <1>11 DEF Removed

-----------------------------------------------------------------------------
\* avs_list_insert_before inserts where the node is, or into an empty list.
LEMMA InsertsBefore ==
    ASSUME WellFormed, NEW s \in Seq(Node), Spells(s), NEW b, NEW d \in Data,
           NEW p \in 1 .. Len(s) + 1,
           b = IF Len(s) = 0 THEN NULL ELSE s[p], p <= Len(s) \/ Len(s) = 0,
           avs_list_insert_before(b, d)
    PROVE  Inserted(p, d)
<1>0. /\ Len(s) \in Nat /\ p \in Nat
      /\ next \in [Node -> Node \cup {NULL}] /\ prev \in [Node -> Node \cup {NULL}]
  BY DEF WellFormed
<1>1. /\ \A i, j \in 1 .. Len(s) : s[i] = s[j] => i = j
      /\ IF Len(s) = 0 THEN head = NULL /\ tail = NULL ELSE head = s[1] /\ tail = s[Len(s)]
      /\ \A i \in 1 .. Len(s) : prev[s[i]] = IF i = 1 THEN NULL ELSE s[i - 1]
      /\ allocated = {s[i] : i \in 1 .. Len(s)}
  BY DEF Spells, ChainOf
<1>2. PICK node \in Node :
        /\ NewNode(node, d)
        /\ \/ /\ b = NULL
              /\ head' = node /\ tail' = node
              /\ next' = [next EXCEPT ![node] = NULL]
              /\ prev' = [prev EXCEPT ![node] = NULL]
           \/ /\ b # NULL /\ b = head
              /\ head' = node
              /\ tail' = IF tail = NULL THEN node ELSE tail
              /\ next' = [next EXCEPT ![node] = b]
              /\ prev' = [prev EXCEPT ![node] = NULL, ![b] = node]
           \/ /\ b # NULL /\ b # head
              /\ next' = [next EXCEPT ![node] = b, ![prev[b]] = node]
              /\ prev' = [prev EXCEPT ![node] = prev[b], ![b] = node]
              /\ UNCHANGED <<head, tail>>
  BY DEF avs_list_insert_before
<1>3. \A i \in 1 .. Len(s) : s[i] # node /\ s[i] \in Node /\ s[i] # NULL
  <2>1. \A i \in 1 .. Len(s) : s[i] \in Node /\ s[i] \in allocated
    BY <1>1
  <2>2. node \notin allocated
    BY <1>2 DEF NewNode
  <2>3. QED
    BY <2>1, <2>2, NodeAssumption
<1>4. ASSUME next' \in [Node -> Node \cup {NULL}], prev' \in [Node -> Node \cup {NULL}],
             LinkedAt(p, node, s, head, tail, next, prev, head', tail', next', prev')
      PROVE  Inserted(p, d)
  BY <1>2, <1>4, InsertionStep, Zenon
<1>5. CASE Len(s) = 0
  <2>1. b = NULL /\ p = 1
    BY <1>0, <1>5
  <2>2. /\ head' = node /\ tail' = node
        /\ next' = [next EXCEPT ![node] = NULL]
        /\ prev' = [prev EXCEPT ![node] = NULL]
    BY <1>2, <2>1
  <2>3. next' \in [Node -> Node \cup {NULL}] /\ prev' \in [Node -> Node \cup {NULL}]
    BY <1>0, <2>2
  <2>4. LinkedAt(p, node, s, head, tail, next, prev, head', tail', next', prev')
    BY <1>0, <1>5, <2>1, <2>2 DEF LinkedAt
  <2>5. QED
    BY <1>4, <2>3, <2>4
<1>6. CASE Len(s) # 0 /\ p = 1
  <2>1. b = s[1] /\ b = head /\ b # NULL /\ b \in Node /\ tail # NULL /\ b # node
    BY <1>0, <1>1, <1>3, <1>6
  <2>2. /\ head' = node /\ tail' = tail
        /\ next' = [next EXCEPT ![node] = b]
        /\ prev' = [prev EXCEPT ![node] = NULL, ![b] = node]
    BY <1>2, <2>1
  <2>3. next' \in [Node -> Node \cup {NULL}] /\ prev' \in [Node -> Node \cup {NULL}]
    BY <1>0, <2>1, <2>2
  <2>4. \A i \in 1 .. Len(s) : i # 1 => s[i] # b
    <3>1. 1 \in 1 .. Len(s)
      BY <1>0, <1>6
    <3>2. QED
      BY <1>1, <2>1, <3>1, Zenon
  <2>5. next'[node] = b /\ prev'[node] = NULL
    BY <1>0, <2>1, <2>2
  <2>6. ASSUME NEW i \in 1 .. Len(s) PROVE next'[s[i]] = next[s[i]] /\ i # p - 1
    <3>1. s[i] \in Node /\ s[i] # node
      BY <1>3
    <3>2. next'[s[i]] = next[s[i]]
      BY <1>0, <2>2, <3>1
    <3>3. QED
      BY <1>0, <1>6, <3>2
  <2>7. ASSUME NEW i \in 1 .. Len(s) PROVE prev'[s[i]] = IF i = p THEN node ELSE prev[s[i]]
    <3>1. CASE i = 1
      BY <1>0, <1>3, <1>6, <2>1, <2>2, <3>1
    <3>2. CASE i # 1
      BY <1>0, <1>3, <1>6, <2>2, <2>4, <3>2
    <3>3. QED
      BY <3>1, <3>2
  <2>8. LinkedAt(p, node, s, head, tail, next, prev, head', tail', next', prev')
    BY <1>0, <1>6, <2>1, <2>2, <2>5, <2>6, <2>7 DEF LinkedAt
  <2>9. QED
    BY <1>4, <2>3, <2>8
<1>7. CASE Len(s) # 0 /\ p # 1
  <2>0. p \in 1 .. Len(s) /\ p - 1 \in 1 .. Len(s) /\ p # Len(s) + 1
    BY <1>0, <1>7
  <2>1. b = s[p] /\ b # NULL /\ b \in Node /\ b # node /\ prev[b] = s[p - 1]
    BY <1>1, <1>3, <1>7, <2>0
  <2>2. b # head
    BY <1>0, <1>1, <1>7, <2>0, <2>1
  <2>3. /\ next' = [next EXCEPT ![node] = b, ![s[p - 1]] = node]
        /\ prev' = [prev EXCEPT ![node] = s[p - 1], ![b] = node]
        /\ head' = head /\ tail' = tail
    BY <1>2, <2>1, <2>2
  <2>4. s[p - 1] \in Node /\ s[p - 1] # node
    BY <1>3, <2>0
  <2>5. next' \in [Node -> Node \cup {NULL}] /\ prev' \in [Node -> Node \cup {NULL}]
    BY <1>0, <2>1, <2>3, <2>4
  <2>6. next'[node] = b /\ prev'[node] = s[p - 1]
    BY <1>0, <2>1, <2>3, <2>4
  <2>7. ASSUME NEW i \in 1 .. Len(s) PROVE next'[s[i]] = IF i = p - 1 THEN node ELSE next[s[i]]
    <3>1. CASE i = p - 1
      BY <1>0, <1>3, <2>3, <2>4, <3>1
    <3>2. CASE i # p - 1
      <4>1. s[i] # s[p - 1]
        BY <1>1, <2>0, <3>2, Zenon
      <4>2. QED
        BY <1>0, <1>3, <2>3, <3>2, <4>1
    <3>3. QED
      BY <3>1, <3>2
  <2>8. ASSUME NEW i \in 1 .. Len(s) PROVE prev'[s[i]] = IF i = p THEN node ELSE prev[s[i]]
    <3>1. CASE i = p
      BY <1>0, <1>3, <2>1, <2>3, <3>1
    <3>2. CASE i # p
      <4>1. s[i] # s[p]
        BY <1>1, <2>0, <3>2, Zenon
      <4>2. QED
        BY <1>0, <1>3, <2>1, <2>3, <3>2, <4>1
    <3>3. QED
      BY <3>1, <3>2
  <2>9. LinkedAt(p, node, s, head, tail, next, prev, head', tail', next', prev')
    BY <1>7, <2>0, <2>1, <2>3, <2>6, <2>7, <2>8 DEF LinkedAt
  <2>10. QED
    BY <1>4, <2>5, <2>9
<1>8. QED
  BY <1>5, <1>6, <1>7

\* avs_list_insert_after inserts behind the node, or at the end.
LEMMA InsertsAfter ==
    ASSUME WellFormed, NEW s \in Seq(Node), Spells(s), NEW a, NEW d \in Data,
           NEW p \in 1 .. Len(s) + 1,
           (a = NULL /\ p = Len(s) + 1) \/ (p # 1 /\ a = s[p - 1]),
           avs_list_insert_after(a, d)
    PROVE  Inserted(p, d)
<1>0. /\ Len(s) \in Nat /\ p \in Nat
      /\ next \in [Node -> Node \cup {NULL}] /\ prev \in [Node -> Node \cup {NULL}]
  BY DEF WellFormed
<1>1. /\ \A i, j \in 1 .. Len(s) : s[i] = s[j] => i = j
      /\ IF Len(s) = 0 THEN head = NULL /\ tail = NULL ELSE head = s[1] /\ tail = s[Len(s)]
      /\ \A i \in 1 .. Len(s) : next[s[i]] = IF i = Len(s) THEN NULL ELSE s[i + 1]
      /\ allocated = {s[i] : i \in 1 .. Len(s)}
  BY DEF Spells, ChainOf
<1>2. PICK node \in Node :
        /\ NewNode(node, d)
        /\ \/ /\ a \in {NULL, tail}
              /\ head' = IF tail = NULL THEN node ELSE head
              /\ tail' = node
              /\ next' = [n \in Node |-> IF n = node THEN NULL ELSE IF n = tail THEN node ELSE next[n]]
              /\ prev' = [prev EXCEPT ![node] = tail]
           \/ /\ a \notin {NULL, tail}
              /\ next' = [next EXCEPT ![node] = next[a], ![a] = node]
              /\ prev' = [prev EXCEPT ![node] = a, ![next[a]] = node]
              /\ UNCHANGED <<head, tail>>
  BY DEF avs_list_insert_after
<1>3. \A i \in 1 .. Len(s) : s[i] # node /\ s[i] \in Node /\ s[i] # NULL
  <2>1. \A i \in 1 .. Len(s) : s[i] \in Node /\ s[i] \in allocated
    BY <1>1
  <2>2. node \notin allocated
    BY <1>2 DEF NewNode
  <2>3. QED
    BY <2>1, <2>2, NodeAssumption
<1>4. ASSUME next' \in [Node -> Node \cup {NULL}], prev' \in [Node -> Node \cup {NULL}],
             LinkedAt(p, node, s, head, tail, next, prev, head', tail', next', prev')
      PROVE  Inserted(p, d)
  BY <1>2, <1>4, InsertionStep, Zenon
<1>5. CASE p = Len(s) + 1
  <2>1. tail = IF Len(s) = 0 THEN NULL ELSE s[Len(s)]
    BY <1>1
  <2>2. a \in {NULL, tail}
    BY <1>0, <1>5, <2>1
  <2>3. /\ head' = IF tail = NULL THEN node ELSE head
        /\ tail' = node
        /\ next' = [n \in Node |-> IF n = node THEN NULL ELSE IF n = tail THEN node ELSE next[n]]
        /\ prev' = [prev EXCEPT ![node] = tail]
    BY <1>2, <2>2
  <2>4. tail = NULL <=> Len(s) = 0
    BY <1>0, <1>3, <2>1
  <2>5. tail \in Node \cup {NULL} /\ (Len(s) # 0 => Len(s) \in 1 .. Len(s))
    BY <1>0, <1>3, <2>1
  <2>6. next' \in [Node -> Node \cup {NULL}] /\ prev' \in [Node -> Node \cup {NULL}]
    BY <1>0, <2>3, <2>5
  <2>7. next'[node] = NULL /\ prev'[node] = IF p = 1 THEN NULL ELSE s[p - 1]
    BY <1>0, <1>5, <2>1, <2>3
  <2>8. head' = IF p = 1 THEN node ELSE head
    BY <1>0, <1>5, <2>3, <2>4
  <2>9. ASSUME NEW i \in 1 .. Len(s) PROVE next'[s[i]] = IF i = p - 1 THEN node ELSE next[s[i]]
    <3>1. s[i] \in Node /\ s[i] # node /\ tail = s[Len(s)] /\ p - 1 = Len(s) /\ Len(s) \in 1 .. Len(s)
      BY <1>0, <1>3, <1>5, <2>1
    <3>2. s[i] = tail <=> i = p - 1
      BY <1>1, <3>1, Zenon
    <3>3. QED
      BY <2>3, <3>1, <3>2
  <2>10. ASSUME NEW i \in 1 .. Len(s) PROVE prev'[s[i]] = prev[s[i]] /\ i # p
    <3>1. s[i] \in Node /\ s[i] # node
      BY <1>3
    <3>2. prev'[s[i]] = prev[s[i]]
      BY <1>0, <2>3, <3>1
    <3>3. QED
      BY <1>0, <1>5, <3>2
  <2>11. tail' = node
    BY <2>3
  <2>12. LinkedAt(p, node, s, head, tail, next, prev, head', tail', next', prev')
    BY <1>5, <2>7, <2>8, <2>9, <2>10, <2>11 DEF LinkedAt
  <2>13. QED
    BY <1>4, <2>6, <2>12
<1>6. CASE p # Len(s) + 1
  <2>0. p \in 1 .. Len(s) /\ p # 1 /\ p - 1 \in 1 .. Len(s) /\ (p - 1) + 1 = p /\ p - 1 # Len(s)
    BY <1>0, <1>6
  <2>1. a = s[p - 1] /\ a # NULL /\ a \in Node /\ a # node /\ next[a] = s[p]
    BY <1>1, <1>3, <1>6, <2>0
  <2>2. tail = s[Len(s)] /\ Len(s) \in 1 .. Len(s)
    BY <1>0, <1>1, <2>0
  <2>3. a # tail
    BY <1>1, <2>0, <2>1, <2>2, Zenon
  <2>4. /\ next' = [next EXCEPT ![node] = s[p], ![a] = node]
        /\ prev' = [prev EXCEPT ![node] = a, ![s[p]] = node]
        /\ head' = head /\ tail' = tail
    BY <1>2, <2>1, <2>3
  <2>5. s[p] \in Node /\ s[p] # node
    BY <1>3, <2>0
  <2>6. next' \in [Node -> Node \cup {NULL}] /\ prev' \in [Node -> Node \cup {NULL}]
    BY <1>0, <2>1, <2>4, <2>5
  <2>7. next'[node] = s[p] /\ prev'[node] = s[p - 1]
    BY <1>0, <2>1, <2>4, <2>5
  <2>8. ASSUME NEW i \in 1 .. Len(s) PROVE next'[s[i]] = IF i = p - 1 THEN node ELSE next[s[i]]
    <3>1. CASE i = p - 1
      BY <1>0, <1>3, <2>1, <2>4, <3>1
    <3>2. CASE i # p - 1
      <4>1. s[i] # s[p - 1]
        BY <1>1, <2>0, <3>2, Zenon
      <4>2. QED
        BY <1>0, <1>3, <2>1, <2>4, <3>2, <4>1
    <3>3. QED
      BY <3>1, <3>2
  <2>9. ASSUME NEW i \in 1 .. Len(s) PROVE prev'[s[i]] = IF i = p THEN node ELSE prev[s[i]]
    <3>1. CASE i = p
      BY <1>0, <1>3, <2>4, <2>5, <3>1
    <3>2. CASE i # p
      <4>1. s[i] # s[p]
        BY <1>1, <2>0, <3>2, Zenon
      <4>2. QED
        BY <1>0, <1>3, <2>4, <2>5, <3>2, <4>1
    <3>3. QED
      BY <3>1, <3>2
  <2>10. LinkedAt(p, node, s, head, tail, next, prev, head', tail', next', prev')
    BY <1>6, <2>0, <2>4, <2>7, <2>8, <2>9 DEF LinkedAt
  <2>11. QED
    BY <1>4, <2>6, <2>10
<1>7. QED
  BY <1>5, <1>6

\* avs_list_remove takes a node of the list out.
LEMMA Removes ==
    ASSUME WellFormed, NEW s \in Seq(Node), Spells(s), NEW p \in 1 .. Len(s),
           Unlink(s[p]), avs_free(s[p]), UNCHANGED data
    PROVE  Removed(p)
<1>0. /\ Len(s) \in Nat /\ p \in Nat /\ size' = size - 1
      /\ next \in [Node -> Node \cup {NULL}] /\ prev \in [Node -> Node \cup {NULL}]
  BY DEF WellFormed, Unlink
<1>1. /\ \A i, j \in 1 .. Len(s) : s[i] = s[j] => i = j
      /\ head = s[1] /\ tail = s[Len(s)]
      /\ \A i \in 1 .. Len(s) : next[s[i]] = IF i = Len(s) THEN NULL ELSE s[i + 1]
      /\ \A i \in 1 .. Len(s) : prev[s[i]] = IF i = 1 THEN NULL ELSE s[i - 1]
  BY <1>0 DEF Spells, ChainOf
<1>2. \A i \in 1 .. Len(s) : s[i] \in Node /\ s[i] # NULL
  BY NodeAssumption
<1>3. /\ p # 1 => p - 1 \in 1 .. Len(s) /\ prev[s[p]] = s[p - 1] /\ prev[s[p]] # NULL
      /\ p = 1 => prev[s[p]] = NULL
      /\ p # Len(s) => p + 1 \in 1 .. Len(s) /\ next[s[p]] = s[p + 1] /\ next[s[p]] # NULL
      /\ p = Len(s) => next[s[p]] = NULL
  <2>1. p # 1 => p - 1 \in 1 .. Len(s)
    BY <1>0
  <2>2. p # Len(s) => p + 1 \in 1 .. Len(s)
    BY <1>0
  <2>3. QED
    BY <1>1, <1>2, <2>1, <2>2
<1>4. /\ head' = IF p # 1 THEN head ELSE IF Len(s) = 1 THEN NULL ELSE s[2]
      /\ tail' = IF p # Len(s) THEN tail ELSE IF Len(s) = 1 THEN NULL ELSE s[Len(s) - 1]
      /\ next' = IF p # 1 THEN [next EXCEPT ![s[p - 1]] = next[s[p]]] ELSE next
      /\ prev' = IF p # Len(s) THEN [prev EXCEPT ![s[p + 1]] = prev[s[p]]] ELSE prev
  <2>1. CASE p = 1 /\ p = Len(s)
    BY <1>3, <2>1 DEF Unlink
  <2>2. CASE p = 1 /\ p # Len(s)
    BY <1>3, <2>2 DEF Unlink
  <2>3. CASE p # 1 /\ p = Len(s)
    BY <1>3, <2>3 DEF Unlink
  <2>4. CASE p # 1 /\ p # Len(s)
    BY <1>3, <2>4 DEF Unlink
  <2>5. QED
    BY <2>1, <2>2, <2>3, <2>4
<1>5. next' \in [Node -> Node \cup {NULL}] /\ prev' \in [Node -> Node \cup {NULL}]
  BY <1>0, <1>2, <1>4
<1>6. ASSUME NEW i \in 1 .. Len(s), i # p
      PROVE  next'[s[i]] = IF i = p - 1 THEN (IF p = Len(s) THEN NULL ELSE s[p + 1]) ELSE next[s[i]]
  <2>1. CASE i = p - 1
    BY <1>0, <1>1, <1>2, <1>3, <1>4, <2>1
  <2>2. CASE i # p - 1 /\ p # 1
    <3>1. s[i] # s[p - 1]
      BY <1>1, <1>3, <2>2, Zenon
    <3>2. QED
      BY <1>0, <1>2, <1>4, <2>2, <3>1
  <2>3. CASE i # p - 1 /\ p = 1
    BY <1>4, <2>3
  <2>4. QED
    BY <2>1, <2>2, <2>3
<1>7. ASSUME NEW i \in 1 .. Len(s), i # p
      PROVE  prev'[s[i]] = IF i = p + 1 THEN (IF p = 1 THEN NULL ELSE s[p - 1]) ELSE prev[s[i]]
  <2>1. CASE i = p + 1
    BY <1>0, <1>1, <1>2, <1>3, <1>4, <2>1
  <2>2. CASE i # p + 1 /\ p # Len(s)
    <3>1. s[i] # s[p + 1]
      BY <1>1, <1>3, <2>2, Zenon
    <3>2. QED
      BY <1>0, <1>2, <1>4, <2>2, <3>1
  <2>3. CASE i # p + 1 /\ p = Len(s)
    BY <1>4, <2>3
  <2>4. QED
    BY <2>1, <2>2, <2>3
<1>8. UnlinkedAt(p, s, head, tail, next, prev, head', tail', next', prev')
  BY <1>4, <1>6, <1>7, Zenon DEF UnlinkedAt
<1>9. QED
  BY <1>0, <1>5, <1>8, RemovalStep, Zenon

\* avs_list_empty leaves an empty list.
LEMMA Empties ==
    ASSUME WellFormed, NEW s \in Seq(Node), Spells(s), avs_list_empty
    PROVE  WellFormed' /\ contentsBar' = <<>>
<1>1. /\ head' = NULL /\ tail' = NULL /\ size' = 0
      /\ allocated' = allocated \ ToSet(s)
      /\ prev' = [n \in Node |-> IF n \in ToSet(s) THEN NULL ELSE prev[n]]
      /\ next' = next /\ data' = data
  BY Walked DEF avs_list_empty
<1>2. allocated = ToSet(s)
  BY DEF Spells, ToSet
<1>3. /\ next' \in [Node -> Node \cup {NULL}]
      /\ prev' \in [Node -> Node \cup {NULL}]
      /\ data' \in [Node -> Data \cup {NULL}]
  BY <1>1 DEF WellFormed
<1>4. PICK t \in Seq(Node) : Len(t) = 0 /\ t = <<>>
  <2>1. <<>> \in Seq(Node) /\ Len(<<>>) = 0
    BY EmptySeq
  <2>2. QED
    BY <2>1
<1>5. ChainOf(t, head', tail', next', prev')
  BY <1>1, <1>4 DEF ChainOf
<1>6. Spells(t)'
  BY <1>1, <1>2, <1>4, <1>5 DEF Spells
<1>7. contentsBar' = DataOf(t, data')
  BY <1>6, WalkedNext
<1>8. DataOf(t, data') = <<>>
  BY <1>4 DEF DataOf
<1>9. QED
  BY <1>3, <1>6, <1>7, <1>8 DEF WellFormed

-----------------------------------------------------------------------------
\* Initially the list is empty.
LEMMA InitImplements == Init => ListInv /\ Abstract!Init
<1>1. SUFFICES ASSUME Init PROVE ListInv /\ Abstract!Init
  OBVIOUS
<1>2. PICK t \in Seq(Node) : Len(t) = 0 /\ t = <<>>
  <2>1. <<>> \in Seq(Node) /\ Len(<<>>) = 0
    BY EmptySeq
  <2>2. QED
    BY <2>1
<1>3. Spells(t)
  BY <1>1, <1>2 DEF Init, Spells, ChainOf
<1>4. WellFormed /\ last[3] \in Data \cup {NULL}
  BY <1>1, <1>3 DEF Init, WellFormed
<1>5. contentsBar = <<>>
  BY <1>1 DEF Init, contentsBar
<1>6. QED
  BY <1>1, <1>4, <1>5, ListInvFrom DEF Init, Abstract!Init

\* Every call keeps the pointers in order and does to the data what AvsSequence
\* says of it.
LEMMA CallImplements ==
    ListInv /\ [Next]_vars => ListInv' /\ [Abstract!Next]_(Abstract!absvars)
<1>1. SUFFICES ASSUME ListInv, [Next]_vars
               PROVE  ListInv' /\ [Abstract!Next]_(Abstract!absvars)
  OBVIOUS
<1>2. WellFormed /\ last[3] \in Data \cup {NULL}
  <2>1. Forward \in Seq(Node) /\ Spells(Forward)
    BY <1>1 DEF ListInv, Spells, ChainOf
  <2>2. QED
    BY <1>1, <2>1 DEF ListInv, TypeOK, WellFormed
<1>3. PICK s \in Seq(Node) : Spells(s)
  BY <1>2 DEF WellFormed
<1>4. /\ Len(s) \in Nat /\ size = Len(s)
      /\ IF Len(s) = 0 THEN head = NULL /\ tail = NULL ELSE head = s[1] /\ tail = s[Len(s)]
      /\ allocated = {s[i] : i \in 1 .. Len(s)}
  BY <1>3 DEF Spells, ChainOf
<1>5. /\ Forward = s /\ contentsBar = DataOf(s, data)
      /\ \A i \in 1 .. Len(s) : Position(s[i]) = i - 1
  BY <1>3, Walked
<1>6. /\ Len(contentsBar) = Len(s) /\ (contentsBar = <<>> <=> Len(s) = 0)
      /\ \A i \in 1 .. Len(s) : contentsBar[i] = data[s[i]] /\ data[s[i]] \in Data \cup {NULL}
      /\ Abstract!Position = 0 .. Len(s) - 1
  <2>1. data \in [Node -> Data \cup {NULL}]
    BY <1>2 DEF WellFormed
  <2>2. PICK c : c = DataOf(s, data)
    OBVIOUS
  <2>3. Len(c) = Len(s) /\ c \in Seq(Data \cup {NULL}) /\ \A i \in 1 .. Len(s) : c[i] = data[s[i]]
    BY <1>4, <2>1, <2>2 DEF DataOf
  <2>4. \A i \in 1 .. Len(s) : data[s[i]] \in Data \cup {NULL}
    BY <2>1
  <2>5. c = <<>> <=> Len(c) = 0
    BY <2>3
  <2>6. contentsBar = c
    BY <1>5, <2>2
  <2>7. QED
    BY <2>3, <2>4, <2>5, <2>6 DEF Abstract!Position
<1>7. ASSUME WellFormed', last'[3] \in Data \cup {NULL} PROVE ListInv'
  <2>1. (WellFormed /\ last[3] \in Data \cup {NULL} => ListInv)'
    BY ListInvFrom, PTL
  <2>2. QED
    BY <1>7, <2>1
<1>8. ASSUME UNCHANGED <<list, heap>> PROVE WellFormed' /\ contentsBar' = contentsBar
  <2>1. Spells(s)'
    BY <1>3, <1>8 DEF Spells, ChainOf, list, heap
  <2>2. contentsBar' = DataOf(s, data')
    BY <2>1, WalkedNext
  <2>3. QED
    BY <1>2, <1>5, <1>8, <2>1, <2>2 DEF WellFormed, list, heap
<1>9. ASSUME NEW p \in 1 .. Len(s) + 1, NEW d \in Data, Inserted(p, d),
             NEW name, NEW arg, last' = <<name, arg, NULL>>
      PROVE  ListInv' /\ Abstract!InsertCall(name, arg, p - 1, d)
  <2>1. (p - 1) + 1 = p /\ last'[3] = NULL
    BY <1>4, <1>9
  <2>2. ListInv'
    BY <1>7, <1>9, <2>1 DEF Inserted
  <2>3. QED
    <3>1. contentsBar' = Abstract!InsertAt(contentsBar, p, d) /\ Len(contentsBar) < Cardinality(Node)
      BY <1>9 DEF Inserted, InsertAt, Abstract!InsertAt
    <3>2. QED
      BY <1>9, <2>1, <2>2, <3>1 DEF Abstract!InsertCall
<1>10. ASSUME NEW p \in 1 .. Len(s), Removed(p),
              NEW name, NEW arg, NEW a \in Data \cup {NULL}, last' = <<name, arg, a>>
       PROVE  ListInv' /\ Abstract!RemoveCall(name, arg, p - 1, a)
  <2>1. (p - 1) + 1 = p /\ last'[3] = a
    BY <1>4, <1>10
  <2>2. ListInv'
    BY <1>7, <1>10, <2>1 DEF Removed
  <2>3. QED
    <3>1. contentsBar' = Abstract!RemoveAt(contentsBar, p)
      BY <1>10 DEF Removed, RemoveAt, Abstract!RemoveAt
    <3>2. QED
      BY <1>10, <2>1, <2>2, <3>1 DEF Abstract!RemoveCall
<1>11. ASSUME UNCHANGED <<list, heap>>,
              NEW name, NEW arg, NEW a \in Data \cup {NULL}, last' = <<name, arg, a>>
       PROVE  ListInv' /\ Abstract!Query(name, arg, a)
  <2>1. last'[3] = a
    BY <1>11
  <2>2. QED
    BY <1>7, <1>8, <1>11, <2>1 DEF Abstract!Query
<1>12. ASSUME NEW d \in Data, avs_list_append(d) PROVE ListInv' /\ Abstract!Next
  <2>1. avs_list_insert_after(NULL, d) /\ last' = <<"append", d, NULL>>
    BY <1>12 DEF avs_list_append
  <2>2. PICK p \in 1 .. Len(s) + 1 : p = Len(s) + 1
    BY <1>4
  <2>3. Inserted(p, d)
    BY <1>2, <1>3, <2>1, <2>2, InsertsAfter
  <2>4. ListInv' /\ Abstract!InsertCall("append", d, p - 1, d)
    BY <1>9, <2>1, <2>3
  <2>5. p - 1 = Len(contentsBar)
    BY <1>4, <1>6, <2>2
  <2>6. QED
    BY <2>4, <2>5 DEF Abstract!Next
<1>13. ASSUME NEW d \in Data, avs_list_prepend(d) PROVE ListInv' /\ Abstract!Next
  <2>1. avs_list_insert_before(head, d) /\ last' = <<"prepend", d, NULL>>
    BY <1>13 DEF avs_list_prepend
  <2>2. PICK p \in 1 .. Len(s) + 1 : p = 1
    BY <1>4
  <2>3. head = (IF Len(s) = 0 THEN NULL ELSE s[p]) /\ (p <= Len(s) \/ Len(s) = 0)
    BY <1>4, <2>2
  <2>4. Inserted(p, d)
    BY <1>2, <1>3, <2>1, <2>3, InsertsBefore
  <2>5. ListInv' /\ Abstract!InsertCall("prepend", d, p - 1, d)
    BY <1>9, <2>1, <2>4
  <2>6. p - 1 = 0
    BY <2>2
  <2>7. QED
    BY <2>5, <2>6 DEF Abstract!Next
<1>14. ASSUME NEW d \in Data, avs_list_find_data(d) PROVE ListInv' /\ Abstract!Next
  <2>1. /\ last' = <<"find", d, IF \E i \in 1 .. size : data[Forward[i]] = d THEN d ELSE NULL>>
        /\ UNCHANGED <<list, heap>>
    BY <1>14 DEF avs_list_find_data
  <2>2. (\E i \in 1 .. size : data[Forward[i]] = d) <=> Abstract!Contains(contentsBar, d)
    BY <1>4, <1>5, <1>6 DEF Abstract!Contains
  <2>3. last' = <<"find", d, IF Abstract!Contains(contentsBar, d) THEN d ELSE NULL>>
    BY <2>1, <2>2
  <2>4. ListInv' /\ Abstract!Query("find", d, IF Abstract!Contains(contentsBar, d) THEN d ELSE NULL)
    BY <1>11, <2>1, <2>3
  <2>5. QED
    BY <2>4 DEF Abstract!Next
<1>15. ASSUME NEW d \in Data, NEW n \in allocated,
              avs_list_insert_before(n, d), last' = <<"before", Position(n), NULL>>
       PROVE  ListInv' /\ Abstract!Next
  <2>1. PICK p \in 1 .. Len(s) : n = s[p]
    BY <1>4
  <2>2. p \in 1 .. Len(s) + 1 /\ n = (IF Len(s) = 0 THEN NULL ELSE s[p]) /\ p <= Len(s)
    BY <1>4, <2>1
  <2>3. Inserted(p, d)
    BY <1>2, <1>3, <1>15, <2>2, InsertsBefore
  <2>4. Position(n) = p - 1 /\ p - 1 \in Abstract!Position
    BY <1>4, <1>5, <1>6, <2>1
  <2>5. ListInv' /\ Abstract!InsertCall("before", p - 1, p - 1, d)
    BY <1>9, <1>15, <2>2, <2>3, <2>4
  <2>6. QED
    BY <2>4, <2>5 DEF Abstract!Next
<1>16. ASSUME NEW d \in Data, NEW n \in allocated,
              avs_list_insert_after(n, d), last' = <<"after", Position(n), NULL>>
       PROVE  ListInv' /\ Abstract!Next
  <2>1. PICK i \in 1 .. Len(s) : n = s[i]
    BY <1>4
  <2>2. PICK p \in 1 .. Len(s) + 1 : p = i + 1
    BY <1>4
  <2>3. p # 1 /\ n = s[p - 1] /\ p - 1 = i
    BY <1>4, <2>1, <2>2
  <2>4. Inserted(p, d)
    BY <1>2, <1>3, <1>16, <2>3, InsertsAfter
  <2>5. Position(n) = i - 1 /\ i - 1 \in Abstract!Position /\ (i - 1) + 1 = p - 1
    BY <1>4, <1>5, <1>6, <2>1, <2>3
  <2>6. ListInv' /\ Abstract!InsertCall("after", i - 1, p - 1, d)
    BY <1>9, <1>16, <2>4, <2>5
  <2>7. QED
    BY <2>5, <2>6 DEF Abstract!Next
<1>17. ASSUME NEW n \in allocated, avs_list_free(n) PROVE ListInv' /\ Abstract!Next
  <2>1. PICK p \in 1 .. Len(s) : n = s[p]
    BY <1>4
  <2>2. Unlink(s[p]) /\ avs_free(s[p]) /\ UNCHANGED data /\ last' = <<"free", Position(n), NULL>>
    BY <1>17, <2>1 DEF avs_list_free
  <2>3. Removed(p)
    BY <1>2, <1>3, <2>2, Removes
  <2>4. Position(n) = p - 1 /\ p - 1 \in Abstract!Position
    BY <1>4, <1>5, <1>6, <2>1
  <2>5. ListInv' /\ Abstract!RemoveCall("free", p - 1, p - 1, NULL)
    BY <1>10, <2>2, <2>3, <2>4
  <2>6. QED
    BY <2>4, <2>5 DEF Abstract!Next
<1>18. ASSUME avs_list_pop PROVE ListInv' /\ Abstract!Next
  <2>1. CASE Len(s) = 0
    <3>1. last' = <<"pop", NULL, NULL>> /\ UNCHANGED <<list, heap>>
      BY <1>4, <1>18, <2>1 DEF avs_list_pop
    <3>2. ListInv' /\ Abstract!Query("pop", NULL, NULL)
      BY <1>11, <3>1
    <3>3. QED
      BY <1>6, <2>1, <3>2 DEF Abstract!Next
  <2>2. CASE Len(s) # 0
    <3>1. PICK p \in 1 .. Len(s) : p = 1
      BY <1>4, <2>2
    <3>2. head = s[p] /\ head # NULL
      BY <1>4, <2>2, <3>1, NodeAssumption
    <3>3. Unlink(s[p]) /\ avs_free(s[p]) /\ UNCHANGED data /\ last' = <<"pop", NULL, data[s[p]]>>
      BY <1>18, <3>2 DEF avs_list_pop
    <3>4. Removed(p)
      BY <1>2, <1>3, <3>3, Removes
    <3>5. data[s[p]] \in Data \cup {NULL} /\ Head(contentsBar) = data[s[p]] /\ p - 1 = 0
      BY <1>6, <3>1
    <3>6. ListInv' /\ Abstract!RemoveCall("pop", NULL, p - 1, data[s[p]])
      BY <1>10, <3>3, <3>4, <3>5
    <3>7. QED
      BY <1>6, <2>2, <3>5, <3>6 DEF Abstract!Next
  <2>3. QED
    BY <2>1, <2>2
<1>19. ASSUME avs_list_dequeue PROVE ListInv' /\ Abstract!Next
  <2>1. tail # NULL
    BY <1>19 DEF avs_list_dequeue
  <2>2. PICK p \in 1 .. Len(s) : p = Len(s)
    BY <1>4, <2>1
  <2>3. tail = s[p] /\ Len(s) # 0
    BY <1>4, <2>1, <2>2
  <2>4. Unlink(s[p]) /\ avs_free(s[p]) /\ UNCHANGED data /\ last' = <<"dequeue", NULL, data[s[p]]>>
    BY <1>19, <2>3 DEF avs_list_dequeue
  <2>5. Removed(p)
    BY <1>2, <1>3, <2>4, Removes
  <2>6. data[s[p]] \in Data \cup {NULL} /\ Abstract!Last(contentsBar) = data[s[p]] /\ p - 1 = Len(contentsBar) - 1
    BY <1>6, <2>2 DEF Abstract!Last
  <2>7. ListInv' /\ Abstract!RemoveCall("dequeue", NULL, p - 1, data[s[p]])
    BY <1>10, <2>4, <2>5, <2>6
  <2>8. QED
    BY <1>6, <2>3, <2>6, <2>7 DEF Abstract!Next
<1>20. ASSUME NEW index \in -1 .. Cardinality(Node), avs_list_at_index_data(index)
       PROVE  ListInv' /\ Abstract!Next
  <2>1. /\ last' = <<"at", index, IF index > size - 1 \/ index < 0 THEN NULL ELSE data[Forward[index + 1]]>>
        /\ UNCHANGED <<list, heap>>
    BY <1>20 DEF avs_list_at_index_data
  <2>2. PICK a : a = IF index > size - 1 \/ index < 0 THEN NULL ELSE data[Forward[index + 1]]
    OBVIOUS
  <2>3. index \in Int
    BY NodeFinite, FS_CardinalityType
  <2>4. index \in Abstract!Position <=> ~ (index > size - 1 \/ index < 0)
    BY <1>4, <1>6, <2>3
  <2>5. index \in Abstract!Position => index + 1 \in 1 .. Len(s)
    BY <1>4, <1>6
  <2>6. a = (IF index \in Abstract!Position THEN contentsBar[index + 1] ELSE NULL) /\ a \in Data \cup {NULL}
    BY <1>5, <1>6, <2>2, <2>4, <2>5
  <2>7. last' = <<"at", index, a>>
    BY <2>1, <2>2
  <2>8. ListInv' /\ Abstract!Query("at", index, a)
    BY <1>11, <2>1, <2>6, <2>7
  <2>9. QED
    BY <1>20, <2>6, <2>8 DEF Abstract!Next
<1>21. ASSUME avs_list_empty PROVE ListInv' /\ Abstract!Next
  <2>1. WellFormed' /\ contentsBar' = <<>>
    BY <1>2, <1>3, <1>21, Empties
  <2>2. last' = <<"empty", NULL, NULL>> /\ last'[3] = NULL
    BY <1>21 DEF avs_list_empty
  <2>3. ListInv'
    BY <1>7, <2>1, <2>2
  <2>4. QED
    BY <2>1, <2>2, <2>3 DEF Abstract!Next
<1>22. ASSUME UNCHANGED vars PROVE ListInv' /\ UNCHANGED Abstract!absvars
  <2>1. UNCHANGED <<list, heap>> /\ last' = last
    BY <1>22 DEF vars
  <2>2. WellFormed' /\ contentsBar' = contentsBar
    BY <1>8, <2>1
  <2>3. ListInv'
    BY <1>2, <1>7, <2>1, <2>2
  <2>4. QED
    BY <2>1, <2>2, <2>3 DEF Abstract!absvars
<1>23. QED
  BY <1>1, <1>12, <1>13, <1>14, <1>15, <1>16, <1>17, <1>18, <1>19, <1>20, <1>21, <1>22 DEF Next

-----------------------------------------------------------------------------
\* After any calls the pointers spell out one sequence of nodes, each of them
\* once, and these are the nodes that were given out.
THEOREM ListInvariance == Spec => []ListInv
<1>1. Init => ListInv
  BY InitImplements
<1>2. ListInv /\ [Next]_vars => ListInv'
  BY CallImplements
<1>3. QED
  BY <1>1, <1>2, PTL DEF Spec

\* Both ways through the list visit the same nodes, and no node leaks or dangles.
THEOREM ChainsAlwaysAgree == Spec => []ChainsAgree
<1>1. ListInv => ChainsAgree
  <2>1. SUFFICES ASSUME ListInv PROVE ChainsAgree
    OBVIOUS
  <2>2. TypeOK
    BY <2>1 DEF ListInv
  <2>3. PICK s \in Seq(Node) : Spells(s)
    BY <2>1 DEF ListInv, Spells, ChainOf
  <2>4. /\ Len(s) \in Nat /\ size = Len(s)
        /\ \A i, j \in 1 .. Len(s) : s[i] = s[j] => i = j
        /\ IF Len(s) = 0 THEN head = NULL /\ tail = NULL ELSE head = s[1] /\ tail = s[Len(s)]
        /\ \A i \in 1 .. Len(s) : next[s[i]] = IF i = Len(s) THEN NULL ELSE s[i + 1]
        /\ \A i \in 1 .. Len(s) : prev[s[i]] = IF i = 1 THEN NULL ELSE s[i - 1]
        /\ allocated = {s[i] : i \in 1 .. Len(s)}
    BY <2>3 DEF Spells, ChainOf
  <2>5. Forward = s
    BY <2>3, Walked
  <2>6. IF size = 0 THEN head = NULL /\ tail = NULL
        ELSE /\ Forward[size] = tail
             /\ next[tail] = NULL
             /\ prev[head] = NULL
             /\ \A i \in 2 .. size : prev[Forward[i]] = Forward[i - 1]
    BY <2>4, <2>5
  <2>7. ToSet(Forward) = allocated
    BY <2>4, <2>5 DEF ToSet
  <2>8. Cardinality(allocated) = size
    BY <2>4, SpelledSize
  <2>9. QED
    BY <2>2, <2>6, <2>7, <2>8 DEF ChainsAgree
<1>2. QED
  BY <1>1, ListInvariance, PTL

\* The list of pointers does what the sequence of AvsSequence does.
THEOREM ListIsASequence == Spec => ImplementsSequence
<1>1. Init => Abstract!Init
  BY InitImplements
<1>2. ListInv /\ [Next]_vars => [Abstract!Next]_(Abstract!absvars)
  BY CallImplements
<1>3. QED
  BY <1>1, <1>2, ListInvariance, PTL DEF Spec, ImplementsSequence, Abstract!Spec
=============================================================================
