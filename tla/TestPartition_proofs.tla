------------------------ MODULE TestPartition_proofs ------------------------
(***************************************************************************)
(* Dealing the test cases out loses none and gives none to two groups,     *)
(* whatever their number, the chunk size and the number of workers: this   *)
(* is what TrialRunner assumes of its Partition (PartitionAssumption).     *)
(*                                                                         *)
(* A position p of the list is in chunk (p - 1) \div ChunkSize + 1, and    *)
(* chunk g goes to worker (g - 1) % NumWorkers.                            *)
(***************************************************************************)
EXTENDS TestPartition, TLAPS

LEMMA CeilDivType == \A a \in Nat, b \in Nat \ {0} : CeilDiv(a, b) \in Nat
  BY DEF CeilDiv

\* i <= ceil(a / b) exactly when the first element of block i exists.
LEMMA CeilDivBound ==
  ASSUME NEW a \in Int, NEW b \in Nat \ {0}, NEW i \in Nat \ {0}
  PROVE  i <= CeilDiv(a, b) <=> (i - 1) * b < a
<1> DEFINE q == (a + b - 1) \div b
           r == (a + b - 1) % b
<1>1. q \in Int /\ r \in 0 .. b - 1 /\ a + b - 1 = b * q + r
  OBVIOUS
<1>2. CASE i <= q
  <2>1. i * b <= q * b  BY <1>1, <1>2
  <2> QED  BY <1>1, <1>2, <2>1 DEF CeilDiv
<1>3. CASE i > q
  <2>1. (i - 1) * b >= q * b  BY <1>1, <1>3
  <2> QED  BY <1>1, <1>3, <2>1 DEF CeilDiv
<1> QED  BY <1>1, <1>2, <1>3

\* Position k of block i, counted from 0, when every block has b positions.
InBlock(b, i, k) == i * b + k

LEMMA ProductType == \A m, n \in Nat : m * n \in Nat
  OBVIOUS

LEMMA PlaceType == \A m, n, k \in Nat : m * n + k \in Nat
  BY ProductType

\* Blocks do not overlap ...
LEMMA BlocksDisjoint ==
  ASSUME NEW b \in Nat \ {0}, NEW i \in Nat, NEW j \in Nat,
         NEW k \in 1 .. b, NEW l \in 1 .. b, InBlock(b, i, k) = InBlock(b, j, l)
  PROVE  i = j /\ k = l
<1>1. CASE i < j
  <2>1. (i + 1) * b <= j * b  BY <1>1
  <2>2. (i + 1) * b = i * b + b  OBVIOUS
  <2> QED  BY <1>1, <2>1, <2>2 DEF InBlock
<1>2. CASE j < i
  <2>1. (j + 1) * b <= i * b  BY <1>2
  <2>2. (j + 1) * b = j * b + b  OBVIOUS
  <2> QED  BY <1>2, <2>1, <2>2 DEF InBlock
<1>3. CASE i = j
  BY <1>3 DEF InBlock
<1> QED  BY <1>1, <1>2, <1>3

\* ... and leave no position out.
LEMMA BlocksCover ==
  ASSUME NEW b \in Nat \ {0}, NEW p \in Nat \ {0}
  PROVE  \E i \in Nat, k \in 1 .. b : p = InBlock(b, i, k)
<1> DEFINE q == (p - 1) \div b
           r == (p - 1) % b
<1>1. q \in Int /\ r \in 0 .. b - 1 /\ p - 1 = b * q + r
  OBVIOUS
<1>2. q >= 0
  <2>1. CASE q < 0
    <3>1. q * b <= (-1) * b  BY <1>1, <2>1
    <3> QED  BY <1>1, <3>1
  <2> QED  BY <1>1, <2>1
<1>3. p = q * b + (r + 1) /\ r + 1 \in 1 .. b
  BY <1>1
<1>4. q \in Nat
  BY <1>1, <1>2
<1> HIDE DEF q, r
<1> QED  BY <1>3, <1>4 DEF InBlock

-----------------------------------------------------------------------------
(* split_into_subgroups *)

\* Chunk i holds the test cases at the positions of block i - 1, all of them.
LEMMA SubgroupsFact ==
  ASSUME NEW S, NEW cases \in Seq(S)
  PROVE  /\ Subgroups(cases) \in Seq(Seq(S))
         /\ Len(Subgroups(cases)) = CeilDiv(Len(cases), ChunkSize)
         /\ \A i \in DOMAIN Subgroups(cases) :
              /\ (i - 1) * ChunkSize < Len(cases)
              /\ DOMAIN Subgroups(cases)[i] =
                   {k \in 1 .. ChunkSize : (i - 1) * ChunkSize + k <= Len(cases)}
              /\ \A k \in DOMAIN Subgroups(cases)[i] :
                   Subgroups(cases)[i][k] = cases[(i - 1) * ChunkSize + k]
<1> USE ChunkAssumption
<1> DEFINE n == CeilDiv(Len(cases), ChunkSize)
<1>1. n \in Nat
  BY CeilDivType
<1>2. ASSUME NEW i \in 1 .. n
      PROVE  LET f == (i - 1) * ChunkSize
                 c == Chunk(cases, f)
             IN  /\ f < Len(cases)
                 /\ c \in Seq(S)
                 /\ DOMAIN c = {k \in 1 .. ChunkSize : f + k <= Len(cases)}
                 /\ \A k \in DOMAIN c : c[k] = cases[f + k]
  <2> DEFINE f == (i - 1) * ChunkSize
             last == IF f + ChunkSize <= Len(cases) THEN f + ChunkSize ELSE Len(cases)
             c == SubSeq(cases, f + 1, last)
  <2>1. f \in Nat /\ f < Len(cases)
    <3>1. i \in Nat \ {0} /\ i <= CeilDiv(Len(cases), ChunkSize)
      BY <1>1
    <3>2. f < Len(cases)
      BY <3>1, CeilDivBound
    <3>3. f \in Nat
      BY <3>1
    <3> QED  BY <3>2, <3>3
  <2> HIDE DEF f
  <2>2. last \in Nat /\ last <= Len(cases) /\ f + 1 <= last + 1
    BY <2>1
  <2>3. c \in Seq(S) /\ Len(c) = last - f /\ \A k \in 1 .. last - f : c[k] = cases[f + k]
    BY <2>1, <2>2
  <2>4. DOMAIN c = 1 .. last - f
    BY <2>3, <2>1, <2>2
  <2>5. \A k \in Int : k \in 1 .. last - f <=> k \in 1 .. ChunkSize /\ f + k <= Len(cases)
    BY <2>1
  <2> HIDE DEF last
  <2>6. DOMAIN c = {k \in 1 .. ChunkSize : f + k <= Len(cases)}
    <3>1. \A k : k \in 1 .. last - f <=> k \in {j \in 1 .. ChunkSize : f + j <= Len(cases)}
      BY <2>1, <2>2, <2>5
    <3> QED  BY <2>4, <3>1
  <2>7. Chunk(cases, f) = c
    BY DEF Chunk, last
  <2> QED  BY <2>1, <2>3, <2>4, <2>6, <2>7 DEF f
<1> HIDE DEF n
<1>3. /\ Subgroups(cases) = [i \in 1 .. n |-> Chunk(cases, (i - 1) * ChunkSize)]
      /\ DOMAIN Subgroups(cases) = 1 .. n
      /\ \A i \in 1 .. n : Subgroups(cases)[i] = Chunk(cases, (i - 1) * ChunkSize)
  BY DEF Subgroups, n
<1>4. \A i \in 1 .. n : Subgroups(cases)[i] \in Seq(S)
  BY <1>2, <1>3
<1>5. Subgroups(cases) \in Seq(Seq(S)) /\ Len(Subgroups(cases)) = n
  <2>1. Subgroups(cases) \in [1 .. n -> Seq(S)]
    BY <1>3, <1>4
  <2> QED  BY <2>1, <1>1
<1>6. \A i \in DOMAIN Subgroups(cases) :
        /\ (i - 1) * ChunkSize < Len(cases)
        /\ DOMAIN Subgroups(cases)[i] =
             {k \in 1 .. ChunkSize : (i - 1) * ChunkSize + k <= Len(cases)}
        /\ \A k \in DOMAIN Subgroups(cases)[i] :
             Subgroups(cases)[i][k] = cases[(i - 1) * ChunkSize + k]
  BY <1>2, <1>3
<1> QED  BY <1>5, <1>6 DEF n

\* The k-th group of worker w is group (k - 1) * NumWorkers + w + 1.
LEMMA PartitionedFact ==
  ASSUME NEW G, NEW groups \in Seq(G)
  PROVE  /\ Partitioned(groups) \in [Worker -> Seq(G)]
         /\ \A w \in Worker :
              /\ \A k \in Nat \ {0} : k \in DOMAIN Partitioned(groups)[w]
                     <=> (k - 1) * NumWorkers + w + 1 <= Len(groups)
              /\ \A k \in DOMAIN Partitioned(groups)[w] :
                   /\ (k - 1) * NumWorkers + w + 1 \in DOMAIN groups
                   /\ Partitioned(groups)[w][k] = groups[(k - 1) * NumWorkers + w + 1]
<1> USE ChunkAssumption
<1>1. ASSUME NEW w \in Worker
      PROVE  LET m == CeilDiv(Len(groups) - w, NumWorkers) IN
             /\ m \in Nat
             /\ \A k \in Nat \ {0} : k \in 1 .. m
                    <=> (k - 1) * NumWorkers + w + 1 <= Len(groups)
             /\ \A k \in 1 .. m : (k - 1) * NumWorkers + w + 1 \in DOMAIN groups
  <2> DEFINE m == CeilDiv(Len(groups) - w, NumWorkers)
  <2>1. w \in Nat /\ w < NumWorkers /\ Len(groups) - w \in Int
    BY DEF Worker
  <2>2. Len(groups) - w + NumWorkers - 1 \in Nat
    BY <2>1
  <2>3. m \in Nat
    BY <2>2 DEF CeilDiv
  <2>4. \A k \in Nat \ {0} : k <= m <=> (k - 1) * NumWorkers < Len(groups) - w
    BY <2>1, CeilDivBound
  <2>5. \A k \in Nat \ {0} : (k - 1) * NumWorkers \in Nat
    OBVIOUS
  <2> HIDE DEF m
  <2>6. \A k \in Nat \ {0} : k \in 1 .. m
                    <=> (k - 1) * NumWorkers + w + 1 <= Len(groups)
    BY <2>1, <2>3, <2>4, <2>5
  <2>7. \A k \in 1 .. m : (k - 1) * NumWorkers + w + 1 \in DOMAIN groups
    BY <2>1, <2>3, <2>5, <2>6
  <2> QED  BY <2>3, <2>6, <2>7 DEF m
<1> DEFINE share(w) == [k \in 1 .. CeilDiv(Len(groups) - w, NumWorkers) |->
                          groups[(k - 1) * NumWorkers + w + 1]]
<1>2. ASSUME NEW w \in Worker
      PROVE  share(w) \in Seq(G) /\ DOMAIN share(w) = 1 .. CeilDiv(Len(groups) - w, NumWorkers)
  <2> DEFINE m == CeilDiv(Len(groups) - w, NumWorkers)
  <2>1. m \in Nat /\ \A k \in 1 .. m : groups[(k - 1) * NumWorkers + w + 1] \in G
    BY <1>1
  <2> HIDE DEF m
  <2>2. [k \in 1 .. m |-> groups[(k - 1) * NumWorkers + w + 1]] \in Seq(G)
    BY <2>1
  <2> QED  BY <2>2 DEF m
<1>3. Partitioned(groups) = [w \in Worker |-> share(w)]
  BY DEF Partitioned
<1>4. \A w \in Worker : \A k \in DOMAIN share(w) :
        share(w)[k] = groups[(k - 1) * NumWorkers + w + 1]
  OBVIOUS
<1> HIDE DEF share
<1> QED  BY <1>1, <1>2, <1>3, <1>4

-----------------------------------------------------------------------------
\* Where the test cases end up.

Shares(cases) == Partitioned(Subgroups(cases))

\* The position in the list of the k-th test case of the i-th group of worker w.
Position(w, i, k) == ((i - 1) * NumWorkers + w) * ChunkSize + k

LEMMA SharesFact ==
  ASSUME NEW S, NEW cases \in Seq(S), NEW w \in Worker,
         NEW i \in DOMAIN Shares(cases)[w], NEW k \in DOMAIN Shares(cases)[w][i]
  PROVE  /\ i \in Nat \ {0} /\ k \in 1 .. ChunkSize
         /\ Position(w, i, k) \in DOMAIN cases
         /\ Shares(cases)[w][i][k] = cases[Position(w, i, k)]
<1> USE ChunkAssumption
<1> DEFINE groups == Subgroups(cases)
           g == (i - 1) * NumWorkers + w + 1
<1>1. groups \in Seq(Seq(S))
  BY SubgroupsFact
<1>2. /\ Shares(cases) \in [Worker -> Seq(Seq(S))]
      /\ g \in DOMAIN groups
      /\ Shares(cases)[w][i] = groups[g]
  BY <1>1, PartitionedFact DEF Shares
<1>3. i \in Nat \ {0}
  BY <1>2
<1>4. w \in Nat /\ g \in Nat \ {0} /\ g - 1 = (i - 1) * NumWorkers + w
  BY <1>3 DEF Worker
<1> HIDE DEF g, groups
<1>5. /\ k \in 1 .. ChunkSize
      /\ (g - 1) * ChunkSize + k <= Len(cases)
      /\ groups[g][k] = cases[(g - 1) * ChunkSize + k]
  <2>1. /\ DOMAIN groups[g] = {m \in 1 .. ChunkSize : (g - 1) * ChunkSize + m <= Len(cases)}
        /\ \A m \in DOMAIN groups[g] :
             groups[g][m] = cases[(g - 1) * ChunkSize + m]
    BY <1>2, SubgroupsFact DEF groups
  <2>2. k \in DOMAIN groups[g]
    BY <1>2
  <2> QED  BY <2>1, <2>2
<1>6. Position(w, i, k) = (g - 1) * ChunkSize + k
  BY <1>4 DEF Position
<1>7. (g - 1) * ChunkSize \in Nat
  BY <1>4, ProductType
<1>8. (g - 1) * ChunkSize + k \in 1 .. Len(cases)
  BY <1>5, <1>7
<1> QED  BY <1>2, <1>3, <1>5, <1>6, <1>8

\* No test case is in two groups, of one worker or of two: TrialRunner's
\* PartitionAssumption, for every worker and between any two of them.
THEOREM SharesAreDisjoint ==
  ASSUME NEW S, NEW cases \in Seq(S),
         \A p, q \in DOMAIN cases : cases[p] = cases[q] => p = q,
         NEW v \in Worker, NEW w \in Worker,
         NEW i \in DOMAIN Shares(cases)[v], NEW j \in DOMAIN Shares(cases)[w],
         NEW k \in DOMAIN Shares(cases)[v][i], NEW l \in DOMAIN Shares(cases)[w][j],
         Shares(cases)[v][i][k] = Shares(cases)[w][j][l]
  PROVE  v = w /\ i = j /\ k = l
<1> USE ChunkAssumption
<1> DEFINE a == (i - 1) * NumWorkers + v
           b == (j - 1) * NumWorkers + w
<1>1. /\ i \in Nat \ {0} /\ k \in 1 .. ChunkSize
      /\ Position(v, i, k) \in DOMAIN cases
      /\ Shares(cases)[v][i][k] = cases[Position(v, i, k)]
  BY SharesFact
<1>2. /\ j \in Nat \ {0} /\ l \in 1 .. ChunkSize
      /\ Position(w, j, l) \in DOMAIN cases
      /\ Shares(cases)[w][j][l] = cases[Position(w, j, l)]
  BY SharesFact
<1>3. InBlock(ChunkSize, a, k) = InBlock(ChunkSize, b, l)
  BY <1>1, <1>2 DEF Position, InBlock
<1>4. v \in Nat /\ w \in Nat /\ v + 1 \in 1 .. NumWorkers /\ w + 1 \in 1 .. NumWorkers
  BY DEF Worker
<1>5. i - 1 \in Nat /\ j - 1 \in Nat /\ a \in Nat /\ b \in Nat
  <2>1. i - 1 \in Nat /\ j - 1 \in Nat
    BY <1>1, <1>2
  <2>2. a \in Nat /\ b \in Nat
    BY <1>4, <2>1, PlaceType
  <2> QED  BY <2>1, <2>2
<1> HIDE DEF a, b
<1>6. a = b /\ k = l
  <2>1. k \in 1 .. ChunkSize /\ l \in 1 .. ChunkSize
    BY <1>1, <1>2
  <2> QED  BY <1>3, <1>5, <2>1, BlocksDisjoint
<1>7. InBlock(NumWorkers, i - 1, v + 1) = InBlock(NumWorkers, j - 1, w + 1)
  <2>1. (i - 1) * NumWorkers \in Nat /\ (j - 1) * NumWorkers \in Nat
    BY <1>5, ProductType
  <2>2. (i - 1) * NumWorkers + v = (j - 1) * NumWorkers + w
    BY <1>6 DEF a, b
  <2> QED  BY <1>4, <2>1, <2>2 DEF InBlock
<1>8. i - 1 = j - 1 /\ v + 1 = w + 1
  BY <1>4, <1>5, <1>7, BlocksDisjoint
<1> QED  BY <1>1, <1>2, <1>4, <1>6, <1>8

\* Every test case is in a group of some worker.
THEOREM SharesCoverThePlan ==
  ASSUME NEW S, NEW cases \in Seq(S), NEW p \in DOMAIN cases
  PROVE  \E w \in Worker : \E i \in DOMAIN Shares(cases)[w] :
           \E k \in DOMAIN Shares(cases)[w][i] : Shares(cases)[w][i][k] = cases[p]
<1> USE ChunkAssumption
<1> DEFINE groups == Subgroups(cases)
<1>1. PICK h \in Nat, k \in 1 .. ChunkSize : p = InBlock(ChunkSize, h, k)
  <2>1. p \in Nat \ {0}  OBVIOUS
  <2> QED  BY <2>1, BlocksCover
<1>2. PICK c \in Nat, x \in 1 .. NumWorkers : h + 1 = InBlock(NumWorkers, c, x)
  <2>1. h + 1 \in Nat \ {0}  OBVIOUS
  <2> QED  BY <2>1, BlocksCover
<1>3. groups \in Seq(Seq(S)) /\ Len(groups) = CeilDiv(Len(cases), ChunkSize)
  BY SubgroupsFact
<1>4. h * ChunkSize < Len(cases)
  <2>1. h * ChunkSize \in Nat
    BY ProductType
  <2> QED  BY <1>1, <2>1 DEF InBlock
<1>5. h + 1 <= Len(groups)
  <2>1. h + 1 \in Nat \ {0} /\ ((h + 1) - 1) * ChunkSize < Len(cases)
    BY <1>1, <1>4
  <2> QED  BY <2>1, <1>3, CeilDivBound
<1> DEFINE w == x - 1
           i == c + 1
<1>6. w \in Worker /\ i \in Nat \ {0} /\ (i - 1) * NumWorkers + w + 1 = h + 1
  BY <1>2 DEF Worker, InBlock
<1>7. h + 1 \in DOMAIN groups
  BY <1>1, <1>3, <1>5
<1>8. i \in DOMAIN Shares(cases)[w] /\ Shares(cases)[w][i] = groups[h + 1]
  <2> HIDE DEF w, i, groups
  <2>0. (i - 1) * NumWorkers + w + 1 <= Len(groups)
    BY <1>5, <1>6
  <2>1. i \in DOMAIN Partitioned(groups)[w]
    BY <1>3, <1>6, <2>0, PartitionedFact
  <2>2. \A v \in Worker : \A m \in DOMAIN Partitioned(groups)[v] :
           Partitioned(groups)[v][m] = groups[(m - 1) * NumWorkers + v + 1]
    BY <1>3, PartitionedFact
  <2>3. Partitioned(groups)[w][i] = groups[(i - 1) * NumWorkers + w + 1]
    BY <1>6, <2>1, <2>2
  <2> QED  BY <1>6, <2>1, <2>3 DEF Shares, groups
<1>9. k \in DOMAIN groups[h + 1] /\ groups[h + 1][k] = cases[p]
  <2>1. /\ DOMAIN groups[h + 1] =
             {m \in 1 .. ChunkSize : ((h + 1) - 1) * ChunkSize + m <= Len(cases)}
        /\ \A m \in DOMAIN groups[h + 1] :
             groups[h + 1][m] = cases[((h + 1) - 1) * ChunkSize + m]
    BY <1>7, SubgroupsFact
  <2>2. (h + 1) - 1 = h
    OBVIOUS
  <2> QED  BY <1>1, <2>1, <2>2 DEF InBlock
<1> QED  BY <1>6, <1>8, <1>9

\* No group is empty or longer than CHUNK_SIZE, so that a trial can take it.
THEOREM GroupsFitTrials ==
  ASSUME NEW S, NEW cases \in Seq(S), NEW w \in Worker, NEW i \in DOMAIN Shares(cases)[w]
  PROVE  Shares(cases)[w][i] \in Seq(S) /\ Len(Shares(cases)[w][i]) \in 1 .. ChunkSize
<1> USE ChunkAssumption
<1> DEFINE groups == Subgroups(cases)
           g == (i - 1) * NumWorkers + w + 1
<1>1. groups \in Seq(Seq(S))
  BY SubgroupsFact
<1>2. g \in DOMAIN groups /\ Shares(cases)[w][i] = groups[g]
  BY <1>1, PartitionedFact DEF Shares
<1> DEFINE group == groups[g]
           first == (g - 1) * ChunkSize
<1>3. group \in Seq(S)
  BY <1>1, <1>2
<1>4. first < Len(cases) /\ DOMAIN group = {k \in 1 .. ChunkSize : first + k <= Len(cases)}
  BY <1>2, SubgroupsFact
<1>5. first \in Nat
  <2>1. g \in Nat \ {0}
    BY <1>1, <1>2
  <2> HIDE DEF g
  <2>2. g - 1 \in Nat
    BY <2>1
  <2> QED  BY <2>2, ProductType
<1> HIDE DEF group, first
<1>6. 1 \in DOMAIN group
  BY <1>4, <1>5
<1>7. Len(group) \in Nat /\ DOMAIN group = 1 .. Len(group)
  BY <1>3
<1>8. Len(group) >= 1 /\ Len(group) \in DOMAIN group
  BY <1>6, <1>7
<1>9. Len(group) \in 1 .. ChunkSize
  BY <1>4, <1>8
<1> QED  BY <1>2, <1>3, <1>9 DEF group

\* The round robin gives no worker two groups more than another.
THEOREM SharesAreEven ==
  ASSUME NEW S, NEW cases \in Seq(S), NEW v \in Worker, NEW w \in Worker
  PROVE  Len(Shares(cases)[v]) <= Len(Shares(cases)[w]) + 1
<1> USE ChunkAssumption
<1> DEFINE groups == Subgroups(cases)
           a == Len(Shares(cases)[v])
           b == Len(Shares(cases)[w])
           n == Len(groups)
<1>1. groups \in Seq(Seq(S)) /\ n \in Nat
  <2>1. groups \in Seq(Seq(S))
    BY SubgroupsFact
  <2> QED  BY <2>1
<1>2. \A x \in Worker : /\ Shares(cases)[x] \in Seq(Seq(S))
                        /\ \A k \in Nat \ {0} : k \in DOMAIN Shares(cases)[x]
                               <=> (k - 1) * NumWorkers + x + 1 <= n
  BY <1>1, PartitionedFact DEF Shares
<1>3. /\ a \in Nat /\ DOMAIN Shares(cases)[v] = 1 .. a
      /\ b \in Nat /\ DOMAIN Shares(cases)[w] = 1 .. b
  BY <1>2
<1>4. v \in 0 .. NumWorkers - 1 /\ w \in 0 .. NumWorkers - 1
  BY DEF Worker
<1> HIDE DEF a, b, n, groups
<1>5. b * NumWorkers + w + 1 > n
  <2>1. b + 1 \in Nat \ {0} /\ b + 1 \notin 1 .. b /\ (b + 1) - 1 = b
    BY <1>3
  <2>2. ~ (((b + 1) - 1) * NumWorkers + w + 1 <= n)
    BY <1>2, <1>3, <2>1
  <2>3. b * NumWorkers \in Nat
    BY <1>3, ProductType
  <2> QED  BY <1>1, <1>4, <2>1, <2>2, <2>3
<1>6. ASSUME a > b + 1 PROVE FALSE
  <2>1. b + 2 \in Nat \ {0} /\ b + 2 \in 1 .. a /\ (b + 2) - 1 = b + 1
    BY <1>3, <1>6
  <2>2. (b + 1) * NumWorkers + v + 1 <= n
    BY <1>2, <1>3, <2>1
  <2>3. (b + 1) * NumWorkers = b * NumWorkers + NumWorkers /\ b * NumWorkers \in Nat
    BY <1>3, ProductType
  <2> QED  BY <1>1, <1>4, <1>5, <2>2, <2>3
<1> QED  BY <1>3, <1>6 DEF a, b
=============================================================================
