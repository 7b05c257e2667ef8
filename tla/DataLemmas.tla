----------------------------- MODULE DataLemmas -----------------------------
(***************************************************************************)
(* Induction over the natural numbers, with a set for the predicate so     *)
(* that a lemma can be instantiated with it, recursion along a sequence,   *)
(* that a fold has a value at every step of the way, and what the folds    *)
(* and rankings used by the models compute.                                *)
(***************************************************************************)
EXTENDS SequencesExt, Integers, FiniteSetTheorems, TLAPS

\* The least element outside P would have a predecessor inside it.
LEMMA SetInduction ==
  ASSUME NEW P, 0 \in P, \A n \in Nat : n \in P => n + 1 \in P
  PROVE  \A n \in Nat : n \in P
<1> DEFINE R == OpToRel(<, Nat)
           T == Nat \ P
<1>1. IsWellFoundedOn(R, Nat)
  BY NatLessThanWellFounded
<1>2. ASSUME T # {} PROVE FALSE
  <2>1. PICK m \in T : \A k \in T : <<k, m>> \notin R
    <3>1. T # {} /\ T \subseteq Nat
      BY <1>2
    <3> HIDE DEF R, T
    <3> QED  BY <1>1, <3>1, WFMin
  <2>2. m \in Nat /\ m # 0
    BY <2>1
  <2>3. m - 1 \in Nat /\ m - 1 \notin T
    <3>1. m - 1 \in Nat /\ m - 1 < m
      BY <2>2
    <3>2. <<m - 1, m>> \in R
      BY <2>2, <3>1 DEF OpToRel
    <3> QED  BY <2>1, <3>1, <3>2
  <2>4. m - 1 \in P /\ (m - 1) + 1 = m
    BY <2>2, <2>3
  <2> QED  BY <2>1, <2>3, <2>4
<1> QED  BY <1>2

-----------------------------------------------------------------------------
(* Recursion *)

\* g is what a loop of n turns computes: from c, a step with every turn.
Recursion(g, S, c, step, n) ==
  /\ g \in [0 .. n -> S]
  /\ g[0] = c
  /\ \A i \in 1 .. n : g[i] = step[<<g[i - 1], i>>]

\* There is such a g: extend that for n - 1 turns.
LEMMA RecursionExists ==
  ASSUME NEW S, NEW c, c \in S, NEW step, step \in [S \X (Nat \ {0}) -> S], NEW n, n \in Nat
  PROVE  \E g : Recursion(g, S, c, step, n)
<1> USE DEF Recursion
<1> DEFINE Solves(g, m) == g[0] = c /\ \A i \in 1 .. m : g[i] = step[<<g[i - 1], i>>]
           P == {m \in Nat : \E g \in [0 .. m -> S] : Solves(g, m)}
<1>1. 0 \in P
  <2> DEFINE g == [i \in 0 .. 0 |-> c]
  <2>1. g \in [0 .. 0 -> S] /\ g[0] = c /\ 1 .. 0 = {}
    OBVIOUS
  <2> QED  BY <2>1
<1>2. ASSUME NEW m \in Nat, m \in P PROVE m + 1 \in P
  <2>1. PICK g \in [0 .. m -> S] : Solves(g, m)
    BY <1>2
  <2> DEFINE next == step[<<g[m], m + 1>>]
             h == [i \in 0 .. m + 1 |-> IF i = m + 1 THEN next ELSE g[i]]
  <2>2. next \in S
    <3>1. g[m] \in S /\ m + 1 \in Nat \ {0}
      OBVIOUS
    <3> QED  BY <3>1
  <2>3. h \in [0 .. m + 1 -> S]
    <3> HIDE DEF next
    <3> QED  BY <2>2
  <2>4. ASSUME NEW i \in 1 .. m + 1
        PROVE  h[i] = step[<<h[i - 1], i>>]
    <3>1. CASE i = m + 1
      <4>1. h[i] = next /\ i - 1 = m /\ h[m] = g[m] /\ i # 0
        BY <3>1
      <4> QED  BY <3>1, <4>1
    <3>2. CASE i \in 1 .. m
      <4>1. h[i] = g[i] /\ h[i - 1] = g[i - 1]
        BY <3>2
      <4> HIDE DEF h
      <4> QED  BY <2>1, <3>2, <4>1
    <3> QED  BY <3>1, <3>2
  <2>5. h[0] = c
    BY <2>1
  <2> HIDE DEF h
  <2> QED  BY <2>3, <2>4, <2>5
<1> HIDE DEF P
<1>3. n \in P
  BY <1>1, <1>2, SetInduction
<1> QED  BY <1>3 DEF P

LEMMA GreatestIndex ==
  ASSUME NEW n \in Nat, NEW s \in SUBSET (1 .. n), s # {}
  PROVE  Max(s) \in s
<1> DEFINE P == {m \in Nat : \A t \in SUBSET (1 .. m) : t # {} => \E x \in t : \A y \in t : x >= y}
<1>1. 0 \in P
  <2>1. 1 .. 0 = {}
    OBVIOUS
  <2> QED  BY <2>1
<1>2. ASSUME NEW m \in Nat, m \in P PROVE m + 1 \in P
  <2>1. ASSUME NEW t \in SUBSET (1 .. m + 1), t # {} PROVE \E x \in t : \A y \in t : x >= y
    <3>1. CASE m + 1 \in t
      <4>1. \A y \in t : m + 1 >= y
        OBVIOUS
      <4> QED  BY <3>1, <4>1
    <3>2. CASE m + 1 \notin t
      <4>1. t \in SUBSET (1 .. m)
        BY <3>2
      <4> QED  BY <1>2, <2>1, <4>1
    <3> QED  BY <3>1, <3>2
  <2> QED  BY <2>1
<1> HIDE DEF P
<1>3. n \in P
  BY <1>1, <1>2, SetInduction
<1>4. \E x \in s : \A y \in s : x >= y
  BY <1>3 DEF P
<1> QED  BY <1>4 DEF Max

\* h is what a fold over the indices up to n is defined with: it takes the
\* greatest index of a set last.
FoldRecursion(h, S, c, step, n) ==
  /\ h \in [SUBSET (1 .. n) -> S]
  /\ \A s \in SUBSET (1 .. n) :
       h[s] = IF s = {} THEN c ELSE step[<<h[s \ {Max(s)}], Max(s)>>]

LEMMA FoldExists ==
  ASSUME NEW S, NEW c, c \in S, NEW step, step \in [S \X (Nat \ {0}) -> S], NEW n, n \in Nat
  PROVE  \E h : FoldRecursion(h, S, c, step, n)
<1> DEFINE Solves(h, m) ==
             \A s \in SUBSET (1 .. m) : h[s] = IF s = {} THEN c ELSE step[<<h[s \ {Max(s)}], Max(s)>>]
           Solvable(m) == \E h \in [SUBSET (1 .. m) -> S] : Solves(h, m)
           P == {m \in Nat : Solvable(m)}
<1>1. 0 \in P
  <2> DEFINE h == [s \in SUBSET (1 .. 0) |-> c]
  <2>1. h \in [SUBSET (1 .. 0) -> S] /\ \A s \in SUBSET (1 .. 0) : s = {} /\ h[s] = c
    OBVIOUS
  <2> HIDE DEF h
  <2> QED  BY <2>1
<1>2. ASSUME NEW m \in Nat, m \in P PROVE m + 1 \in P
  <2> DEFINE I == 1 .. m
             J == 1 .. m + 1
             k == m + 1
  <2>1. PICK h \in [SUBSET I -> S] : Solves(h, m)
    BY <1>2
  <2>2. k \in Nat \ {0} /\ k \notin I /\ I \subseteq J /\ J = I \cup {k} /\ \A i \in I : i < k
    OBVIOUS
  <2>3. \A s \in SUBSET J : k \in s => Max(s) = k
    <3> TAKE s \in SUBSET J
    <3>1. HAVE k \in s
    <3>2. \A y \in s : k >= y /\ (y >= k => y = k)
      BY <2>2
    <3> QED  BY <3>1, <3>2 DEF Max
  <2> DEFINE g == [s \in SUBSET J |-> IF k \in s THEN step[<<h[s \ {k}], k>>] ELSE h[s]]
  <2>4. \A s \in SUBSET J : s \ {k} \in SUBSET I /\ (k \notin s => s \in SUBSET I)
    BY <2>2
  <2> HIDE DEF I, J, k
  <2>5. g \in [SUBSET J -> S]
    <3>1. ASSUME NEW s \in SUBSET J, k \in s PROVE step[<<h[s \ {k}], k>>] \in S
      <4>1. h[s \ {k}] \in S
        BY <2>1, <2>4
      <4> QED  BY <2>2, <4>1
    <3>2. ASSUME NEW s \in SUBSET J, k \notin s PROVE h[s] \in S
      BY <2>1, <2>4, <3>2
    <3> QED  BY <3>1, <3>2
  <2>6. ASSUME NEW s \in SUBSET J
        PROVE  g[s] = IF s = {} THEN c ELSE step[<<g[s \ {Max(s)}], Max(s)>>]
    <3>1. CASE k \in s
      <4>1. Max(s) = k /\ s # {} /\ s \ {k} \in SUBSET J /\ k \notin s \ {k}
        BY <2>3, <3>1
      <4>2. g[s] = step[<<h[s \ {k}], k>>] /\ g[s \ {k}] = h[s \ {k}]
        BY <3>1, <4>1
      <4> HIDE DEF g
      <4> QED  BY <4>1, <4>2
    <3>2. CASE k \notin s
      <4> DEFINE d == s \ {Max(s)}
      <4>1. s \in SUBSET I /\ d \in SUBSET J /\ k \notin d
        BY <2>4, <3>2
      <4>2. g[s] = h[s] /\ g[d] = h[d]
        BY <3>2, <4>1
      <4>3. h[s] = IF s = {} THEN c ELSE step[<<h[d], Max(s)>>]
        BY <2>1, <4>1 DEF I
      <4> HIDE DEF g, d
      <4>4. g[s] = IF s = {} THEN c ELSE step[<<g[d], Max(s)>>]
        BY <4>2, <4>3
      <4> QED  BY <4>4 DEF d
    <3> QED  BY <3>1, <3>2
  <2> HIDE DEF g
  <2>7. Solvable(m + 1)
    BY <2>5, <2>6 DEF J, k
  <2> HIDE DEF Solvable
  <2> QED  BY <2>7
<1> HIDE DEF P
<1>3. n \in P
  BY <1>1, <1>2, SetInduction
<1> QED  BY <1>3 DEF P, FoldRecursion

-----------------------------------------------------------------------------
(* FlattenSeq *)

\* The first i of the sequences, one after another.
LEMMA FlattenRecursion ==
  ASSUME NEW S, NEW seqs \in Seq(Seq(S)), Len(seqs) # 0
  PROVE  \E f \in [1 .. Len(seqs) -> Seq(S)] :
           /\ f[1] = seqs[1]
           /\ \A i \in 2 .. Len(seqs) : f[i] = f[i - 1] \o seqs[i]
           /\ FlattenSeq(seqs) = f[Len(seqs)]
<1> DEFINE n == Len(seqs)
           Q == Seq(S)
           none == << >>
           Add(s, i) == s \o seqs[i]
           Solves(g) == g = [i \in 1 .. n |-> IF i = 1 THEN seqs[i] ELSE Add(g[i - 1], i)]
           f == CHOOSE g : Solves(g)
<1>1. n \in Nat /\ n >= 1
  OBVIOUS
<1>2. FlattenSeq(seqs) = f[n]
  BY <1>1 DEF FlattenSeq
<1>3. none \in Q /\ \A s \in Q, i \in 1 .. n : Add(s, i) \in Q
  OBVIOUS
<1>4. 1 \in 1 .. n /\ seqs[1] \in Q /\ Add(none, 1) = seqs[1]
  <2>1. seqs[1] \in Seq(S) /\ 1 \in 1 .. n
    BY <1>1
  <2> QED  BY <2>1
<1>4a. \A g, i : g[i - 1] \o seqs[i] = Add(g[i - 1], i)
  OBVIOUS
<1> HIDE DEF n, Q, none, Add, f
<1>5. \E g : Solves(g)
  <2> DEFINE step == [x \in Q \X (Nat \ {0}) |->
                        IF x[2] \in 1 .. n THEN Add(x[1], x[2]) ELSE none]
  <2>1. step \in [Q \X (Nat \ {0}) -> Q]
    BY <1>3
  <2>2. \A s \in Q, i \in 1 .. n : step[<<s, i>>] = Add(s, i)
    <3> TAKE s \in Q, i \in 1 .. n
    <3>1. <<s, i>> \in Q \X (Nat \ {0}) /\ <<s, i>>[1] = s /\ <<s, i>>[2] = i
      BY <1>1
    <3> QED  BY <3>1
  <2> HIDE DEF step, Solves
  <2>3. PICK h : Recursion(h, Q, none, step, n)
    BY <1>1, <1>3, <2>1, RecursionExists
  <2>4. ASSUME NEW i \in 1 .. n PROVE h[i] = Add(h[i - 1], i)
    <3>1. i \in 0 .. n /\ i # 0 /\ i - 1 \in 0 .. n
      BY <1>1
    <3>2. h[i] = step[<<h[i - 1], i>>] /\ h[i - 1] \in Q
      BY <2>3, <3>1 DEF Recursion
    <3> QED  BY <2>2, <3>2
  <2>5. h[1] = seqs[1]
    <3>1. h[0] = none
      BY <2>3 DEF Recursion
    <3>2. h[1] = Add(h[1 - 1], 1) /\ 1 - 1 = 0
      BY <1>4, <2>4
    <3> QED  BY <1>4, <3>1, <3>2
  <2> DEFINE g == [i \in 1 .. n |-> h[i]]
  <2>6. ASSUME NEW i \in 1 .. n
        PROVE  g[i] = IF i = 1 THEN seqs[i] ELSE Add(g[i - 1], i)
    <3>1. i # 1 => i - 1 \in 1 .. n
      BY <1>1
    <3> QED  BY <2>4, <2>5, <3>1
  <2>7. g = [i \in 1 .. n |-> g[i]]
    OBVIOUS
  <2> HIDE DEF g
  <2> QED  BY <2>6, <2>7 DEF Solves
<1>6. Solves(f)
  <2> HIDE DEF Solves
  <2> QED  BY <1>5 DEF f
<1>7. /\ DOMAIN f = 1 .. n
      /\ f[1] = seqs[1]
      /\ \A i \in 2 .. n : f[i] = Add(f[i - 1], i)
  <2>1. \A i \in 1 .. n : f[i] = IF i = 1 THEN seqs[i] ELSE Add(f[i - 1], i)
    BY <1>6
  <2>2. \A i \in 2 .. n : i \in 1 .. n /\ i # 1
    BY <1>1
  <2> QED  BY <1>4, <1>6, <2>1, <2>2
<1>8. \A i \in 1 .. n : f[i] \in Q
  <2> DEFINE P == {i \in Nat : i \in 1 .. n => f[i] \in Q}
  <2>1. 0 \in P
    BY <1>1
  <2>2. ASSUME NEW i \in Nat, i \in P PROVE i + 1 \in P
    <3>1. CASE i = 0
      BY <1>4, <1>7, <3>1
    <3>2. CASE i # 0 /\ i + 1 \in 1 .. n
      <4>1. i \in 1 .. n /\ i + 1 \in 2 .. n /\ (i + 1) - 1 = i
        BY <1>1, <3>2
      <4>2. f[i] \in Q /\ f[i + 1] = Add(f[i], i + 1)
        BY <1>7, <2>2, <4>1
      <4> QED  BY <1>3, <3>2, <4>2
    <3> QED  BY <3>1, <3>2
  <2> HIDE DEF P
  <2>3. \A i \in Nat : i \in P
    BY <2>1, <2>2, SetInduction
  <2> QED  BY <1>1, <2>3 DEF P
<1>9. f \in [1 .. n -> Q]
  <2>1. f = [i \in 1 .. n |-> f[i]]
    BY <1>6, <1>7
  <2> QED  BY <1>8, <2>1
<1> QED  BY <1>2, <1>7, <1>9 DEF n, Q, Add

LEMMA ConcatFacts ==
  ASSUME NEW S, NEW s \in Seq(S), NEW u \in Seq(S)
  PROVE  /\ s \o u \in Seq(S)
         /\ Range(s \o u) = Range(s) \cup Range(u)
         /\ IsInjective(s) /\ IsInjective(u) /\ Range(s) \cap Range(u) = {}
              => IsInjective(s \o u)
<1> DEFINE m == Len(s)
           n == Len(u)
           v == s \o u
<1>1. /\ m \in Nat /\ n \in Nat /\ DOMAIN s = 1 .. m /\ DOMAIN u = 1 .. n
      /\ v \in Seq(S) /\ DOMAIN v = 1 .. m + n
      /\ \A i \in 1 .. m : v[i] = s[i]
      /\ \A i \in 1 .. n : v[m + i] = u[i]
  OBVIOUS
<1> HIDE DEF m, n, v
<1>2. \A i \in 1 .. m + n : i \notin 1 .. m => i - m \in 1 .. n /\ v[i] = u[i - m]
  <2> TAKE i \in 1 .. m + n
  <2>1. i \notin 1 .. m => i - m \in 1 .. n /\ m + (i - m) = i
    BY <1>1
  <2> QED  BY <1>1, <2>1
<1>3. Range(v) = Range(s) \cup Range(u)
  <2>1. ASSUME NEW x \in Range(v) PROVE x \in Range(s) \cup Range(u)
    <3>1. PICK i \in 1 .. m + n : x = v[i]
      BY <1>1 DEF Range
    <3> QED  BY <1>1, <1>2, <3>1 DEF Range
  <2>2. ASSUME NEW x \in Range(s) PROVE x \in Range(v)
    <3>1. PICK i \in 1 .. m : x = s[i]
      BY <1>1 DEF Range
    <3>2. i \in 1 .. m + n /\ x = v[i]
      BY <1>1, <3>1
    <3> QED  BY <1>1, <3>2 DEF Range
  <2>3. ASSUME NEW x \in Range(u) PROVE x \in Range(v)
    <3>1. PICK i \in 1 .. n : x = u[i]
      BY <1>1 DEF Range
    <3>2. m + i \in 1 .. m + n /\ x = v[m + i]
      BY <1>1, <3>1
    <3> QED  BY <1>1, <3>2 DEF Range
  <2> QED  BY <2>1, <2>2, <2>3
<1>4. ASSUME IsInjective(s), IsInjective(u), Range(s) \cap Range(u) = {},
             NEW i \in 1 .. m + n, NEW j \in 1 .. m + n, v[i] = v[j]
      PROVE  i = j
  <2>1. \A k \in 1 .. m : v[k] \in Range(s)
    BY <1>1 DEF Range
  <2>2. \A k \in 1 .. m + n : k \notin 1 .. m => v[k] \in Range(u)
    BY <1>1, <1>2 DEF Range
  <2>3. i \in 1 .. m <=> j \in 1 .. m
    BY <1>4, <2>1, <2>2
  <2>4. CASE i \in 1 .. m
    BY <1>1, <1>4, <2>3, <2>4 DEF IsInjective
  <2>5. CASE i \notin 1 .. m
    <3>1. i - m \in 1 .. n /\ j - m \in 1 .. n /\ u[i - m] = u[j - m]
      BY <1>2, <1>4, <2>3, <2>5
    <3>2. i - m = j - m
      BY <1>1, <1>4, <3>1 DEF IsInjective
    <3> QED  BY <1>1, <3>2
  <2> QED  BY <2>4, <2>5
<1>5. IsInjective(s) /\ IsInjective(u) /\ Range(s) \cap Range(u) = {} => IsInjective(v)
  BY <1>1, <1>4 DEF IsInjective
<1> QED  BY <1>1, <1>3, <1>5 DEF v

\* What FlattenSeq returns has the elements of its sequences, each as often as
\* they have it: once, if no sequence has an element twice and no two share one.
LEMMA FlattenFacts ==
  ASSUME NEW S, NEW seqs \in Seq(Seq(S))
  PROVE  /\ FlattenSeq(seqs) \in Seq(S)
         /\ Range(FlattenSeq(seqs)) = UNION {Range(seqs[i]) : i \in DOMAIN seqs}
         /\ (/\ \A i \in DOMAIN seqs : IsInjective(seqs[i])
             /\ \A i, j \in DOMAIN seqs : i # j => Range(seqs[i]) \cap Range(seqs[j]) = {})
              => IsInjective(FlattenSeq(seqs))
<1> DEFINE n == Len(seqs)
           Upto(i) == UNION {Range(seqs[j]) : j \in 1 .. i}
           Apart == /\ \A i \in 1 .. n : IsInjective(seqs[i])
                    /\ \A i, j \in 1 .. n : i # j => Range(seqs[i]) \cap Range(seqs[j]) = {}
<1>1. n \in Nat /\ DOMAIN seqs = 1 .. n /\ \A i \in 1 .. n : seqs[i] \in Seq(S)
  OBVIOUS
<1>2. CASE n = 0
  <2>1. FlattenSeq(seqs) = seqs /\ seqs = << >>
    BY <1>2 DEF FlattenSeq
  <2>2. FlattenSeq(seqs) = << >> /\ DOMAIN seqs = {} /\ << >> \in Seq(S) /\ DOMAIN << >> = {}
    BY <2>1
  <2> QED  BY <2>2 DEF Range, IsInjective
<1>3. CASE n # 0
  <2>1. PICK f \in [1 .. n -> Seq(S)] :
           /\ f[1] = seqs[1]
           /\ \A i \in 2 .. n : f[i] = f[i - 1] \o seqs[i]
           /\ FlattenSeq(seqs) = f[n]
    BY <1>3, FlattenRecursion
  <2> HIDE DEF n
  <2> DEFINE Flat(i) == /\ f[i] \in Seq(S)
                        /\ Range(f[i]) = Upto(i)
                        /\ Apart => IsInjective(f[i])
             P == {i \in Nat : i \in 1 .. n => Flat(i)}
  <2>3. ASSUME NEW i \in Nat, i + 1 \in 1 .. n, i \in 1 .. n => Flat(i) PROVE Flat(i + 1)
    <3>1. CASE i = 0
      <4>1. 1 \in 1 .. n /\ f[1] = seqs[1] /\ 1 .. 1 = {1}
        BY <1>1, <1>3, <2>1
      <4>2. Flat(1)
        BY <1>1, <4>1
      <4>3. i + 1 = 1
        BY <3>1
      <4> HIDE DEF Flat
      <4> QED  BY <4>2, <4>3
    <3>2. CASE i # 0
      <4> DEFINE s == f[i]
                 u == seqs[i + 1]
      <4>1. i \in 1 .. n /\ i + 1 \in 2 .. n /\ (i + 1) - 1 = i /\ i + 1 \notin 1 .. i
            /\ 1 .. i \subseteq 1 .. n /\ 1 .. i + 1 = 1 .. i \cup {i + 1}
        <5>1. i \in Nat /\ i + 1 <= n /\ 1 <= i
          BY <1>1, <2>3, <3>2
        <5>2. i \in 1 .. n /\ i + 1 \in 2 .. n /\ (i + 1) - 1 = i /\ i + 1 \notin 1 .. i
          BY <1>1, <5>1
        <5>3. 1 .. i \subseteq 1 .. n /\ 1 .. i + 1 = 1 .. i \cup {i + 1}
          BY <1>1, <5>1
        <5> QED  BY <5>2, <5>3
      <4>2. f[i + 1] = s \o u /\ u \in Seq(S) /\ s \in Seq(S)
        BY <1>1, <2>1, <2>3, <4>1
      <4>3. Range(s) = Upto(i) /\ (Apart => IsInjective(s))
        BY <2>3, <4>1
      <4>4. Upto(i + 1) = Upto(i) \cup Range(u)
        BY <4>1
      <4>5. Apart => IsInjective(u) /\ Upto(i) \cap Range(u) = {}
        <5>1. ASSUME Apart, NEW x \in Upto(i) PROVE x \notin Range(u)
          <6>1. PICK j \in 1 .. i : x \in Range(seqs[j])
            OBVIOUS
          <6>2. j \in 1 .. n /\ j # i + 1
            BY <4>1
          <6> QED  BY <2>3, <5>1, <6>1, <6>2
        <5>2. Apart => IsInjective(u)
          BY <2>3
        <5> HIDE DEF Apart, Upto, u
        <5> QED  BY <5>1, <5>2
      <4> HIDE DEF s, u, Apart, Upto
      <4>6. s \o u \in Seq(S) /\ Range(s \o u) = Range(s) \cup Range(u)
            /\ (IsInjective(s) /\ IsInjective(u) /\ Range(s) \cap Range(u) = {}
                  => IsInjective(s \o u))
        BY <4>2, ConcatFacts
      <4>7. Flat(i + 1)
        BY <4>2, <4>3, <4>4, <4>5, <4>6
      <4> QED  BY <4>7
    <3> QED  BY <3>1, <3>2
  <2> HIDE DEF Flat
  <2>2. 0 \in P /\ \A i \in Nat : i \in P => i + 1 \in P
    BY <2>3
  <2> HIDE DEF P
  <2>4. n \in P
    BY <1>1, <2>2, SetInduction
  <2>5. Flat(n)
    BY <1>1, <1>3, <2>4 DEF P
  <2> QED  BY <1>1, <2>1, <2>5 DEF Flat
<1> QED  BY <1>2, <1>3

-----------------------------------------------------------------------------
(* MapThenSumSet *)

LEMMA DisjointUnion ==
  ASSUME NEW S, NEW T, IsFiniteSet(S), IsFiniteSet(T), S \cap T = {}
  PROVE  /\ IsFiniteSet(S \cup T)
         /\ Cardinality(S \cup T) = Cardinality(S) + Cardinality(T)
<1>1. /\ IsFiniteSet(S \cup T)
      /\ Cardinality(S \cup T) = Cardinality(S) + Cardinality(T) - Cardinality(S \cap T)
  BY FS_Union
<1>2. Cardinality(S \cap T) = 0 /\ Cardinality(S) \in Nat /\ Cardinality(T) \in Nat
  BY FS_EmptySet, FS_CardinalityType
<1> QED  BY <1>1, <1>2

\* MapThenSumSet(LAMBDA i : Cardinality(A[i]), I), its definition expanded: an
\* expression the provers can replace A in.
SumOfSizes(A, I) ==
  (CHOOSE iter : iter = [s \in SUBSET I |->
     IF s = {} THEN 0
     ELSE Cardinality(A[CHOOSE x \in s : TRUE]) + iter[s \ {CHOOSE x \in s : TRUE}]])[I]

UnionOf(A, I) == UNION {A[i] : i \in I}

\* Finitely many finite sets, no two of which share an element.
FiniteAndApart(A, I) ==
  /\ IsFiniteSet(I)
  /\ \A i \in I : IsFiniteSet(A[i])
  /\ \A i, j \in I : i # j => A[i] \cap A[j] = {}

\* The sum of the sizes of disjoint sets, however it is added up, is the size of
\* their union.
LEMMA SumOfCardinalities ==
  ASSUME NEW I, NEW A, FiniteAndApart(A, I)
  PROVE  /\ IsFiniteSet(UnionOf(A, I))
         /\ SumOfSizes(A, I) = Cardinality(UnionOf(A, I))
<1> DEFINE Pick(s) == CHOOSE x \in s : TRUE
           Solves(g) == g = [s \in SUBSET I |->
                               IF s = {} THEN 0 ELSE Cardinality(A[Pick(s)]) + g[s \ {Pick(s)}]]
           f == CHOOSE g : Solves(g)
           All(s) == UNION {A[i] : i \in s}
<1>0. /\ IsFiniteSet(I) /\ \A i \in I : IsFiniteSet(A[i])
      /\ \A i, j \in I : i # j => A[i] \cap A[j] = {}
  BY DEF FiniteAndApart
<1>1. SumOfSizes(A, I) = f[I]
  BY DEF SumOfSizes
<1>2. \A s \in SUBSET I : s # {} => Pick(s) \in s
  OBVIOUS
<1> HIDE DEF Pick, f
\* Cardinality(All(s)) solves the recursion: add one set more.
<1>3. ASSUME NEW s \in SUBSET I, NEW x \in s, IsFiniteSet(All(s \ {x}))
      PROVE  /\ IsFiniteSet(All(s))
             /\ Cardinality(All(s)) = Cardinality(A[x]) + Cardinality(All(s \ {x}))
  <2>1. All(s) = A[x] \cup All(s \ {x})
    OBVIOUS
  <2>2. A[x] \cap All(s \ {x}) = {}
    BY <1>0
  <2> HIDE DEF All
  <2>3. IsFiniteSet(A[x])
    BY <1>0
  <2> DEFINE B == A[x]
             C == All(s \ {x})
  <2>4. IsFiniteSet(B) /\ IsFiniteSet(C) /\ B \cap C = {} /\ All(s) = B \cup C
    BY <1>3, <2>1, <2>2, <2>3
  <2> HIDE DEF B, C
  <2>5. IsFiniteSet(All(s)) /\ Cardinality(All(s)) = Cardinality(B) + Cardinality(C)
    BY <2>4, DisjointUnion
  <2> QED  BY <2>5 DEF B, C
<1>4. All({}) = {} /\ IsFiniteSet({}) /\ Cardinality({}) = 0
  BY FS_EmptySet
<1>5. \A s \in SUBSET I : IsFiniteSet(s) /\ Cardinality(s) \in Nat
  BY <1>0, FS_Subset, FS_CardinalityType
<1>6. \A s \in SUBSET I : \A x \in s : s \ {x} \in SUBSET I /\ Cardinality(s \ {x}) = Cardinality(s) - 1
  BY <1>5, FS_RemoveElement
<1> HIDE DEF All
<1>7. \A s \in SUBSET I : IsFiniteSet(All(s))
  <2> DEFINE P == {n \in Nat : \A s \in SUBSET I : Cardinality(s) = n => IsFiniteSet(All(s))}
  <2>1. 0 \in P
    BY <1>4, <1>5, FS_EmptySet
  <2>2. ASSUME NEW n \in Nat, n \in P PROVE n + 1 \in P
    <3> SUFFICES ASSUME NEW s \in SUBSET I, Cardinality(s) = n + 1 PROVE IsFiniteSet(All(s))
      OBVIOUS
    <3>1. PICK x : x \in s
      BY <1>4, <2>2
    <3>2. IsFiniteSet(All(s \ {x}))
      BY <1>6, <2>2, <3>1
    <3> QED  BY <1>3, <3>1, <3>2
  <2> HIDE DEF P
  <2>3. \A n \in Nat : n \in P
    BY <2>1, <2>2, SetInduction
  <2> QED  BY <1>5, <2>3 DEF P
<1>8. \E g : Solves(g)
  <2> DEFINE g == [s \in SUBSET I |-> Cardinality(All(s))]
  <2>1. \A s \in SUBSET I :
          g[s] = IF s = {} THEN 0 ELSE Cardinality(A[Pick(s)]) + g[s \ {Pick(s)}]
    BY <1>2, <1>3, <1>4, <1>6, <1>7
  <2>2. g = [s \in SUBSET I |-> g[s]]
    OBVIOUS
  <2> HIDE DEF g
  <2>3. Solves(g)
    BY <2>1, <2>2
  <2> QED  BY <2>3
<1>9. Solves(f)
  <2> HIDE DEF Solves
  <2> QED  BY <1>8 DEF f
<1>10. \A s \in SUBSET I :
         f[s] = IF s = {} THEN 0 ELSE Cardinality(A[Pick(s)]) + f[s \ {Pick(s)}]
  BY <1>9
\* ... and no other does.
<1>11. \A s \in SUBSET I : f[s] = Cardinality(All(s))
  <2> DEFINE P == {n \in Nat : \A s \in SUBSET I : Cardinality(s) = n => f[s] = Cardinality(All(s))}
  <2>1. 0 \in P
    BY <1>4, <1>5, <1>10, FS_EmptySet
  <2>2. ASSUME NEW n \in Nat, n \in P PROVE n + 1 \in P
    <3> SUFFICES ASSUME NEW s \in SUBSET I, Cardinality(s) = n + 1
                 PROVE  f[s] = Cardinality(All(s))
      OBVIOUS
    <3>1. s # {}
      <4>1. n + 1 # 0
        OBVIOUS
      <4> QED  BY <1>4, <4>1
    <3> DEFINE x == Pick(s)
    <3>2. x \in s /\ s \ {x} \in SUBSET I /\ Cardinality(s \ {x}) = n
      BY <1>2, <1>6, <3>1
    <3>3. f[s \ {x}] = Cardinality(All(s \ {x}))
      BY <2>2, <3>2
    <3>4. f[s] = Cardinality(A[x]) + f[s \ {x}]
      BY <1>10, <3>1
    <3> HIDE DEF x
    <3> QED  BY <1>3, <1>7, <3>2, <3>3, <3>4
  <2> HIDE DEF P
  <2>3. \A n \in Nat : n \in P
    BY <2>1, <2>2, SetInduction
  <2> QED  BY <1>5, <2>3 DEF P
<1> QED  BY <1>1, <1>7, <1>11 DEF All, UnionOf

-----------------------------------------------------------------------------
(* Ranking *)

\* How many elements of K come before one of them.
Rank(K, R) == [k \in K |-> Cardinality({j \in K : <<j, k>> \in R})]

StrictTotalOrder(K, R) ==
  /\ \A k \in K : <<k, k>> \notin R
  /\ \A i, j, k \in K : <<i, j>> \in R /\ <<j, k>> \in R => <<i, k>> \in R
  /\ \A j, k \in K : j # k => <<j, k>> \in R \/ <<k, j>> \in R

\* The ranks of a finite set are 0, 1, 2, ... in its order, and each is taken.
LEMMA RankFacts ==
  ASSUME NEW K, IsFiniteSet(K), NEW R, StrictTotalOrder(K, R)
  PROVE  /\ Rank(K, R) \in [K -> 0 .. Cardinality(K) - 1]
         /\ \A j, k \in K : <<j, k>> \in R => Rank(K, R)[j] < Rank(K, R)[k]
         /\ \A i \in 0 .. Cardinality(K) - 1 : \E k \in K : Rank(K, R)[k] = i
<1> DEFINE n == Cardinality(K)
           r == Rank(K, R)
           Before(k) == {j \in K : <<j, k>> \in R}
<1>1. n \in Nat
  BY FS_CardinalityType
<1>2. DOMAIN r = K /\ \A k \in K : r[k] = Cardinality(Before(k))
  BY DEF Rank
<1>3. \A k \in K : k \notin Before(k) /\ Before(k) \subseteq K
  BY DEF StrictTotalOrder
<1>4. ASSUME NEW j \in K, NEW k \in K, <<j, k>> \in R
      PROVE  Before(j) \cup {j} \subseteq Before(k)
  BY <1>4 DEF StrictTotalOrder
<1>5. r = [k \in K |-> r[k]]
  BY DEF Rank
<1> HIDE DEF n, r, Before
<1>6. \A S \in SUBSET K : IsFiniteSet(S) /\ Cardinality(S) \in Nat /\ Cardinality(S) <= n
  BY <1>1, FS_Subset, FS_CardinalityType DEF n
<1>7. ASSUME NEW k \in K
      PROVE  Cardinality(Before(k) \cup {k}) = r[k] + 1 /\ r[k] \in Nat
  BY <1>2, <1>3, <1>6, FS_AddElement
<1>8. r \in [K -> 0 .. n - 1]
  <2>1. ASSUME NEW k \in K PROVE r[k] \in 0 .. n - 1
    <3>1. Cardinality(Before(k) \cup {k}) <= n
      BY <1>3, <1>6
    <3> QED  BY <1>1, <1>7, <3>1
  <2> QED  BY <1>5, <2>1
<1>9. ASSUME NEW j \in K, NEW k \in K, <<j, k>> \in R
      PROVE  r[j] < r[k]
  <2>1. Cardinality(Before(j) \cup {j}) <= Cardinality(Before(k))
    BY <1>3, <1>4, <1>6, <1>9, FS_Subset
  <2>2. Cardinality(Before(j) \cup {j}) = r[j] + 1 /\ r[j] \in Nat
    BY <1>7
  <2>3. Cardinality(Before(k)) = r[k] /\ r[k] \in Nat
    BY <1>2, <1>7
  <2> QED  BY <2>1, <2>2, <2>3
<1>10. r \in Surjection(K, 0 .. n - 1)
  <2>1. \A j, k \in K : j # k => r[j] # r[k]
    <3>1. \A k \in K : r[k] \in Nat
      BY <1>7
    <3>2. \A j, k \in K : <<j, k>> \in R => r[j] # r[k]
      BY <1>9, <3>1
    <3> QED  BY <3>2 DEF StrictTotalOrder
  <2>2. r \in Injection(K, 0 .. n - 1)
    BY <1>8, <2>1 DEF Injection, IsInjective
  <2>3. IsFiniteSet(0 .. n - 1) /\ Cardinality(0 .. n - 1) = n
    BY <1>1, FS_Interval
  <2> QED  BY <2>2, <2>3, FS_Injection DEF n
<1>11. \A i \in 0 .. n - 1 : \E k \in K : r[k] = i
  BY <1>10 DEF Surjection
<1> QED  BY <1>8, <1>9, <1>11 DEF n, r
=============================================================================
