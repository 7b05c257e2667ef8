--------------------------- MODULE Chactos_proofs ---------------------------
(***************************************************************************)
(* What is proved of the fault injection, for every set of workers, queue  *)
(* of trials and set of pods: the order in which steps are taken, that     *)
(* what a worker has left is the end of its trial, that every transition   *)
(* is tested once however often a trial is started over, that a failure's  *)
(* file is only ever cut short by another worker with the same pods, and,  *)
(* for trials of at most ten steps, that a transition is tested from the   *)
(* state before it.                                                        *)
(***************************************************************************)
EXTENDS Chactos, DataLemmas

-----------------------------------------------------------------------------
(* The order of the keys *)

Numbers == 0 .. 999
Ten == 0 .. 9

\* What stands for a digit, and 0 for none.
Digit(n, i) == IF i \in DOMAIN Digits(n) THEN Digits(n)[i] + 1 ELSE 0

\* Comparing digit by digit.
Lexicographic(m, n) ==
  \/ Digit(m, 1) < Digit(n, 1)
  \/ Digit(m, 1) = Digit(n, 1) /\ Digit(m, 2) < Digit(n, 2)
  \/ Digit(m, 1) = Digit(n, 1) /\ Digit(m, 2) = Digit(n, 2) /\ Digit(m, 3) < Digit(n, 3)

LEMMA TupleFacts ==
  ASSUME NEW S, NEW a \in S, NEW b \in S, NEW c \in S
  PROVE  /\ <<a>> \in Seq(S) /\ Len(<<a>>) = 1 /\ <<a>>[1] = a
         /\ <<a, b>> \in Seq(S) /\ Len(<<a, b>>) = 2 /\ <<a, b>>[1] = a /\ <<a, b>>[2] = b
         /\ <<a, b, c>> \in Seq(S) /\ Len(<<a, b, c>>) = 3
         /\ <<a, b, c>>[1] = a /\ <<a, b, c>>[2] = b /\ <<a, b, c>>[3] = c
  OBVIOUS

OneDigit(n) == Digits(n) = <<n>> /\ n \in Ten
TwoDigits(n) == \E a, b \in Ten : Digits(n) = <<a, b>> /\ n = 10 * a + b
ThreeDigits(n) == \E a, b, c \in Ten : Digits(n) = <<a, b, c>> /\ n = 100 * a + 10 * b + c

LEMMA DigitsOf ==
  ASSUME NEW n \in Numbers
  PROVE  OneDigit(n) \/ TwoDigits(n) \/ ThreeDigits(n)
<1> DEFINE a == n \div 100
           b == n \div 10
           c == n % 10
           d == b % 10
<1>1. n \in Nat /\ n < 1000
  BY DEF Numbers
<1>2. b \in Nat /\ c \in Ten /\ n = 10 * b + c
  BY <1>1 DEF Ten
<1>3. a \in Ten /\ b = 10 * a + d /\ d \in Ten
  BY <1>1 DEF Ten
<1>4. CASE n < 10
  <2>1. Digits(n) = <<n>>
    BY <1>4 DEF Digits
  <2> QED  BY <1>1, <1>4, <2>1 DEF OneDigit, Ten
<1>5. CASE n >= 10 /\ n < 100
  <2>1. Digits(n) = <<b, c>>
    BY <1>1, <1>5 DEF Digits
  <2>2. b \in Ten
    BY <1>2, <1>5 DEF Ten
  <2> HIDE DEF a, b, c, d
  <2> QED  BY <1>2, <1>5, <2>1, <2>2 DEF TwoDigits
<1>6. CASE n >= 100
  <2>1. Digits(n) = <<a, d, c>>
    BY <1>1, <1>6 DEF Digits
  <2>2. n = 100 * a + 10 * d + c
    <3>1. \A x \in Int, y \in Int : 10 * (10 * x + y) = 100 * x + 10 * y
      OBVIOUS
    <3>2. a \in Int /\ d \in Int
      BY <1>3 DEF Ten
    <3>3. b = 10 * a + d /\ n = 10 * b + c
      BY <1>2, <1>3
    <3> HIDE DEF a, b, c, d
    <3>4. 10 * b = 100 * a + 10 * d
      BY <3>1, <3>2, <3>3
    <3> QED  BY <3>3, <3>4
  <2> HIDE DEF a, b, c, d
  <2> QED  BY <1>2, <1>3, <2>1, <2>2 DEF ThreeDigits
<1> QED  BY <1>1, <1>4, <1>5, <1>6

\* A number, given its three digits.
Spelled(n, a, b, c) ==
  /\ Digit(n, 1) = a /\ Digit(n, 2) = b /\ Digit(n, 3) = c
  /\ Digits(n) \in Seq(Ten)
  /\ \/ Len(Digits(n)) = 1 /\ b = 0 /\ c = 0 /\ n = a - 1
     \/ Len(Digits(n)) = 2 /\ b > 0 /\ c = 0 /\ n = 10 * (a - 1) + (b - 1)
     \/ Len(Digits(n)) = 3 /\ b > 0 /\ c > 0 /\ n = 100 * (a - 1) + 10 * (b - 1) + (c - 1)

LEMMA DigitFacts ==
  ASSUME NEW n \in Numbers
  PROVE  \E a \in 1 .. 10, b \in 0 .. 10, c \in 0 .. 10 : Spelled(n, a, b, c)
<1> DEFINE s == Digits(n)
<1>0. ASSUME NEW l \in 1 .. 3, s \in Seq(Ten), Len(s) = l
      PROVE  \A i \in 1 .. 3 : Digit(n, i) = IF i <= l THEN s[i] + 1 ELSE 0
  <2> HIDE DEF s
  <2>1. DOMAIN s = 1 .. l
    BY <1>0
  <2> QED  BY <2>1 DEF Digit, s
<1>1. CASE OneDigit(n)
  <2> USE DEF OneDigit
  <2>1. <<n>> \in Seq(Ten) /\ Len(<<n>>) = 1 /\ <<n>>[1] = n
    BY <1>1, TupleFacts
  <2>2. Digit(n, 1) = n + 1 /\ Digit(n, 2) = 0 /\ Digit(n, 3) = 0
    BY <1>0, <1>1, <2>1
  <2>3. n + 1 \in 1 .. 10 /\ (n + 1) - 1 = n /\ 0 \in 0 .. 10
    BY <1>1 DEF Ten
  <2>4. Spelled(n, n + 1, 0, 0)
    BY <1>1, <2>1, <2>2, <2>3 DEF Spelled
  <2> QED  BY <2>3, <2>4
<1>2. ASSUME NEW a \in Ten, NEW b \in Ten, Digits(n) = <<a, b>>, n = 10 * a + b
      PROVE  \E x \in 1 .. 10, y \in 0 .. 10, z \in 0 .. 10 : Spelled(n, x, y, z)
  <2>1. <<a, b>> \in Seq(Ten) /\ Len(<<a, b>>) = 2 /\ <<a, b>>[1] = a /\ <<a, b>>[2] = b
    BY TupleFacts
  <2>2. Digit(n, 1) = a + 1 /\ Digit(n, 2) = b + 1 /\ Digit(n, 3) = 0
    BY <1>0, <1>2, <2>1
  <2>3. /\ a + 1 \in 1 .. 10 /\ b + 1 \in 0 .. 10 /\ b + 1 > 0 /\ 0 \in 0 .. 10
        /\ n = 10 * ((a + 1) - 1) + ((b + 1) - 1)
    BY <1>2 DEF Ten
  <2>4. Spelled(n, a + 1, b + 1, 0)
    BY <1>2, <2>1, <2>2, <2>3 DEF Spelled
  <2> QED  BY <2>3, <2>4
<1>3. ASSUME NEW a \in Ten, NEW b \in Ten, NEW c \in Ten,
             Digits(n) = <<a, b, c>>, n = 100 * a + 10 * b + c
      PROVE  \E x \in 1 .. 10, y \in 0 .. 10, z \in 0 .. 10 : Spelled(n, x, y, z)
  <2>1. /\ <<a, b, c>> \in Seq(Ten) /\ Len(<<a, b, c>>) = 3
        /\ <<a, b, c>>[1] = a /\ <<a, b, c>>[2] = b /\ <<a, b, c>>[3] = c
    BY TupleFacts
  <2>2. Digit(n, 1) = a + 1 /\ Digit(n, 2) = b + 1 /\ Digit(n, 3) = c + 1
    BY <1>0, <1>3, <2>1
  <2>3. /\ a + 1 \in 1 .. 10 /\ b + 1 \in 0 .. 10 /\ b + 1 > 0 /\ c + 1 \in 0 .. 10 /\ c + 1 > 0
        /\ n = 100 * ((a + 1) - 1) + 10 * ((b + 1) - 1) + ((c + 1) - 1)
    BY <1>3 DEF Ten
  <2>4. Spelled(n, a + 1, b + 1, c + 1)
    BY <1>3, <2>1, <2>2, <2>3 DEF Spelled
  <2> QED  BY <2>3, <2>4
<1>4. CASE TwoDigits(n)
  BY <1>2, <1>4 DEF TwoDigits
<1>5. CASE ThreeDigits(n)
  BY <1>3, <1>5 DEF ThreeDigits
<1>6. OneDigit(n) \/ TwoDigits(n) \/ ThreeDigits(n)
  BY DigitsOf
<1> QED  BY <1>1, <1>4, <1>5, <1>6

\* The order in which the keys sort is that of a strict total order.
LEMMA LexicographicOrder ==
  ASSUME NEW l \in Numbers, NEW m \in Numbers, NEW n \in Numbers
  PROVE  /\ ~ Lexicographic(n, n)
         /\ Lexicographic(l, m) /\ Lexicographic(m, n) => Lexicographic(l, n)
         /\ m # n => Lexicographic(m, n) \/ Lexicographic(n, m)
<1>1. PICK a \in 1 .. 10, b \in 0 .. 10, c \in 0 .. 10 : Spelled(l, a, b, c)
  BY DigitFacts
<1>2. PICK p \in 1 .. 10, q \in 0 .. 10, r \in 0 .. 10 : Spelled(m, p, q, r)
  BY DigitFacts
<1>3. PICK x \in 1 .. 10, y \in 0 .. 10, z \in 0 .. 10 : Spelled(n, x, y, z)
  BY DigitFacts
<1>4. /\ Lexicographic(l, m) <=> a < p \/ (a = p /\ b < q) \/ (a = p /\ b = q /\ c < r)
      /\ Lexicographic(m, n) <=> p < x \/ (p = x /\ q < y) \/ (p = x /\ q = y /\ r < z)
      /\ Lexicographic(n, m) <=> x < p \/ (x = p /\ y < q) \/ (x = p /\ y = q /\ z < r)
      /\ Lexicographic(l, n) <=> a < x \/ (a = x /\ b < y) \/ (a = x /\ b = y /\ c < z)
      /\ Lexicographic(n, n) <=> x < x \/ (x = x /\ y < y) \/ (x = x /\ y = y /\ z < z)
  <2>1. /\ Digit(l, 1) = a /\ Digit(l, 2) = b /\ Digit(l, 3) = c
        /\ Digit(m, 1) = p /\ Digit(m, 2) = q /\ Digit(m, 3) = r
        /\ Digit(n, 1) = x /\ Digit(n, 2) = y /\ Digit(n, 3) = z
    BY <1>1, <1>2, <1>3 DEF Spelled
  <2> QED  BY <2>1 DEF Lexicographic
<1>5. p = x /\ q = y /\ r = z => m = n
  BY <1>2, <1>3 DEF Spelled
<1> QED  BY <1>4, <1>5

LEMMA SamePrefix ==
  ASSUME NEW S, NEW s \in Seq(S), NEW t \in Seq(S), NEW k \in Nat, k <= Len(s), k <= Len(t)
  PROVE  SubSeq(s, 1, k) = SubSeq(t, 1, k) <=> \A j \in 1 .. k : s[j] = t[j]
<1> DEFINE p == SubSeq(s, 1, k)
           q == SubSeq(t, 1, k)
<1>1. p = [j \in 1 .. k |-> s[j]] /\ q = [j \in 1 .. k |-> t[j]]
  OBVIOUS
<1> HIDE DEF p, q
<1>2. p = q <=> \A j \in 1 .. k : s[j] = t[j]
  BY <1>1
<1> QED BY <1>2 DEF p, q

LEMMA SortsByDigits ==
  ASSUME NEW m \in Numbers, NEW n \in Numbers
  PROVE  SortsBefore(m, n) <=> Lexicographic(m, n)
<1> DEFINE s == Digits(m)
           t == Digits(n)
           Same(k) == \A j \in 1 .. k : s[j] = t[j]
<1>a. PICK a \in 1 .. 10, b \in 0 .. 10, c \in 0 .. 10 : Spelled(m, a, b, c)
  BY DigitFacts
<1>x. PICK x \in 1 .. 10, y \in 0 .. 10, z \in 0 .. 10 : Spelled(n, x, y, z)
  BY DigitFacts
<1>1. /\ s \in Seq(Ten) /\ Len(s) \in 1 .. 3 /\ t \in Seq(Ten) /\ Len(t) \in 1 .. 3
  BY <1>a, <1>x DEF Spelled
<1>b. /\ Digit(m, 1) = a /\ Digit(m, 2) = b /\ Digit(m, 3) = c
      /\ Digit(n, 1) = x /\ Digit(n, 2) = y /\ Digit(n, 3) = z
  BY <1>a, <1>x DEF Spelled
<1>c. \/ Len(s) = 1 /\ b = 0 /\ c = 0
      \/ Len(s) = 2 /\ b > 0 /\ c = 0
      \/ Len(s) = 3 /\ b > 0 /\ c > 0
  BY <1>a DEF Spelled
<1>z. \/ Len(t) = 1 /\ y = 0 /\ z = 0
      \/ Len(t) = 2 /\ y > 0 /\ z = 0
      \/ Len(t) = 3 /\ y > 0 /\ z > 0
  BY <1>x DEF Spelled
<1>2. SortsBefore(m, n) <=> \/ IsStrictPrefix(s, t)
                            \/ \E i \in DOMAIN s \cap DOMAIN t :
                                 s[i] < t[i] /\ SubSeq(s, 1, i - 1) = SubSeq(t, 1, i - 1)
  BY DEF SortsBefore
<1> HIDE DEF s, t
<1>3. DOMAIN s = 1 .. Len(s) /\ DOMAIN t = 1 .. Len(t)
  BY <1>1
<1>5. IsStrictPrefix(s, t) <=> Len(s) < Len(t) /\ Same(Len(s))
  <2>1. IsPrefix(s, t) <=> Len(s) <= Len(t) /\ Same(Len(s))
    BY <1>1, SamePrefix DEF IsPrefix
  <2>2. Len(s) = Len(t) /\ Same(Len(s)) => s = t
    BY <1>1
  <2> QED  BY <1>1, <2>1, <2>2 DEF IsStrictPrefix
<1>6. \A i \in DOMAIN s \cap DOMAIN t :
        SubSeq(s, 1, i - 1) = SubSeq(t, 1, i - 1) <=> Same(i - 1)
  <2> TAKE i \in DOMAIN s \cap DOMAIN t
  <2>1. i - 1 \in Nat /\ i - 1 <= Len(s) /\ i - 1 <= Len(t)
    BY <1>1, <1>3
  <2> QED  BY <1>1, <2>1, SamePrefix
<1>7. /\ Same(0)
      /\ Same(1) <=> s[1] = t[1]
      /\ Same(2) <=> s[1] = t[1] /\ s[2] = t[2]
  OBVIOUS
<1> DEFINE k == Len(s)
           l == Len(t)
           Differ(i) == i <= k /\ i <= l /\ s[i] < t[i] /\ Same(i - 1)
<1>8. k \in 1 .. 3 /\ l \in 1 .. 3
  BY <1>1
<1> HIDE DEF Same, k, l
<1>9. (\E i \in DOMAIN s \cap DOMAIN t :
         s[i] < t[i] /\ SubSeq(s, 1, i - 1) = SubSeq(t, 1, i - 1))
      <=> \E i \in 1 .. 3 : Differ(i)
  <2>1. \A i \in 1 .. 3 : i \in DOMAIN s \cap DOMAIN t <=> i <= k /\ i <= l
    BY <1>3, <1>8 DEF k, l
  <2>2. DOMAIN s \cap DOMAIN t \subseteq 1 .. 3
    BY <1>3, <1>8 DEF k, l
  <2> QED  BY <1>6, <2>1, <2>2
<1>10. (\E i \in 1 .. 3 : Differ(i)) <=> Differ(1) \/ Differ(2) \/ Differ(3)
  <2> HIDE DEF Differ
  <2>1. \A i \in 1 .. 3 : i = 1 \/ i = 2 \/ i = 3
    OBVIOUS
  <2> QED  BY <2>1
<1>11. /\ \A i \in 1 .. 3 : Digit(m, i) = IF i <= k THEN s[i] + 1 ELSE 0
       /\ \A i \in 1 .. 3 : Digit(n, i) = IF i <= l THEN t[i] + 1 ELSE 0
  <2>1. \A i \in 1 .. 3 : (i <= k <=> i \in DOMAIN s) /\ (i <= l <=> i \in DOMAIN t)
    BY <1>3, <1>8 DEF k, l
  <2> QED  BY <2>1 DEF Digit, s, t
<1>12. /\ \A i \in 1 .. 3 : i <= k => s[i] \in Int
       /\ \A i \in 1 .. 3 : i <= l => t[i] \in Int
  <2>1. (\A i \in 1 .. Len(s) : s[i] \in Ten) /\ (\A i \in 1 .. Len(t) : t[i] \in Ten)
    BY <1>1
  <2>2. \A i \in 1 .. 3 : (i <= k => i \in 1 .. Len(s)) /\ (i <= l => i \in 1 .. Len(t))
    BY <1>8 DEF k, l
  <2>3. \A e \in Ten : e \in Int
    BY DEF Ten
  <2> QED  BY <2>1, <2>2, <2>3
<1>13. /\ s[1] = a - 1 /\ t[1] = x - 1
       /\ k > 1 => s[2] = b - 1
       /\ k > 2 => s[3] = c - 1
       /\ l > 1 => t[2] = y - 1
       /\ l > 2 => t[3] = z - 1
  <2>1. /\ \A i \in 1 .. 3 : i <= k => s[i] \in Int /\ Digit(m, i) = s[i] + 1
        /\ \A i \in 1 .. 3 : i <= l => t[i] \in Int /\ Digit(n, i) = t[i] + 1
    BY <1>11, <1>12
  <2>2. s[1] \in Int /\ a = s[1] + 1 /\ t[1] \in Int /\ x = t[1] + 1
    BY <1>b, <1>8, <2>1
  <2>3. /\ k > 1 => s[2] \in Int /\ b = s[2] + 1
        /\ l > 1 => t[2] \in Int /\ y = t[2] + 1
    BY <1>b, <1>8, <2>1
  <2>4. /\ k > 2 => s[3] \in Int /\ c = s[3] + 1
        /\ l > 2 => t[3] \in Int /\ z = t[3] + 1
    BY <1>b, <1>8, <2>1
  <2>5. \A u \in Int, v \in Int : u = v + 1 => v = u - 1
    OBVIOUS
  <2>6. s[1] = a - 1 /\ t[1] = x - 1
    BY <2>2, <2>5
  <2>7. (k > 1 => s[2] = b - 1) /\ (k > 2 => s[3] = c - 1)
    BY <2>3, <2>4, <2>5
  <2>8. (l > 1 => t[2] = y - 1) /\ (l > 2 => t[3] = z - 1)
    BY <2>3, <2>4, <2>5
  <2> QED  BY <2>6, <2>7, <2>8
<1>14. /\ k > 1 <=> b > 0
       /\ k > 2 <=> c > 0
       /\ l > 1 <=> y > 0
       /\ l > 2 <=> z > 0
  <2>1. \A j \in 1 .. 3, e \in 0 .. 10, f \in 0 .. 10 :
          (\/ j = 1 /\ e = 0 /\ f = 0
           \/ j = 2 /\ e > 0 /\ f = 0
           \/ j = 3 /\ e > 0 /\ f > 0) => (j > 1 <=> e > 0) /\ (j > 2 <=> f > 0)
    OBVIOUS
  <2>2. \/ k = 1 /\ b = 0 /\ c = 0
        \/ k = 2 /\ b > 0 /\ c = 0
        \/ k = 3 /\ b > 0 /\ c > 0
    BY <1>c DEF k
  <2>3. \/ l = 1 /\ y = 0 /\ z = 0
        \/ l = 2 /\ y > 0 /\ z = 0
        \/ l = 3 /\ y > 0 /\ z > 0
    BY <1>z DEF l
  <2>4. (k > 1 <=> b > 0) /\ (k > 2 <=> c > 0)
    BY <1>8, <2>1, <2>2
  <2>5. (l > 1 <=> y > 0) /\ (l > 2 <=> z > 0)
    BY <1>8, <2>1, <2>3
  <2> QED  BY <2>4, <2>5
<1>15. /\ Same(1) <=> a = x
       /\ k > 1 /\ l > 1 => (Same(2) <=> a = x /\ b = y)
  BY <1>7, <1>13
<1>16. /\ Differ(1) <=> a < x
       /\ Differ(2) <=> k > 1 /\ l > 1 /\ a = x /\ b < y
       /\ Differ(3) <=> k > 2 /\ l > 2 /\ a = x /\ b = y /\ c < z
  <2>1. Differ(1) <=> a < x
    BY <1>7, <1>8, <1>13
  <2>2. Differ(2) <=> k > 1 /\ l > 1 /\ a = x /\ b < y
    BY <1>8, <1>13, <1>15
  <2>3. Differ(3) <=> k > 2 /\ l > 2 /\ a = x /\ b = y /\ c < z
    BY <1>8, <1>13, <1>15
  <2> QED  BY <2>1, <2>2, <2>3
<1>17. k < l /\ Same(k) <=> \/ k = 1 /\ l > 1 /\ a = x
                            \/ k = 2 /\ l > 2 /\ a = x /\ b = y
  BY <1>8, <1>15
<1>18. Lexicographic(m, n) <=> a < x \/ (a = x /\ b < y) \/ (a = x /\ b = y /\ c < z)
  BY <1>b DEF Lexicographic
<1>19. SortsBefore(m, n) <=> (k < l /\ Same(k)) \/ Differ(1) \/ Differ(2) \/ Differ(3)
  <2> HIDE DEF Differ
  <2> QED  BY <1>2, <1>5, <1>9, <1>10 DEF k, l
<1> HIDE DEF Differ
<1> QED  BY <1>8, <1>14, <1>16, <1>17, <1>18, <1>19

Order == {x \in (Numbers) \X (Numbers) : SortsBefore(x[1], x[2])}

LEMMA OrderIsTotal ==
  ASSUME NEW S, S \subseteq Numbers
  PROVE  StrictTotalOrder(S, Order)
<1>1. \A m, n \in Numbers : <<m, n>> \in Order <=> Lexicographic(m, n)
  BY SortsByDigits DEF Order
<1>2. \A k \in Numbers : <<k, k>> \notin Order
  BY <1>1, LexicographicOrder
<1>3. ASSUME NEW l \in Numbers, NEW m \in Numbers, NEW n \in Numbers,
             <<l, m>> \in Order, <<m, n>> \in Order
      PROVE  <<l, n>> \in Order
  BY <1>1, <1>3, LexicographicOrder
<1>4. \A m, n \in Numbers : m # n => <<m, n>> \in Order \/ <<n, m>> \in Order
  BY <1>1, LexicographicOrder
<1> QED  BY <1>2, <1>3, <1>4 DEF StrictTotalOrder

Keys(i) == StepKeys(Jobs[i])

\* Of a single digit, they sort like numbers.
LEMMA ShortOrder ==
  ASSUME NEW m \in 0 .. 9, NEW n \in 0 .. 9, <<m, n>> \in Order
  PROVE  m < n
<1>0. m \in Numbers /\ n \in Numbers
  BY DEF Numbers
<1>1. Lexicographic(m, n)
  BY <1>0, SortsByDigits DEF Order
<1>2. \A k \in 0 .. 9 : Digit(k, 1) = k + 1 /\ Digit(k, 2) = 0 /\ Digit(k, 3) = 0
  <2> TAKE k \in 0 .. 9
  <2>1. Digits(k) = <<k>>
    BY DEF Digits
  <2>2. 1 \in DOMAIN <<k>> /\ 2 \notin DOMAIN <<k>> /\ 3 \notin DOMAIN <<k>> /\ <<k>>[1] = k
    OBVIOUS
  <2> QED  BY <2>1, <2>2 DEF Digit
<1> QED  BY <1>1, <1>2 DEF Lexicographic

\* The keys of a trial's loaded steps, each once, in their order.
LEMMA KeysFacts ==
  ASSUME NEW i \in DOMAIN Jobs
  PROVE  /\ Keys(i) \in Seq(Numbers) /\ Len(Keys(i)) \in Nat /\ Len(Keys(i)) >= 1
         /\ \A a \in 1 .. Len(Keys(i)) : Keys(i)[a] \in Loaded(Jobs[i])
         /\ \A k \in Loaded(Jobs[i]) : \E a \in 1 .. Len(Keys(i)) : Keys(i)[a] = k
         /\ \A a, b \in 1 .. Len(Keys(i)) : a < b => <<Keys(i)[a], Keys(i)[b]>> \in Order
         /\ \A a, b \in 1 .. Len(Keys(i)) : Keys(i)[a] = Keys(i)[b] => a = b
<1> DEFINE S == Loaded(Jobs[i])
           n == Cardinality(S)
           r == Rank(S, Order)
           k == Keys(i)
<1>1. S \subseteq Numbers /\ S # {}
  <2> DEFINE t == Jobs[i]
             T == [last : 0 .. 999, bad : SUBSET (0 .. 999), missing : SUBSET (0 .. 999)]
  <2>1. t \in T
    <3>1. Jobs \in Seq(T)
      BY ChactosAssumption
    <3> HIDE DEF T
    <3> QED  BY <3>1
  <2>2. t.missing \subseteq 0 .. t.last /\ t.missing # 0 .. t.last
    BY ChactosAssumption
  <2>3. t.last \in 0 .. 999
    <3> HIDE DEF t
    <3> QED  BY <2>1
  <2> HIDE DEF t
  <2>4. \A x \in 0 .. t.last : x \in Numbers
    BY <2>3 DEF Numbers
  <2>5. Loaded(t) = (0 .. t.last) \ t.missing
    BY DEF Loaded
  <2>6. Loaded(t) \subseteq Numbers
    BY <2>4, <2>5
  <2>7. Loaded(t) # {}
    BY <2>2, <2>5
  <2> QED  BY <2>6, <2>7 DEF t
<1>2. IsFiniteSet(S) /\ n \in Nat /\ n >= 1
  <2>1. IsFiniteSet(Numbers)
    <3> DEFINE a == 0
               b == 999
    <3>1. a \in Int /\ b \in Int
      OBVIOUS
    <3>2. Numbers = a .. b
      BY DEF Numbers
    <3> HIDE DEF a, b
    <3> QED  BY <3>1, <3>2, FS_Interval
  <2> HIDE DEF S
  <2>2. IsFiniteSet(S)
    BY <1>1, <2>1, FS_Subset
  <2>3. Cardinality(S) \in Nat /\ Cardinality(S) # 0
    BY <1>1, <2>2, FS_CardinalityType, FS_EmptySet
  <2> QED  BY <2>2, <2>3
<1>3. StrictTotalOrder(S, Order)
  BY <1>1, OrderIsTotal
<1>4. /\ r \in [S -> 0 .. n - 1]
      /\ \A a, b \in S : <<a, b>> \in Order => r[a] < r[b]
      /\ \A a \in 0 .. n - 1 : \E b \in S : r[b] = a
  <2> HIDE DEF S
  <2> QED  BY <1>2, <1>3, RankFacts
<1>5. \A b \in S : r[b] = Cardinality({j \in S : SortsBefore(j, b)})
  <2> TAKE b \in S
  <2>1. {j \in S : <<j, b>> \in Order} = {j \in S : SortsBefore(j, b)}
    BY <1>1 DEF Order
  <2> QED  BY <2>1 DEF Rank
<1>6. k = [a \in 1 .. n |-> CHOOSE b \in S : Cardinality({j \in S : SortsBefore(j, b)}) = a - 1]
  BY DEF Keys, StepKeys
<1>12. k = [a \in 1 .. n |-> k[a]]
  BY <1>6
<1> HIDE DEF S, n, r, k
<1>7. ASSUME NEW a \in 1 .. n PROVE k[a] \in S /\ r[k[a]] = a - 1
  <2>1. k[a] = CHOOSE b \in S : Cardinality({j \in S : SortsBefore(j, b)}) = a - 1
    BY <1>6
  <2>2. \E b \in S : Cardinality({j \in S : SortsBefore(j, b)}) = a - 1
    BY <1>2, <1>4, <1>5
  <2>3. k[a] \in S /\ Cardinality({j \in S : SortsBefore(j, k[a])}) = a - 1
    BY <2>1, <2>2
  <2> QED  BY <1>5, <2>3
<1>8. k \in Seq(Numbers) /\ Len(k) = n
  <2>1. \A a \in 1 .. n : k[a] \in Numbers
    BY <1>1, <1>7
  <2>2. k = [a \in 1 .. n |-> k[a]]
    BY <1>12
  <2> QED  BY <1>2, <2>1, <2>2
<1>9. \A b \in S : \E a \in 1 .. n : k[a] = b
  <2> TAKE b \in S
  <2>1. r[b] + 1 \in 1 .. n /\ (r[b] + 1) - 1 = r[b] /\ r[b] \in Int
    BY <1>2, <1>4
  <2>2. k[r[b] + 1] \in S /\ r[k[r[b] + 1]] = r[b]
    BY <1>7, <2>1
  <2>3. k[r[b] + 1] = b
    <3>1. \A c, d \in S : <<c, d>> \in Order => r[c] # r[d]
      BY <1>2, <1>4
    <3> DEFINE c == k[r[b] + 1]
    <3>2. c \in S /\ r[c] = r[b]
      BY <2>2
    <3> HIDE DEF c
    <3>3. <<c, b>> \notin Order /\ <<b, c>> \notin Order
      BY <3>1, <3>2
    <3>4. c = b
      BY <1>3, <3>2, <3>3 DEF StrictTotalOrder
    <3> QED  BY <3>4 DEF c
  <2> QED  BY <2>1, <2>3
<1>10. ASSUME NEW a \in 1 .. n, NEW b \in 1 .. n
       PROVE  /\ a < b => <<k[a], k[b]>> \in Order
              /\ k[a] = k[b] => a = b
  <2>1. k[a] \in S /\ k[b] \in S /\ r[k[a]] = a - 1 /\ r[k[b]] = b - 1
    BY <1>7
  <2>2. k[a] = k[b] => a = b
    BY <1>2, <2>1
  <2>3. <<k[b], k[a]>> \in Order => b < a
    BY <1>2, <1>4, <2>1
  <2>4. a < b => k[a] # k[b] /\ <<k[b], k[a]>> \notin Order
    BY <1>2, <2>2, <2>3
  <2> QED  BY <1>3, <2>1, <2>2, <2>4 DEF StrictTotalOrder
<1>11. Keys(i) = k /\ Loaded(Jobs[i]) = S
  BY DEF k, S
<1> QED  BY <1>2, <1>7, <1>8, <1>9, <1>10, <1>11

-----------------------------------------------------------------------------
(* The invariant *)

NumJobs == Len(Jobs)
Job == 1 .. NumJobs
Pods == PriorityPods \cup NormalPods

\* The steps of a trial, by their place in it.
Size(i) == Len(Keys(i))
Key(i, j) == Keys(i)[j]
Sent(i, j, sent) == <<i, Key(i, j)>> \in sent
Bad(i, j) == Key(i, j) \in Jobs[i].bad
Counts(i, j) == j = 1 \/ ~ Bad(i, j)

\* With at most ten steps the keys sort like the numbers they stand for.
ShortTrials == \A i \in DOMAIN Jobs : Jobs[i].last <= 9

\* What was sent under a failure when d steps are gone: of those, all that are
\* good but the first; of those after the next one, none.
Earlier(i, d, sent) == \A j \in 2 .. d : Bad(i, j) \/ Sent(i, j, sent)
Later(i, d, sent) == \A j \in d + 2 .. Size(i) : ~ Sent(i, j, sent)

\* The last step that counts, of the first d.
LastGood(i, d, base) ==
  /\ \E j \in 1 .. d : Counts(i, j) /\ base = Key(i, j)
  /\ \A j \in 1 .. d : Counts(i, j) => Key(i, j) <= base

Starting == {"deploy", "install", "initial"}
Chosen == {"open", "write", "inject", "send", "lift", "judge"}
Places == {"idle", "loop", "done", "dead"} \cup Starting \cup Chosen

JobOrNone == {0} \cup Job
Bases == {-1} \cup Numbers
Sequences == Seq(Numbers)
Record == [pc : Places, job : JobOrNone, steps : Sequences,
           base : Bases, failure : SUBSET Pods, steady : BOOLEAN]

\* The step at the head was not, or was, sent under a failure.
Untried(r) == r.pc \in {"loop", "open", "write", "inject", "send"} \/ (r.pc = "lift" /\ r.steady)
Tried(r) == r.pc = "judge" \/ (r.pc = "lift" /\ ~ r.steady)

\* The first d steps of the trial are gone.
Rest(r, d) ==
  /\ Len(r.steps) = Size(r.job) - d
  /\ \A j \in 1 .. Len(r.steps) : r.steps[j] = Key(r.job, d + j)

\* Where a worker is in its trial.
Progress(r, d, sent) ==
  /\ d \in 0 .. Size(r.job)
  /\ Earlier(r.job, d, sent) /\ Later(r.job, d, sent)
  /\ r.pc \in Starting =>
       d < Size(r.job) /\ (d = 0 \/ (Sent(r.job, d + 1, sent) /\ ~ Bad(r.job, d + 1)))
  /\ Untried(r) => d >= 1 /\ (d < Size(r.job) => ~ Sent(r.job, d + 1, sent))
  /\ Tried(r) => d >= 1 /\ Sent(r.job, d + 1, sent)
  /\ r.pc \in Chosen => d < Size(r.job) /\ ~ Bad(r.job, d + 1)
  /\ r.pc = "send" => ~ r.steady
  /\ r.pc = "idle" => d = Size(r.job)

\* The state that the next step is sent from is that of the last good one.
FromLastGood(r, d) ==
  /\ Untried(r) => LastGood(r.job, d, r.base)
  /\ Tried(r) => r.base = Key(r.job, d + 1)

Here(r, d, sent) == Rest(r, d) /\ Progress(r, d, sent) /\ (ShortTrials => FromLastGood(r, d))

RecordInv(r, sent) ==
  /\ r.job # 0 => \E d \in Nat : Here(r, d, sent)
  /\ r.job = 0 => r.pc \in {"idle", "done"}
  /\ Cardinality(r.failure) <= NumToFail(Cardinality(Pods))

Taken == NumJobs - Len(queue)

QueueInv ==
  /\ queue \in Seq(Job) /\ Len(queue) <= NumJobs
  /\ \A i \in 1 .. Len(queue) : queue[i] = Taken + i

WorkersInv ==
  /\ worker \in [Workers -> Record]
  /\ \A w \in Workers : worker[w].job <= Taken /\ RecordInv(worker[w], tested)
  /\ \A v, w \in Workers : v # w /\ worker[v].job # 0 => worker[v].job # worker[w].job

ChactosInv ==
  /\ QueueInv
  /\ WorkersInv
  /\ files \in [SUBSET Pods -> {"absent", "partial", "whole"}]
  /\ tested \subseteq (1 .. Taken) \X Numbers

-----------------------------------------------------------------------------
(* Places in a trial *)

LEMMA JobFacts ==
  NumJobs \in Nat /\ DOMAIN Jobs = Job
<1> DEFINE T == [last : 0 .. 999, bad : SUBSET (0 .. 999), missing : SUBSET (0 .. 999)]
<1>1. Jobs \in Seq(T)
  BY ChactosAssumption
<1> HIDE DEF T
<1> QED  BY <1>1 DEF NumJobs, Job

LEMMA PlaceFacts ==
  ASSUME NEW i \in Job
  PROVE  /\ Size(i) \in Nat /\ Size(i) >= 1
         /\ \A j \in 1 .. Size(i) : Key(i, j) \in Numbers /\ Key(i, j) \in Loaded(Jobs[i])
         /\ \A k \in Loaded(Jobs[i]) : \E j \in 1 .. Size(i) : Key(i, j) = k
         /\ \A j, k \in 1 .. Size(i) : Key(i, j) = Key(i, k) => j = k
         /\ \A j, k \in 1 .. Size(i) : j < k => <<Key(i, j), Key(i, k)>> \in Order
<1>1. i \in DOMAIN Jobs
  BY JobFacts
<1>2. \A j \in 1 .. Size(i) : Key(i, j) \in Numbers
  <2>1. Keys(i) \in Seq(Numbers)
    BY <1>1, KeysFacts
  <2> QED  BY <2>1 DEF Size, Key
<1> QED  BY <1>1, <1>2, KeysFacts DEF Size, Key

\* In a short trial, places and numbers are in the same order.
LEMMA Increasing ==
  ASSUME ShortTrials, NEW i \in Job, NEW j \in 1 .. Size(i), NEW k \in 1 .. Size(i), j < k
  PROVE  Key(i, j) < Key(i, k)
<1>1. i \in DOMAIN Jobs
  BY JobFacts
<1>2. \A x \in Loaded(Jobs[i]) : x \in 0 .. 9
  <2> DEFINE t == Jobs[i]
             T == [last : 0 .. 999, bad : SUBSET (0 .. 999), missing : SUBSET (0 .. 999)]
  <2>1. t \in T
    <3>1. Jobs \in Seq(T)
      BY ChactosAssumption
    <3> HIDE DEF T
    <3> QED  BY <1>1, <3>1
  <2>2. t.last \in Int /\ t.last <= 9
    BY <1>1, <2>1 DEF ShortTrials
  <2> HIDE DEF t
  <2>3. \A x \in 0 .. t.last : x \in 0 .. 9
    BY <2>2
  <2>4. \A x \in Loaded(t) : x \in 0 .. 9
    BY <2>3 DEF Loaded
  <2> QED  BY <2>4 DEF t
<1>3. Key(i, j) \in 0 .. 9 /\ Key(i, k) \in 0 .. 9
  BY <1>2, PlaceFacts
<1>4. <<Key(i, j), Key(i, k)>> \in Order
  BY PlaceFacts
<1> QED  BY <1>3, <1>4, ShortOrder

LEMMA TailFacts ==
  ASSUME NEW S, NEW s \in Seq(S), s # << >>
  PROVE  /\ Len(s) \in Nat /\ Len(s) >= 1
         /\ Head(s) = s[1] /\ Head(s) \in S
         /\ Tail(s) \in Seq(S) /\ Len(Tail(s)) = Len(s) - 1
         /\ \A j \in 1 .. Len(s) - 1 : Tail(s)[j] = s[j + 1]
<1>1. Len(s) \in Nat /\ Len(s) >= 1 /\ Head(s) = s[1] /\ Head(s) \in S
  OBVIOUS
<1>2. Tail(s) \in Seq(S) /\ Len(Tail(s)) = Len(s) - 1
  OBVIOUS
<1>3. \A j \in 1 .. Len(s) - 1 : Tail(s)[j] = s[j + 1]
  OBVIOUS
<1> QED  BY <1>1, <1>2, <1>3

\* Taking the step at the head.
LEMMA HeadOfRest ==
  ASSUME NEW r \in Record, r.job # 0, NEW d \in 0 .. Size(r.job), Rest(r, d)
  PROVE  /\ r.job \in Job /\ Size(r.job) \in Nat
         /\ r.steps = << >> <=> d = Size(r.job)
         /\ d < Size(r.job) =>
              /\ d + 1 \in 1 .. Size(r.job) /\ Head(r.steps) = Key(r.job, d + 1)
              /\ Head(r.steps) \in Numbers /\ Tail(r.steps) \in Seq(Numbers)
<1>1. r.job \in Job /\ r.steps \in Seq(Numbers)
  BY DEF Record, JobOrNone, Sequences
<1> DEFINE n == Size(r.job)
<1>2. n \in Nat
  BY <1>1, PlaceFacts
<1> HIDE DEF n
<1>3. Len(r.steps) = n - d /\ \A j \in 1 .. Len(r.steps) : r.steps[j] = Key(r.job, d + j)
  BY DEF Rest, n
<1>4. r.steps = << >> <=> d = n
  BY <1>1, <1>2, <1>3 DEF n
<1>5. ASSUME d < n
      PROVE  /\ d + 1 \in 1 .. n /\ Head(r.steps) = Key(r.job, d + 1)
             /\ Head(r.steps) \in Numbers /\ Tail(r.steps) \in Seq(Numbers)
  <2>1. d \in Nat /\ d + 1 \in 1 .. n /\ r.steps # << >> /\ 1 \in 1 .. Len(r.steps)
    BY <1>2, <1>3, <1>4, <1>5 DEF n
  <2>2. r.steps[1] = Key(r.job, d + 1)
    BY <1>3, <2>1
  <2> QED  BY <1>1, <2>1, <2>2, TailFacts
<1> QED  BY <1>1, <1>2, <1>4, <1>5 DEF n

LEMMA TailOfRest ==
  ASSUME NEW r \in Record, NEW q, r.job # 0, NEW d \in 0 .. Size(r.job), Rest(r, d),
         d < Size(r.job), q.job = r.job, q.steps = Tail(r.steps)
  PROVE  Rest(q, d + 1) /\ d + 1 \in 0 .. Size(q.job)
<1>1. r.job \in Job /\ r.steps \in Seq(Numbers) /\ Size(r.job) \in Nat /\ r.steps # << >>
  BY HeadOfRest DEF Record, Sequences
<1> DEFINE n == Size(r.job)
           s == r.steps
<1> HIDE DEF n, s
<1>2. Len(s) = n - d /\ \A j \in 1 .. Len(s) : s[j] = Key(r.job, d + j)
  BY DEF Rest, n, s
<1>3. n \in Nat /\ d < n /\ d \in Nat
  BY <1>1 DEF n
<1>4. /\ Len(s) \in Nat /\ Len(Tail(s)) = Len(s) - 1
      /\ \A j \in 1 .. Len(s) - 1 : Tail(s)[j] = s[j + 1]
  BY <1>1, TailFacts DEF s
<1>5. Len(Tail(s)) = n - (d + 1) /\ d + 1 \in 0 .. n
  BY <1>2, <1>3, <1>4
<1>6. ASSUME NEW j \in 1 .. Len(Tail(s))
      PROVE  Tail(s)[j] = Key(r.job, (d + 1) + j)
  <2>1. j \in 1 .. Len(s) - 1 /\ j + 1 \in 1 .. Len(s) /\ d + (j + 1) = (d + 1) + j
    BY <1>3, <1>4
  <2> QED  BY <1>2, <1>4, <2>1
<1> QED  BY <1>5, <1>6 DEF Rest, n, s

LEMMA NextPlace ==
  ASSUME NEW i \in Job, NEW d \in Nat, d < Size(i), NEW sent
  PROVE  /\ Earlier(i, d, sent) /\ (d = 0 \/ Bad(i, d + 1) \/ Sent(i, d + 1, sent))
              => Earlier(i, d + 1, sent)
         /\ Later(i, d, sent) =>
              /\ Later(i, d + 1, sent)
              /\ d + 1 < Size(i) => ~ Sent(i, (d + 1) + 1, sent)
         /\ \A base : LastGood(i, d, base) /\ ~ Counts(i, d + 1) => LastGood(i, d + 1, base)
         /\ ShortTrials /\ Counts(i, d + 1) => LastGood(i, d + 1, Key(i, d + 1))
<1> DEFINE n == Size(i)
<1>1. n \in Nat /\ d < n
  BY PlaceFacts
<1>2. \A j \in 1 .. d + 1 : j \in 1 .. d \/ j = d + 1
  OBVIOUS
<1> HIDE DEF n
<1>3. Earlier(i, d, sent) /\ (d = 0 \/ Bad(i, d + 1) \/ Sent(i, d + 1, sent))
        => Earlier(i, d + 1, sent)
  <2>1. \A j \in 2 .. d + 1 : j \in 2 .. d \/ (j = d + 1 /\ d # 0)
    OBVIOUS
  <2> QED  BY <2>1 DEF Earlier
<1>4. Later(i, d, sent) => Later(i, d + 1, sent) /\ (d + 1 < n => ~ Sent(i, (d + 1) + 1, sent))
  <2>1. /\ \A j \in (d + 1) + 2 .. n : j \in d + 2 .. n
        /\ d + 1 < n => (d + 1) + 1 \in d + 2 .. n
    BY <1>1
  <2> QED  BY <2>1 DEF Later, n
<1>5. \A base : LastGood(i, d, base) /\ ~ Counts(i, d + 1) => LastGood(i, d + 1, base)
  <2>1. \A j \in 1 .. d : j \in 1 .. d + 1
    OBVIOUS
  <2> QED  BY <1>2, <2>1 DEF LastGood
<1>6. ASSUME ShortTrials, Counts(i, d + 1)
      PROVE  LastGood(i, d + 1, Key(i, d + 1))
  <2>1. d + 1 \in 1 .. d + 1 /\ d + 1 \in 1 .. Size(i)
    BY <1>1 DEF n
  <2>2. ASSUME NEW j \in 1 .. d + 1 PROVE Key(i, j) <= Key(i, d + 1)
    <3>1. j \in 1 .. Size(i) /\ Key(i, j) \in Int /\ Key(i, d + 1) \in Int
      <4>1. j \in 1 .. Size(i)
        BY <1>1 DEF n
      <4>2. Key(i, j) \in Numbers /\ Key(i, d + 1) \in Numbers
        BY <2>1, <4>1, PlaceFacts
      <4> QED  BY <4>1, <4>2 DEF Numbers
    <3>2. j = d + 1 \/ j < d + 1
      OBVIOUS
    <3>3. j < d + 1 => Key(i, j) < Key(i, d + 1)
      BY <1>6, <2>1, <3>1, Increasing
    <3> QED  BY <3>1, <3>2, <3>3
  <2> QED  BY <1>6, <2>1, <2>2 DEF LastGood
<1> QED  BY <1>3, <1>4, <1>5, <1>6 DEF n

\* A step sent for one trial is not a step of another; of its own trial it is
\* one place.
LEMMA SendElsewhere ==
  ASSUME NEW r \in Record, NEW sent, NEW i, NEW k, r.job # i, RecordInv(r, sent)
  PROVE  RecordInv(r, sent \cup {<<i, k>>})
<1> DEFINE more == sent \cup {<<i, k>>}
<1>1. \A j : Sent(r.job, j, more) <=> Sent(r.job, j, sent)
  BY DEF Sent
<1> HIDE DEF more
<1>2. \A d : Earlier(r.job, d, sent) <=> Earlier(r.job, d, more)
  BY <1>1 DEF Earlier
<1>3. \A d : Later(r.job, d, sent) <=> Later(r.job, d, more)
  BY <1>1 DEF Later
<1>4. \A d \in Nat : Progress(r, d, sent) => Progress(r, d, more)
  BY <1>1, <1>2, <1>3 DEF Progress
<1>5. RecordInv(r, more)
  BY <1>4 DEF RecordInv, Here
<1> QED  BY <1>5 DEF more

LEMMA SendHere ==
  ASSUME NEW i \in Job, NEW d \in Nat, d < Size(i), NEW sent, NEW more,
         more = sent \cup {<<i, Key(i, d + 1)>>}
  PROVE  /\ Sent(i, d + 1, more)
         /\ Earlier(i, d, sent) => Earlier(i, d, more)
         /\ Later(i, d, sent) => Later(i, d, more)
<1>1. Size(i) \in Nat /\ d + 1 \in 1 .. Size(i)
  BY PlaceFacts
<1>2. \A j \in d + 2 .. Size(i) : j \in 1 .. Size(i) /\ j # d + 1
  BY <1>1
<1>3. \A j \in d + 2 .. Size(i) : Key(i, j) # Key(i, d + 1)
  BY <1>1, <1>2, PlaceFacts
<1>4. Later(i, d, sent) => Later(i, d, more)
  <2>1. \A j \in d + 2 .. Size(i) : Sent(i, j, more) => Sent(i, j, sent)
    BY <1>3 DEF Sent
  <2> QED  BY <2>1 DEF Later
<1>5. \A j : Sent(i, j, sent) => Sent(i, j, more)
  BY DEF Sent
<1>6. Sent(i, d + 1, more)
  BY DEF Sent
<1> QED  BY <1>4, <1>5, <1>6 DEF Earlier

\* No more pods fail than the ratio allows of all pods.
LEMMA FailureSize ==
  ASSUME NEW running \in SUBSET Pods,
         NEW pods \in SelectPods(PriorityPods \cap running, NormalPods \cap running,
                                 NumToFail(Cardinality(running)))
  PROVE  pods \in SUBSET Pods /\ Cardinality(pods) <= NumToFail(Cardinality(Pods))
<1>1. pods \in SUBSET Pods /\ Cardinality(pods) = NumToFail(Cardinality(running))
  BY DEF SelectPods, Pods
<1>2. IsFiniteSet(Pods)
  BY ChactosAssumption DEF Pods
<1>3. Cardinality(running) \in Nat /\ Cardinality(Pods) \in Nat /\ Cardinality(running) <= Cardinality(Pods)
  <2>1. IsFiniteSet(running) /\ Cardinality(running) <= Cardinality(Pods)
    BY <1>2, FS_Subset
  <2> QED  BY <1>2, <2>1, FS_CardinalityType
<1>4. \A m \in Nat, n \in Nat : m <= n => NumToFail(m) <= NumToFail(n)
  <2>1. \A m \in Nat, n \in Nat, f \in 0 .. 100 : m <= n => m * f <= n * f
    <3>1. \A m \in Nat, n \in Nat, f \in Nat : m <= n => m * f <= n * f
      <4> TAKE m \in Nat, n \in Nat, f \in Nat
      <4>1. m <= n => \E e \in Nat : n = m + e
        <5>1. m <= n => n - m \in Nat /\ n = m + (n - m)
          OBVIOUS
        <5> QED  BY <5>1
      <4>2. \A e \in Nat : (m + e) * f = m * f + e * f /\ e * f \in Nat /\ m * f \in Nat
        OBVIOUS
      <4> QED  BY <4>1, <4>2
    <3> QED  BY <3>1
  <2>2. \A x \in Int, y \in Int : x <= y => (x + 99) \div 100 <= (y + 99) \div 100
    OBVIOUS
  <2>3. \A m \in Nat : m * FailureRatio \in Int
    BY ChactosAssumption
  <2> QED  BY <2>1, <2>2, <2>3, ChactosAssumption DEF NumToFail
<1> QED  BY <1>1, <1>3, <1>4

LEMMA NoFailure ==
  Cardinality({}) <= NumToFail(Cardinality(Pods))
<1>1. Cardinality({}) = 0 /\ Cardinality(Pods) \in Nat
  BY ChactosAssumption, FS_EmptySet, FS_CardinalityType DEF Pods
<1>2. NumToFail(Cardinality(Pods)) >= 0
  <2>1. \A n \in Nat, f \in Nat : n * f \in Nat
    OBVIOUS
  <2>2. FailureRatio \in Nat
    <3>1. FailureRatio \in 0 .. 100
      BY ChactosAssumption
    <3> QED  BY <3>1
  <2>3. Cardinality(Pods) * FailureRatio \in Nat
    BY <1>1, <2>1, <2>2
  <2> QED  BY <2>3 DEF NumToFail
<1> QED  BY <1>1, <1>2

-----------------------------------------------------------------------------
(* The invariant holds in every state *)

LEMMA InitInv ==
  ASSUME Init
  PROVE  ChactosInv
<1> USE DEF Init
<1>1. NumJobs \in Nat /\ DOMAIN Jobs = Job
  BY JobFacts
<1>2. queue = [i \in 1 .. NumJobs |-> i]
  BY <1>1 DEF Job
<1>3. queue \in Seq(Job) /\ Len(queue) = NumJobs /\ \A i \in 1 .. NumJobs : queue[i] = i
  <2> DEFINE n == NumJobs
  <2>1. queue = [i \in 1 .. n |-> i] /\ n \in Nat
    BY <1>1, <1>2
  <2> HIDE DEF n
  <2>2. queue \in Seq(1 .. n) /\ Len(queue) = n /\ \A i \in 1 .. n : queue[i] = i
    BY <2>1
  <2> QED  BY <2>2 DEF n, Job
<1>4. Taken = 0
  BY <1>1, <1>3 DEF Taken
<1>5. QueueInv
  BY <1>1, <1>3, <1>4 DEF QueueInv
<1>6. Idle \in Record /\ Idle.job = 0 /\ Idle.pc = "idle" /\ Idle.failure = {}
  <2>1. "idle" \in Places /\ 0 \in JobOrNone /\ -1 \in Bases
    BY DEF Places, JobOrNone, Bases
  <2>2. << >> \in Sequences
    BY DEF Sequences
  <2> QED  BY <2>1, <2>2 DEF Idle, Record
<1>7. RecordInv(Idle, {})
  BY <1>6, NoFailure DEF RecordInv
<1>8. WorkersInv
  BY <1>4, <1>6, <1>7 DEF WorkersInv
<1>9. files \in [SUBSET Pods -> {"absent", "partial", "whole"}]
  BY DEF Pods
<1> QED  BY <1>5, <1>8, <1>9 DEF ChactosInv

\* A step of a worker that takes no job and sends nothing: what is to be shown
\* is that its own record is right again.
LEMMA OwnStep ==
  ASSUME ChactosInv, NEW w \in Workers, NEW q \in Record,
         queue' = queue, tested' = tested, worker' = [worker EXCEPT ![w] = q],
         q.job = worker[w].job, RecordInv(q, tested),
         files' \in [SUBSET Pods -> {"absent", "partial", "whole"}]
  PROVE  ChactosInv'
<1>1. Taken' = Taken /\ QueueInv'
  BY DEF ChactosInv, QueueInv, Taken
<1>2. worker' \in [Workers -> Record] /\ worker'[w] = q /\ \A v \in Workers : v # w => worker'[v] = worker[v]
  BY DEF ChactosInv, WorkersInv
<1>3. \A v \in Workers : worker'[v].job = worker[v].job
  BY <1>2
<1>4. \A v \in Workers : RecordInv(worker'[v], tested)
  BY <1>2 DEF ChactosInv, WorkersInv
<1>5. WorkersInv'
  BY <1>1, <1>2, <1>3, <1>4 DEF ChactosInv, WorkersInv
<1> QED  BY <1>1, <1>5 DEF ChactosInv

\* Where a worker may go with the steps it has.
Allowed(r, q) ==
  \/ r.pc \in Starting /\ q.pc \in Starting
  \/ r.pc \in {"open", "write", "inject"} /\ q.pc \in {"write", "inject"}
  \/ r.pc = "inject" /\ r.steady /\ q.pc = "lift" /\ q.steady
  \/ r.pc = "inject" /\ ~ r.steady /\ q.pc = "send" /\ ~ q.steady
  \/ r.pc = "lift" /\ r.steady /\ q.pc = "open"
  \/ r.pc = "lift" /\ ~ r.steady /\ q.pc = "judge"
  \/ r.pc = "judge" /\ q.pc = "deploy"
  \/ r.pc = "loop" /\ r.steps = << >> /\ q.pc = "idle"
  \/ r.pc = "loop" /\ r.steps # << >> /\ Head(r.steps) \notin Jobs[r.job].bad /\ q.pc = "open"
  \/ r.pc \notin {"idle", "done"} /\ q.pc = "dead"
  \/ q.pc = "done"

LEMMA Moves ==
  ASSUME NEW r \in Record, NEW q \in Record, NEW d \in Nat, NEW sent,
         r.job # 0, q.job = r.job, q.steps = r.steps, q.base = r.base,
         Allowed(r, q), Here(r, d, sent)
  PROVE  Here(q, d, sent)
<1> DEFINE n == Size(r.job)
           tried == Sent(r.job, d + 1, sent)
           bad == Bad(r.job, d + 1)
<1>1. Rest(q, d) /\ d \in 0 .. n /\ Earlier(r.job, d, sent) /\ Later(r.job, d, sent)
  BY DEF Here, Rest, Progress
<1>2. /\ r.pc \in Starting => d < n /\ (d = 0 \/ (tried /\ ~ bad))
      /\ Untried(r) => d >= 1 /\ (d < n => ~ tried)
      /\ Tried(r) => d >= 1 /\ tried
      /\ r.pc \in Chosen => d < n /\ ~ bad
      /\ r.pc = "idle" => d = n
  BY DEF Here, Progress
<1>3. r.steps = << >> <=> d = n
  BY <1>1, HeadOfRest DEF Here
<1>4. d < n /\ Head(r.steps) \notin Jobs[r.job].bad => ~ bad
  BY <1>1, HeadOfRest DEF Here, Bad
<1>5. n \in Nat
  BY <1>1, HeadOfRest DEF Here
<1> HIDE DEF n, tried, bad
<1>6. /\ q.pc \in Starting => d < n /\ (d = 0 \/ (tried /\ ~ bad))
      /\ Untried(q) => d >= 1 /\ (d < n => ~ tried)
      /\ Tried(q) => d >= 1 /\ tried
      /\ q.pc \in Chosen => d < n /\ ~ bad
      /\ q.pc = "send" => ~ q.steady
      /\ q.pc = "idle" => d = n
  BY <1>1, <1>2, <1>3, <1>4, <1>5 DEF Allowed, Starting, Chosen, Untried, Tried
<1>7. Progress(q, d, sent)
  BY <1>1, <1>6 DEF Progress, n, tried, bad
<1>8. Untried(q) => Untried(r)
  BY DEF Allowed, Starting, Untried
<1>9. Tried(q) => Tried(r)
  BY DEF Allowed, Starting, Tried
<1>10. ShortTrials => FromLastGood(q, d)
  BY <1>8, <1>9 DEF Here, FromLastGood
<1> QED  BY <1>1, <1>7, <1>10 DEF Here

LEMMA OwnMove ==
  ASSUME ChactosInv, NEW w \in Workers, NEW q \in Record,
         queue' = queue, tested' = tested, worker' = [worker EXCEPT ![w] = q],
         files' \in [SUBSET Pods -> {"absent", "partial", "whole"}],
         q.job = worker[w].job, q.steps = worker[w].steps, q.base = worker[w].base,
         Cardinality(q.failure) <= NumToFail(Cardinality(Pods)),
         Allowed(worker[w], q)
  PROVE  ChactosInv'
<1> DEFINE r == worker[w]
<1>1. r \in Record /\ RecordInv(r, tested)
  BY DEF ChactosInv, WorkersInv
<1>2. r.job = 0 => q.pc \in {"idle", "done"}
  BY <1>1 DEF RecordInv, Allowed, Starting
<1> HIDE DEF r
<1>3. ASSUME r.job # 0 PROVE \E d \in Nat : Here(q, d, tested)
  <2>1. PICK d \in Nat : Here(r, d, tested)
    BY <1>1, <1>3 DEF RecordInv
  <2>2. Here(q, d, tested)
    BY <1>1, <1>3, <2>1, Moves DEF r
  <2> QED  BY <2>2
<1>4. RecordInv(q, tested)
  BY <1>2, <1>3 DEF RecordInv, r
<1> QED  BY <1>4, OwnStep

\* The steps that only change the place, the failure or its policy.
LEMMA MovesInv ==
  ASSUME ChactosInv, NEW w \in Workers,
         \/ Stop(w) \/ Deploy(w) \/ Install(w) \/ FinishTrial(w) \/ BuildFailure(w)
         \/ OpenFile(w) \/ WriteFile(w) \/ Inject(w) \/ InjectFails(w) \/ Lift(w) \/ Alarm(w) \/ Die(w)
  PROVE  ChactosInv'
<1> DEFINE r == worker[w]
           Move(p) == [r EXCEPT !.pc = p]
<1>1. worker \in [Workers -> Record] /\ r \in Record
  BY DEF ChactosInv, WorkersInv
<1>2. Cardinality(r.failure) <= NumToFail(Cardinality(Pods))
  BY DEF ChactosInv, WorkersInv, RecordInv
<1>3. files \in [SUBSET Pods -> {"absent", "partial", "whole"}]
  BY DEF ChactosInv
<1>4. ASSUME NEW p \in Places, Go(w, p), queue' = queue, tested' = tested,
             files' \in [SUBSET Pods -> {"absent", "partial", "whole"}], Allowed(r, Move(p))
      PROVE  ChactosInv'
  <2> DEFINE q == Move(p)
  <2>1. /\ q \in Record /\ q.job = r.job /\ q.steps = r.steps /\ q.base = r.base
        /\ q.failure = r.failure
    BY <1>1, <1>4 DEF Record
  <2>2. worker' = [worker EXCEPT ![w] = q]
    BY <1>1, <1>4 DEF Go
  <2>3. Allowed(worker[w], q)
    BY <1>4
  <2> HIDE DEF q
  <2> QED  BY <1>2, <1>4, <2>1, <2>2, <2>3, OwnMove
<1>5. \A p : Move(p).pc = p /\ Move(p).steady = r.steady
  BY <1>1 DEF Record
<1>7. CASE Stop(w)
  <2>1. Allowed(r, Move("done")) /\ "done" \in Places
    BY <1>5 DEF Allowed, Places
  <2> QED  BY <1>3, <1>4, <1>7, <2>1 DEF Stop
<1>8. CASE Deploy(w)
  <2>1. Allowed(r, Move("install")) /\ "install" \in Places
    BY <1>5, <1>8 DEF Deploy, At, Allowed, Places, Starting
  <2> QED  BY <1>3, <1>4, <1>8, <2>1 DEF Deploy
<1>9. CASE Install(w)
  <2>1. Allowed(r, Move("initial")) /\ "initial" \in Places
    BY <1>5, <1>9 DEF Install, At, Allowed, Places, Starting
  <2> QED  BY <1>3, <1>4, <1>9, <2>1 DEF Install
<1>10. CASE FinishTrial(w)
  <2>1. Allowed(r, Move("idle")) /\ "idle" \in Places
    BY <1>5, <1>10 DEF FinishTrial, At, Allowed, Places
  <2> QED  BY <1>3, <1>4, <1>10, <2>1 DEF FinishTrial
<1>11. CASE OpenFile(w)
  <2>1. Allowed(r, Move("write")) /\ "write" \in Places
    BY <1>5, <1>11 DEF OpenFile, At, Allowed, Places, Chosen
  <2>2. files' \in [SUBSET Pods -> {"absent", "partial", "whole"}]
    BY <1>3, <1>11 DEF OpenFile
  <2> QED  BY <1>4, <1>11, <2>1, <2>2 DEF OpenFile
<1>12. CASE WriteFile(w)
  <2>1. Allowed(r, Move("inject")) /\ "inject" \in Places
    BY <1>5, <1>12 DEF WriteFile, At, Allowed, Places, Chosen
  <2>2. files' \in [SUBSET Pods -> {"absent", "partial", "whole"}]
    BY <1>3, <1>12 DEF WriteFile
  <2> QED  BY <1>4, <1>12, <2>1, <2>2 DEF WriteFile
<1>13. CASE Inject(w)
  <2> DEFINE p == IF r.steady THEN "lift" ELSE "send"
  <2>1. r.steady \in BOOLEAN /\ r.pc = "inject"
    BY <1>1, <1>13 DEF Record, Inject, At
  <2>2. Allowed(r, Move(p)) /\ p \in Places
    BY <1>5, <2>1 DEF Allowed, Places, Chosen
  <2>3. Go(w, p) /\ UNCHANGED <<queue, files, tested>>
    BY <1>13 DEF Inject
  <2> HIDE DEF p
  <2> QED  BY <1>3, <1>4, <2>2, <2>3
<1>14. CASE InjectFails(w)
  <2>1. Allowed(r, Move("dead")) /\ "dead" \in Places
    BY <1>5, <1>14 DEF InjectFails, At, Allowed, Places
  <2> QED  BY <1>3, <1>4, <1>14, <2>1 DEF InjectFails
<1>15. CASE Die(w)
  <2>1. Allowed(r, Move("dead")) /\ "dead" \in Places
    BY <1>5, <1>15 DEF Die, At, Allowed, Places
  <2> QED  BY <1>3, <1>4, <1>15, <2>1 DEF Die
<1>16. CASE Alarm(w)
  <2>1. Allowed(r, Move("deploy")) /\ "deploy" \in Places
    BY <1>5, <1>16 DEF Alarm, At, Allowed, Places, Starting
  <2>2. Go(w, "deploy")
    <3>1. worker' = [worker EXCEPT ![w] = [r EXCEPT !.pc = "deploy", !.steps = r.steps]]
      BY <1>1, <1>16 DEF Alarm, AfterAlarm
    <3>2. [r EXCEPT !.pc = "deploy", !.steps = r.steps] = Move("deploy")
      BY <1>1 DEF Record
    <3>3. worker' = [worker EXCEPT ![w].pc = "deploy"]
      BY <1>1, <3>1, <3>2
    <3> QED  BY <3>3 DEF Go
  <2> QED  BY <1>3, <1>4, <1>16, <2>1, <2>2 DEF Alarm
<1>17. CASE BuildFailure(w)
  <2>1. PICK running \in SUBSET Pods :
          \E pods \in SelectPods(PriorityPods \cap running, NormalPods \cap running,
                                 NumToFail(Cardinality(running))) :
            worker' = [worker EXCEPT ![w].pc = "open", ![w].failure = pods, ![w].steady = TRUE]
    BY <1>17 DEF BuildFailure, Pods
  <2>2. PICK pods \in SelectPods(PriorityPods \cap running, NormalPods \cap running,
                                 NumToFail(Cardinality(running))) :
          worker' = [worker EXCEPT ![w].pc = "open", ![w].failure = pods, ![w].steady = TRUE]
    BY <2>1
  <2>3. pods \in SUBSET Pods /\ Cardinality(pods) <= NumToFail(Cardinality(Pods))
    BY <2>2, FailureSize
  <2> DEFINE q == [r EXCEPT !.pc = "open", !.failure = pods, !.steady = TRUE]
  <2>4. /\ q \in Record /\ q.job = r.job /\ q.steps = r.steps /\ q.base = r.base
        /\ q.failure = pods /\ q.pc = "open"
    <3>1. "open" \in Places
      BY DEF Places, Chosen
    <3> QED  BY <1>1, <2>3, <3>1 DEF Record
  <2>5. worker' = [worker EXCEPT ![w] = q]
    BY <1>1, <2>2
  <2> HIDE DEF q
  <2>6. Allowed(worker[w], q)
    BY <1>17, <2>4 DEF BuildFailure, At, Allowed, IsSkipped, Trial, Step
  <2> QED  BY <1>3, <1>17, <2>3, <2>4, <2>5, <2>6, OwnMove DEF BuildFailure
<1>18. CASE Lift(w)
  <2> DEFINE q == IF r.steady THEN [r EXCEPT !.pc = "open", !.steady = FALSE]
                              ELSE [r EXCEPT !.pc = "judge"]
  <2>1. r.steady \in BOOLEAN /\ r.pc = "lift"
    BY <1>1, <1>18 DEF Record, Lift, At
  <2>2. /\ q \in Record /\ q.job = r.job /\ q.steps = r.steps /\ q.base = r.base
        /\ q.failure = r.failure /\ q.pc = IF r.steady THEN "open" ELSE "judge"
    <3>1. "open" \in Places /\ "judge" \in Places
      BY DEF Places, Chosen
    <3> QED  BY <1>1, <2>1, <3>1 DEF Record
  <2>3. worker' = [worker EXCEPT ![w] = q]
    BY <1>1, <1>18, <2>1 DEF Lift
  <2> HIDE DEF q
  <2>4. Allowed(worker[w], q)
    BY <2>1, <2>2 DEF Allowed
  <2> QED  BY <1>2, <1>3, <1>18, <2>2, <2>3, <2>4, OwnMove DEF Lift
<1> HIDE DEF r, Move
<1> QED
  BY <1>7, <1>8, <1>9, <1>10, <1>11, <1>12, <1>13, <1>14, <1>15, <1>16, <1>17, <1>18

\* What a worker that is in a trial holds.
LEMMA Holding ==
  ASSUME ChactosInv, NEW w \in Workers, worker[w].pc \notin {"idle", "done"}
  PROVE  /\ worker \in [Workers -> Record] /\ worker[w] \in Record
         /\ worker[w].job # 0 /\ worker[w].job \in Job
         /\ Cardinality(worker[w].failure) <= NumToFail(Cardinality(Pods))
         /\ files \in [SUBSET Pods -> {"absent", "partial", "whole"}]
         /\ \E d \in Nat : Here(worker[w], d, tested)
<1> DEFINE r == worker[w]
<1>1. worker \in [Workers -> Record] /\ r \in Record /\ RecordInv(r, tested)
  BY DEF ChactosInv, WorkersInv
<1>2. r.job # 0 /\ r.job \in Job
  BY <1>1 DEF RecordInv, Record, JobOrNone
<1> QED  BY <1>1, <1>2 DEF RecordInv, ChactosInv

\* The steps that take the step at the head off.
LEMMA OwnTail ==
  ASSUME ChactosInv, NEW w \in Workers, RunInitial(w) \/ Skip(w) \/ Recovered(w)
  PROVE  ChactosInv'
<1> DEFINE r == worker[w]
           i == r.job
           n == Size(i)
<1>0. r.pc \in {"initial", "loop", "judge"}
  BY DEF RunInitial, Skip, Recovered, At
<1>1. /\ worker \in [Workers -> Record] /\ r \in Record /\ i # 0 /\ i \in Job
      /\ Cardinality(r.failure) <= NumToFail(Cardinality(Pods))
      /\ files \in [SUBSET Pods -> {"absent", "partial", "whole"}]
  BY <1>0, Holding
<1>2. PICK d \in Nat : Here(r, d, tested)
  BY <1>0, Holding
<1>3. /\ Rest(r, d) /\ d \in 0 .. n
      /\ Earlier(i, d, tested) /\ Later(i, d, tested)
      /\ r.pc = "initial" => d < n /\ (d = 0 \/ (Sent(i, d + 1, tested) /\ ~ Bad(i, d + 1)))
      /\ r.pc = "loop" => d >= 1 /\ (ShortTrials => LastGood(i, d, r.base))
      /\ r.pc = "judge" => /\ d >= 1 /\ d < n /\ Sent(i, d + 1, tested) /\ ~ Bad(i, d + 1)
                           /\ ShortTrials => r.base = Key(i, d + 1)
  BY <1>2 DEF Here, Progress, FromLastGood, Starting, Untried, Tried, Chosen
<1>4. n \in Nat /\ (d < n => Head(r.steps) = Key(i, d + 1) /\ Head(r.steps) \in Numbers
                            /\ Tail(r.steps) \in Seq(Numbers))
      /\ (r.steps = << >> <=> d = n)
  BY <1>1, <1>3, HeadOfRest
<1>5. d < n /\ (Skip(w) => Bad(i, d + 1))
  <2>1. CASE Skip(w)
    BY <1>3, <1>4, <2>1 DEF Skip, IsSkipped, Trial, Step, Bad
  <2>2. CASE r.pc = "initial" \/ r.pc = "judge"
    BY <1>3, <2>2 DEF Skip, At
  <2> QED  BY <1>0, <2>1, <2>2 DEF RunInitial, Skip, Recovered, At
<1> DEFINE q == IF r.pc = "initial"
                THEN [r EXCEPT !.pc = "loop", !.base = Head(r.steps), !.steps = Tail(r.steps)]
                ELSE [r EXCEPT !.pc = "loop", !.steps = Tail(r.steps)]
<1>6. /\ q \in Record /\ q.job = i /\ q.steps = Tail(r.steps) /\ q.pc = "loop"
      /\ q.failure = r.failure
      /\ q.base = IF r.pc = "initial" THEN Key(i, d + 1) ELSE r.base
  <2>1. "loop" \in Places /\ Tail(r.steps) \in Sequences /\ Head(r.steps) \in Bases
    BY <1>4, <1>5 DEF Places, Sequences, Bases
  <2>2. Head(r.steps) = Key(i, d + 1)
    BY <1>4, <1>5
  <2> QED  BY <1>1, <2>1, <2>2 DEF Record
<1>7. worker' = [worker EXCEPT ![w] = q] /\ UNCHANGED <<queue, files, tested>>
  <2>1. CASE RunInitial(w)
    BY <1>1, <2>1 DEF RunInitial, At, PopInitial, Step
  <2>2. CASE Skip(w)
    <3>1. [r EXCEPT !.pc = "loop", !.steps = Tail(r.steps)] = [r EXCEPT !.steps = Tail(r.steps)]
      BY <1>1, <2>2 DEF Skip, At, Record
    <3>2. q = [r EXCEPT !.steps = Tail(r.steps)]
      BY <2>2, <3>1 DEF Skip, At
    <3>3. worker' = [worker EXCEPT ![w] = [r EXCEPT !.steps = Tail(r.steps)]]
      BY <1>1, <2>2 DEF Skip
    <3> QED  BY <2>2, <3>2, <3>3 DEF Skip
  <2>3. CASE Recovered(w)
    BY <1>1, <2>3 DEF Recovered, At
  <2> QED  BY <2>1, <2>2, <2>3
<1> HIDE DEF q
<1>8. Rest(q, d + 1) /\ d + 1 \in 0 .. Size(q.job)
  BY <1>1, <1>3, <1>5, <1>6, TailOfRest
<1>9. /\ Earlier(i, d + 1, tested) /\ Later(i, d + 1, tested)
      /\ d + 1 < n => ~ Sent(i, (d + 1) + 1, tested)
  <2>1. d = 0 \/ Bad(i, d + 1) \/ Sent(i, d + 1, tested)
    BY <1>0, <1>3, <1>5 DEF RunInitial, Skip, Recovered, At
  <2> QED  BY <1>1, <1>3, <1>5, <2>1, NextPlace
<1>10. ASSUME ShortTrials PROVE LastGood(i, d + 1, q.base)
  <2>1. CASE Skip(w)
    <3>1. r.pc = "loop" /\ ~ Counts(i, d + 1)
      BY <1>3, <1>5, <2>1 DEF Skip, At, Counts
    <3>2. q.base = r.base /\ LastGood(i, d, r.base)
      BY <1>3, <1>6, <1>10, <3>1
    <3> QED  BY <1>1, <1>5, <3>1, <3>2, NextPlace
  <2>2. CASE r.pc \in {"initial", "judge"}
    <3>1. Counts(i, d + 1) /\ q.base = Key(i, d + 1)
      BY <1>3, <1>6, <1>10, <2>2 DEF Counts
    <3> QED  BY <1>1, <1>5, <1>10, <3>1, NextPlace
  <2> QED  BY <2>1, <2>2 DEF RunInitial, Skip, Recovered, At
<1>11. Here(q, d + 1, tested)
  <2>1. Progress(q, d + 1, tested)
    BY <1>4, <1>6, <1>8, <1>9 DEF Progress, Starting, Untried, Tried, Chosen
  <2>2. ShortTrials => FromLastGood(q, d + 1)
    BY <1>6, <1>10 DEF FromLastGood, Untried, Tried
  <2> QED  BY <1>8, <2>1, <2>2 DEF Here
<1>12. RecordInv(q, tested)
  <2>1. d + 1 \in Nat
    OBVIOUS
  <2> QED  BY <1>1, <1>6, <1>11, <2>1 DEF RecordInv
<1> QED  BY <1>1, <1>6, <1>7, <1>12, OwnStep

LEMMA SendInv ==
  ASSUME ChactosInv, NEW w \in Workers, Send(w)
  PROVE  ChactosInv'
<1> DEFINE r == worker[w]
           i == r.job
           n == Size(i)
           q == [r EXCEPT !.pc = "lift", !.base = Head(r.steps)]
           more == tested \cup {<<i, Head(r.steps)>>}
<1>0. r.pc = "send"
  BY DEF Send, At
<1>1. /\ worker \in [Workers -> Record] /\ r \in Record /\ i # 0 /\ i \in Job
      /\ Cardinality(r.failure) <= NumToFail(Cardinality(Pods))
      /\ files \in [SUBSET Pods -> {"absent", "partial", "whole"}]
  BY <1>0, Holding
<1>2. PICK d \in Nat : Here(r, d, tested)
  BY <1>0, Holding
<1>3. /\ Rest(r, d) /\ d \in 0 .. n /\ d >= 1 /\ d < n /\ ~ Bad(i, d + 1) /\ ~ r.steady
      /\ Earlier(i, d, tested) /\ Later(i, d, tested)
  BY <1>0, <1>2 DEF Here, Progress, Untried, Chosen
<1>4. n \in Nat /\ Head(r.steps) = Key(i, d + 1) /\ Head(r.steps) \in Numbers
  BY <1>1, <1>3, HeadOfRest
<1>5. /\ q \in Record /\ q.job = i /\ q.steps = r.steps /\ q.pc = "lift" /\ ~ q.steady
      /\ q.failure = r.failure /\ q.base = Key(i, d + 1)
  <2>1. "lift" \in Places /\ Head(r.steps) \in Bases
    BY <1>4 DEF Places, Chosen, Bases
  <2> QED  BY <1>1, <1>3, <1>4, <2>1 DEF Record
<1>6. worker' = [worker EXCEPT ![w] = q] /\ tested' = more /\ UNCHANGED <<queue, files>>
  BY <1>1 DEF Send, Step
<1> HIDE DEF q
<1>7. Sent(i, d + 1, tested') /\ Earlier(i, d, tested') /\ Later(i, d, tested')
  <2>1. tested' = tested \cup {<<i, Key(i, d + 1)>>}
    BY <1>4, <1>6
  <2> HIDE DEF more
  <2> QED  BY <1>1, <1>3, <2>1, SendHere
<1>8. Here(q, d, tested')
  <2>1. Progress(q, d, tested')
    BY <1>3, <1>5, <1>7 DEF Progress, Starting, Untried, Tried, Chosen
  <2>2. FromLastGood(q, d)
    BY <1>5 DEF FromLastGood, Untried, Tried
  <2>3. Rest(q, d)
    BY <1>3, <1>5 DEF Rest
  <2> QED  BY <2>1, <2>2, <2>3 DEF Here
<1>9. RecordInv(q, tested')
  BY <1>1, <1>5, <1>8 DEF RecordInv
<1>10. Taken' = Taken /\ QueueInv'
  BY <1>6 DEF ChactosInv, QueueInv, Taken
<1>11. \A v \in Workers : v # w => RecordInv(worker[v], tested')
  <2> TAKE v \in Workers
  <2>1. HAVE v # w
  <2>2. worker[v] \in Record /\ RecordInv(worker[v], tested) /\ worker[v].job # i
    BY <1>1, <2>1 DEF ChactosInv, WorkersInv
  <2> QED  BY <1>6, <2>2, SendElsewhere
<1>12. tested' \subseteq (1 .. Taken) \X Numbers
  <2>1. i \in 1 .. Taken
    <3>1. i <= Taken /\ i \in Job
      BY <1>1 DEF ChactosInv, WorkersInv
    <3>2. Taken \in Int
      BY JobFacts DEF ChactosInv, QueueInv, Taken
    <3> QED  BY <3>1, <3>2, JobFacts DEF Job
  <2> QED  BY <1>4, <1>6, <2>1 DEF ChactosInv
<1>13. worker' \in [Workers -> Record] /\ worker'[w] = q
       /\ \A v \in Workers : v # w => worker'[v] = worker[v]
  BY <1>1, <1>5, <1>6
<1>14. \A v \in Workers : worker'[v].job = worker[v].job
  BY <1>5, <1>13
<1>15. \A v \in Workers : RecordInv(worker'[v], tested')
  BY <1>9, <1>11, <1>13
<1>16. WorkersInv'
  <2>1. \A v \in Workers : worker'[v].job <= Taken'
    BY <1>10, <1>14 DEF ChactosInv, WorkersInv
  <2>2. \A u, v \in Workers : u # v /\ worker'[u].job # 0 => worker'[u].job # worker'[v].job
    BY <1>14 DEF ChactosInv, WorkersInv
  <2> QED  BY <1>13, <1>15, <2>1, <2>2 DEF WorkersInv
<1> QED  BY <1>6, <1>10, <1>12, <1>16, <1>1 DEF ChactosInv

LEMMA TakeInv ==
  ASSUME ChactosInv, NEW w \in Workers, Take(w)
  PROVE  ChactosInv'
<1> DEFINE i == Head(queue)
           q == [Idle EXCEPT !.pc = "deploy", !.job = Head(queue),
                             !.steps = StepKeys(Jobs[Head(queue)])]
<1>1. /\ queue \in Seq(Job) /\ queue # << >> /\ Len(queue) \in Nat /\ Len(queue) >= 1
      /\ Len(queue) <= NumJobs /\ NumJobs \in Nat
  BY JobFacts DEF Take, ChactosInv, QueueInv
<1>2. /\ Len(Tail(queue)) = Len(queue) - 1 /\ Tail(queue) \in Seq(Job)
      /\ Head(queue) = queue[1] /\ Head(queue) \in Job
      /\ \A j \in 1 .. Len(queue) - 1 : Tail(queue)[j] = queue[j + 1]
  BY <1>1, TailFacts
<1>3. i = Taken + 1 /\ Taken \in Nat
  <2>1. 1 \in 1 .. Len(queue)
    BY <1>1
  <2> QED  BY <1>1, <1>2, <2>1 DEF ChactosInv, QueueInv, Taken
<1>4. queue' = Tail(queue) /\ UNCHANGED <<files, tested>> /\ worker' = [worker EXCEPT ![w] = q]
  BY DEF Take
<1>5. Taken' = Taken + 1
  BY <1>1, <1>2, <1>4 DEF Taken
<1>6. QueueInv'
  <2>1. \A j \in 1 .. Len(queue) - 1 : Tail(queue)[j] = (Taken + 1) + j
    <3> TAKE j \in 1 .. Len(queue) - 1
    <3>1. j + 1 \in 1 .. Len(queue) /\ Tail(queue)[j] = queue[j + 1]
      BY <1>1, <1>2
    <3>2. queue[j + 1] = Taken + (j + 1)
      BY <3>1 DEF ChactosInv, QueueInv
    <3> QED  BY <1>3, <3>1, <3>2
  <2> QED  BY <1>1, <1>2, <1>4, <1>5, <2>1 DEF QueueInv
<1>7. Size(i) \in Nat /\ Size(i) >= 1 /\ Keys(i) \in Seq(Numbers)
  <2>1. i \in DOMAIN Jobs
    BY <1>2, JobFacts
  <2> QED  BY <1>2, <2>1, PlaceFacts, KeysFacts
<1>8. /\ q \in Record /\ q.job = i /\ q.steps = Keys(i) /\ q.pc = "deploy" /\ q.failure = {}
  <2>1. "deploy" \in Places /\ i \in JobOrNone /\ -1 \in Bases /\ Keys(i) \in Sequences
    BY <1>2, <1>7 DEF Places, Starting, JobOrNone, Bases, Sequences
  <2> HIDE DEF i
  <2>2. q = [Idle EXCEPT !.pc = "deploy", !.job = i, !.steps = Keys(i)]
    BY DEF i, Keys
  <2> HIDE DEF q
  <2> QED  BY <2>1, <2>2 DEF Idle, Record
<1> HIDE DEF q
<1>9. ASSUME NEW j \in Nat PROVE ~ Sent(i, j, tested)
  <2>1. \A x : <<i, x>> \notin (1 .. Taken) \X Numbers
    BY <1>3
  <2> QED  BY <2>1 DEF Sent, ChactosInv
<1>10. Here(q, 0, tested)
  <2>1. Earlier(i, 0, tested)
    BY DEF Earlier
  <2>2. Later(i, 0, tested)
    BY <1>7, <1>9 DEF Later
  <2>3. Progress(q, 0, tested)
    BY <1>7, <1>8, <2>1, <2>2 DEF Progress, Untried, Tried, Chosen
  <2>4. FromLastGood(q, 0)
    BY <1>8 DEF FromLastGood, Untried, Tried
  <2>5. Rest(q, 0)
    <3>1. Len(Keys(i)) = Size(i) /\ Size(i) - 0 = Size(i)
      BY <1>7 DEF Size
    <3>2. \A j \in 1 .. Size(i) : Keys(i)[j] = Key(i, 0 + j)
      BY <1>7 DEF Key
    <3> QED  BY <1>8, <3>1, <3>2 DEF Rest
  <2> QED  BY <2>3, <2>4, <2>5 DEF Here
<1>11. RecordInv(q, tested)
  <2>1. i # 0
    BY <1>3
  <2>2. Cardinality({}) <= NumToFail(Cardinality(Pods))
    BY NoFailure
  <2> QED  BY <1>8, <1>10, <2>1, <2>2 DEF RecordInv
<1>12. worker \in [Workers -> Record]
  BY DEF ChactosInv, WorkersInv
<1>13. worker' \in [Workers -> Record] /\ worker'[w] = q
       /\ \A v \in Workers : v # w => worker'[v] = worker[v]
  BY <1>4, <1>8, <1>12
<1>14. \A v \in Workers : worker[v].job \in Int /\ worker[v].job <= Taken
  <2>1. \A v \in Workers : worker[v].job \in JobOrNone
    BY <1>12 DEF Record
  <2>2. \A v \in Workers : worker[v].job <= Taken
    BY DEF ChactosInv, WorkersInv
  <2> QED  BY <1>1, <2>1, <2>2 DEF JobOrNone, Job
<1>15. WorkersInv'
  <2>1. \A v \in Workers : worker'[v].job <= Taken'
    BY <1>3, <1>5, <1>8, <1>13, <1>14
  <2>2. \A u, v \in Workers : u # v /\ worker'[u].job # 0 => worker'[u].job # worker'[v].job
    <3> TAKE u, v \in Workers
    <3>1. HAVE u # v /\ worker'[u].job # 0
    <3>2. worker[u].job # i /\ worker[v].job # i
      BY <1>3, <1>14
    <3>3. CASE u = w
      BY <1>8, <1>13, <3>1, <3>2, <3>3
    <3>4. CASE v = w
      BY <1>8, <1>13, <3>1, <3>2, <3>4
    <3>5. CASE u # w /\ v # w
      BY <1>13, <3>1, <3>5 DEF ChactosInv, WorkersInv
    <3> QED  BY <3>3, <3>4, <3>5
  <2>3. \A v \in Workers : RecordInv(worker'[v], tested')
    BY <1>4, <1>11, <1>13 DEF ChactosInv, WorkersInv
  <2> QED  BY <1>13, <2>1, <2>2, <2>3 DEF WorkersInv
<1>16. tested' \subseteq (1 .. Taken') \X Numbers
  <2>1. 1 .. Taken \subseteq 1 .. Taken + 1
    BY <1>3
  <2> QED  BY <1>4, <1>5, <2>1 DEF ChactosInv
<1> QED  BY <1>4, <1>6, <1>15, <1>16 DEF ChactosInv

LEMMA SameInv ==
  ASSUME ChactosInv, UNCHANGED vars
  PROVE  ChactosInv'
BY DEF vars, ChactosInv, QueueInv, WorkersInv, Taken

LEMMA ChactosInvHolds ==
  Spec => []ChactosInv
<1>1. ASSUME ChactosInv, Next PROVE ChactosInv'
  <2>1. ASSUME NEW w \in Workers, Worker(w) \/ DeployFails(w) \/ Die(w)
        PROVE  ChactosInv'
    <3>1. CASE Take(w)
      BY <1>1, <3>1, TakeInv
    <3>2. CASE Send(w)
      BY <1>1, <3>2, SendInv
    <3>3. CASE RunInitial(w) \/ Skip(w) \/ Recovered(w)
      BY <1>1, <3>3, OwnTail
    <3>4. CASE UNCHANGED vars
      BY <1>1, <3>4, SameInv
    <3>5. CASE \/ Stop(w) \/ Deploy(w) \/ Install(w) \/ FinishTrial(w) \/ BuildFailure(w)
               \/ OpenFile(w) \/ WriteFile(w) \/ Inject(w) \/ InjectFails(w) \/ Lift(w) \/ Alarm(w) \/ Die(w)
      BY <1>1, <3>5, MovesInv
    <3> QED  BY <2>1, <3>1, <3>2, <3>3, <3>4, <3>5 DEF Worker, DeployFails
  <2> QED  BY <1>1, <2>1, SameInv DEF Next
<1>2. ASSUME ChactosInv, UNCHANGED vars PROVE ChactosInv'
  BY <1>2, SameInv
<1> QED  BY InitInv, <1>1, <1>2, PTL DEF Spec

-----------------------------------------------------------------------------
(* Theorems *)

LEMMA SuffixFacts ==
  ASSUME NEW S, NEW t \in Seq(S), NEW s \in Seq(S), NEW d \in Nat, Len(s) = Len(t) - d,
         \A j \in 1 .. Len(s) : s[j] = t[d + j]
  PROVE  IsSuffix(s, t)
<1> DEFINE m == Len(s)
           n == Len(t)
           rs == Reverse(s)
           rt == Reverse(t)
<1>1. m \in Nat /\ n \in Nat /\ m = n - d
  OBVIOUS
<1>2. /\ \A j \in 1 .. m : s[j] \in S /\ (m - j) + 1 \in 1 .. m
      /\ \A j \in 1 .. n : t[j] \in S /\ (n - j) + 1 \in 1 .. n
  BY <1>1
<1>3. rs = [j \in 1 .. m |-> s[(m - j) + 1]] /\ rt = [j \in 1 .. n |-> t[(n - j) + 1]]
  BY DEF Reverse
<1>4. \A j \in 1 .. m : s[j] = t[d + j]
  OBVIOUS
<1> HIDE DEF m, n, rs, rt
<1>5. rs \in Seq(S) /\ Len(rs) = m /\ rt \in Seq(S) /\ Len(rt) = n
  BY <1>1, <1>2, <1>3
<1>6. \A j \in 1 .. m : rs[j] = rt[j]
  <2> TAKE j \in 1 .. m
  <2>1. (m - j) + 1 \in 1 .. m /\ d + ((m - j) + 1) = (n - j) + 1 /\ j \in 1 .. n
    BY <1>1
  <2>2. rs[j] = s[(m - j) + 1] /\ rt[j] = t[(n - j) + 1]
    BY <1>3, <2>1
  <2> QED  BY <1>4, <2>1, <2>2
<1>7. SubSeq(rs, 1, m) = SubSeq(rt, 1, m)
  BY <1>1, <1>5, <1>6, SamePrefix
<1>8. IsPrefix(rs, rt)
  BY <1>1, <1>5, <1>7 DEF IsPrefix
<1> QED  BY <1>8 DEF IsSuffix, rs, rt

\* What is left of the queue is its end, in order.  What a worker has left of
\* its trial is the end of the trial's steps in their order, and no more pods
\* are made to fail than the ratio allows: with any number of workers, trials,
\* steps and pods (chactos/fault_injections.py, ChactosTrialWorker.run).
THEOREM TypeCorrect ==
  Spec => []TypeOK
<1>1. ASSUME ChactosInv PROVE TypeOK
  <2>1. queue = SubSeq([i \in DOMAIN Jobs |-> i], Len(Jobs) - Len(queue) + 1, Len(Jobs))
    <3> DEFINE n == NumJobs
               m == Len(queue)
    <3>1. n \in Nat /\ DOMAIN Jobs = 1 .. n
      BY JobFacts DEF Job
    <3>2. queue \in Seq(1 .. n) /\ m \in Nat /\ m <= n
      BY <1>1 DEF ChactosInv, QueueInv, Job
    <3>3. \A i \in 1 .. m : queue[i] = (n - m) + i
      BY <1>1 DEF ChactosInv, QueueInv, Taken
    <3>4. queue = [i \in 1 .. m |-> queue[i]]
      BY <3>2
    <3>5. n = Len(Jobs)
      BY DEF NumJobs
    <3> HIDE DEF n, m
    <3> DEFINE all == [i \in 1 .. n |-> i]
               t == SubSeq(all, (n - m) + 1, n)
    <3>6. t = [i \in 1 .. m |-> (n - m) + i]
      <4>1. all \in Seq(1 .. n) /\ Len(all) = n /\ (n - m) + 1 \in Int /\ 1 <= (n - m) + 1
        BY <3>1, <3>2
      <4>2. t = [i \in 1 .. (n - ((n - m) + 1)) + 1 |-> all[(i + ((n - m) + 1)) - 1]]
        BY <3>1, <3>2, <4>1
      <4>3. (n - ((n - m) + 1)) + 1 = m
        BY <3>1, <3>2
      <4>4. \A i \in 1 .. m : (i + ((n - m) + 1)) - 1 = (n - m) + i /\ (n - m) + i \in 1 .. n
        BY <3>1, <3>2
      <4>5. \A i \in 1 .. m : all[(i + ((n - m) + 1)) - 1] = (n - m) + i
        BY <4>4
      <4> QED  BY <4>2, <4>3, <4>5
    <3>7. queue = t
      BY <3>3, <3>4, <3>6
    <3> QED  BY <3>1, <3>5, <3>7 DEF m
  <2>2. ASSUME NEW w \in Workers
        PROVE  /\ worker[w].job \in DOMAIN Jobs => IsSuffix(worker[w].steps, StepKeys(Trial(w)))
               /\ worker[w].failure \subseteq Pods
               /\ Cardinality(worker[w].failure) <= NumToFail(Cardinality(Pods))
    <3> DEFINE r == worker[w]
    <3>1. r \in Record /\ RecordInv(r, tested)
      BY <1>1 DEF ChactosInv, WorkersInv
    <3>2. ASSUME r.job \in DOMAIN Jobs PROVE IsSuffix(r.steps, Keys(r.job))
      <4>1. r.job \in Job /\ r.job # 0
        BY <3>2, JobFacts DEF Job
      <4>2. PICK d \in Nat : Here(r, d, tested)
        BY <3>1, <4>1 DEF RecordInv
      <4>3. Len(r.steps) = Len(Keys(r.job)) - d /\ \A j \in 1 .. Len(r.steps) : r.steps[j] = Keys(r.job)[d + j]
        BY <4>2 DEF Here, Rest, Size, Key
      <4>4. r.steps \in Seq(Numbers) /\ Keys(r.job) \in Seq(Numbers)
        BY <3>1, <3>2, KeysFacts DEF Record, Sequences
      <4> HIDE DEF r
      <4> QED  BY <4>3, <4>4, SuffixFacts
    <3>3. r.failure \in SUBSET Pods /\ Cardinality(r.failure) <= NumToFail(Cardinality(Pods))
      BY <3>1 DEF Record, RecordInv
    <3> QED  BY <3>2, <3>3 DEF Trial, Keys
  <2>3. \A pods \in DOMAIN files : files[pods] \in {"absent", "partial", "whole"}
    BY <1>1 DEF ChactosInv
  <2> QED  BY <2>1, <2>2, <2>3 DEF TypeOK, Pods
<1> QED  BY <1>1, ChactosInvHolds, PTL

\* However often a trial is started over, no step is sent under a failure twice,
\* and when the trial is over every good step but the first was sent once: the
\* worker leaves the loop with the step that failed at the head, and the next
\* round runs it without a failure.
THEOREM TransitionsOnce ==
  Spec => []EveryTransitionOnce
<1>1. ASSUME ChactosInv PROVE EveryTransitionOnce
  <2>1. ASSUME NEW w \in Workers
        PROVE  /\ At(w, "send") => <<worker[w].job, Step(w)>> \notin tested
               /\ At(w, "idle") /\ worker[w].job # 0 => ToTest(worker[w].job) \subseteq tested
    <3> DEFINE r == worker[w]
               i == r.job
    <3>1. r \in Record /\ RecordInv(r, tested)
      BY <1>1 DEF ChactosInv, WorkersInv
    <3>2. ASSUME r.pc = "send" PROVE <<i, Head(r.steps)>> \notin tested
      <4>1. i # 0
        BY <3>1, <3>2 DEF RecordInv
      <4>2. PICK d \in Nat : Here(r, d, tested)
        BY <3>1, <4>1 DEF RecordInv
      <4>3. Rest(r, d) /\ d \in 0 .. Size(i) /\ d < Size(i) /\ ~ Sent(i, d + 1, tested)
        BY <3>2, <4>2 DEF Here, Progress, Untried, Chosen
      <4>4. Head(r.steps) = Key(i, d + 1)
        BY <3>1, <4>1, <4>3, HeadOfRest
      <4> QED  BY <4>3, <4>4 DEF Sent
    <3>3. ASSUME r.pc = "idle", i # 0 PROVE ToTest(i) \subseteq tested
      <4>1. PICK d \in Nat : Here(r, d, tested)
        BY <3>1, <3>3 DEF RecordInv
      <4>2. Earlier(i, Size(i), tested)
        BY <3>3, <4>1 DEF Here, Progress
      <4>3. i \in Job
        BY <3>1, <3>3 DEF Record, JobOrNone
      <4>4. Head(Keys(i)) = Key(i, 1)
        <5>1. i \in DOMAIN Jobs /\ Keys(i) # << >>
          BY <4>3, JobFacts, KeysFacts
        <5>2. Keys(i) \in Seq(Numbers)
          BY <5>1, KeysFacts
        <5> HIDE DEF i
        <5> QED  BY <5>1, <5>2, TailFacts DEF Key
      <4>5. ASSUME NEW k \in Loaded(Jobs[i]), k \notin Jobs[i].bad, k # Head(Keys(i))
            PROVE  <<i, k>> \in tested
        <5>1. PICK j \in 1 .. Size(i) : Key(i, j) = k
          BY <4>3, PlaceFacts
        <5>2. j \in 2 .. Size(i)
          BY <4>4, <4>5, <5>1
        <5>3. ~ Bad(i, j)
          BY <4>5, <5>1 DEF Bad
        <5> QED  BY <4>2, <5>1, <5>2, <5>3 DEF Earlier, Sent
      <4> QED  BY <4>5 DEF ToTest, Keys
    <3> QED  BY <3>2, <3>3 DEF At, Step
  <2> QED  BY <2>1 DEF EveryTransitionOnce
<1> QED  BY <1>1, ChactosInvHolds, PTL

\* In trials of at most ten steps, whose keys sort like the numbers they stand
\* for, a step is sent under a failure from the state that the step before it
\* in the test run left, however often the trial was started over.  With
\* eleven steps it is not: "10" sorts before "2".
THEOREM FaultsOnTransitionsOfShortTrials ==
  ASSUME ShortTrials
  PROVE  Spec => []FaultsOnTransitions
<1>1. ASSUME ChactosInv PROVE FaultsOnTransitions
  <2>1. ASSUME NEW w \in Workers, At(w, "send")
        PROVE  worker[w].base = Predecessor(Trial(w), Step(w))
    <3> DEFINE r == worker[w]
               i == r.job
               t == Jobs[i]
               k == Head(r.steps)
    <3>1. r \in Record /\ RecordInv(r, tested) /\ r.pc = "send" /\ i # 0 /\ i \in Job
      <4>1. r \in Record /\ RecordInv(r, tested)
        BY <1>1 DEF ChactosInv, WorkersInv
      <4>2. r.pc = "send" /\ i # 0
        BY <2>1, <4>1 DEF At, RecordInv
      <4> QED  BY <4>1, <4>2 DEF Record, JobOrNone
    <3>2. PICK d \in Nat : Here(r, d, tested)
      BY <3>1 DEF RecordInv
    <3>3. Rest(r, d) /\ d \in 0 .. Size(i) /\ d >= 1 /\ d < Size(i) /\ LastGood(i, d, r.base)
      BY <3>1, <3>2 DEF Here, Progress, FromLastGood, Untried, Chosen
    <3>4. k = Key(i, d + 1)
      BY <3>1, <3>3, HeadOfRest
    <3> DEFINE L == Loaded(t)
               n == Size(i)
               e == r.base
    <3>5. /\ n \in Nat /\ \A j \in 1 .. n : Key(i, j) \in Numbers /\ Key(i, j) \in L
          /\ \A x \in L : \E j \in 1 .. n : Key(i, j) = x
      BY <3>1, PlaceFacts
    <3>6. \A a, b \in 1 .. n : a < b => Key(i, a) < Key(i, b)
      BY <3>1, Increasing
    <3>7. (\E j \in 1 .. d : Counts(i, j) /\ e = Key(i, j))
          /\ \A j \in 1 .. d : Counts(i, j) => Key(i, j) <= e
      BY <3>3 DEF LastGood
    <3>8. \A j : Counts(i, j) <=> j = 1 \/ Key(i, j) \notin t.bad
      BY DEF Counts, Bad
    <3>9. d + 1 \in 1 .. n /\ 1 \in 1 .. d /\ d < n /\ \A j \in 1 .. d : j \in 1 .. n /\ j < d + 1
      BY <3>3, <3>5
    <3> HIDE DEF L, n, e, k, i, t
    <3>10. \A x \in L : x \in Int
      BY <3>5 DEF Numbers
    <3>11. Min(L) = Key(i, 1)
      <4>1. Key(i, 1) \in L /\ \A x \in L : Key(i, 1) <= x
        <5>1. 1 \in 1 .. n
          BY <3>9
        <5>2. ASSUME NEW x \in L PROVE Key(i, 1) <= x
          <6>1. PICK j \in 1 .. n : Key(i, j) = x
            BY <3>5
          <6>2. j = 1 \/ 1 < j
            OBVIOUS
          <6>3. Key(i, 1) \in Int /\ x \in Int
            BY <3>5, <3>10, <5>1
          <6>4. 1 < j => Key(i, 1) < Key(i, j)
            BY <3>6, <5>1
          <6> QED  BY <6>1, <6>2, <6>3, <6>4
        <5> QED  BY <3>5, <5>1, <5>2
      <4>2. \A x \in L : (\A y \in L : x <= y) => x = Key(i, 1)
        BY <3>10, <4>1
      <4>3. Min(L) = CHOOSE x \in L : \A y \in L : x <= y
        BY DEF Min
      <4> QED  BY <4>1, <4>2, <4>3
    <3> DEFINE Before == {Min(L)} \cup {x \in L \ t.bad : x < k}
    <3>12. \A x : x \in Before <=> \E j \in 1 .. d : Counts(i, j) /\ x = Key(i, j)
      <4> TAKE x
      <4>1. ASSUME NEW j \in 1 .. d, Counts(i, j), x = Key(i, j) PROVE x \in Before
        <5>1. j \in 1 .. n /\ j < d + 1
          BY <3>9
        <5>2. x \in L /\ x < k
          BY <3>4, <3>5, <3>6, <3>9, <4>1, <5>1
        <5> QED  BY <3>8, <3>11, <4>1, <5>2
      <4>2. ASSUME x \in L \ t.bad, x < k PROVE \E j \in 1 .. d : Counts(i, j) /\ x = Key(i, j)
        <5>1. PICK j \in 1 .. n : Key(i, j) = x
          BY <3>5, <4>2
        <5>2. Counts(i, j)
          BY <3>8, <4>2, <5>1
        <5>3. x \in Int /\ k \in Int
          BY <3>4, <3>5, <3>9, <3>10, <4>2
        <5>4. ~ (d + 1 < j) /\ j # d + 1
          <6>1. d + 1 < j => k < x
            BY <3>4, <3>6, <3>9, <5>1
          <6>2. j = d + 1 => x = k
            BY <3>4, <5>1
          <6> QED  BY <4>2, <5>3, <6>1, <6>2
        <5>5. j \in 1 .. d
          BY <5>4
        <5> QED  BY <5>1, <5>2, <5>5
      <4>3. CASE x = Min(L)
        <5>1. Counts(i, 1) /\ 1 \in 1 .. d /\ x = Key(i, 1)
          BY <3>8, <3>9, <3>11, <4>3
        <5> QED  BY <4>3, <5>1
      <4> QED  BY <4>1, <4>2, <4>3
    <3>13. e \in Before /\ \A x \in Before : x <= e
      BY <3>7, <3>12
    <3>14. \A x \in Before : x \in Int
      <4>1. \A j \in 1 .. d : Key(i, j) \in Int
        <5> TAKE j \in 1 .. d
        <5>1. j \in 1 .. n
          BY <3>9
        <5>2. Key(i, j) \in Numbers
          BY <3>5, <5>1
        <5> QED  BY <5>2 DEF Numbers
      <4> HIDE DEF Before
      <4> QED  BY <3>12, <4>1
    <3>15. Max(Before) = CHOOSE x \in Before : \A y \in Before : x >= y
      BY DEF Max
    <3> HIDE DEF Before
    <3>16. \A x \in Before : (\A y \in Before : x >= y) => x = e
      BY <3>13, <3>14
    <3>17. \A y \in Before : e >= y
      BY <3>13, <3>14
    <3>18. Max(Before) = e
      BY <3>13, <3>15, <3>16, <3>17
    <3> QED  BY <3>18 DEF Before, Predecessor, Trial, Step, L, e, k, i, t
  <2> QED  BY <2>1 DEF FaultsOnTransitions
<1> QED  BY <1>1, ChactosInvHolds, PTL

-----------------------------------------------------------------------------
(* The failures' files *)

\* A worker that wrote its file finds it there, and whoever left a file cut
\* short is still writing it, or died.
Breaks(r, pods) == r.pc \in {"write", "dead"} /\ r.failure = pods

FilesInv ==
  /\ \A w \in Workers : worker[w].pc = "inject" => files[worker[w].failure] # "absent"
  /\ \A pods \in SUBSET Pods : files[pods] = "partial" => \E v \in Workers : Breaks(worker[v], pods)

\* What the steps that leave the files alone may do to a worker's record.
Keeps(r, q) ==
  /\ q.pc # "inject"
  /\ \A pods \in SUBSET Pods : Breaks(r, pods) => Breaks(q, pods)

LEMMA FilesKept ==
  ASSUME ChactosInv, FilesInv, NEW w \in Workers, NEW q \in Record,
         worker' = [worker EXCEPT ![w] = q], UNCHANGED files, Keeps(worker[w], q)
  PROVE  FilesInv'
<1>1. worker \in [Workers -> Record]
  BY DEF ChactosInv, WorkersInv
<1>2. worker'[w] = q /\ \A v \in Workers : v # w => worker'[v] = worker[v]
  BY <1>1
<1>3. \A v \in Workers : worker'[v].pc = "inject" => files'[worker'[v].failure] # "absent"
  BY <1>2 DEF FilesInv, Keeps
<1>4. ASSUME NEW pods \in SUBSET Pods, files'[pods] = "partial"
      PROVE  \E v \in Workers : Breaks(worker'[v], pods)
  <2>1. PICK v \in Workers : Breaks(worker[v], pods)
    BY <1>4 DEF FilesInv
  <2>2. Breaks(worker'[v], pods)
    BY <1>2, <2>1 DEF Keeps
  <2> QED  BY <2>2
<1> QED  BY <1>3, <1>4 DEF FilesInv

\* Steps that only go elsewhere, or shorten what is left of the trial.
LEMMA FilesLeftAlone ==
  ASSUME ChactosInv, FilesInv, NEW w \in Workers,
         \/ Stop(w) \/ Deploy(w) \/ Install(w) \/ FinishTrial(w) \/ BuildFailure(w) \/ Inject(w)
         \/ InjectFails(w) \/ Lift(w) \/ Alarm(w) \/ Die(w) \/ Take(w) \/ RunInitial(w)
         \/ Skip(w) \/ Send(w) \/ Recovered(w)
  PROVE  FilesInv'
<1> DEFINE r == worker[w]
<1>1. worker \in [Workers -> Record] /\ r \in Record
  BY DEF ChactosInv, WorkersInv
<1>2. worker' \in [Workers -> Record]
  <2>1. ChactosInv'
    BY MovesInv, TakeInv, SendInv, OwnTail
  <2> QED  BY <2>1 DEF ChactosInv, WorkersInv
<1>3. UNCHANGED files
  BY DEF Stop, Deploy, Install, FinishTrial, BuildFailure, Inject, InjectFails, Lift, Alarm, Die,
         Take, RunInitial, Skip, Send, Recovered
<1>4. ASSUME NEW q, worker' = [worker EXCEPT ![w] = q], Keeps(r, q)
      PROVE  FilesInv'
  <2>1. q \in Record
    BY <1>1, <1>2, <1>4
  <2> QED  BY <1>3, <1>4, <2>1, FilesKept
<1>5. ASSUME NEW p, Go(w, p), p # "inject", r.pc \in {"write", "dead"} => p = "dead"
      PROVE  FilesInv'
  <2> DEFINE q == [r EXCEPT !.pc = p]
  <2>1. q.pc = p /\ q.failure = r.failure
    BY <1>1 DEF Record
  <2>2. worker' = [worker EXCEPT ![w] = q]
    BY <1>1, <1>5 DEF Go
  <2>3. Keeps(r, q)
    BY <1>5, <2>1 DEF Keeps, Breaks
  <2> HIDE DEF q
  <2> QED  BY <1>4, <2>2, <2>3
\* A record that is neither being written nor at its end may be replaced by any
\* that is not ready to inject.
<1>6. ASSUME NEW q, worker' = [worker EXCEPT ![w] = q], q.pc # "inject",
             r.pc \notin {"write", "dead"}
      PROVE  FilesInv'
  BY <1>4, <1>6 DEF Keeps, Breaks
<1>7. CASE Stop(w) \/ Deploy(w) \/ Install(w) \/ FinishTrial(w)
  BY <1>5, <1>7 DEF Stop, Deploy, Install, FinishTrial, At
<1>8. CASE Inject(w) \/ InjectFails(w) \/ Die(w)
  BY <1>5, <1>8 DEF Inject, InjectFails, Die, At
<1>9. CASE BuildFailure(w)
  <2>1. PICK running \in SUBSET (PriorityPods \cup NormalPods) :
          \E pods \in SelectPods(PriorityPods \cap running, NormalPods \cap running,
                                 NumToFail(Cardinality(running))) :
            worker' = [worker EXCEPT ![w].pc = "open", ![w].failure = pods, ![w].steady = TRUE]
    BY <1>9 DEF BuildFailure
  <2>2. PICK pods : worker' = [worker EXCEPT ![w].pc = "open", ![w].failure = pods, ![w].steady = TRUE]
    BY <2>1
  <2> DEFINE q == [r EXCEPT !.pc = "open", !.failure = pods, !.steady = TRUE]
  <2>3. worker' = [worker EXCEPT ![w] = q] /\ q.pc = "open" /\ r.pc = "loop"
    BY <1>1, <1>9, <2>2 DEF Record, BuildFailure, At
  <2> HIDE DEF q
  <2> QED  BY <1>6, <2>3
<1>10. CASE Lift(w)
  <2> DEFINE q == IF r.steady THEN [r EXCEPT !.pc = "open", !.steady = FALSE] ELSE [r EXCEPT !.pc = "judge"]
  <2>1. worker' = [worker EXCEPT ![w] = q] /\ q.pc # "inject" /\ r.pc = "lift"
    BY <1>1, <1>10 DEF Record, Lift, At
  <2> HIDE DEF q
  <2> QED  BY <1>6, <2>1
<1>11. CASE Alarm(w)
  <2> DEFINE q == [r EXCEPT !.pc = "deploy", !.steps = AfterAlarm(@)]
  <2>1. worker' = [worker EXCEPT ![w] = q] /\ q.pc = "deploy" /\ r.pc = "judge"
    BY <1>1, <1>11 DEF Record, Alarm, At
  <2> HIDE DEF q
  <2> QED  BY <1>6, <2>1
<1>12. CASE Take(w)
  <2> DEFINE q == [Idle EXCEPT !.pc = "deploy", !.job = Head(queue), !.steps = StepKeys(Jobs[Head(queue)])]
  <2>1. worker' = [worker EXCEPT ![w] = q] /\ q.pc = "deploy" /\ r.pc = "idle"
    BY <1>1, <1>12 DEF Take, At, Idle
  <2> HIDE DEF q
  <2> QED  BY <1>6, <2>1
<1>13. CASE RunInitial(w)
  <2> DEFINE q == [r EXCEPT !.pc = "loop", !.base = Step(w), !.steps = PopInitial(@)]
  <2>1. worker' = [worker EXCEPT ![w] = q] /\ q.pc = "loop" /\ r.pc = "initial"
    BY <1>1, <1>13 DEF Record, RunInitial, At
  <2> HIDE DEF q
  <2> QED  BY <1>6, <2>1
<1>14. CASE Skip(w)
  <2> DEFINE q == [r EXCEPT !.steps = Tail(@)]
  <2>1. worker' = [worker EXCEPT ![w] = q] /\ q.pc = "loop" /\ r.pc = "loop"
    BY <1>1, <1>14 DEF Record, Skip, At
  <2> HIDE DEF q
  <2> QED  BY <1>6, <2>1
<1>15. CASE Send(w)
  <2> DEFINE q == [r EXCEPT !.pc = "lift", !.base = Step(w)]
  <2>1. worker' = [worker EXCEPT ![w] = q] /\ q.pc = "lift" /\ r.pc = "send"
    BY <1>1, <1>15 DEF Record, Send, At
  <2> HIDE DEF q
  <2> QED  BY <1>6, <2>1
<1>16. CASE Recovered(w)
  <2> DEFINE q == [r EXCEPT !.pc = "loop", !.steps = Tail(@)]
  <2>1. worker' = [worker EXCEPT ![w] = q] /\ q.pc = "loop" /\ r.pc = "judge"
    BY <1>1, <1>16 DEF Record, Recovered, At
  <2> HIDE DEF q
  <2> QED  BY <1>6, <2>1
<1> QED  BY <1>7, <1>8, <1>9, <1>10, <1>11, <1>12, <1>13, <1>14, <1>15, <1>16

LEMMA FilesWritten ==
  ASSUME ChactosInv, FilesInv, NEW w \in Workers, OpenFile(w) \/ WriteFile(w)
  PROVE  FilesInv'
<1> DEFINE r == worker[w]
           mine == r.failure
<1>1. worker \in [Workers -> Record] /\ r \in Record /\ mine \in SUBSET Pods
  BY DEF ChactosInv, WorkersInv, Record
<1>2. files \in [SUBSET Pods -> {"absent", "partial", "whole"}]
  BY DEF ChactosInv
<1>3. ASSUME NEW p, Go(w, p)
      PROVE  /\ worker'[w].pc = p /\ worker'[w].failure = mine
             /\ \A v \in Workers : v # w => worker'[v] = worker[v]
             /\ \A v \in Workers : worker'[v].failure = worker[v].failure
  <2>1. worker' = [worker EXCEPT ![w] = [r EXCEPT !.pc = p]]
    BY <1>1, <1>3 DEF Go
  <2>2. [r EXCEPT !.pc = p].pc = p /\ [r EXCEPT !.pc = p].failure = mine
    BY <1>1 DEF Record
  <2> QED  BY <1>1, <2>1, <2>2
<1>4. \A v \in Workers : worker[v].failure \in SUBSET Pods
  BY <1>1 DEF Record
<1>5. CASE OpenFile(w)
  <2>1. /\ worker'[w].pc = "write" /\ worker'[w].failure = mine /\ r.pc = "open"
        /\ \A v \in Workers : v # w => worker'[v] = worker[v]
    BY <1>3, <1>5 DEF OpenFile, At
  <2>2. files'[mine] = "partial" /\ \A pods \in SUBSET Pods : pods # mine => files'[pods] = files[pods]
    BY <1>1, <1>2, <1>5 DEF OpenFile, FailureFile
  <2>3. \A v \in Workers : worker'[v].pc = "inject" => files'[worker'[v].failure] # "absent"
    BY <1>4, <2>1, <2>2 DEF FilesInv
  <2>4. ASSUME NEW pods \in SUBSET Pods, files'[pods] = "partial"
        PROVE  \E v \in Workers : Breaks(worker'[v], pods)
    <3>1. CASE pods = mine
      BY <2>1, <3>1 DEF Breaks
    <3>2. CASE pods # mine
      <4>1. PICK v \in Workers : Breaks(worker[v], pods)
        BY <2>2, <2>4, <3>2 DEF FilesInv
      <4>2. v # w
        BY <2>1, <4>1 DEF Breaks
      <4> QED  BY <2>1, <4>1, <4>2
    <3> QED  BY <3>1, <3>2
  <2> QED  BY <2>3, <2>4 DEF FilesInv
<1>6. CASE WriteFile(w)
  <2>1. /\ worker'[w].pc = "inject" /\ worker'[w].failure = mine
        /\ \A v \in Workers : v # w => worker'[v] = worker[v]
    BY <1>3, <1>6 DEF WriteFile
  <2>2. files'[mine] = "whole" /\ \A pods \in SUBSET Pods : pods # mine => files'[pods] = files[pods]
    BY <1>1, <1>2, <1>6 DEF WriteFile, FailureFile
  <2>3. \A v \in Workers : worker'[v].pc = "inject" => files'[worker'[v].failure] # "absent"
    BY <1>4, <2>1, <2>2 DEF FilesInv
  <2>4. ASSUME NEW pods \in SUBSET Pods, files'[pods] = "partial"
        PROVE  \E v \in Workers : Breaks(worker'[v], pods)
    <3>1. pods # mine /\ files[pods] = "partial"
      BY <2>2, <2>4
    <3>2. PICK v \in Workers : Breaks(worker[v], pods)
      BY <3>1 DEF FilesInv
    <3>3. v # w
      BY <3>1, <3>2 DEF Breaks
    <3> QED  BY <2>1, <3>2, <3>3
  <2> QED  BY <2>3, <2>4 DEF FilesInv
<1> QED  BY <1>5, <1>6

\* A worker that wrote its failure's manifest finds it cut short only when
\* another is rewriting the one for the same pods, or died at it: with any
\* number of workers and pods, the shared directory alone loses no failure
\* (chactos/failures/pod_failures_chaos.py, PodFailure.name and Failure.apply).
THEOREM FilesCutShortByOthers ==
  Spec => []CutShortByAnother
<1>1. ASSUME Init PROVE FilesInv
  BY <1>1 DEF Init, Idle, FilesInv, Pods
<1>2. ASSUME ChactosInv, FilesInv, Next PROVE FilesInv'
  <2>1. ASSUME NEW w \in Workers, Worker(w) \/ DeployFails(w) \/ Die(w)
        PROVE  FilesInv'
    <3>1. CASE OpenFile(w) \/ WriteFile(w)
      BY <1>2, <3>1, FilesWritten
    <3>2. CASE UNCHANGED vars
      BY <1>2, <3>2 DEF vars, FilesInv
    <3>3. CASE \/ Stop(w) \/ Deploy(w) \/ Install(w) \/ FinishTrial(w) \/ BuildFailure(w) \/ Inject(w)
               \/ InjectFails(w) \/ Lift(w) \/ Alarm(w) \/ Die(w) \/ Take(w) \/ RunInitial(w)
               \/ Skip(w) \/ Send(w) \/ Recovered(w)
      BY <1>2, <3>3, FilesLeftAlone
    <3> QED  BY <2>1, <3>1, <3>2, <3>3 DEF Worker, DeployFails
  <2>2. CASE UNCHANGED vars
    BY <1>2, <2>2 DEF vars, FilesInv
  <2> QED  BY <1>2, <2>1, <2>2 DEF Next
<1>3. ASSUME FilesInv, UNCHANGED vars PROVE FilesInv'
  BY <1>3 DEF vars, FilesInv
<1>4. ASSUME ChactosInv, FilesInv PROVE CutShortByAnother
  <2>1. ASSUME NEW w \in Workers, worker[w].pc = "inject", files[worker[w].failure] # "whole"
        PROVE  \E v \in Workers \ {w} :
                 worker[v].pc \in {"write", "dead"} /\ worker[v].failure = worker[w].failure
    <3>1. worker[w].failure \in SUBSET Pods
      BY <1>4 DEF ChactosInv, WorkersInv, Record
    <3>2. files[worker[w].failure] = "partial"
      BY <1>4, <2>1, <3>1 DEF ChactosInv, FilesInv
    <3>3. PICK v \in Workers : Breaks(worker[v], worker[w].failure)
      BY <1>4, <3>1, <3>2 DEF FilesInv
    <3>4. v # w
      BY <2>1, <3>3 DEF Breaks
    <3> QED  BY <3>3, <3>4 DEF Breaks
  <2> QED  BY <2>1 DEF CutShortByAnother, At, FailureFile
<1> QED  BY <1>1, <1>2, <1>3, <1>4, ChactosInvHolds, PTL DEF Spec
=============================================================================
