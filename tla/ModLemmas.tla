----------------------------- MODULE ModLemmas -----------------------------
(***************************************************************************)
(* Facts about % for a divisor that is not a numeral.  They are what the   *)
(* round robin of ParallelFileRead rests on: two numbers less than N apart *)
(* with the same remainder are equal, and the remainder of a successor is  *)
(* the successor of the remainder.  Then induction over the naturals, for  *)
(* functions that are defined by recursion, and facts about finite sets of *)
(* numbers and about concatenation.                                        *)
(***************************************************************************)
EXTENDS Integers, SequencesExt, FiniteSetTheorems, SequenceTheorems, WellFoundedInduction, TLAPS

(* Division with remainder.                                                *)
LEMMA DivMod ==
    ASSUME NEW N \in Nat \ {0}, NEW a \in Nat
    PROVE  /\ a = N * (a \div N) + (a % N)
           /\ a % N \in 0..(N - 1)
           /\ a \div N \in Nat
  BY Z3

(* Multiples of N are at least N apart.                                    *)
LEMMA MulStep ==
    ASSUME NEW N \in Nat \ {0}, NEW p \in Int, NEW q \in Int, p < q
    PROVE  N * p + N <= N * q
  <1>1. N * (q - (p + 1)) >= 0
    BY Z3
  <1>2. N * (q - (p + 1)) = N * q - N * p - N
    BY Z3
  <1> QED BY <1>1, <1>2, Z3

(* The remainder in a representation N * q + r is unique.                  *)
LEMMA RemainderUnique ==
    ASSUME NEW N \in Nat \ {0}, NEW p \in Int, NEW q \in Int,
           NEW r \in 0..(N - 1), NEW s \in 0..(N - 1),
           N * p + r = N * q + s
    PROVE  r = s
  <1>1. ~(p < q)
    BY MulStep, Z3
  <1>2. ~(q < p)
    BY MulStep, Z3
  <1>3. p = q
    BY <1>1, <1>2, Z3
  <1> QED BY <1>3, Z3

(* Whoever exhibits quotient and remainder knows the value of a % N.       *)
LEMMA ModIs ==
    ASSUME NEW N \in Nat \ {0}, NEW a \in Nat, NEW q \in Int,
           NEW r \in 0..(N - 1), a = N * q + r
    PROVE  a % N = r
  <1> DEFINE p == a \div N
             s == a % N
  <1>1. a = N * p + s /\ p \in Int /\ s \in 0..(N - 1)
    BY DivMod
  <1> HIDE DEF p, s
  <1>2. N * p + s = N * q + r
    BY <1>1
  <1>3. s = r
    BY <1>1, <1>2, RemainderUnique
  <1> QED BY <1>3 DEF s

(* Numbers less than N apart with the same remainder are equal.            *)
LEMMA ModUnique ==
    ASSUME NEW N \in Nat \ {0}, NEW a \in Nat, NEW b \in Nat,
           a % N = b % N, a <= b, b < a + N
    PROVE  a = b
  <1> DEFINE p == a \div N
             q == b \div N
  <1>1. a = N * p + (a % N) /\ p \in Nat /\ a % N \in 0..(N - 1)
    BY DivMod
  <1>2. b = N * q + (b % N) /\ q \in Nat /\ b % N \in 0..(N - 1)
    BY DivMod
  <1> HIDE DEF p, q
  <1>3. ~(p < q)
    <2> SUFFICES ASSUME p < q PROVE FALSE
      OBVIOUS
    <2>1. N * p + N <= N * q
      BY <1>1, <1>2, MulStep
    <2> QED BY <2>1, <1>1, <1>2, Z3
  <1>4. ~(q < p)
    <2> SUFFICES ASSUME q < p PROVE FALSE
      OBVIOUS
    <2>1. N * q + N <= N * p
      BY <1>1, <1>2, MulStep
    <2> QED BY <2>1, <1>1, <1>2, Z3
  <1>5. p = q
    BY <1>1, <1>2, <1>3, <1>4, Z3
  <1> QED BY <1>1, <1>2, <1>5, Z3

(* Stepping a round robin index steps the remainder.                       *)
LEMMA ModSucc ==
    ASSUME NEW N \in Nat \ {0}, NEW a \in Nat
    PROVE  ((a % N) + 1) % N = (a + 1) % N
  <1> DEFINE q == a \div N
             r == a % N
  <1>1. a = N * q + r /\ q \in Nat /\ r \in 0..(N - 1)
    BY DivMod
  <1> HIDE DEF q, r
  <1>2. CASE r + 1 < N
    <2>1. r + 1 \in Nat /\ r + 1 \in 0..(N - 1)
      BY <1>1, <1>2, Z3
    <2>2. r + 1 = N * 0 + (r + 1)
      BY <1>1, Z3
    <2>3. a + 1 = N * q + (r + 1) /\ a + 1 \in Nat
      BY <1>1, Z3
    <2>4. (r + 1) % N = r + 1
      BY <2>1, <2>2, ModIs
    <2>5. (a + 1) % N = r + 1
      BY <1>1, <2>1, <2>3, ModIs
    <2> QED BY <2>4, <2>5 DEF r
  <1>3. CASE r + 1 = N
    <2>1. r + 1 = N * 1 + 0 /\ r + 1 \in Nat /\ 0 \in 0..(N - 1)
      BY <1>1, <1>3, Z3
    <2>2. a + 1 = N * (q + 1) + 0 /\ a + 1 \in Nat /\ q + 1 \in Nat
      BY <1>1, <1>3, Z3
    <2>3. (r + 1) % N = 0
      BY <2>1, ModIs
    <2>4. (a + 1) % N = 0
      BY <2>1, <2>2, ModIs
    <2> QED BY <2>3, <2>4 DEF r
  <1> QED BY <1>1, <1>2, <1>3, Z3

(* Adding the divisor keeps the remainder.                                 *)
LEMMA ModAdd ==
    ASSUME NEW N \in Nat \ {0}, NEW a \in Nat
    PROVE  (a + N) % N = a % N
  <1>1. a = N * (a \div N) + (a % N) /\ a \div N \in Nat /\ a % N \in 0..(N - 1)
    BY DivMod
  <1>2. a + N = N * ((a \div N) + 1) + (a % N) /\ a + N \in Nat /\ (a \div N) + 1 \in Int
    BY <1>1, Z3
  <1> QED BY <1>1, <1>2, ModIs

-----------------------------------------------------------------------------
(* Induction, and functions defined by recursion over the naturals.        *)

(* Induction over the naturals, for a set instead of a predicate.          *)
LEMMA SetInduction ==
    ASSUME NEW S, 0 \in S, \A n \in Nat : n \in S => n + 1 \in S
    PROVE  \A n \in Nat : n \in S
<1> DEFINE T == Nat \ S
<1>1. SUFFICES ASSUME T # {} PROVE FALSE
  OBVIOUS
<1>2. IsWellFoundedOn(OpToRel(<, Nat), Nat)
  BY NatLessThanWellFounded
<1>3. PICK x \in T : \A y \in T : <<y, x>> \notin OpToRel(<, Nat)
  BY <1>1, <1>2, WFMin
<1>4. \A y \in T : ~(y < x)
  BY <1>3 DEF OpToRel
<1>5. x # 0 /\ x - 1 \in Nat
  OBVIOUS
<1>6. x - 1 \in S
  BY <1>4, <1>5
<1> QED BY <1>5, <1>6

(* Iterated steps from b: what the n-th one leaves exists, for every n.    *)
Iterates(X, b, step) ==
    \A n \in Nat : \E f \in [0..n -> X] : f[0] = b /\ \A i \in 1..n : f[i] = step[<<f[i - 1], i>>]

(* A function defined by recursion on i from 0 exists and stays in its     *)
(* range.                                                                  *)
LEMMA Iterated ==
    ASSUME NEW X, NEW b \in X, NEW step \in [X \X Nat -> X]
    PROVE  Iterates(X, b, step)
<1> DEFINE S == {n \in Nat : \E f \in [0..n -> X] : f[0] = b /\ \A i \in 1..n : f[i] = step[<<f[i - 1], i>>]}
<1>1. 0 \in S
  <2> DEFINE f == [i \in 0..0 |-> b]
  <2>1. f \in [0..0 -> X] /\ f[0] = b
    OBVIOUS
  <2> HIDE DEF f
  <2>2. \A i \in 1..0 : f[i] = step[<<f[i - 1], i>>]
    OBVIOUS
  <2> QED BY <2>1, <2>2
<1>2. ASSUME NEW n \in Nat, n \in S PROVE n + 1 \in S
  <2>1. PICK f \in [0..n -> X] : f[0] = b /\ \A i \in 1..n : f[i] = step[<<f[i - 1], i>>]
    BY <1>2
  <2> DEFINE g == [i \in 0..(n + 1) |-> IF i <= n THEN f[i] ELSE step[<<f[n], n + 1>>]]
  <2>2. g \in [0..(n + 1) -> X]
    <3>1. step[<<f[n], n + 1>>] \in X
      OBVIOUS
    <3> QED BY <3>1
  <2>3. \A i \in 0..n : g[i] = f[i]
    OBVIOUS
  <2>4. g[n + 1] = step[<<g[n], n + 1>>]
    OBVIOUS
  <2> HIDE DEF g
  <2>5. \A i \in 1..(n + 1) : g[i] = step[<<g[i - 1], i>>]
    <3> SUFFICES ASSUME NEW i \in 1..(n + 1) PROVE g[i] = step[<<g[i - 1], i>>]
      OBVIOUS
    <3>1. CASE i = n + 1
      BY <2>4, <3>1
    <3>2. CASE i # n + 1
      <4>1. i \in 1..n /\ i - 1 \in 0..n
        BY <3>2
      <4> QED BY <2>1, <2>3, <4>1
    <3> QED BY <3>1, <3>2
  <2>6. g[0] = b
    BY <2>1, <2>3
  <2> QED BY <2>2, <2>5, <2>6
<1> HIDE DEF S
<1>3. \A n \in Nat : n \in S
  BY <1>1, <1>2, SetInduction
<1> QED BY <1>3 DEF S, Iterates

(* The successor in a ring of n slots.                                     *)
LEMMA SuccMod ==
    ASSUME NEW n \in Nat \ {0}, NEW a \in 0..(n - 1)
    PROVE  (a + 1) % n = IF a + 1 < n THEN a + 1 ELSE 0
<1>1. CASE a + 1 < n
  <2>1. a + 1 = n * 0 + (a + 1)
    OBVIOUS
  <2> QED BY <1>1, <2>1, ModIs
<1>2. CASE a + 1 = n
  <2>1. a + 1 = n * 1 + 0
    BY <1>2
  <2> QED BY <1>2, <2>1, ModIs
<1> QED BY <1>1, <1>2

-----------------------------------------------------------------------------
(* Finite sets of numbers.                                                 *)

FiniteNumbers(S) == S \subseteq Nat /\ IsFiniteSet(S)
Rank(S, d) == Cardinality({e \in S : e <= d})
Ranked(S) == \A i \in 1..Cardinality(S) : \E d \in S : Rank(S, d) = i

(* In a finite set of numbers each rank up to its size is taken, by        *)
(* induction on the size.                                                  *)
LEMMA EachRankTaken == ASSUME NEW S, FiniteNumbers(S) PROVE Ranked(S)
<1> DEFINE N == {n \in Nat : \A T : FiniteNumbers(T) /\ Cardinality(T) = n => Ranked(T)}
<1>1. 0 \in N
  BY DEF Ranked
<1>2. ASSUME NEW n \in Nat, n \in N, NEW T, FiniteNumbers(T), Cardinality(T) = n + 1 PROVE Ranked(T)
  <2>1. T # {} /\ T \subseteq Nat
    BY <1>2, FS_EmptySet DEF FiniteNumbers
  <2>2. PICK m \in T : \A y \in T : <<y, m>> \notin OpToRel(<, Nat)
    BY <2>1, NatLessThanWellFounded, WFMin
  <2>3. m \in Nat /\ \A y \in T : y \in Nat /\ m <= y
    <3>1. \A y \in T : ~(y < m)
      BY <2>1, <2>2 DEF OpToRel
    <3> QED BY <2>1, <3>1
  <2> DEFINE U == T \ {m}
  <2>4. FiniteNumbers(U) /\ Cardinality(U) = n
    <3>1. IsFiniteSet(U) /\ Cardinality(U) = Cardinality(T) - 1
      BY <1>2, FS_RemoveElement DEF FiniteNumbers
    <3> QED BY <1>2, <3>1 DEF FiniteNumbers
  <2>5. Ranked(U)
    BY <1>2, <2>4
  <2>6. Rank(T, m) = 1
    <3>1. \A e \in T : e <= m <=> e = m
      BY <2>3
    <3>2. {e \in T : e <= m} = {m}
      BY <3>1
    <3> QED BY <3>2, FS_Singleton DEF Rank
  <2>7. ASSUME NEW d \in U PROVE Rank(T, d) = Rank(U, d) + 1
    <3> DEFINE A == {e \in U : e <= d}
    <3>1. {e \in T : e <= d} = A \cup {m} /\ m \notin A
      BY <2>3
    <3>2. IsFiniteSet(A)
      BY <2>4, FS_Subset DEF FiniteNumbers
    <3> HIDE DEF A
    <3>3. Cardinality(A \cup {m}) = Cardinality(A) + 1
      BY <3>1, <3>2, FS_AddElement
    <3> QED BY <3>1, <3>3 DEF Rank, A
  <2>8. ASSUME NEW i \in 1..(n + 1) PROVE \E d \in T : Rank(T, d) = i
    <3>1. CASE i = 1
      BY <2>6, <3>1
    <3>2. CASE i # 1
      <4>1. i - 1 \in 1..n
        BY <3>2
      <4>2. PICK d \in U : Rank(U, d) = i - 1
        BY <2>4, <2>5, <4>1 DEF Ranked
      <4> QED BY <2>7, <4>2
    <3> QED BY <3>1, <3>2
  <2> QED BY <1>2, <2>8 DEF Ranked
<1>3. \A n \in Nat : n \in N => n + 1 \in N
  BY <1>2
<1> HIDE DEF N
<1>4. \A n \in Nat : n \in N
  BY <1>1, <1>3, SetInduction
<1>5. Cardinality(S) \in Nat
  BY FS_CardinalityType DEF FiniteNumbers
<1> QED BY <1>4, <1>5 DEF N

-----------------------------------------------------------------------------
(* Sequences.                                                              *)

Injective(s) == \A i, j \in 1..Len(s) : i # j => s[i] # s[j]
Begins(s, t) == Len(s) <= Len(t) /\ \A i \in 1..Len(s) : s[i] = t[i]

(* Appending one more item.                                                *)
LEMMA AppendOne ==
    ASSUME NEW S, NEW s \in Seq(S), NEW x \in S
    PROVE  /\ Append(s, x) \in Seq(S) /\ Len(Append(s, x)) = Len(s) + 1 /\ Len(s) \in Nat /\ Append(s, x) # <<>>
           /\ Append(s, x)[Len(s) + 1] = x /\ \A j \in 1..Len(s) : Append(s, x)[j] = s[j]
OBVIOUS

(* The elements of a concatenation.                                        *)
LEMMA ConcatFacts ==
    ASSUME NEW S, NEW s \in Seq(S), NEW t \in Seq(S)
    PROVE  /\ s \o t \in Seq(S) /\ ToSet(s \o t) = ToSet(s) \cup ToSet(t)
           /\ Len(s \o t) = Len(s) + Len(t) /\ Len(s) \in Nat /\ Len(t) \in Nat
           /\ \A i \in 1..Len(s) : (s \o t)[i] = s[i]
           /\ \A i \in 1..Len(t) : (s \o t)[Len(s) + i] = t[i]
           /\ Injective(s) /\ Injective(t) /\ ToSet(s) \cap ToSet(t) = {} => Injective(s \o t)
<1> DEFINE u == s \o t
           m == Len(s)
           n == Len(t)
<1>1. /\ u \in Seq(S) /\ Len(u) = m + n /\ m \in Nat /\ n \in Nat
      /\ \A i \in 1..m : u[i] = s[i]
      /\ \A i \in 1..(m + n) : i > m => u[i] = t[i - m]
  OBVIOUS
<1>2. /\ DOMAIN s = 1..m /\ DOMAIN t = 1..n /\ DOMAIN u = 1..(m + n)
  OBVIOUS
<1> HIDE DEF u, m, n
<1>3. \A i \in 1..n : u[m + i] = t[i]
  <2> SUFFICES ASSUME NEW i \in 1..n PROVE u[m + i] = t[i]
    OBVIOUS
  <2>1. m + i \in 1..(m + n) /\ m + i > m /\ (m + i) - m = i
    BY <1>1
  <2> QED BY <1>1, <2>1
<1>4. ToSet(u) = ToSet(s) \cup ToSet(t)
  <2>1. ASSUME NEW i \in 1..(m + n) PROVE u[i] \in ToSet(s) \cup ToSet(t)
    <3>1. CASE i <= m
      <4>1. i \in 1..m
        BY <1>1, <3>1
      <4> QED BY <1>1, <1>2, <4>1 DEF ToSet
    <3>2. CASE i > m
      <4>1. i - m \in 1..n
        BY <1>1, <3>2
      <4> QED BY <1>1, <1>2, <3>2, <4>1 DEF ToSet
    <3> QED BY <1>1, <3>1, <3>2
  <2>2. ASSUME NEW i \in 1..m PROVE s[i] \in ToSet(u)
    <3>1. i \in 1..(m + n)
      BY <1>1
    <3>2. u[i] = s[i]
      BY <1>1
    <3> QED BY <1>2, <3>1, <3>2 DEF ToSet
  <2>3. ASSUME NEW i \in 1..n PROVE t[i] \in ToSet(u)
    <3>1. m + i \in 1..(m + n)
      BY <1>1
    <3>2. u[m + i] = t[i]
      BY <1>3
    <3> QED BY <1>2, <3>1, <3>2 DEF ToSet
  <2>4. ToSet(u) \subseteq ToSet(s) \cup ToSet(t)
    BY <1>2, <2>1 DEF ToSet
  <2>5. ToSet(s) \subseteq ToSet(u)
    BY <1>2, <2>2 DEF ToSet
  <2>6. ToSet(t) \subseteq ToSet(u)
    BY <1>2, <2>3 DEF ToSet
  <2> QED BY <2>4, <2>5, <2>6
<1>5. ASSUME Injective(s), Injective(t), ToSet(s) \cap ToSet(t) = {} PROVE Injective(u)
  <2> SUFFICES \A i, j \in 1..(m + n) : i < j => u[i] # u[j]
    <3>1. ASSUME NEW i \in 1..(m + n), NEW j \in 1..(m + n), i # j, \A a, c \in 1..(m + n) : a < c => u[a] # u[c]
          PROVE  u[i] # u[j]
      <4>1. i < j \/ j < i
        BY <1>1, <3>1
      <4>2. u[j] # u[i] => u[i] # u[j]
        OBVIOUS
      <4> QED BY <3>1, <4>1, <4>2
    <3> QED BY <1>1, <3>1 DEF Injective
  <2> SUFFICES ASSUME NEW i \in 1..(m + n), NEW j \in 1..(m + n), i < j PROVE u[i] # u[j]
    OBVIOUS
  <2>1. CASE j <= m
    <3>1. i \in 1..m /\ j \in 1..m /\ i # j
      BY <1>1, <2>1
    <3> QED BY <1>1, <1>5, <3>1 DEF Injective, m
  <2>2. CASE i <= m /\ j > m
    <3>1. i \in 1..m /\ j - m \in 1..n
      BY <1>1, <2>2
    <3>2. u[i] \in ToSet(s) /\ u[j] \in ToSet(t)
      BY <1>1, <1>2, <2>2, <3>1 DEF ToSet
    <3> QED BY <1>5, <3>2
  <2>3. CASE i > m
    <3>1. i - m \in 1..n /\ j - m \in 1..n /\ i - m # j - m /\ j > m
      BY <1>1, <2>3
    <3>2. u[i] = t[i - m] /\ u[j] = t[j - m]
      BY <1>1, <2>3, <3>1
    <3> QED BY <1>5, <3>1, <3>2 DEF Injective, n
  <2> QED BY <1>1, <2>1, <2>2, <2>3
<1> QED BY <1>1, <1>3, <1>4, <1>5 DEF u, m, n

(* Two beginnings of a list make a longer one.                             *)
LEMMA BeginsMore ==
    ASSUME NEW S, NEW s \in Seq(S), NEW t \in Seq(S), NEW u \in Seq(S), NEW k \in Nat,
           Begins(s, u), Len(s) = k, Len(t) + k <= Len(u), \A i \in 1..Len(t) : t[i] = u[k + i]
    PROVE  Begins(s \o t, u)
<1> DEFINE v == s \o t
           n == Len(t)
<1>1. /\ Len(v) = k + n /\ k \in Nat /\ n \in Nat
      /\ \A i \in 1..k : v[i] = s[i]
      /\ \A i \in 1..n : v[k + i] = t[i]
  <2>1. /\ Len(s \o t) = Len(s) + Len(t) /\ Len(s) \in Nat /\ Len(t) \in Nat
        /\ \A i \in 1..Len(s) : (s \o t)[i] = s[i]
        /\ \A i \in 1..Len(t) : (s \o t)[Len(s) + i] = t[i]
    <3>1. s \in Seq(S) /\ t \in Seq(S)
      OBVIOUS
    <3> HIDE DEF v, n
    <3> QED BY ONLY <3>1, ConcatFacts
  <2> QED BY <2>1
<1>2. Len(u) \in Nat /\ n + k <= Len(u)
  OBVIOUS
<1> HIDE DEF v
<1>3. \A i \in 1..k : v[i] = u[i]
  BY <1>1 DEF Begins
<1>4. \A i \in 1..n : v[k + i] = u[k + i]
  BY <1>1
<1> HIDE DEF n
<1>5. ASSUME NEW i \in 1..(k + n) PROVE v[i] = u[i]
  <2>1. CASE i <= k
    BY <1>3, <2>1
  <2>2. CASE i > k
    <3>1. i - k \in 1..n /\ k + (i - k) = i
      BY <1>1, <2>2
    <3> QED BY <1>4, <3>1
  <2> QED BY <2>1, <2>2
<1>6. Begins(v, u)
  BY <1>1, <1>2, <1>5 DEF Begins
<1> QED BY <1>6 DEF v

(* Appending after a concatenation.                                        *)
LEMMA ConcatAppend ==
    ASSUME NEW S, NEW s \in Seq(S), NEW t \in Seq(S), NEW x \in S
    PROVE  s \o t \in Seq(S) /\ s \o Append(t, x) = Append(s \o t, x)
<1> DEFINE a == s \o Append(t, x)
           b == Append(s \o t, x)
           m == Len(s)
           n == Len(t)
<1>1. Append(t, x) \in Seq(S) /\ Len(Append(t, x)) = n + 1 /\ Append(t, x)[n + 1] = x /\ \A i \in 1..n : Append(t, x)[i] = t[i]
  BY AppendOne
<1>2. /\ s \o t \in Seq(S) /\ Len(s \o t) = m + n /\ m \in Nat /\ n \in Nat
      /\ \A i \in 1..m : (s \o t)[i] = s[i]
      /\ \A i \in 1..n : (s \o t)[m + i] = t[i]
  BY ConcatFacts
<1>3. b \in Seq(S) /\ Len(b) = m + n + 1 /\ b[m + n + 1] = x /\ \A i \in 1..(m + n) : b[i] = (s \o t)[i]
  BY <1>2, AppendOne
<1>4. /\ a \in Seq(S) /\ Len(a) = m + (n + 1)
      /\ \A i \in 1..m : a[i] = s[i]
      /\ \A i \in 1..(n + 1) : a[m + i] = Append(t, x)[i]
  <2> DEFINE v == Append(t, x)
  <2>1. v \in Seq(S) /\ Len(v) = n + 1
    BY <1>1
  <2> HIDE DEF v
  <2> QED BY <2>1, ConcatFacts DEF v
<1> HIDE DEF a, b, m, n
<1>5. ASSUME NEW i \in 1..(m + n + 1) PROVE a[i] = b[i]
  <2>1. i \in 1..m \/ i - m \in 1..(n + 1)
    BY <1>2
  <2>2. CASE i \in 1..m
    <3>1. i \in 1..(m + n)
      BY <1>2, <2>2
    <3> QED BY <1>2, <1>3, <1>4, <2>2, <3>1
  <2>3. CASE i - m \in 1..n
    <3> PICK k \in 1..n : k = i - m
      BY <2>3
    <3>1. i = m + k /\ k \in 1..(n + 1) /\ i \in 1..(m + n)
      BY <1>2
    <3>2. a[i] = t[k]
      BY <1>1, <1>4, <3>1
    <3>3. b[i] = t[k]
      BY <1>2, <1>3, <3>1
    <3> QED BY <3>2, <3>3
  <2>4. CASE i - m = n + 1
    <3>1. i = m + (n + 1) /\ n + 1 \in 1..(n + 1) /\ m + (n + 1) = m + n + 1
      BY <1>2, <2>4
    <3> QED BY <1>1, <1>3, <1>4, <3>1
  <2> QED BY <1>2, <2>1, <2>2, <2>3, <2>4
<1>6. a = b
  BY <1>2, <1>3, <1>4, <1>5
<1> QED BY <1>2, <1>6 DEF a, b
=============================================================================
