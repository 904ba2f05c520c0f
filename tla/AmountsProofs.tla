--------------------------- MODULE AmountsProofs ---------------------------
(***************************************************************************)
(* The figures of the page are those of the server, whatever is typed.     *)
(***************************************************************************)
EXTENDS Amounts, SequenceTheorems, WellFoundedInduction, TLAPS

-----------------------------------------------------------------------------
(* Recursion over an interval.                                             *)

(* Induction up to N, for a set instead of a predicate.                    *)
LEMMA UpTo ==
    ASSUME NEW N \in Nat, NEW P, 0 \in P, \A n \in 1..N : n - 1 \in P => n \in P
    PROVE  0..N \subseteq P
<1> DEFINE Bad == {n \in 0..N : n \notin P}
<1>1. SUFFICES ASSUME Bad # {} PROVE FALSE
    OBVIOUS
<1>2. Bad \subseteq Nat
    OBVIOUS
<1>3. PICK m \in Bad : \A b \in Bad : ~ (<<b, m>> \in OpToRel(<, Nat))
    BY <1>1, <1>2, NatLessThanWellFounded, WFMin
<1>4. \A b \in Bad : ~ (b < m)
    BY <1>2, <1>3 DEF OpToRel
<1>5. m \in 1..N /\ m - 1 \in 0..N
    OBVIOUS
<1> QED
    BY <1>4, <1>5

(* A recursion whose n-th value is in V[n] has a solution.                 *)
Leads(F, V, N) == \A n \in 1..N : \A v \in V[n - 1] : F[n][v] \in V[n]

Solution(f, base, F, V, N) ==
    /\ f = [n \in 0..N |-> f[n]]
    /\ f[0] = base
    /\ \A n \in 1..N : f[n] = F[n][f[n - 1]] /\ f[n - 1] \in V[n - 1]
    /\ \A n \in 0..N : f[n] \in V[n]

LEMMA Recursion ==
    ASSUME NEW N \in Nat, NEW V, NEW base \in V[0], NEW F, Leads(F, V, N)
    PROVE  \E f : Solution(f, base, F, V, N)
<1> DEFINE Solves(f, k) ==
               \A n \in 0..k : /\ f[n] = IF n = 0 THEN base ELSE F[n][f[n - 1]]
                               /\ f[n] \in V[n]
           Step(f) == [n \in 0..N |-> IF n = 0 THEN base ELSE F[n][f[n - 1]]]
           P == {k \in 0..N : \E f : f = [n \in 0..N |-> f[n]] /\ Solves(f, k)}
<1>1. 0 \in P
    <2> DEFINE f == [n \in 0..N |-> base]
    <2>1. f = [n \in 0..N |-> f[n]] /\ Solves(f, 0)
        OBVIOUS
    <2> HIDE DEF f
    <2> QED
        BY <2>1
<1>2. ASSUME NEW n \in 1..N, n - 1 \in P PROVE n \in P
    <2>1. PICK f : f = [i \in 0..N |-> f[i]] /\ Solves(f, n - 1)
        BY <1>2
    <2> DEFINE h == Step(f)
    <2>2. ASSUME NEW i \in 0..(n - 1) PROVE h[i] = f[i]
        <3>1. i \in 0..N
            BY <2>2
        <3>2. f[i] = IF i = 0 THEN base ELSE F[i][f[i - 1]]
            BY <2>1, <2>2
        <3> QED
            BY <3>1, <3>2
    <2>3. \A i \in 0..n : h[i] = IF i = 0 THEN base ELSE F[i][f[i - 1]]
        OBVIOUS
    <2>4. \A i \in 1..n : i - 1 \in 0..(n - 1)
        OBVIOUS
    <2>5. h = [i \in 0..N |-> h[i]]
        OBVIOUS
    <2> HIDE DEF h
    <2>6. \A i \in 0..n : h[i] = IF i = 0 THEN base ELSE F[i][h[i - 1]]
        BY <2>2, <2>3, <2>4
    <2>7. h[n] \in V[n]
        <3>1. n - 1 \in 0..(n - 1) /\ f[n - 1] \in V[n - 1]
            BY SMTT(30), <2>1
        <3> QED
            BY <2>3, <3>1 DEF Leads
    <2>8. \A i \in 0..n : h[i] \in V[i]
        <3>1. ASSUME NEW i \in 0..n, i # n PROVE h[i] \in V[i]
            <4>1. i \in 0..(n - 1)
                BY <3>1
            <4> QED
                BY <4>1, <2>1, <2>2
        <3> QED
            BY <2>7, <3>1
    <2>9. Solves(h, n)
        BY <2>6, <2>8
    <2> HIDE DEF Solves
    <2>10. n \in 0..N /\ \E g : g = [i \in 0..N |-> g[i]] /\ Solves(g, n)
        BY <2>5, <2>9
    <2> QED
        BY <2>10
<1>3. N \in P
    <2> HIDE DEF P
    <2> QED
        BY <1>1, <1>2, UpTo
<1>4. PICK f : f = [i \in 0..N |-> f[i]] /\ Solves(f, N)
    BY <1>3
<1>5. 0 \in 0..N /\ \A n \in 1..N : n \in 0..N /\ n - 1 \in 0..N /\ n # 0
    OBVIOUS
<1>6. /\ f[0] = base
      /\ \A n \in 1..N : f[n] = F[n][f[n - 1]] /\ f[n - 1] \in V[n - 1]
    BY <1>4, <1>5
<1> QED
    BY <1>4, <1>6 DEF Solution

-----------------------------------------------------------------------------
(* Powers of two.                                                          *)

LEMMA PowerSteps ==
    /\ Power[0] = 1
    /\ \A n \in 1..(Precision + 6) : Power[n] = 2 * Power[n - 1]
    /\ \A n \in 0..(Precision + 6) : Power[n] \in Nat \ {0}
<1> DEFINE N == Precision + 6
           V == [n \in 0..N |-> Nat \ {0}]
           F == [n \in 1..N |-> [v \in Nat \ {0} |-> 2 * v]]
<1>1. N \in Nat
    BY AmountsAssumption
<1>2. 1 \in V[0] /\ \A n \in 1..N : n - 1 \in 0..N /\ n \in 0..N /\ n # 0
    BY <1>1
<1>3. Leads(F, V, N)
    <2>1. ASSUME NEW n \in 1..N, NEW v \in V[n - 1] PROVE F[n][v] \in V[n]
        <3>1. v \in Nat \ {0}
            BY <1>2
        <3>2. F[n][v] = 2 * v /\ 2 * v \in Nat \ {0}
            BY <3>1
        <3> QED
            BY <1>2, <3>2
    <2> QED
        BY <2>1 DEF Leads
<1>4. PICK f : Solution(f, 1, F, V, N)
    <2>1. 1 \in V[0]
        BY <1>2
    <2> HIDE DEF N, V, F
    <2> QED
        BY <1>1, <2>1, <1>3, Recursion
<1>5. ASSUME NEW n \in 1..N PROVE f[n] = 2 * f[n - 1]
    BY <1>2, <1>4 DEF Solution
<1>6. f = [n \in 0..N |-> IF n = 0 THEN 1 ELSE 2 * f[n - 1]]
    <2>1. ASSUME NEW n \in 0..N PROVE f[n] = IF n = 0 THEN 1 ELSE 2 * f[n - 1]
        <3>1. n = 0 \/ n \in 1..N
            BY <1>1
        <3> QED
            BY <3>1, <1>4, <1>5 DEF Solution
    <2> QED
        BY <1>4, <2>1 DEF Solution
<1>7. Power = [n \in 0..N |-> IF n = 0 THEN 1 ELSE 2 * Power[n - 1]]
    BY <1>6 DEF Power
<1>8. \A n \in 0..N : Power[n] = IF n = 0 THEN 1 ELSE 2 * Power[n - 1]
    BY <1>7, Zenon
<1>9. Power[0] = 1 /\ \A n \in 1..N : Power[n] = 2 * Power[n - 1]
    BY <1>1, <1>2, <1>8
<1>10. 0..N \subseteq {n \in 0..N : Power[n] \in Nat \ {0}}
    <2> DEFINE P == {n \in 0..N : Power[n] \in Nat \ {0}}
    <2>1. 0 \in P /\ \A n \in 1..N : n - 1 \in P => n \in P
        BY <1>1, <1>9
    <2>2. 0..N \subseteq P
        <3> HIDE DEF P, N
        <3> QED
            BY <1>1, <2>1, UpTo
    <2> QED
        BY <2>2
<1> QED
    BY <1>9, <1>10

-----------------------------------------------------------------------------
(* Rounding.                                                               *)

LEMMA RoundNear ==
    ASSUME NEW a \in Nat, NEW d \in Nat \ {0}
    PROVE  /\ RoundEven(a, d) \in Nat
           /\ 2 * (d * RoundEven(a, d) - a) <= d
           /\ 2 * (a - d * RoundEven(a, d)) <= d
<1> DEFINE q == a \div d
           r == a % d
<1>1. q \in Nat /\ r \in 0..(d - 1) /\ a = d * q + r
    OBVIOUS
<1> HIDE DEF q, r
<1>2. d * (q + 1) = d * q + d /\ d * q \in Nat
    BY <1>1
<1>3. RoundEven(a, d)
          = IF 2 * r < d \/ (2 * r = d /\ q % 2 = 0) THEN q ELSE q + 1
    BY DEF RoundEven, q, r
<1>4. CASE RoundEven(a, d) = q /\ 2 * r <= d
    BY <1>1, <1>2, <1>4
<1>5. CASE RoundEven(a, d) = q + 1 /\ 2 * r >= d
    BY <1>1, <1>2, <1>5
<1> QED
    BY <1>1, <1>3, <1>4, <1>5

LEMMA PowerGrows ==
    ASSUME NEW e \in 0..(Precision + 6), NEW k \in 0..e
    PROVE  Power[k] <= Power[e]
<1> DEFINE N == Precision + 6
           P == {n \in 0..e : \A i \in 0..n : Power[i] <= Power[n]}
<1>1. N \in Nat /\ e \in Nat /\ \A n \in 0..e : n \in 0..N
    BY SMTT(30), AmountsAssumption
<1>2. 0 \in P
    BY <1>1, PowerSteps
<1>3. ASSUME NEW n \in 1..e, n - 1 \in P PROVE n \in P
    <2>1. Power[n - 1] \in Nat /\ Power[n] = 2 * Power[n - 1] /\ n - 1 \in 0..e
        BY <1>1, PowerSteps
    <2>2. ASSUME NEW i \in 0..n PROVE Power[i] <= Power[n]
        <3>1. Power[i] \in Nat /\ (i = n \/ i \in 0..(n - 1))
            BY <1>1, PowerSteps
        <3> QED
            BY <1>3, <2>1, <3>1
    <2> QED
        BY <2>2
<1>4. 0..e \subseteq P
    <2> HIDE DEF P, N
    <2> QED
        BY <1>1, <1>2, <1>3, UpTo
<1> QED
    BY <1>1, <1>4

(* A member of a set of numbers has a least one below it. *)
LEMMA LeastNumber ==
    ASSUME NEW S \in SUBSET Nat, NEW n \in S
    PROVE  \E m \in S : m <= n /\ \A k \in S : m <= k
<1>1. PICK m \in S : \A b \in S : ~ (<<b, m>> \in OpToRel(<, Nat))
    BY NatLessThanWellFounded, WFMin
<1>2. \A b \in S : ~ (b < m)
    BY <1>1 DEF OpToRel
<1>3. \A b \in S : m <= b
    BY <1>2
<1> QED
    BY <1>3

(* The number next to a/b is at most half a unit off, where a unit is a    *)
(* power of two for which a/b has no more than Precision bits. *)
LEMMA FloatNear ==
    ASSUME NEW a \in Nat, NEW b \in Nat \ {0}, NEW E \in 0..(Precision + 6),
           a < b * Power[E] * Power[Precision]
    PROVE  /\ Float(a, b) \in Nat
           /\ 2 * (b * Float(a, b) - a) <= b * Power[E]
           /\ 2 * (a - b * Float(a, b)) <= b * Power[E]
<1> DEFINE N == Precision + 6
           Fits(e) == a \div (b * Power[e]) < Power[Precision]
           Least(e) == Fits(e) /\ \A k \in 0..(e - 1) : ~Fits(k)
           S == {e \in 0..N : Fits(e)}
<1>1. N \in Nat /\ Precision \in 0..N
    BY AmountsAssumption
<1>2. \A e \in 0..N : Power[e] \in Nat \ {0} /\ b * Power[e] \in Nat \ {0}
    BY PowerSteps
<1>3. E \in S
    <2> DEFINE d == b * Power[E]
               u == Power[Precision]
    <2>1. d \in Nat \ {0} /\ u \in Nat /\ a < d * u
        BY <1>1, <1>2
    <2> HIDE DEF d, u
    <2>2. a \div d < u
        BY <2>1
    <2> QED
        BY <2>2 DEF d, u
<1>4. PICK e \in S : e <= E /\ \A k \in S : e <= k
    <2>1. S \in SUBSET Nat
        OBVIOUS
    <2> HIDE DEF S
    <2> QED
        BY <1>3, <2>1, LeastNumber
<1>5. Least(e) /\ e \in 0..N
    <2> HIDE DEF Fits
    <2>1. e \in 0..N /\ Fits(e)
        OBVIOUS
    <2>2. ASSUME NEW k \in 0..(e - 1) PROVE ~Fits(k)
        <3>1. k \in 0..N /\ k < e
            BY <1>1, <2>1
        <3> QED
            BY <1>4, <3>1
    <2> QED
        BY <2>1, <2>2
<1> DEFINE c == CHOOSE n \in 0..N : Least(n)
<1>6. c \in 0..N /\ Least(c)
    <2> HIDE DEF Least
    <2> QED
        BY <1>5
<1>7. c \in 0..E
    <2> HIDE DEF Fits, c
    <2>1. Fits(E) /\ \A k \in 0..(c - 1) : ~Fits(k)
        BY <1>3, <1>6
    <2>2. E \notin 0..(c - 1)
        BY <2>1
    <2> QED
        BY <1>1, <1>6, <2>2
<1>8. Float(a, b) = Power[c] * RoundEven(a, b * Power[c])
    BY DEF Float
<1> HIDE DEF c
<1>9. Power[c] <= Power[E]
    BY <1>7, PowerGrows
<1> DEFINE d == b * Power[c]
           R == RoundEven(a, d)
<1>10. /\ R \in Nat /\ 2 * (d * R - a) <= d /\ 2 * (a - d * R) <= d
    <2>1. d \in Nat \ {0}
        BY <1>2, <1>6
    <2> HIDE DEF d
    <2> QED
        BY <2>1, RoundNear
<1>11. d <= b * Power[E]
    BY <1>2, <1>6, <1>9
<1>12. b * Float(a, b) = d * R /\ Float(a, b) \in Nat
    BY <1>2, <1>6, <1>8, <1>10
<1> HIDE DEF d, R
<1> QED
    BY <1>2, <1>6, <1>10, <1>11, <1>12 DEF d

-----------------------------------------------------------------------------
(* Öre and kronor.                                                         *)

(* The amounts whose öre can be told apart in a total of MaxRows rows. *)
Small == {ore \in Nat : 16 * MaxRows * MaxRows * ore <= Power[Precision]}

(* A number of kronor, and a sum of them, is at most half a Unit off: fine *)
(* enough that the errors of all rows stay below an öre, and coarse enough *)
(* that the total of small amounts has no more than Precision bits.        *)
IsUnit(e) == /\ Power[Precision] <= 16 * (MaxRows * Power[e])
             /\ 8 * (MaxRows * Power[e]) <= Power[Precision]

UnitBits == CHOOSE e \in 0..Precision : IsUnit(e)

Unit == Power[UnitBits]

LEMMA RowsBound ==
    /\ Precision \in Nat /\ MaxRows \in Nat /\ MaxRows >= 3
    /\ Power[Precision] \in Nat \ {0}
    /\ 16 * MaxRows <= Power[Precision]
<1> DEFINE r == MaxRows
           p == Power[Precision]
<1>1. Precision \in Nat /\ r \in Nat /\ r >= 3 /\ 16 * r * r * 1 <= p
    BY SMTT(30), AmountsAssumption
<1>2. p \in Nat \ {0}
    BY <1>1, PowerSteps
<1> HIDE DEF r, p
<1>3. r * r >= r /\ r * r \in Nat /\ 16 * r * r * 1 = 16 * (r * r)
    BY <1>1
<1> QED
    BY <1>1, <1>2, <1>3 DEF r, p

LEMMA UnitExists == \E e \in 0..Precision : IsUnit(e)
<1> DEFINE r == MaxRows
           p == Power[Precision]
           S == {n \in 0..Precision : p <= 16 * (r * Power[n])}
<1>1. /\ Precision \in Nat /\ r \in Nat /\ r >= 3 /\ p \in Nat \ {0}
      /\ 16 * r <= p
    BY RowsBound
<1>2. \A n \in 0..Precision : Power[n] \in Nat \ {0}
    BY <1>1, PowerSteps
<1>3. Precision \in S
    <2>1. r * p >= p
        <3> HIDE DEF r, p
        <3> QED
            BY <1>1
    <2> QED
        BY <1>1, <2>1
<1>4. PICK m \in S : \A k \in S : m <= k
    <2>1. S \in SUBSET Nat
        OBVIOUS
    <2> HIDE DEF S
    <2> QED
        BY <1>3, <2>1, LeastNumber
<1>5. m \in 0..Precision /\ p <= 16 * (r * Power[m])
    OBVIOUS
<1>6. 8 * (r * Power[m]) <= p
    <2>1. CASE m = 0
        BY <1>1, <2>1, PowerSteps
    <2>2. CASE m # 0
        <3>1. /\ m - 1 \in 0..Precision /\ m \in 1..(Precision + 6)
              /\ ~(m <= m - 1)
            BY <1>1, <1>5, <2>2
        <3>2. ~(p <= 16 * (r * Power[m - 1]))
            BY <1>4, <3>1
        <3> DEFINE v == Power[m - 1]
        <3>3. Power[m] = 2 * v /\ v \in Nat
            BY <1>2, <3>1, PowerSteps
        <3> HIDE DEF v, r, p
        <3>4. r * (2 * v) = 2 * (r * v) /\ r * v \in Nat
            BY <1>1, <3>3
        <3> QED
            BY <1>1, <3>2, <3>3, <3>4 DEF v
    <2> QED
        BY <2>1, <2>2
<1> QED
    BY <1>5, <1>6 DEF IsUnit

LEMMA Exponents == /\ UnitBits \in 0..Precision /\ IsUnit(UnitBits)
                   /\ UnitBits \in 0..(Precision + 6)
                   /\ UnitBits + 5 \in 0..(Precision + 6)
<1>1. UnitBits \in 0..Precision /\ IsUnit(UnitBits)
    BY UnitExists DEF UnitBits
<1> QED
    BY <1>1, RowsBound

LEMMA Scales == Scale = 64 * Power[Precision]
<1> DEFINE p == Precision
<1>1. p \in Nat
    BY RowsBound
<1>2. \A i \in 1..6 : Power[p + i] = 2 * Power[(p + i) - 1]
    BY <1>1, PowerSteps
<1>3. /\ (p + 6) - 1 = p + 5 /\ (p + 5) - 1 = p + 4 /\ (p + 4) - 1 = p + 3
      /\ (p + 3) - 1 = p + 2 /\ (p + 2) - 1 = p + 1 /\ (p + 1) - 1 = p
    BY <1>1
<1>4. /\ Power[p + 6] = 2 * Power[(p + 6) - 1]
      /\ Power[p + 5] = 2 * Power[(p + 5) - 1]
      /\ Power[p + 4] = 2 * Power[(p + 4) - 1]
      /\ Power[p + 3] = 2 * Power[(p + 3) - 1]
      /\ Power[p + 2] = 2 * Power[(p + 2) - 1]
      /\ Power[p + 1] = 2 * Power[(p + 1) - 1]
    BY <1>2
<1>5. /\ Power[p + 6] = 2 * Power[p + 5] /\ Power[p + 5] = 2 * Power[p + 4]
      /\ Power[p + 4] = 2 * Power[p + 3] /\ Power[p + 3] = 2 * Power[p + 2]
      /\ Power[p + 2] = 2 * Power[p + 1] /\ Power[p + 1] = 2 * Power[p]
    BY <1>3, <1>4, Zenon
<1>6. Power[p] \in Nat
    BY RowsBound
<1> QED
    BY <1>5, <1>6 DEF Scale

LEMMA FiveBits == Power[UnitBits + 5] = 32 * Unit
<1> DEFINE p == UnitBits
<1>1. p \in Nat /\ p + 5 <= Precision + 6
    BY Exponents, RowsBound
<1>2. \A i \in 1..5 : Power[p + i] = 2 * Power[(p + i) - 1]
    BY <1>1, RowsBound, PowerSteps
<1>3. /\ (p + 5) - 1 = p + 4 /\ (p + 4) - 1 = p + 3
      /\ (p + 3) - 1 = p + 2 /\ (p + 2) - 1 = p + 1 /\ (p + 1) - 1 = p
    BY <1>1
<1>4. /\ Power[p + 5] = 2 * Power[(p + 5) - 1]
      /\ Power[p + 4] = 2 * Power[(p + 4) - 1]
      /\ Power[p + 3] = 2 * Power[(p + 3) - 1]
      /\ Power[p + 2] = 2 * Power[(p + 2) - 1]
      /\ Power[p + 1] = 2 * Power[(p + 1) - 1]
    BY <1>2
<1>5. /\ Power[p + 5] = 2 * Power[p + 4] /\ Power[p + 4] = 2 * Power[p + 3]
      /\ Power[p + 3] = 2 * Power[p + 2] /\ Power[p + 2] = 2 * Power[p + 1]
      /\ Power[p + 1] = 2 * Power[p]
    BY <1>3, <1>4, Zenon
<1>6. Power[p] \in Nat
    BY Exponents, PowerSteps
<1> QED
    BY <1>5, <1>6 DEF Unit

LEMMA Units ==
    /\ Unit \in Nat \ {0}
    /\ Power[Precision] <= 16 * (MaxRows * Unit)
    /\ 8 * (MaxRows * Unit) <= Power[Precision]
    /\ 24 * Unit <= Power[Precision]
<1> DEFINE u == Unit
           r == MaxRows
           p == Power[Precision]
<1>1. u \in Nat \ {0} /\ p <= 16 * (r * u) /\ 8 * (r * u) <= p
    BY Exponents, PowerSteps DEF Unit, IsUnit
<1>2. r \in Nat /\ r >= 3 /\ p \in Nat
    BY RowsBound
<1> HIDE DEF u, r, p
<1>3. r * u >= 3 * u
    BY <1>1, <1>2
<1> QED
    BY <1>1, <1>2, <1>3 DEF u, r, p

(* All rows together hold at most one Unit of öre. *)
LEMMA SmallAmount ==
    ASSUME NEW ore \in Small
    PROVE  ore \in Nat /\ MaxRows * ore <= Unit /\ 3 * ore <= Unit
<1> DEFINE u == Unit
           r == MaxRows
           p == Power[Precision]
           x == r * ore
<1>1. ore \in Nat /\ 16 * r * r * ore <= p
    BY DEF Small
<1>2. r \in Nat /\ r >= 3 /\ u \in Nat /\ p <= 16 * (r * u) /\ p \in Nat
    BY RowsBound, Units
<1> HIDE DEF u, r, p
<1>3. 16 * r * r * ore = 16 * (r * x) /\ x \in Nat /\ x >= 3 * ore
    BY <1>1, <1>2
<1> HIDE DEF x
<1>4. r * x <= r * u
    <2>1. r * x \in Nat /\ r * u \in Nat
        BY <1>2, <1>3
    <2> QED
        BY <1>1, <1>2, <1>3, <2>1
<1>5. x <= u
    <2>1. x >= u + 1 => r * x >= r * u + r
        BY <1>2, <1>3
    <2> QED
        BY <1>2, <1>3, <1>4, <2>1
<1> QED
    BY <1>1, <1>3, <1>5, <1>2 DEF x, r, u

LEMMA KronorNear ==
    ASSUME NEW ore \in Small
    PROVE  /\ Kronor(ore) \in Nat
           /\ 2 * (100 * Kronor(ore) - ore * Scale) <= 100 * Unit
           /\ 2 * (ore * Scale - 100 * Kronor(ore)) <= 100 * Unit
<1> DEFINE u == Unit
           p == Power[Precision]
           a == ore * Scale
<1>1. u \in Nat \ {0} /\ Scale = 64 * p /\ p \in Nat \ {0}
    BY Units, Scales, RowsBound
<1>2. ore \in Nat /\ ore <= u
    BY SmallAmount, Units
<1>3. a \in Nat /\ a < 100 * u * p
    <2> HIDE DEF u, p
    <2>1. a = 64 * (ore * p) /\ ore * p \in Nat
        BY <1>1, <1>2
    <2>2. ore * p <= u * p /\ u * p > 0 /\ u * p \in Nat
        BY <1>1, <1>2
    <2>3. 100 * u * p = 100 * (u * p)
        BY <1>1
    <2> HIDE DEF a
    <2> QED
        BY <2>1, <2>2, <2>3
<1>4. Kronor(ore) = Float(a, 100)
    BY DEF Kronor
<1>5. UnitBits \in 0..(Precision + 6)
    BY Exponents
<1> HIDE DEF a
<1>6. /\ Float(a, 100) \in Nat
      /\ 2 * (100 * Float(a, 100) - a) <= 100 * Power[UnitBits]
      /\ 2 * (a - 100 * Float(a, 100)) <= 100 * Power[UnitBits]
    BY <1>3, <1>5, FloatNear DEF Unit
<1> QED
    BY <1>4, <1>6 DEF a, Unit

(* The way to kronor and back loses nothing. *)
LEMMA RoundTrip ==
    ASSUME NEW ore \in Small PROVE Ore(Kronor(ore)) = ore
<1> DEFINE u == Unit
           p == Power[Precision]
           v == Power[UnitBits + 5]
           x == ore * p
           k == Kronor(ore)
           f == Float(k * 100, 1)
<1>1. /\ u \in Nat \ {0} /\ Scale = 64 * p /\ p \in Nat \ {0}
      /\ 24 * u <= p /\ v = 32 * u
    BY Units, Scales, RowsBound, FiveBits
<1>2. ore \in Nat /\ 3 * ore <= u
    BY SmallAmount
<1>3. UnitBits + 5 \in 0..(Precision + 6)
    BY Exponents
<1>4. /\ k \in Nat /\ 2 * (100 * k - ore * Scale) <= 100 * u
      /\ 2 * (ore * Scale - 100 * k) <= 100 * u
    BY KronorNear
<1> HIDE DEF u, p, k
<1>5. ore * Scale = 64 * x /\ x \in Nat
    BY <1>1, <1>2
<1>6. k * 100 \in Nat /\ k * 100 < 1 * v * p
    <2>1. 3 * x <= u * p /\ 24 * u <= u * p /\ u * p \in Nat
        BY <1>1, <1>2
    <2>2. 1 * (32 * u) * p = 32 * (u * p)
        BY <1>1
    <2> HIDE DEF x
    <2> QED
        BY <1>1, <1>4, <1>5, <2>1, <2>2
<1>7. /\ f \in Nat
      /\ 2 * (1 * f - k * 100) <= 1 * v
      /\ 2 * (k * 100 - 1 * f) <= 1 * v
    BY <1>3, <1>6, FloatNear DEF p
<1>8. Ore(k) = (2 * f + Scale) \div (2 * Scale)
    BY DEF Ore, RoundUp
<1> DEFINE y == 2 * f + Scale
           d == 128 * p
<1> HIDE DEF f, v
<1>9. y \in Nat /\ 128 * x <= y /\ y < 128 * x + 128 * p
    <2> HIDE DEF x
    <2> QED
        BY <1>1, <1>4, <1>5, <1>7
<1>10. y \div (2 * Scale) = ore
    <2>1. 2 * Scale = d /\ d \in Nat \ {0} /\ d * ore = 128 * x
        BY <1>1, <1>2
    <2> HIDE DEF x, y
    <2>2. d * ore <= y /\ y < d * ore + d
        BY <1>9, <2>1
    <2> HIDE DEF d
    <2>3. d * (ore + 1) = d * ore + d
        BY <1>2, <2>1
    <2>4. y \div d = ore
        BY <1>2, <1>9, <2>1, <2>2, <2>3
    <2> QED
        BY <2>1, <2>4
<1> QED
    BY <1>8, <1>10 DEF k

-----------------------------------------------------------------------------
(* Sums of sequences.                                                      *)

Sums(f, s) ==
    /\ f[0] = 0
    /\ \A n \in 0..Len(s) : f[n] \in Int
    /\ \A n \in 1..Len(s) : f[n] = f[n - 1] + s[n]
    /\ SumSeq(s) = f[Len(s)]

LEMMA SumSteps ==
    ASSUME NEW s \in Seq(Int) PROVE \E f : Sums(f, s)
<1> DEFINE N == Len(s)
           V == [n \in 0..N |-> Int]
           F == [n \in 1..N |-> [v \in Int |-> v + s[n]]]
           Solves(f) ==
               f = [n \in 0..N |-> IF n = 0 THEN 0 ELSE f[n - 1] + s[n]]
<1>1. N \in Nat /\ \A n \in 1..N : s[n] \in Int
    OBVIOUS
<1>2. 0 \in V[0] /\ \A n \in 1..N : n - 1 \in 0..N /\ n \in 0..N /\ n # 0
    BY <1>1
<1>3. Leads(F, V, N)
    BY <1>1, <1>2 DEF Leads
<1>4. PICK f : Solution(f, 0, F, V, N)
    <2>1. 0 \in V[0]
        BY <1>2
    <2> HIDE DEF N, V, F
    <2> QED
        BY <1>1, <2>1, <1>3, Recursion
<1>5. ASSUME NEW n \in 1..N PROVE f[n] = f[n - 1] + s[n]
    BY <1>2, <1>4 DEF Solution
<1>6. Solves(f)
    <2>1. ASSUME NEW n \in 0..N
          PROVE  f[n] = IF n = 0 THEN 0 ELSE f[n - 1] + s[n]
        <3>1. n = 0 \/ n \in 1..N
            BY <1>1
        <3> QED
            BY <3>1, <1>4, <1>5 DEF Solution
    <2> QED
        BY <1>4, <2>1 DEF Solution
<1>7. PICK sum : Solves(sum) /\ SumSeq(s) = sum[N]
    <2> DEFINE sum == CHOOSE h : Solves(h)
    <2>1. Solves(sum)
        BY <1>6
    <2>2. SumSeq(s) = sum[N]
        BY DEF SumSeq
    <2> QED
        BY <2>1, <2>2
<1>8. sum[0] = 0 /\ \A n \in 1..N : sum[n] = sum[n - 1] + s[n]
    <2>1. \A n \in 0..N : sum[n] = IF n = 0 THEN 0 ELSE sum[n - 1] + s[n]
        BY <1>7, Zenon
    <2> QED
        BY <1>1, <1>2, <2>1
<1>9. 0..N \subseteq {n \in 0..N : sum[n] \in Int}
    <2> DEFINE P == {n \in 0..N : sum[n] \in Int}
    <2>1. 0 \in P /\ \A n \in 1..N : n - 1 \in P => n \in P
        BY <1>1, <1>8
    <2>2. 0..N \subseteq P
        <3> HIDE DEF P, N
        <3> QED
            BY <1>1, <2>1, UpTo
    <2> QED
        BY <2>2
<1>10. Sums(sum, s)
    BY <1>7, <1>8, <1>9 DEF Sums
<1> QED
    BY <1>10

LEMMA SumIsInt ==
    ASSUME NEW s \in Seq(Int) PROVE SumSeq(s) \in Int
<1>1. PICK f : Sums(f, s)
    BY SumSteps
<1>2. Len(s) \in 0..Len(s)
    OBVIOUS
<1> QED
    BY <1>1, <1>2 DEF Sums

(* Sums term by term. *)
LEMMA SumAdds ==
    ASSUME NEW r \in Seq(Int), NEW s \in Seq(Int), NEW t \in Seq(Int),
           Len(s) = Len(r), Len(t) = Len(r),
           \A n \in 1..Len(r) : r[n] = s[n] + t[n]
    PROVE  SumSeq(r) = SumSeq(s) + SumSeq(t)
<1>1. PICK f : Sums(f, r)
    BY SumSteps
<1>2. PICK g : Sums(g, s)
    BY SumSteps
<1>3. PICK h : Sums(h, t)
    BY SumSteps
<1> DEFINE N == Len(r)
           P == {n \in 0..N : f[n] = g[n] + h[n]}
<1>4. N \in Nat /\ \A n \in 1..N : n - 1 \in 0..N /\ n \in 0..N
    OBVIOUS
<1>5. 0 \in P
    BY <1>1, <1>2, <1>3 DEF Sums
<1>6. ASSUME NEW n \in 1..N, n - 1 \in P PROVE n \in P
    <2>1. /\ f[n] = f[n - 1] + r[n] /\ g[n] = g[n - 1] + s[n]
          /\ h[n] = h[n - 1] + t[n] /\ f[n - 1] = g[n - 1] + h[n - 1]
          /\ r[n] = s[n] + t[n]
        BY <1>1, <1>2, <1>3, <1>6 DEF Sums
    <2>2. g[n - 1] \in Int /\ h[n - 1] \in Int /\ s[n] \in Int /\ t[n] \in Int
        BY SMTT(30), <1>2, <1>3, <1>4 DEF Sums
    <2> DEFINE a == g[n - 1]
               b == h[n - 1]
               c == s[n]
               d == t[n]
    <2>3. (a + b) + (c + d) = (a + c) + (b + d)
        <3>1. a \in Int /\ b \in Int /\ c \in Int /\ d \in Int
            BY <2>2
        <3> HIDE DEF a, b, c, d
        <3> QED
            BY <3>1
    <2>4. f[n] = g[n] + h[n]
        BY <2>1, <2>3, Zenon
    <2> QED
        BY <1>4, <2>4
<1>7. 0..N \subseteq P
    <2> HIDE DEF P, N
    <2> QED
        BY <1>4, <1>5, <1>6, UpTo
<1> QED
    BY <1>1, <1>2, <1>3, <1>4, <1>7 DEF Sums

(* Terms that are at most two apart. *)
LEMMA SumsApart ==
    ASSUME NEW s \in Seq(Int), NEW t \in Seq(Int), Len(t) = Len(s),
           \A n \in 1..Len(s) : s[n] - t[n] \in 0..2
    PROVE  SumSeq(s) - SumSeq(t) \in 0..(2 * Len(s))
<1>1. PICK f : Sums(f, s)
    BY SumSteps
<1>2. PICK g : Sums(g, t)
    BY SumSteps
<1> DEFINE N == Len(s)
           P == {n \in 0..N : f[n] - g[n] \in 0..(2 * n)}
<1>3. N \in Nat /\ \A n \in 1..N : n - 1 \in 0..N /\ n \in 0..N
    OBVIOUS
<1>4. 0 \in P
    BY <1>1, <1>2 DEF Sums
<1>5. ASSUME NEW n \in 1..N, n - 1 \in P PROVE n \in P
    <2>1. /\ f[n] = f[n - 1] + s[n] /\ g[n] = g[n - 1] + t[n]
          /\ f[n - 1] - g[n - 1] \in 0..(2 * (n - 1))
        BY <1>1, <1>2, <1>5 DEF Sums
    <2>2. /\ f[n - 1] \in Int /\ g[n - 1] \in Int
          /\ s[n] \in Int /\ t[n] \in Int
          /\ s[n] - t[n] \in 0..2
        BY <1>1, <1>2, <1>3 DEF Sums
    <2>3. \A a, b, c, d, k \in Int :
              a - b \in 0..(2 * (k - 1)) /\ c - d \in 0..2
              => (a + c) - (b + d) \in 0..(2 * k)
        OBVIOUS
    <2>4. (f[n - 1] + s[n]) - (g[n - 1] + t[n]) \in 0..(2 * n)
        <3>1. n \in Int
            BY <1>3
        <3> QED
            BY <2>1, <2>2, <2>3, <3>1, Zenon
    <2>5. f[n] - g[n] \in 0..(2 * n)
        BY <2>1, <2>4, Zenon
    <2> QED
        BY <1>3, <2>5
<1>6. 0..N \subseteq P
    <2> HIDE DEF P, N
    <2> QED
        BY <1>3, <1>4, <1>5, UpTo
<1> QED
    BY <1>1, <1>2, <1>3, <1>6 DEF Sums

(* One term more. *)
LEMMA SumAppends ==
    ASSUME NEW s \in Seq(Int), NEW x \in Int
    PROVE  SumSeq(Append(s, x)) = SumSeq(s) + x
<1> DEFINE t == Append(s, x)
<1>1. /\ t \in Seq(Int) /\ Len(t) = Len(s) + 1 /\ t[Len(s) + 1] = x
      /\ \A n \in 1..Len(s) : t[n] = s[n]
    OBVIOUS
<1>2. PICK f : Sums(f, s)
    BY SumSteps
<1>3. PICK g : Sums(g, t)
    BY <1>1, SumSteps
<1> HIDE DEF t
<1> DEFINE N == Len(s)
           P == {n \in 0..N : f[n] = g[n]}
<1>4. N \in Nat /\ \A n \in 1..N : n - 1 \in 0..N /\ n \in 1..Len(t)
    BY <1>1
<1>5. 0 \in P
    BY <1>2, <1>3 DEF Sums
<1>6. ASSUME NEW n \in 1..N, n - 1 \in P PROVE n \in P
    BY <1>1, <1>2, <1>3, <1>4, <1>6 DEF Sums
<1>7. 0..N \subseteq P
    <2> HIDE DEF P, N
    <2> QED
        BY <1>4, <1>5, <1>6, UpTo
<1>8. f[N] = g[N] /\ Len(t) \in 1..Len(t) /\ Len(t) - 1 = N
    BY <1>1, <1>4, <1>7
<1>9. SumSeq(t) = g[N] + x
    BY <1>1, <1>3, <1>8 DEF Sums
<1>10. SumSeq(s) = f[N]
    BY <1>2 DEF Sums
<1> QED
    BY <1>8, <1>9, <1>10 DEF t

LEMMA NoSumOfNone ==
    ASSUME NEW s \in Seq(Int), Len(s) = 0 PROVE SumSeq(s) = 0
<1>1. PICK f : Sums(f, s)
    BY SumSteps
<1> QED
    BY <1>1 DEF Sums

-----------------------------------------------------------------------------
(* The totals of the form.                                                 *)

(* A total of n rows in kronor is at most n Units off. *)
Near(total, ore, n) ==
    /\ total \in Nat /\ ore \in Nat /\ MaxRows * ore <= n * Unit
    /\ 100 * total - ore * Scale <= 100 * (n * Unit)
    /\ ore * Scale - 100 * total <= 100 * (n * Unit)

LEMMA NearAdds ==
    ASSUME NEW total \in Nat, NEW sum \in Nat, NEW n \in 0..(MaxRows - 1),
           Near(total, sum, n), NEW ore \in Small
    PROVE  Near(Float(total + Kronor(ore), 1), sum + ore, n + 1)
<1> DEFINE u == Unit
           p == Power[Precision]
           r == MaxRows
           x == sum + ore
           a == total + Kronor(ore)
           f == Float(a, 1)
<1>1. /\ u \in Nat \ {0} /\ Scale = 64 * p /\ p \in Nat \ {0}
      /\ r \in Nat /\ n \in Nat /\ n + 1 <= r /\ 16 * r <= p
    BY Units, Scales, RowsBound
<1>2. ore \in Nat /\ r * ore <= u
    BY SmallAmount
<1>3. /\ Kronor(ore) \in Nat
      /\ 2 * (100 * Kronor(ore) - ore * Scale) <= 100 * u
      /\ 2 * (ore * Scale - 100 * Kronor(ore)) <= 100 * u
    BY KronorNear
<1>4. /\ r * sum <= n * u /\ 100 * total - sum * Scale <= 100 * (n * u)
      /\ sum * Scale - 100 * total <= 100 * (n * u)
    BY DEF Near
<1>5. UnitBits \in 0..(Precision + 6)
    BY Exponents
<1> HIDE DEF u, p, r
<1>6. /\ ore * Scale = 64 * (ore * p) /\ sum * Scale = 64 * (sum * p)
      /\ x * Scale = 64 * (sum * p) + 64 * (ore * p)
      /\ ore * p \in Nat /\ sum * p \in Nat /\ n * u \in Nat
      /\ (n + 1) * u = n * u + u
    BY <1>1, <1>2
<1>7. x \in Nat /\ r * x <= (n + 1) * u
    <2>1. r * x = r * sum + r * ore
        BY <1>1, <1>2
    <2> QED
        BY <1>1, <1>2, <1>4, <1>6, <2>1
<1>8. n * u + u <= r * u /\ r * u \in Nat
    BY <1>1, <1>6
<1>9. x <= u
    <2> HIDE DEF x
    <2>1. r * x \in Nat /\ r * x <= r * u
        BY <1>1, <1>6, <1>7, <1>8
    <2>2. x >= u + 1 => r * x >= r * u + r
        BY <1>1, <1>7
    <2> QED
        BY <1>1, <1>7, <1>8, <2>1, <2>2
<1>10. a \in Nat /\ a < 1 * u * p
    <2>1. 64 * (sum * p) + 64 * (ore * p) <= 64 * (u * p) /\ u * p \in Nat
        <3>1. x * p = sum * p + ore * p
            BY <1>1, <1>2
        <3>2. x * p <= u * p /\ u * p \in Nat
            <4> HIDE DEF x
            <4> QED
                BY <1>1, <1>7, <1>9
        <3> QED
            BY <1>6, <3>1, <3>2
    <2>2. 16 * (r * u) <= u * p /\ u * p > 0
        BY <1>1
    <2>3. 1 * u * p = u * p
        BY <1>1
    <2> QED
        BY <1>1, <1>3, <1>4, <1>6, <1>8, <2>1, <2>2, <2>3
<1>11. f \in Nat /\ 2 * (1 * f - a) <= 1 * u /\ 2 * (a - 1 * f) <= 1 * u
    <2> HIDE DEF a
    <2> QED
        BY <1>5, <1>10, FloatNear DEF Unit, u, p
<1> HIDE DEF f
<1>12. /\ 100 * f - x * Scale <= 100 * ((n + 1) * u)
       /\ x * Scale - 100 * f <= 100 * ((n + 1) * u)
    BY <1>1, <1>3, <1>4, <1>6, <1>11
<1> QED
    BY <1>7, <1>11, <1>12 DEF Near, f, u, r

FormRow == [account : Int, debet : Small, kredit : Small]

LEMMA SideOfRow ==
    ASSUME NEW row \in FormRow, NEW side \in {"debet", "kredit"}
    PROVE  row[side] \in Small
BY DEF FormRow

LEMMA SmallIsNat == Small \subseteq Nat
BY DEF Small

(* What is at most a small amount is one. *)
LEMMA SmallBelow ==
    /\ 0 \in Small
    /\ \A ore \in Small, less \in Nat : less <= ore => less \in Small
<1> DEFINE r == MaxRows
           p == Power[Precision]
<1>1. r \in Nat /\ p \in Nat
    BY RowsBound
<1>2. Small = {ore \in Nat : 16 * r * r * ore <= p}
    BY DEF Small
<1> HIDE DEF r, p
<1>3. \A ore \in Nat : 16 * r * r * ore = 16 * (r * r) * ore
    BY <1>1
<1> DEFINE c == 16 * (r * r)
<1>4. c \in Nat
    BY <1>1
<1>5. Small = {ore \in Nat : c * ore <= p}
    BY <1>2, <1>3
<1> HIDE DEF c
<1>6. \A ore \in Nat, less \in Nat : less <= ore => c * less <= c * ore
    <2> SUFFICES ASSUME NEW ore \in Nat, NEW less \in Nat, less <= ore
                 PROVE  c * less <= c * ore
        OBVIOUS
    <2>1. PICK more \in Nat : ore = less + more
        BY ore - less \in Nat
    <2>2. c * ore = c * less + c * more /\ c * more \in Nat
        BY <1>4, <2>1
    <2>3. c * less \in Int
        BY <1>4
    <2> QED
        BY <2>2, <2>3
<1>7. \A ore \in Nat : c * ore \in Nat
    BY <1>4
<1>8. c * 0 = 0
    BY <1>4
<1> QED
    BY <1>1, <1>5, <1>6, <1>7, <1>8

LEMMA FloatTotalNear ==
    ASSUME NEW rows \in Seq(FormRow), Len(rows) \in 0..MaxRows,
           NEW side \in {"debet", "kredit"}
    PROVE  Near(FloatTotal(rows, side), Total(rows, side), Len(rows))
<1> DEFINE N == Len(rows)
           s == [n \in DOMAIN rows |-> rows[n][side]]
<1>1. N \in 0..MaxRows /\ \A n \in 1..N : rows[n][side] \in Small
    <2>1. N \in Nat /\ \A n \in 1..N : rows[n] \in FormRow
        OBVIOUS
    <2>2. N \in 0..MaxRows
        OBVIOUS
    <2> HIDE DEF N
    <2> QED
        BY <2>1, <2>2, SideOfRow
<1>2. s \in Seq(Int) /\ Len(s) = N /\ \A n \in 1..N : s[n] = rows[n][side]
    <2>1. DOMAIN rows = 1..N /\ N \in Nat
        OBVIOUS
    <2> HIDE DEF N
    <2>2. \A n \in 1..N : rows[n][side] \in Nat
        BY <1>1, SmallIsNat
    <2> QED
        BY <2>1, <2>2
<1>3. Total(rows, side) = SumSeq(s)
    BY DEF Total
<1> HIDE DEF s
<1>4. PICK g : Sums(g, s)
    BY <1>2, SumSteps
<1> DEFINE V == [n \in 0..N |-> {v \in Nat : Near(v, g[n], n)}]
           F == [n \in 1..N |->
                    [v \in Nat |-> Float(v + Kronor(rows[n][side]), 1)]]
           Solves(f) ==
               f = [n \in 0..N |->
                        IF n = 0 THEN 0
                        ELSE Float(f[n - 1] + Kronor(rows[n][side]), 1)]
<1>5. \A n \in 1..N : n - 1 \in 0..N /\ n \in 0..N /\ n # 0
                      /\ n - 1 \in 0..(MaxRows - 1)
    BY <1>1, RowsBound
<1>6. 0 \in V[0]
    <2>1. g[0] = 0
        BY <1>4 DEF Sums
    <2>2. Near(0, 0, 0)
        BY Units, Scales, RowsBound DEF Near
    <2> QED
        BY <1>1, <2>1, <2>2
<1>7. Leads(F, V, N)
    <2>1. ASSUME NEW n \in 1..N, NEW v \in V[n - 1] PROVE F[n][v] \in V[n]
        <3>1. v \in Nat /\ Near(v, g[n - 1], n - 1)
            BY <1>5
        <3>2. rows[n][side] \in Small /\ g[n - 1] \in Nat
            BY <1>1, <3>1 DEF Near
        <3>3. g[n] = g[n - 1] + rows[n][side]
            BY <1>2, <1>4 DEF Sums
        <3>4. Near(Float(v + Kronor(rows[n][side]), 1),
                   g[n - 1] + rows[n][side], (n - 1) + 1)
            BY <1>5, <3>1, <3>2, NearAdds
        <3>5. (n - 1) + 1 = n
            OBVIOUS
        <3>6. Near(Float(v + Kronor(rows[n][side]), 1), g[n], n)
            BY <3>3, <3>4, <3>5
        <3>7. Float(v + Kronor(rows[n][side]), 1) \in Nat
            BY <3>6 DEF Near
        <3>8. F[n][v] = Float(v + Kronor(rows[n][side]), 1)
            BY <3>1
        <3> QED
            BY <1>5, <3>6, <3>7, <3>8
    <2> QED
        BY <2>1 DEF Leads
<1>8. PICK f : Solution(f, 0, F, V, N)
    <2>1. N \in Nat
        BY <1>1
    <2> HIDE DEF N, V, F
    <2> QED
        BY <2>1, <1>6, <1>7, Recursion
<1>9. Solves(f)
    <2>1. ASSUME NEW n \in 1..N
          PROVE  f[n] = Float(f[n - 1] + Kronor(rows[n][side]), 1)
        <3>1. f[n] = F[n][f[n - 1]] /\ f[n - 1] \in V[n - 1]
            BY <1>8 DEF Solution
        <3>2. f[n - 1] \in Nat
            BY <1>5, <3>1
        <3> QED
            BY <3>1, <3>2
    <2>2. ASSUME NEW n \in 0..N
          PROVE  f[n] = IF n = 0 THEN 0
                        ELSE Float(f[n - 1] + Kronor(rows[n][side]), 1)
        <3>1. n = 0 \/ n \in 1..N
            BY <1>1
        <3> QED
            BY <3>1, <1>8, <2>1 DEF Solution
    <2> QED
        BY <1>8, <2>2 DEF Solution
<1>10. PICK sum : Solves(sum) /\ FloatTotal(rows, side) = sum[N]
    <2> DEFINE sum == CHOOSE h : Solves(h)
    <2>1. Solves(sum)
        BY <1>9
    <2>2. FloatTotal(rows, side) = sum[N]
        BY DEF FloatTotal
    <2> QED
        BY <2>1, <2>2
<1>11. /\ sum[0] = 0
       /\ \A n \in 1..N :
              sum[n] = Float(sum[n - 1] + Kronor(rows[n][side]), 1)
    <2>1. \A n \in 0..N :
              sum[n] = IF n = 0 THEN 0
                       ELSE Float(sum[n - 1] + Kronor(rows[n][side]), 1)
        BY <1>10, Zenon
    <2> QED
        BY <1>1, <1>5, <2>1
<1> DEFINE P == {n \in 0..N : sum[n] \in V[n]}
<1>12. 0 \in P
    BY <1>1, <1>6, <1>11
<1>13. ASSUME NEW n \in 1..N, n - 1 \in P PROVE n \in P
    <2>1. sum[n - 1] \in V[n - 1]
        BY <1>13
    <2>2. sum[n - 1] \in Nat
        BY <1>5, <2>1
    <2>3. F[n][sum[n - 1]] = sum[n]
        BY <1>11, <2>2
    <2>4. F[n][sum[n - 1]] \in V[n]
        <3> HIDE DEF F, V
        <3> QED
            BY <1>7, <2>1 DEF Leads
    <2> QED
        BY <1>5, <2>3, <2>4
<1>14. N \in P
    <2>1. N \in Nat
        BY <1>1
    <2>2. 0..N \subseteq P
        <3> HIDE DEF P, N
        <3> QED
            BY <2>1, <1>12, <1>13, UpTo
    <2> QED
        BY <2>1, <2>2
<1>15. Near(sum[N], g[N], N)
    BY <1>14
<1>16. g[N] = SumSeq(s)
    BY <1>2, <1>4 DEF Sums
<1> QED
    BY <1>3, <1>10, <1>15, <1>16

(* If the totals in kronor are equal, so are those in öre. *)
LEMMA DiffTells ==
    ASSUME NEW rows \in Seq(FormRow), Len(rows) \in 0..MaxRows, GetDiff(rows) = 0
    PROVE  Total(rows, "debet") = Total(rows, "kredit")
<1> DEFINE a == FloatTotal(rows, "debet")
           b == FloatTotal(rows, "kredit")
           x == Total(rows, "debet")
           y == Total(rows, "kredit")
           u == Unit
           p == Power[Precision]
           r == MaxRows
           n == Len(rows)
<1>1. Near(a, x, n) /\ Near(b, y, n)
    BY FloatTotalNear
<1>2. a \in Nat /\ b \in Nat /\ a = b
    BY <1>1 DEF Near, GetDiff
<1>3. /\ u \in Nat \ {0} /\ Scale = 64 * p /\ p \in Nat \ {0}
      /\ 8 * (r * u) <= p /\ r \in Nat /\ n \in 0..r
    <2>1. /\ u \in Nat \ {0} /\ Scale = 64 * p /\ p \in Nat \ {0}
          /\ 8 * (r * u) <= p /\ r \in Nat
        BY Units, Scales, RowsBound
    <2>2. n \in 0..r
        OBVIOUS
    <2> QED
        BY <2>1, <2>2
<1> HIDE DEF a, b, x, y, n, u, p, r
<1>4. /\ x \in Nat /\ y \in Nat
      /\ 100 * a - x * Scale <= 100 * (n * u)
      /\ x * Scale - 100 * a <= 100 * (n * u)
      /\ 100 * a - y * Scale <= 100 * (n * u)
      /\ y * Scale - 100 * a <= 100 * (n * u)
    BY <1>1, <1>2 DEF Near, u
<1>5. n * u <= r * u /\ n * u \in Nat /\ r * u \in Nat
    BY <1>3
<1>6. x * Scale = 64 * (x * p) /\ y * Scale = 64 * (y * p)
      /\ x * p \in Nat /\ y * p \in Nat
    BY <1>3, <1>4
<1>7. x * p - y * p < p /\ y * p - x * p < p
    BY <1>2, <1>3, <1>4, <1>5, <1>6
<1>8. ~(x >= y + 1) /\ ~(y >= x + 1)
    <2>1. x >= y + 1 => x * p >= y * p + p
        BY <1>3, <1>4
    <2>2. y >= x + 1 => y * p >= x * p + p
        BY <1>3, <1>4
    <2> QED
        BY <1>3, <1>6, <1>7, <2>1, <2>2
<1> QED
    BY <1>4, <1>8 DEF x, y

-----------------------------------------------------------------------------
(* The rows that are sent.                                                 *)

Filled(rows, blank, n) ==
    /\ rows[n].account # NoAccount
    /\ rows[n].debet # 0 \/ rows[n].kredit # 0 \/ n \in blank

Chosen(f, rows, blank) ==
    /\ f[0] = <<>>
    /\ \A n \in 0..Len(rows) : f[n] \in Seq(FormRow)
    /\ \A n \in 1..Len(rows) :
          f[n] = IF Filled(rows, blank, n) THEN Append(f[n - 1], rows[n])
                 ELSE f[n - 1]
    /\ ValidRows(rows, blank) = f[Len(rows)]

LEMMA ValidSteps ==
    ASSUME NEW rows \in Seq(FormRow), NEW blank
    PROVE  \E f : Chosen(f, rows, blank)
<1> DEFINE N == Len(rows)
           Next(n, v) == IF Filled(rows, blank, n) THEN Append(v, rows[n])
                         ELSE v
           V == [n \in 0..N |-> Seq(FormRow)]
           F == [n \in 1..N |-> [v \in Seq(FormRow) |-> Next(n, v)]]
           Solves(f) ==
               f = [n \in 0..N |->
                        IF n = 0 THEN <<>>
                        ELSE IF Filled(rows, blank, n)
                             THEN Append(f[n - 1], rows[n])
                        ELSE f[n - 1]]
<1>1. N \in Nat /\ \A n \in 1..N : rows[n] \in FormRow
    OBVIOUS
<1>2. \A n \in 1..N : n - 1 \in 0..N /\ n \in 0..N /\ n # 0
    BY <1>1
<1>3. <<>> \in V[0]
    BY <1>1
<1>4. Leads(F, V, N)
    <2>1. ASSUME NEW n \in 1..N, NEW v \in V[n - 1] PROVE F[n][v] \in V[n]
        <3>1. v \in Seq(FormRow)
            BY <1>2
        <3>2. F[n][v] = Next(n, v)
            BY <3>1
        <3>3. Next(n, v) \in Seq(FormRow)
            BY <1>1, <3>1
        <3> QED
            BY <1>2, <3>2, <3>3
    <2> QED
        BY <2>1 DEF Leads
<1>5. PICK f : Solution(f, <<>>, F, V, N)
    <2> HIDE DEF N, V, F
    <2> QED
        BY <1>1, <1>3, <1>4, Recursion
<1>6. Solves(f)
    <2>1. ASSUME NEW n \in 1..N PROVE f[n] = Next(n, f[n - 1])
        <3>1. f[n] = F[n][f[n - 1]] /\ f[n - 1] \in V[n - 1]
            BY <1>5 DEF Solution
        <3>2. f[n - 1] \in Seq(FormRow)
            BY <1>2, <3>1
        <3> QED
            BY <3>1, <3>2
    <2>2. ASSUME NEW n \in 0..N
          PROVE  f[n] = IF n = 0 THEN <<>> ELSE Next(n, f[n - 1])
        <3>1. n = 0 \/ n \in 1..N
            BY <1>1
        <3> QED
            BY <3>1, <1>5, <2>1 DEF Solution
    <2> QED
        BY <1>5, <2>2 DEF Solution
<1>7. PICK valid : Solves(valid) /\ ValidRows(rows, blank) = valid[N]
    <2> DEFINE valid == CHOOSE h : Solves(h)
    <2>1. Solves(valid)
        BY <1>6
    <2>2. ValidRows(rows, blank) = valid[N]
        BY DEF ValidRows, Filled
    <2> QED
        BY <2>1, <2>2
<1>8. valid[0] = <<>> /\ \A n \in 1..N : valid[n] = Next(n, valid[n - 1])
    <2>1. \A n \in 0..N : valid[n] = IF n = 0 THEN <<>>
                                     ELSE Next(n, valid[n - 1])
        BY <1>7, Zenon
    <2> QED
        BY <1>1, <1>2, <2>1
<1> DEFINE P == {n \in 0..N : valid[n] \in Seq(FormRow)}
<1>9. 0 \in P
    <2>1. <<>> \in Seq(FormRow) /\ 0 \in 0..N
        BY <1>1
    <2> QED
        BY <1>8, <2>1
<1>10. ASSUME NEW n \in 1..N, n - 1 \in P PROVE n \in P
    <2>1. valid[n - 1] \in Seq(FormRow) /\ rows[n] \in FormRow /\ n \in 0..N
        BY <1>1, <1>2, <1>10
    <2>2. Append(valid[n - 1], rows[n]) \in Seq(FormRow)
        BY <2>1, AppendProperties
    <2>3. valid[n] \in Seq(FormRow)
        BY <1>8, <2>1, <2>2
    <2> QED
        BY <2>1, <2>3
<1>11. 0..N \subseteq P
    <2> HIDE DEF P, N
    <2> QED
        BY <1>1, <1>9, <1>10, UpTo
<1>12. Chosen(valid, rows, blank)
    BY <1>7, <1>8, <1>11 DEF Chosen
<1> QED
    BY <1>12

LEMMA ValidRowsType ==
    ASSUME NEW rows \in Seq(FormRow), NEW blank
    PROVE  /\ ValidRows(rows, blank) \in Seq(FormRow)
           /\ Len(rows) = 0 => ValidRows(rows, blank) = <<>>
<1>1. PICK f : Chosen(f, rows, blank)
    BY ValidSteps
<1>2. Len(rows) \in 0..Len(rows)
    OBVIOUS
<1> QED
    BY <1>1, <1>2 DEF Chosen

LEMMA SidesType ==
    ASSUME NEW rows \in Seq(FormRow), NEW side \in {"debet", "kredit"}
    PROVE  /\ [n \in DOMAIN rows |-> rows[n][side]] \in Seq(Int)
           /\ Len([n \in DOMAIN rows |-> rows[n][side]]) = Len(rows)
<1> DEFINE N == Len(rows)
<1>1. N \in Nat /\ DOMAIN rows = 1..N /\ \A n \in 1..N : rows[n] \in FormRow
    OBVIOUS
<1> HIDE DEF N
<1>2. \A n \in 1..N : rows[n][side] \in Nat
    BY <1>1, SideOfRow, SmallIsNat
<1> QED
    BY <1>1, <1>2 DEF N

LEMMA TotalAppends ==
    ASSUME NEW rows \in Seq(FormRow), NEW row \in FormRow,
           NEW side \in {"debet", "kredit"}
    PROVE  Total(Append(rows, row), side) = Total(rows, side) + row[side]
<1> DEFINE s == [n \in DOMAIN rows |-> rows[n][side]]
           more == Append(rows, row)
           t == [n \in DOMAIN more |-> more[n][side]]
<1>1. s \in Seq(Int) /\ Len(s) = Len(rows)
    BY SidesType
<1>2. row[side] \in Int
    <2>1. row[side] \in Nat
        BY SideOfRow, SmallIsNat
    <2> QED
        BY <2>1
<1>3. /\ more \in Seq(FormRow) /\ Len(more) = Len(rows) + 1
      /\ more[Len(rows) + 1] = row /\ \A n \in 1..Len(rows) : more[n] = rows[n]
    BY AppendProperties
<1>4. t = Append(s, row[side])
    <2>1. DOMAIN more = 1..(Len(rows) + 1) /\ DOMAIN rows = 1..Len(rows)
          /\ Len(rows) \in Nat
        BY <1>3
    <2>2. Append(s, row[side])
              = [n \in 1..(Len(rows) + 1) |->
                     IF n = Len(rows) + 1 THEN row[side] ELSE s[n]]
        BY <1>1, <1>2, <2>1
    <2>3. \A n \in 1..(Len(rows) + 1) :
              more[n][side] = IF n = Len(rows) + 1 THEN row[side] ELSE s[n]
        <3>1. ASSUME NEW n \in 1..(Len(rows) + 1), n # Len(rows) + 1
              PROVE  n \in 1..Len(rows)
            BY <2>1, <3>1
        <3> QED
            BY <1>3, <2>1, <3>1
    <2> HIDE DEF s, more
    <2>4. t = [n \in 1..(Len(rows) + 1) |-> more[n][side]]
        BY <2>1
    <2> QED
        BY <2>2, <2>3, <2>4
<1>5. Total(more, side) = SumSeq(t) /\ Total(rows, side) = SumSeq(s)
    BY DEF Total
<1> HIDE DEF s, t
<1> QED
    BY <1>1, <1>2, <1>4, <1>5, SumAppends

(* Without an amount on a row that has no account, nothing is left out. *)
LEMMA TotalOfValid ==
    ASSUME NEW rows \in Seq(FormRow), NEW blank, NEW side \in {"debet", "kredit"},
           \A i \in DOMAIN rows : rows[i].account = NoAccount
                                 => rows[i].debet = 0 /\ rows[i].kredit = 0
    PROVE  Total(ValidRows(rows, blank), side) = Total(rows, side)
<1> DEFINE s == [n \in DOMAIN rows |-> rows[n][side]]
           N == Len(rows)
<1>1. PICK f : Chosen(f, rows, blank)
    BY ValidSteps
<1>2. s \in Seq(Int) /\ Len(s) = N
    BY SidesType
<1>3. /\ N \in Nat /\ \A n \in 1..N : n - 1 \in 0..N /\ n \in 0..N
      /\ \A n \in 1..N : rows[n] \in FormRow
      /\ DOMAIN rows = 1..N
    OBVIOUS
<1>4. \A n \in 1..N : s[n] = rows[n][side]
    BY <1>3
<1>5. Total(rows, side) = SumSeq(s)
    BY DEF Total
<1> HIDE DEF s
<1>6. PICK g : Sums(g, s)
    BY <1>2, SumSteps
<1> DEFINE P == {n \in 0..N : Total(f[n], side) = g[n]}
<1>7. 0 \in P
    <2> DEFINE none == [n \in DOMAIN <<>> |-> <<>>[n][side]]
    <2>1. none \in Seq(Int) /\ Len(none) = 0
        <3>1. <<>> \in Seq(FormRow) /\ Len(<<>>) = 0
            OBVIOUS
        <3> QED
            BY <3>1, SidesType
    <2>2. Total(<<>>, side) = SumSeq(none)
        BY DEF Total
    <2> HIDE DEF none
    <2>3. Total(<<>>, side) = 0
        BY <2>1, <2>2, NoSumOfNone
    <2> QED
        BY <1>1, <1>3, <1>6, <2>3 DEF Chosen, Sums
<1>8. ASSUME NEW n \in 1..N, n - 1 \in P PROVE n \in P
    <2>1. g[n] = g[n - 1] + rows[n][side] /\ g[n - 1] \in Int
        BY <1>2, <1>3, <1>4, <1>6 DEF Sums
    <2>2. Total(f[n - 1], side) = g[n - 1] /\ f[n - 1] \in Seq(FormRow)
        BY <1>1, <1>3, <1>8 DEF Chosen
    <2>3. CASE Filled(rows, blank, n)
        <3>1. f[n] = Append(f[n - 1], rows[n])
            BY <1>1, <2>3 DEF Chosen
        <3>2. Total(f[n], side) = Total(f[n - 1], side) + rows[n][side]
            BY <1>3, <2>2, <3>1, TotalAppends
        <3> QED
            BY <1>3, <2>1, <2>2, <3>2
    <2>4. CASE ~Filled(rows, blank, n)
        <3>1. f[n] = f[n - 1]
            BY <1>1, <2>4 DEF Chosen
        <3>2. rows[n].debet = 0 /\ rows[n].kredit = 0
            BY <1>3, <2>4 DEF Filled
        <3>3. rows[n][side] = 0
            BY <3>2
        <3> QED
            BY <1>3, <2>1, <2>2, <3>1, <3>3
    <2> QED
        BY <2>3, <2>4
<1>9. N \in P
    <2>1. 0..N \subseteq P
        <3> HIDE DEF P, N
        <3> QED
            BY <1>3, <1>7, <1>8, UpTo
    <2> QED
        BY <1>3, <2>1
<1> QED
    BY <1>1, <1>2, <1>5, <1>6, <1>9 DEF Chosen, Sums

LEMMA SentAsTyped ==
    ASSUME NEW rows \in Seq(FormRow), NEW blank
    PROVE  RowsSent(rows, blank) = ValidRows(rows, blank)
<1> DEFINE valid == ValidRows(rows, blank)
<1>1. valid \in Seq(FormRow)
    BY ValidRowsType
<1>2. RowsSent(rows, blank)
          = [n \in DOMAIN valid |-> Row(valid[n].account,
                                        Ore(Kronor(valid[n].debet)),
                                        Ore(Kronor(valid[n].kredit)))]
    BY DEF RowsSent
<1> HIDE DEF valid
<1>3. ASSUME NEW n \in DOMAIN valid
      PROVE  Row(valid[n].account, Ore(Kronor(valid[n].debet)),
                 Ore(Kronor(valid[n].kredit))) = valid[n]
    <2>1. valid[n] \in FormRow
        BY <1>1
    <2>2. valid[n].debet \in Small /\ valid[n].kredit \in Small
        BY <2>1 DEF FormRow
    <2>3. Row(valid[n].account, valid[n].debet, valid[n].kredit) = valid[n]
        BY <2>1 DEF FormRow, Row
    <2> QED
        BY <2>2, <2>3, RoundTrip
<1>4. valid = [n \in DOMAIN valid |-> valid[n]]
    BY <1>1
<1> QED
    BY <1>2, <1>3, <1>4 DEF valid

-----------------------------------------------------------------------------
(* The dashboard.                                                          *)

LEMMA BalanceSums ==
    ASSUME NEW rows \in Seq(FormRow), NEW A
    PROVE  /\ [n \in DOMAIN rows |-> IF rows[n].account \in A
                                     THEN rows[n].debet - rows[n].kredit
                                     ELSE 0] \in Seq(Int)
           /\ Len([n \in DOMAIN rows |-> IF rows[n].account \in A
                                         THEN rows[n].debet - rows[n].kredit
                                         ELSE 0]) = Len(rows)
           /\ Balance(rows, A) \in Int
           /\ Len(rows) = 0 => Balance(rows, A) = 0
<1> DEFINE N == Len(rows)
           s == [n \in DOMAIN rows |-> IF rows[n].account \in A
                                      THEN rows[n].debet - rows[n].kredit
                                      ELSE 0]
<1>1. N \in Nat /\ DOMAIN rows = 1..N /\ \A n \in 1..N : rows[n] \in FormRow
    OBVIOUS
<1> HIDE DEF N
<1>2. \A n \in 1..N : rows[n].debet \in Nat /\ rows[n].kredit \in Nat
    BY <1>1, SmallIsNat DEF FormRow
<1>3. \A n \in 1..N : (IF rows[n].account \in A
                       THEN rows[n].debet - rows[n].kredit ELSE 0) \in Int
    BY <1>2
<1>4. s \in Seq(Int) /\ Len(s) = N
    BY <1>1, <1>3
<1>5. Balance(rows, A) = SumSeq(s)
    BY DEF Balance
<1>6. SumSeq(s) \in Int /\ (Len(s) = 0 => SumSeq(s) = 0)
    <2> HIDE DEF s
    <2> QED
        BY <1>4, SumIsInt, NoSumOfNone
<1> QED
    BY <1>4, <1>5, <1>6 DEF N

LEMMA BalanceType ==
    ASSUME NEW rows \in Seq(FormRow), NEW A
    PROVE  Balance(rows, A) \in Int /\ (Len(rows) = 0 => Balance(rows, A) = 0)
BY BalanceSums

(* What two sets of accounts have together. *)
LEMMA BalanceParts ==
    ASSUME NEW rows \in Seq(FormRow), NEW A, NEW B, NEW C,
           \A account : account \in C <=> account \in A \/ account \in B,
           \A account : ~(account \in A /\ account \in B)
    PROVE  Balance(rows, C) = Balance(rows, A) + Balance(rows, B)
<1> DEFINE Left(X) == [n \in DOMAIN rows |-> IF rows[n].account \in X
                                            THEN rows[n].debet - rows[n].kredit
                                            ELSE 0]
           a == Left(A)
           b == Left(B)
           c == Left(C)
<1>1. /\ a \in Seq(Int) /\ b \in Seq(Int) /\ c \in Seq(Int)
      /\ Len(a) = Len(rows) /\ Len(b) = Len(rows) /\ Len(c) = Len(rows)
    BY BalanceSums
<1>2. \A n \in 1..Len(rows) : c[n] = a[n] + b[n]
    <2>1. ASSUME NEW n \in 1..Len(rows) PROVE c[n] = a[n] + b[n]
        <3>1. n \in DOMAIN rows /\ rows[n] \in FormRow
            OBVIOUS
        <3>2. rows[n].debet \in Nat /\ rows[n].kredit \in Nat
            BY <3>1, SmallIsNat DEF FormRow
        <3>3. \A d, k \in Nat : d - k = (d - k) + 0 /\ d - k = 0 + (d - k)
            OBVIOUS
        <3> QED
            BY <3>1, <3>2, <3>3
    <2> QED
        BY <2>1
<1>3. /\ Balance(rows, A) = SumSeq(a) /\ Balance(rows, B) = SumSeq(b)
      /\ Balance(rows, C) = SumSeq(c)
    BY DEF Balance
<1> HIDE DEF a, b, c
<1> QED
    BY <1>1, <1>2, <1>3, SumAdds

Income == 3000..3999
Expenses == 4000..8999
Assets == 1000..1999

LEMMA ResultAccounts ==
    ASSUME NEW account
    PROVE  /\ account \in Result <=> account \in Income \/ account \in Expenses
           /\ ~(account \in Income /\ account \in Expenses)
<1> DEFINE In(a, b) == account \in a..b
<1>1. account \in Result
      <=> In(1000, 8999) /\ GuessAccountType(account) \in {"income", "expense"}
    BY DEF Result
<1>2. GuessAccountType(account) =
          CASE In(1000, 1999) -> "asset"
            [] In(2000, 2999) -> "debt"
            [] In(3000, 3999) \/ In(8300, 8399) -> "income"
            [] In(4000, 8999) /\ ~In(8300, 8399) -> "expense"
            [] OTHER -> "none"
    BY DEF GuessAccountType
<1>3. \A a, b \in Int : account \notin Int => ~In(a, b)
    OBVIOUS
<1>4. ASSUME account \in Int
      PROVE  /\ In(1000, 1999) <=> 1000 <= account /\ account <= 1999
             /\ In(2000, 2999) <=> 2000 <= account /\ account <= 2999
             /\ In(3000, 3999) <=> 3000 <= account /\ account <= 3999
             /\ In(4000, 8999) <=> 4000 <= account /\ account <= 8999
             /\ In(8300, 8399) <=> 8300 <= account /\ account <= 8399
             /\ In(1000, 8999) <=> 1000 <= account /\ account <= 8999
    BY SMTT(30), SMTT(30), <1>4
<1>5. account \in Income <=> In(3000, 3999)
    BY DEF Income
<1>6. account \in Expenses <=> In(4000, 8999)
    BY DEF Expenses
<1> HIDE DEF In
<1>7. /\ In(1000, 8999) <=> \/ In(1000, 1999) \/ In(2000, 2999)
                            \/ In(3000, 3999) \/ In(4000, 8999)
      /\ In(1000, 1999) => /\ ~In(2000, 2999) /\ ~In(3000, 3999)
                           /\ ~In(4000, 8999) /\ ~In(8300, 8399)
      /\ In(2000, 2999) => /\ ~In(3000, 3999) /\ ~In(4000, 8999)
                           /\ ~In(8300, 8399)
      /\ In(3000, 3999) => ~In(4000, 8999) /\ ~In(8300, 8399)
    <2>1. CASE account \in Int
        BY <1>4, <2>1
    <2>2. CASE account \notin Int
        <3>1. /\ ~In(1000, 1999) /\ ~In(2000, 2999) /\ ~In(3000, 3999)
              /\ ~In(4000, 8999) /\ ~In(1000, 8999)
            BY <1>3, <2>2
        <3> QED
            BY <3>1
    <2> QED
        BY <2>1, <2>2
<1>8. /\ In(1000, 1999) => GuessAccountType(account) = "asset"
      /\ In(2000, 2999) => GuessAccountType(account) = "debt"
      /\ In(3000, 3999) => GuessAccountType(account) = "income"
      /\ In(4000, 8999) => GuessAccountType(account) \in {"income", "expense"}
    BY <1>2, <1>7
<1>9. account \in Result <=> In(3000, 3999) \/ In(4000, 8999)
    BY <1>1, <1>7, <1>8
<1> QED
    BY <1>5, <1>6, <1>7, <1>9

Dashboard(rows) ==
    [income |-> -Balance(rows, Income), expenses |-> Balance(rows, Expenses),
     bank |-> Balance(rows, Assets),
     net |-> -Balance(rows, Income) - Balance(rows, Expenses)]

LEMMA NetOfRows ==
    ASSUME NEW rows \in Seq(FormRow)
    PROVE  /\ Dashboard(rows).net = -Balance(rows, Result)
           /\ (\A i \in DOMAIN rows : rows[i].account \in 1000..1999
                                      => rows[i].account \in Bank)
              => Dashboard(rows).bank = Balance(rows, Bank)
<1>1. Balance(rows, Income) \in Int /\ Balance(rows, Expenses) \in Int
    BY BalanceType
<1>2. Balance(rows, Result) = Balance(rows, Income) + Balance(rows, Expenses)
    BY BalanceParts, ResultAccounts
<1>3. \A a, b \in Int : -a - b = -(a + b)
    OBVIOUS
<1>4. Dashboard(rows).net = -Balance(rows, Result)
    BY <1>1, <1>2, <1>3 DEF Dashboard
<1>5. ASSUME \A i \in DOMAIN rows : rows[i].account \in 1000..1999
                                    => rows[i].account \in Bank
      PROVE  Dashboard(rows).bank = Balance(rows, Bank)
    <2>1. \A account : account \in Bank => account \in Assets
        BY DEF Bank, Assets
    <2>2. \A i \in DOMAIN rows : rows[i].account \in Assets
                                 <=> rows[i].account \in Bank
        BY <1>5, <2>1 DEF Assets
    <2>3. [n \in DOMAIN rows |-> IF rows[n].account \in Assets
                                THEN rows[n].debet - rows[n].kredit ELSE 0]
          = [n \in DOMAIN rows |-> IF rows[n].account \in Bank
                                  THEN rows[n].debet - rows[n].kredit ELSE 0]
        BY <2>2
    <2>4. Balance(rows, Assets) = Balance(rows, Bank)
        BY <2>3 DEF Balance
    <2> QED
        BY <2>4 DEF Dashboard
<1> QED
    BY <1>4, <1>5

-----------------------------------------------------------------------------
(* The form and what was sent.                                             *)

FormType ==
    /\ templatePrompt \in {"none"} \cup DOMAIN Templates
    /\ formRows \in Seq(FormRow)
    /\ Len(formRows) \in 2..MaxRows

(* What was sent last balanced in kronor. *)
PostedInv ==
    \/ postedRows = NoPosting
    \/ /\ postedRows.form \in Seq(FormRow)
       /\ Len(postedRows.form) \in 0..MaxRows
       /\ GetDiff(postedRows.form) = 0
       /\ postedRows.sent = RowsSent(postedRows.form, postedRows.cleared)

SummedInv == summed = IF Accepts(postedRows.sent)
                      THEN Dashboard(postedRows.sent) ELSE NoSum

FormInv == FormType /\ PostedInv /\ SummedInv

LEMMA PostedTypes ==
    ASSUME PostedInv
    PROVE  /\ postedRows.form \in Seq(FormRow)
           /\ postedRows.sent \in Seq(FormRow)
           /\ postedRows.sent = ValidRows(postedRows.form, postedRows.cleared)
           /\ \/ Len(postedRows.form) = 0 /\ postedRows.sent = <<>>
              \/ Total(postedRows.form, "debet")
                     = Total(postedRows.form, "kredit")
<1>1. CASE postedRows = NoPosting
    <2>1. postedRows.form = <<>> /\ postedRows.sent = <<>>
        BY <1>1 DEF NoPosting
    <2>2. <<>> \in Seq(FormRow) /\ Len(<<>>) = 0
        OBVIOUS
    <2> QED
        BY <2>1, <2>2, ValidRowsType
<1>2. CASE /\ postedRows.form \in Seq(FormRow)
           /\ Len(postedRows.form) \in 0..MaxRows
           /\ GetDiff(postedRows.form) = 0
           /\ postedRows.sent = RowsSent(postedRows.form, postedRows.cleared)
    BY <1>2, SentAsTyped, ValidRowsType, DiffTells
<1> QED
    BY <1>1, <1>2 DEF PostedInv

LEMMA FormFigures ==
    ASSUME PostedInv, SummedInv
    PROVE  PostedBalances /\ PostedAsTyped /\ NetAsServer
<1> DEFINE form == postedRows.form
           sent == postedRows.sent
<1>1. /\ form \in Seq(FormRow) /\ sent \in Seq(FormRow)
      /\ sent = ValidRows(form, postedRows.cleared)
      /\ \/ Len(form) = 0 /\ sent = <<>>
         \/ Total(form, "debet") = Total(form, "kredit")
    BY PostedTypes
<1>2. PostedAsTyped
    BY <1>1 DEF PostedAsTyped
<1>3. PostedBalances
    <2> SUFFICES ASSUME \A i \in DOMAIN form :
                            form[i].account = NoAccount
                            => form[i].debet = 0 /\ form[i].kredit = 0
                 PROVE  Total(sent, "debet") = Total(sent, "kredit")
        BY DEF PostedBalances
    <2>1. Total(sent, "debet") = Total(form, "debet")
          /\ Total(sent, "kredit") = Total(form, "kredit")
        BY <1>1, TotalOfValid
    <2>2. CASE Len(form) = 0
        <3>1. /\ Total(form, "debet")
                    = SumSeq([n \in DOMAIN form |-> form[n]["debet"]])
              /\ Total(form, "kredit")
                    = SumSeq([n \in DOMAIN form |-> form[n]["kredit"]])
            BY DEF Total
        <3>2. Total(form, "debet") = 0 /\ Total(form, "kredit") = 0
            BY <1>1, <2>2, <3>1, SidesType, NoSumOfNone
        <3> QED
            BY <2>1, <3>2
    <2> QED
        BY <1>1, <2>1, <2>2
<1>4. NetAsServer
    <2> DEFINE rows == IF Accepts(sent) THEN sent ELSE <<>>
    <2>1. rows \in Seq(FormRow) /\ (Accepts(sent) => rows = sent)
          /\ (~Accepts(sent) => rows = <<>>)
        BY <1>1
    <2>2. NetAsServer <=>
              /\ summed.net = -Balance(rows, Result)
              /\ (\A i \in DOMAIN rows : rows[i].account \in 1000..1999
                                         => rows[i].account \in Bank)
                 => summed.bank = Balance(rows, Bank)
        BY DEF NetAsServer
    <2> HIDE DEF rows
    <2>3. CASE Accepts(sent)
        <3>1. summed = Dashboard(rows)
            BY <2>1, <2>3 DEF SummedInv
        <3> QED
            BY <2>1, <2>2, <3>1, NetOfRows
    <2>4. CASE ~Accepts(sent)
        <3>1. summed = NoSum /\ Len(rows) = 0
            BY <2>1, <2>4 DEF SummedInv
        <3>2. Balance(rows, Result) = 0 /\ Balance(rows, Bank) = 0
            BY <2>1, <3>1, BalanceType
        <3>3. summed.net = 0 /\ summed.bank = 0
            BY <3>1 DEF NoSum
        <3>4. \A a \in Int : -a = 0 - a
            OBVIOUS
        <3>5. -Balance(rows, Result) = 0 - Balance(rows, Result)
            BY <2>1, <3>4, BalanceType
        <3>6. -Balance(rows, Result) = 0
            BY <3>2, <3>5
        <3> QED
            BY <2>2, <3>2, <3>3, <3>6
    <2> QED
        BY <2>3, <2>4
<1> QED
    BY <1>2, <1>3, <1>4

-----------------------------------------------------------------------------
(* The invoice.                                                            *)

(* A line is rounded to the same on both sides, up to a half that is       *)
(* negative. *)
LEMMA LinesAgree ==
    ASSUME NEW x \in Int, NEW rate \in {0, 6, 12, 25},
           NEW page \in Int, page = RoundUp(x, 100),
           NEW server \in Int, server = GoRound(x, 100)
    PROVE  LET off == page + RoundUp(page * rate, 100)
                      - (server + GoRound(server * rate, 100))
           IN  off \in 0..2 /\ (x >= 0 => off = 0)
<1>1. page - server \in 0..1 /\ (x >= 0 => page = server /\ server >= 0)
      /\ (page # server => page <= 0) /\ (x < 0 => server <= 0)
    BY DEF RoundUp, GoRound
<1>2. CASE rate = 0
    BY <1>1, <1>2 DEF RoundUp, GoRound
<1>3. CASE rate = 6
    BY <1>1, <1>3 DEF RoundUp, GoRound
<1>4. CASE rate = 12
    BY <1>1, <1>4 DEF RoundUp, GoRound
<1>5. CASE rate = 25
    BY <1>1, <1>5 DEF RoundUp, GoRound
<1> QED
    BY <1>2, <1>3, <1>4, <1>5

Items == [quantity : Int, price : Nat, rate : {0, 6, 12, 25}]

LEMMA LineTypes ==
    ASSUME NEW item \in Items
    PROVE  /\ Line(item) \in Int /\ LineVat(item) \in Int
           /\ ServerLine(item) \in Int
           /\ Line(item) + LineVat(item) - ServerLine(item) \in 0..2
           /\ item.quantity >= 0
              => Line(item) + LineVat(item) = ServerLine(item)
<1> DEFINE x == item.price * item.quantity
           page == RoundUp(x, 100)
           server == GoRound(x, 100)
<1>1. /\ item.rate \in {0, 6, 12, 25} /\ item.price \in Nat
      /\ item.quantity \in Int
    BY DEF Items
<1>2. x \in Int /\ (item.quantity >= 0 => x >= 0)
    BY <1>1
<1>3. /\ Line(item) = page /\ LineVat(item) = RoundUp(page * item.rate, 100)
      /\ ServerLine(item) = server + GoRound(server * item.rate, 100)
    BY DEF Line, LineVat, ServerLine
<1> HIDE DEF x
<1>4. page \in Int /\ server \in Int
    BY <1>2 DEF RoundUp, GoRound
<1> HIDE DEF page, server
<1>5. /\ RoundUp(page * item.rate, 100) \in Int
      /\ GoRound(server * item.rate, 100) \in Int
    BY <1>1, <1>4 DEF RoundUp, GoRound
<1> DEFINE off == page + RoundUp(page * item.rate, 100)
                  - (server + GoRound(server * item.rate, 100))
<1>6. off \in 0..2 /\ (x >= 0 => off = 0)
    BY <1>1, <1>2, <1>4, LinesAgree DEF page, server
<1> QED
    BY <1>2, <1>3, <1>4, <1>5, <1>6

(* What RecalcInvoice adds up. *)
PageTotal(items) == SumSeq([n \in DOMAIN items |-> Line(items[n])])
                    + SumSeq([n \in DOMAIN items |-> LineVat(items[n])])

(* It is what the server adds up. *)
LEMMA SumsOfItems ==
    ASSUME NEW items \in Seq(Items)
    PROVE  LET off == PageTotal(items) - ServerTotal(items)
           IN  /\ (\A i \in DOMAIN items : items[i].quantity >= 0) => off = 0
               /\ off \in 0..(2 * Len(items))
<1> DEFINE lines == [n \in DOMAIN items |-> Line(items[n])]
           vats == [n \in DOMAIN items |-> LineVat(items[n])]
           page == [n \in DOMAIN items |-> Line(items[n]) + LineVat(items[n])]
           server == [n \in DOMAIN items |-> ServerLine(items[n])]
<1>1. Len(items) \in Nat /\ DOMAIN items = 1..Len(items)
      /\ \A n \in 1..Len(items) : items[n] \in Items
    OBVIOUS
<1>2. /\ lines \in Seq(Int) /\ vats \in Seq(Int)
      /\ page \in Seq(Int) /\ server \in Seq(Int)
    BY <1>1, LineTypes
<1>3. /\ Len(lines) = Len(items) /\ Len(vats) = Len(items)
      /\ Len(page) = Len(items) /\ Len(server) = Len(items)
    BY <1>1
<1>4. \A n \in 1..Len(items) : page[n] = lines[n] + vats[n]
    BY <1>1
<1>5. \A n \in 1..Len(items) : page[n] - server[n] \in 0..2
    <2>1. ASSUME NEW n \in 1..Len(items) PROVE page[n] - server[n] \in 0..2
        <3>1. /\ page[n] = Line(items[n]) + LineVat(items[n])
              /\ server[n] = ServerLine(items[n]) /\ items[n] \in Items
            BY <1>1
        <3>2. /\ Line(items[n]) + LineVat(items[n]) - ServerLine(items[n])
                     \in 0..2
              /\ Line(items[n]) \in Int /\ LineVat(items[n]) \in Int
              /\ ServerLine(items[n]) \in Int
            BY <3>1, LineTypes
        <3> HIDE DEF page, server
        <3> QED
            BY <3>1, <3>2
    <2> QED
        BY <2>1
<1>6. (\A i \in DOMAIN items : items[i].quantity >= 0) => page = server
    BY <1>1, LineTypes
<1>7. ServerTotal(items) = SumSeq(server)
    BY DEF ServerTotal
<1>8. PageTotal(items) = SumSeq(lines) + SumSeq(vats)
    BY DEF PageTotal
<1> HIDE DEF lines, vats, page, server
<1>9. SumSeq(page) = SumSeq(lines) + SumSeq(vats)
    BY <1>2, <1>3, <1>4, SumAdds
<1>10. SumSeq(page) - SumSeq(server) \in 0..(2 * Len(items))
    BY <1>2, <1>3, <1>5, SumsApart
<1>11. SumSeq(page) = SumSeq(server) => SumSeq(page) - SumSeq(server) = 0
    BY <1>2, SumIsInt
<1> QED
    BY <1>8, <1>6, <1>7, <1>9, <1>10, <1>11

-----------------------------------------------------------------------------
(* The steps of the invoice. *)

BillInv ==
    /\ invoiceItems \in Seq(Items)
    /\ invoiceTotal.amount = PageTotal(invoiceItems)

LEMMA BillTotals == BillInv => TotalsAgree
<1> SUFFICES ASSUME BillInv PROVE TotalsAgree
    OBVIOUS
<1>1. invoiceItems \in Seq(Items)
    BY DEF BillInv
<1> QED
    BY <1>1, SumsOfItems DEF BillInv, TotalsAgree

LEMMA Recalculated ==
    ASSUME NEW items \in Seq(Items), RecalcInvoice(items) PROVE BillInv'
BY DEF RecalcInvoice, BillInv, PageTotal

LEMMA WithoutInSeq ==
    ASSUME NEW S, NEW s \in Seq(S), NEW i \in DOMAIN s
    PROVE  Without(s, i) \in Seq(S) /\ Len(Without(s, i)) = Len(s) - 1
<1> DEFINE a == SubSeq(s, 1, i - 1)
           b == SubSeq(s, i + 1, Len(s))
<1>1. i \in 1..Len(s) /\ Len(s) \in Nat
    OBVIOUS
<1>2. a \in Seq(S) /\ Len(a) = i - 1
    BY <1>1
<1>3. b \in Seq(S) /\ Len(b) = Len(s) - i
    BY <1>1
<1> HIDE DEF a, b
<1>4. a \o b \in Seq(S) /\ Len(a \o b) = Len(a) + Len(b)
    BY <1>2, <1>3, ConcatProperties
<1> QED
    <2>1. Without(s, i) = a \o b
        BY DEF Without, a, b
    <2>2. (i - 1) + (Len(s) - i) = Len(s) - 1
        BY <1>1
    <2> QED
        BY <1>2, <1>3, <1>4, <2>1, <2>2

LEMMA BillStep ==
    ASSUME BillInv, BillNext PROVE BillInv'
<1>1. invoiceItems \in Seq(Items)
    BY DEF BillInv
<1>2. CASE AddInvoiceItem
    <2>1. NewItem \in Items
        BY DEF NewItem, Items
    <2>2. Append(invoiceItems, NewItem) \in Seq(Items)
        BY <1>1, <2>1
    <2> QED
        BY <1>2, <2>2, Recalculated DEF AddInvoiceItem
<1>3. ASSUME NEW i \in 1..MaxItems, RemoveInvoiceItem(i) PROVE BillInv'
    <2>1. Without(invoiceItems, i) \in Seq(Items)
        BY <1>1, <1>3, WithoutInSeq DEF RemoveInvoiceItem
    <2> QED
        BY <1>3, <2>1, Recalculated DEF RemoveInvoiceItem
<1>4. ASSUME NEW i \in 1..MaxItems, NEW item \in InvoiceItems,
             EditInvoiceItem(i, item)
      PROVE  BillInv'
    <2>1. item \in Items
        BY SMTT(30), AmountsAssumption DEF Items
    <2>2. i \in DOMAIN invoiceItems
        BY <1>4 DEF EditInvoiceItem
    <2>3. [invoiceItems EXCEPT ![i] = item] \in Seq(Items)
        BY <1>1, <2>1, <2>2
    <2> QED
        BY <1>4, <2>3, Recalculated DEF EditInvoiceItem
<1> QED
    BY <1>2, <1>3, <1>4 DEF BillNext
-----------------------------------------------------------------------------
(* The steps of the form.                                                  *)

LEMMA RowTypes ==
    /\ 0 \in Small
    /\ \A account \in Int, ore \in Small :
          Row(account, ore, 0) \in FormRow /\ Row(account, 0, ore) \in FormRow
    /\ EmptyRows \in Seq(FormRow) /\ Len(EmptyRows) \in 2..MaxRows
    /\ Row(NoAccount, 0, 0) \in FormRow
<1>1. 0 \in Small
    BY SmallBelow
<1>2. 2 \in 2..MaxRows
    BY RowsBound
<1>3. EmptyRows \in Seq(FormRow) /\ Len(EmptyRows) = 2
    BY <1>1 DEF EmptyRows, Row, FormRow
<1> QED
    BY <1>1, <1>2, <1>3 DEF Row, FormRow, NoAccount

LEMMA FormInit == TemplateInit => FormInv
<1>1. ASSUME TemplateInit PROVE ~Accepts(postedRows.sent)
    BY <1>1 DEF TemplateInit, NoPosting, Accepts
<1> QED
    BY <1>1, RowTypes DEF TemplateInit, FormInv, FormType, PostedInv, SummedInv

(* Whatever is typed afterwards, nothing has been sent and summed. *)
LEMMA NothingPosted ==
    ASSUME postedRows' = NoPosting, summed' = NoSum
    PROVE  PostedInv' /\ SummedInv'
<1>1. ~Accepts(postedRows.sent)'
    BY DEF NoPosting, Accepts
<1> QED
    BY <1>1 DEF PostedInv, SummedInv

LEMMA TemplateTypes ==
    ASSUME NEW id \in DOMAIN Templates
    PROVE  /\ Templates[id].rate \in {0, 25}
           /\ Templates[id].base \in Int /\ Templates[id].vat \in Int
<1>1. id \in {"inkop_25", "forsaljning_25", "egen_insattning", "eget_uttag"}
    BY DEF Templates
<1> QED
    BY <1>1 DEF Templates, Template

LEMMA TemplateRowsType ==
    ASSUME NEW id \in DOMAIN Templates, NEW total \in Small, total > 0
    PROVE  LET rows == TemplateRows(Templates[id], total)
           IN  rows \in Seq(FormRow) /\ Len(rows) \in 2..MaxRows
<1> DEFINE t == Templates[id]
           vat == VatOf(total, t.rate)
           first == <<Side(~t.paid, 1930, total)>>
           second == IF vat > 0 THEN <<Side(t.paid, t.vat, vat)>> ELSE <<>>
           third == <<Side(t.paid, t.base, total - vat)>>
<1>1. t.rate \in {0, 25} /\ t.base \in Int /\ t.vat \in Int
    BY TemplateTypes
<1> HIDE DEF t
<1>2. total \in Nat
    BY SmallIsNat
<1>3. vat \in 0..total
    <2>1. CASE t.rate = 0
        BY <1>2, <2>1 DEF VatOf, RoundUp
    <2>2. CASE t.rate = 25
        BY <1>2, <2>2 DEF VatOf, RoundUp
    <2> QED
        BY <1>1, <2>1, <2>2
<1> HIDE DEF vat
<1>4. vat \in Small /\ total - vat \in Small
    BY <1>2, <1>3, SmallBelow
<1>5. /\ Side(~t.paid, 1930, total) \in FormRow
      /\ Side(t.paid, t.vat, vat) \in FormRow
      /\ Side(t.paid, t.base, total - vat) \in FormRow
    BY <1>1, <1>4, RowTypes DEF Side
<1>6. /\ first \in Seq(FormRow) /\ Len(first) = 1
      /\ second \in Seq(FormRow) /\ Len(second) \in 0..1
      /\ third \in Seq(FormRow) /\ Len(third) = 1
    BY <1>5
<1>7. TemplateRows(t, total) = first \o second \o third
    BY DEF TemplateRows, vat
<1> HIDE DEF first, second, third
<1>8. first \o second \in Seq(FormRow) /\ Len(first \o second) = 1 + Len(second)
    BY <1>6, ConcatProperties
<1>9. /\ first \o second \o third \in Seq(FormRow)
       /\ Len(first \o second \o third) = (1 + Len(second)) + 1
    BY <1>6, <1>8, ConcatProperties
<1> QED
    BY RowsBound, <1>6, <1>7, <1>9 DEF t

LEMMA Posts ==
    ASSUME FormInv, SubmitAmounts PROVE FormInv'
<1>a. PICK cleared :
         /\ postedRows' = [sent |-> RowsSent(formRows, cleared),
                           form |-> formRows, cleared |-> cleared]
         /\ PostingReturns(RowsSent(formRows, cleared))
    BY DEF SubmitAmounts, Submits
<1> DEFINE sent == RowsSent(formRows, cleared)
<1>1. /\ GetDiff(formRows) = 0 /\ templatePrompt' = templatePrompt
      /\ PostingReturns(sent)
    BY <1>a DEF SubmitAmounts
<1>2. /\ postedRows'.sent = sent /\ postedRows'.form = formRows
      /\ postedRows'.cleared = cleared
    BY <1>a
<1>3. formRows \in Seq(FormRow) /\ Len(formRows) \in 2..MaxRows
    BY DEF FormInv, FormType
<1>4. PostedInv'
    <2>1. Len(formRows) \in 0..MaxRows
        BY <1>3
    <2>2. GetDiff(postedRows'.form) = 0
        BY <1>1, <1>2
    <2> QED
        BY <1>2, <1>3, <2>1, <2>2 DEF PostedInv
<1> HIDE DEF sent
<1>5. SummedInv'
    BY <1>1, <1>2 DEF PostingReturns, UpdateDashboardLocally, SummedInv,
                      Dashboard, Income, Expenses, Assets
<1>6. formRows' \in {formRows, EmptyRows}
    BY <1>1 DEF PostingReturns
<1>7. FormType'
    BY <1>1, <1>3, <1>6, RowTypes DEF FormInv, FormType
<1> QED
    BY <1>4, <1>5, <1>7 DEF FormInv

LEMMA FormStep ==
    ASSUME FormInv, TemplateNext PROVE FormInv'
<1>1. /\ templatePrompt \in {"none"} \cup DOMAIN Templates
      /\ formRows \in Seq(FormRow) /\ Len(formRows) \in 2..MaxRows
    BY DEF FormInv, FormType
<1>2. ASSUME UNCHANGED <<formRows, postedRows, summed>>,
             templatePrompt' \in {"none"} \cup DOMAIN Templates
      PROVE  FormInv'
    BY <1>2 DEF FormInv, FormType, PostedInv, SummedInv
<1>3. ASSUME NEW id \in DOMAIN Templates, InitiateTemplate(id) PROVE FormInv'
    BY <1>2, <1>3 DEF InitiateTemplate
<1>4. CASE CancelTemplate
    BY <1>2, <1>4 DEF CancelTemplate
<1>5. ASSUME NEW total \in 0..MaxAmount, ApplyTemplateAmount(total)
      PROVE  FormInv'
    <2>1. total \in Small
        <3>1. MaxAmount \in Small
            BY AmountsAssumption DEF Small
        <3>2. total \in Nat /\ total <= MaxAmount
            BY AmountsAssumption
        <3> QED
            BY <3>1, <3>2, SmallBelow
    <2>2. /\ templatePrompt \in DOMAIN Templates /\ total > 0
          /\ formRows' = TemplateRows(Templates[templatePrompt], total)
          /\ templatePrompt' = "none"
        BY <1>1, <1>5 DEF ApplyTemplateAmount
    <2>3. formRows' \in Seq(FormRow) /\ Len(formRows') \in 2..MaxRows
        BY <2>1, <2>2, TemplateRowsType
    <2>4. PostedInv' /\ SummedInv'
        BY <1>5, NothingPosted DEF ApplyTemplateAmount, Touches
    <2> QED
        BY <2>2, <2>3, <2>4 DEF FormInv, FormType
<1>6. ASSUME NEW i \in DOMAIN formRows, NEW ore \in TypedAmounts,
             NEW account \in TypedAccounts \cup {formRows[i].account},
             NEW side \in {"debet", "kredit"}, TypeRow(i, account, side, ore)
      PROVE  FormInv'
    <2>1. ore \in Small
        BY AmountsAssumption DEF Small
    <2>2. formRows[i] \in FormRow
        BY <1>1
    <2>3. account \in Int
        BY <2>2, AmountsAssumption DEF FormRow
    <2> DEFINE row == [formRows[i] EXCEPT !.account = account, ![side] = ore]
    <2>4. row \in FormRow
        <3>1. CASE side = "debet"
            BY <2>1, <2>2, <2>3, <3>1 DEF FormRow
        <3>2. CASE side = "kredit"
            BY <2>1, <2>2, <2>3, <3>2 DEF FormRow
        <3> QED
            BY <3>1, <3>2
    <2>5. formRows' = [formRows EXCEPT ![i] = row]
        BY <1>1, <1>6, <2>2 DEF TypeRow, FormRow
    <2> HIDE DEF row
    <2>6. formRows' \in Seq(FormRow) /\ Len(formRows') = Len(formRows)
        BY <1>1, <2>4, <2>5
    <2>7. PostedInv' /\ SummedInv'
        BY <1>6, NothingPosted DEF TypeRow, Touches
    <2> QED
        BY <1>1, <1>6, <2>6, <2>7 DEF FormInv, FormType, TypeRow
<1>7. CASE AddRow \/ FocusNext
    <2>1. /\ formRows' = Append(formRows, Row(NoAccount, 0, 0))
          /\ Len(formRows) < MaxRows /\ templatePrompt' = templatePrompt
          /\ postedRows' = NoPosting /\ summed' = NoSum
        BY <1>7 DEF AddRow, FocusNext
    <2>2. formRows' \in Seq(FormRow) /\ Len(formRows') = Len(formRows) + 1
        BY <1>1, <2>1, RowTypes, AppendProperties
    <2> QED
        BY RowsBound, <1>1, <2>1, <2>2, NothingPosted DEF FormInv, FormType
<1>8. ASSUME NEW i \in 1..MaxRows, RemoveRow(i) PROVE FormInv'
    <2>1. /\ formRows' = Without(formRows, i) /\ i \in DOMAIN formRows
          /\ Len(formRows) > 2 /\ templatePrompt' = templatePrompt
          /\ postedRows' = NoPosting /\ summed' = NoSum
        BY <1>8 DEF RemoveRow
    <2>2. formRows' \in Seq(FormRow) /\ Len(formRows') = Len(formRows) - 1
        BY <1>1, <2>1, WithoutInSeq
    <2> QED
        BY RowsBound, <1>1, <2>1, <2>2, NothingPosted DEF FormInv, FormType
<1> QED
    BY <1>3, <1>4, <1>5, <1>6, <1>7, <1>8, Posts DEF TemplateNext

-----------------------------------------------------------------------------
(* The invariant.                                                          *)

AmountsInv == FormInv /\ BillInv

LEMMA AmountsInvInit == AmountsInit => AmountsInv
<1> SUFFICES ASSUME AmountsInit PROVE AmountsInv
    OBVIOUS
<1>1. FormInv
    BY FormInit DEF AmountsInit
<1>2. invoiceItems = <<>> /\ invoiceTotal.amount = 0
    BY DEF AmountsInit, BillInit
<1>3. PageTotal(<<>>) = 0
    <2> DEFINE lines == [n \in DOMAIN <<>> |-> Line(<<>>[n])]
               vats == [n \in DOMAIN <<>> |-> LineVat(<<>>[n])]
    <2>1. /\ lines \in Seq(Int) /\ Len(lines) = 0
          /\ vats \in Seq(Int) /\ Len(vats) = 0
        OBVIOUS
    <2>2. PageTotal(<<>>) = SumSeq(lines) + SumSeq(vats)
        BY DEF PageTotal
    <2> HIDE DEF lines, vats
    <2>3. SumSeq(lines) = 0 /\ SumSeq(vats) = 0
        BY <2>1, NoSumOfNone
    <2> QED
        BY <2>2, <2>3
<1>4. BillInv
    BY <1>2, <1>3 DEF BillInv
<1> QED
    BY <1>1, <1>4 DEF AmountsInv

LEMMA AmountsInvStep ==
    ASSUME AmountsInv, [AmountsNext]_<<formVars, billVars>> PROVE AmountsInv'
<1>1. CASE TemplateNext /\ UNCHANGED billVars
    BY <1>1, FormStep DEF AmountsInv, BillInv, billVars
<1>2. CASE BillNext /\ UNCHANGED formVars
    BY <1>2, BillStep DEF AmountsInv, FormInv, FormType, PostedInv, SummedInv,
                          formVars
<1>3. CASE UNCHANGED <<formVars, billVars>>
    BY <1>3 DEF AmountsInv, FormInv, FormType, PostedInv, SummedInv, BillInv,
                formVars, billVars
<1> QED
    BY <1>1, <1>2, <1>3 DEF AmountsNext

LEMMA AmountsInvAgrees == AmountsInv => FiguresAgree
BY FormFigures, BillTotals DEF AmountsInv, FormInv, FiguresAgree

(* The figures of the page are those of the server, to the öre: what is    *)
(* sent balances and is what was typed, the dashboard adds what the server *)
(* adds, and the total of an invoice is what will be booked                *)
(* (app.js:216-255, 520-538, 1225-1248, 2036-2059).                        *)
THEOREM FiguresOfPageAgree == AmountsSpec => []FiguresAgree
<1>1. AmountsInit => AmountsInv
    BY AmountsInvInit
<1>2. AmountsInv /\ [AmountsNext]_<<formVars, billVars>> => AmountsInv'
    BY AmountsInvStep
<1>3. AmountsInv => FiguresAgree
    BY AmountsInvAgrees
<1> QED
    BY <1>1, <1>2, <1>3, PTL DEF AmountsSpec
=============================================================================
