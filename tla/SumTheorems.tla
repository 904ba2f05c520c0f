---------------------------- MODULE SumTheorems ----------------------------
(***************************************************************************)
(* Sums over finite sets: the recursion MapThenSumSet and BagCardinality   *)
(* are defined by has a solution, and each solution has whole numbers as   *)
(* its values.  The solution is built up by the size of the set, with the  *)
(* least number principle in the place of an induction rule.               *)
(***************************************************************************)
EXTENDS FiniteSetTheorems, WellFoundedInduction, TLAPS

(* One step of the recursion behind MapThenSumSet. *)
SumStep(f, g, s) ==
    IF s = {} THEN 0
    ELSE LET x == CHOOSE x \in s : TRUE IN f[x] + g[s \ {x}]

(* The recursion has a solution on every finite set: it is built up one    *)
(* element at a time.                                                      *)
LEMMA SumExists ==
    ASSUME NEW S, IsFiniteSet(S), NEW f, \A x \in S : f[x] \in Int
    PROVE  \E g \in [SUBSET S -> Int] :
               \A s \in SUBSET S : g[s] = SumStep(f, g, s)
<1> DEFINE UpTo(n) == {s \in SUBSET S : Cardinality(s) <= n}
           Good == {n \in Nat : \E g \in [SUBSET S -> Int] :
                       \A s \in UpTo(n) : g[s] = SumStep(f, g, s)}
<1>1. \A s \in SUBSET S : IsFiniteSet(s) /\ Cardinality(s) \in Nat
    BY FS_Subset, FS_CardinalityType
<1>2. 0 \in Good
    <2> DEFINE g == [s \in SUBSET S |-> 0]
    <2>1. \A s \in UpTo(0) : s = {}
        BY <1>1, FS_EmptySet
    <2>2. g \in [SUBSET S -> Int] /\ \A s \in UpTo(0) : g[s] = SumStep(f, g, s)
        BY <2>1 DEF SumStep
    <2> QED
        BY <2>2
<1>3. ASSUME NEW n \in Good PROVE n + 1 \in Good
    <2>1. n \in Nat
        OBVIOUS
    <2>2. PICK g \in [SUBSET S -> Int] : \A s \in UpTo(n) : g[s] = SumStep(f, g, s)
        OBVIOUS
    <2> DEFINE h == [s \in SUBSET S |-> SumStep(f, g, s)]
    <2>3. h \in [SUBSET S -> Int]
        BY DEF SumStep
    <2>4. ASSUME NEW s \in UpTo(n) PROVE h[s] = g[s]
        BY <2>2
    <2>5. ASSUME NEW s \in UpTo(n + 1) PROVE h[s] = SumStep(f, h, s)
        <3>1. CASE s = {}
            BY <3>1 DEF SumStep
        <3>2. CASE s # {}
            <4> DEFINE x == CHOOSE x \in s : TRUE
            <4>1. x \in s
                BY <3>2
            <4>2. Cardinality(s \ {x}) = Cardinality(s) - 1
                BY <4>1, <1>1, FS_RemoveElement
            <4>3. s \ {x} \in UpTo(n)
                BY <4>2, <1>1, <2>1
            <4>4. h[s \ {x}] = g[s \ {x}]
                BY <4>3, <2>4
            <4>5. h[s] = f[x] + g[s \ {x}]
                BY <3>2 DEF SumStep
            <4>6. SumStep(f, h, s) = f[x] + h[s \ {x}]
                BY <3>2 DEF SumStep
            <4> QED
                BY <4>4, <4>5, <4>6
        <3> QED
            BY <3>1, <3>2
    <2> HIDE DEF h
    <2>6. /\ n + 1 \in Nat
          /\ \E k \in [SUBSET S -> Int] :
                \A s \in UpTo(n + 1) : k[s] = SumStep(f, k, s)
        BY <2>1, <2>3, <2>5
    <2> QED
        BY <2>6
<1> HIDE DEF Good
<1>4. Good = Nat
    <2> SUFFICES ASSUME Nat \ Good # {} PROVE FALSE
        BY DEF Good
    <2>1. PICK m \in Nat \ Good : \A b \in Nat \ Good : ~ (<<b, m>> \in OpToRel(<, Nat))
        BY NatLessThanWellFounded, WFMin
    <2>2. \A b \in Nat \ Good : ~ (b < m)
        BY <2>1 DEF OpToRel
    <2>3. m # 0
        BY <1>2
    <2>4. m - 1 \in Nat /\ m - 1 < m
        BY <2>3
    <2>5. m - 1 \in Good
        BY <2>2, <2>4
    <2>6. m - 1 + 1 \in Good
        BY <2>5, <1>3
    <2> QED
        BY <2>6
<1>5. Cardinality(S) \in Good
    BY <1>4, FS_CardinalityType
<1>6. SUBSET S = UpTo(Cardinality(S))
    BY FS_Subset, FS_CardinalityType
<1> QED
    BY <1>5, <1>6 DEF Good

(* Whatever solves the recursion has whole numbers as its values. *)
LEMMA SumType ==
    ASSUME NEW S, IsFiniteSet(S), NEW f, \A x \in S : f[x] \in Int,
           NEW h, \A s \in SUBSET S : h[s] = SumStep(f, h, s)
    PROVE  \A s \in SUBSET S : h[s] \in Int
<1> DEFINE Bad == {n \in Nat : \E s \in SUBSET S : Cardinality(s) = n /\ h[s] \notin Int}
<1>1. \A s \in SUBSET S : IsFiniteSet(s) /\ Cardinality(s) \in Nat
    BY FS_Subset, FS_CardinalityType
<1>2. SUFFICES ASSUME Bad # {} PROVE FALSE
    BY <1>1
<1>3. PICK m \in Bad : \A b \in Bad : ~ (<<b, m>> \in OpToRel(<, Nat))
    BY <1>2, NatLessThanWellFounded, WFMin
<1>4. \A b \in Bad : ~ (b < m)
    BY <1>3 DEF OpToRel
<1>5. PICK s \in SUBSET S : Cardinality(s) = m /\ h[s] \notin Int
    OBVIOUS
<1>6. CASE s = {}
    BY <1>5, <1>6 DEF SumStep
<1>7. CASE s # {}
    <2> DEFINE x == CHOOSE x \in s : TRUE
    <2>1. x \in s
        BY <1>7
    <2>2. Cardinality(s \ {x}) = m - 1 /\ m \in Nat
        BY <2>1, <1>1, <1>5, FS_RemoveElement
    <2>3. Cardinality(s \ {x}) \in Nat
        BY <1>1
    <2>4. h[s \ {x}] \in Int
        BY <1>4, <2>2, <2>3
    <2>5. h[s] = f[x] + h[s \ {x}]
        BY <1>7 DEF SumStep
    <2>6. f[x] \in Int
        BY <2>1
    <2> QED
        BY <2>4, <2>5, <2>6, <1>5
<1> QED
    BY <1>6, <1>7

(* Over one element, and over two. *)
LEMMA SumOfOne ==
    ASSUME NEW a, NEW f, f[a] \in Int,
           NEW h, \A s \in SUBSET {a} : h[s] = SumStep(f, h, s)
    PROVE  h[{a}] = f[a]
<1>1. h[{}] = 0
    BY DEF SumStep
<1>2. (CHOOSE x \in {a} : TRUE) = a /\ {a} \ {a} = {}
    OBVIOUS
<1>3. h[{a}] = f[a] + h[{}]
    BY <1>2 DEF SumStep
<1> QED
    BY <1>1, <1>3

(* The whole function solves it, and the set is of two elements. *)
SumRule(f, h, S) == \A s \in SUBSET S : h[s] = SumStep(f, h, s)

Pair(S, a, b) == S = {a, b} /\ a # b

LEMMA SumOfTwo ==
    ASSUME NEW f, NEW h, NEW S, SumRule(f, h, S),
           NEW a, NEW b, Pair(S, a, b), f[a] \in Int, f[b] \in Int
    PROVE  h[S] = f[a] + f[b]
<1> SUFFICES a # b => h[{a, b}] = f[a] + f[b]
    BY DEF Pair
<1> HAVE a # b
<1>0. /\ \A s \in SUBSET {a} : h[s] = SumStep(f, h, s)
      /\ \A s \in SUBSET {b} : h[s] = SumStep(f, h, s)
      /\ h[{a, b}] = SumStep(f, h, {a, b})
    BY DEF SumRule, Pair
<1>1. h[{a}] = f[a] /\ h[{b}] = f[b]
    BY <1>0, SumOfOne
<1> DEFINE x == CHOOSE x \in {a, b} : TRUE
<1>2. x = a \/ x = b
    OBVIOUS
<1>3. h[{a, b}] = f[x] + h[{a, b} \ {x}]
    BY <1>0 DEF SumStep
<1> HIDE DEF x
<1>4. x = a => {a, b} \ {x} = {b}
    OBVIOUS
<1>5. x = b => {a, b} \ {x} = {a}
    OBVIOUS
<1>6. CASE x = a
    <2>1. h[{a, b}] = f[a] + h[{b}]
        BY <1>3, <1>4, <1>6
    <2> QED
        BY <2>1, <1>1
<1>7. CASE x = b
    <2>1. h[{a, b}] = f[b] + h[{a}]
        BY <1>3, <1>5, <1>7
    <2> QED
        BY <2>1, <1>1
<1> QED
    BY <1>2, <1>6, <1>7 DEF Pair
=============================================================================
