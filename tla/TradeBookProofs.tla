-------------------------- MODULE TradeBookProofs --------------------------
(***************************************************************************)
(* Proofs about TradeBook, for any documents of any sources, splits, rates *)
(* and windows: what sums and sorted sets are, that fills, trades, lots    *)
(* and positions are what they should be at every step of Reconcile and    *)
(* the ledger, that a figure that is missing has its reason, that no share *)
(* is lost or arrives twice, that what is shown adds up to the cash, and   *)
(* that later documents leave past sales be.                               *)
(* The functions of the model are recursive; each gets its value from a    *)
(* lemma that such a function exists and one that its values are as its    *)
(* steps are.                                                              *)
(***************************************************************************)
EXTENDS TradeBook, FiniteSetTheorems, WellFoundedInduction, SequenceTheorems, TLAPS

-----------------------------------------------------------------------------
(* What the recursive functions of the model rest on: induction over the   *)
(* numbers up to a bound and over the subsets of a finite set, and that a  *)
(* function defined by the one or the other exists.                        *)
LEMMA LeastNat ==
    ASSUME NEW S \in SUBSET Nat, S # {}
    PROVE  \E n \in S : \A m \in S : n <= m
<1>1. PICK n \in S : \A m \in S : <<m, n>> \notin OpToRel(<, Nat)
  BY WFMin, NatLessThanWellFounded, Zenon
<1>2. \A m \in S : ~(m < n)
  BY <1>1, Zenon DEF OpToRel
<1> QED BY <1>2

LEMMA CountUp ==
    ASSUME NEW N \in Nat, NEW G, 0 \in G, \A k \in 1..N : k - 1 \in G => k \in G
    PROVE  \A k \in 0..N : k \in G
<1> DEFINE Bad == {k \in 0..N : k \notin G}
<1>1. SUFFICES ASSUME Bad # {} PROVE FALSE
  OBVIOUS
<1>2. PICK n \in Bad : \A m \in Bad : n <= m
  <2>1. Bad \in SUBSET Nat
    OBVIOUS
  <2> HIDE DEF Bad
  <2> QED BY <1>1, <2>1, LeastNat
<1>3. n \in 1..N /\ n - 1 \in 0..N /\ n - 1 \notin Bad
  BY <1>2
<1> QED BY <1>3

Counts(o, N, T, v, step) ==
    o \in [0..N -> T] /\ o[0] = v /\ \A k \in 1..N : o[k] = step[<<k, o[k - 1]>>]

LEMMA StepsExist ==
    ASSUME NEW N \in Nat, NEW T, NEW v \in T, NEW step \in [(1..N) \X T -> T]
    PROVE  \E o : Counts(o, N, T, v, step)
<1> DEFINE Upto(o, n) == \A k \in 0..n : o[k] = IF k = 0 THEN v ELSE step[<<k, o[k - 1]>>]
           G == {n \in 0..N : \E o \in [0..n -> T] : Upto(o, n)}
<1>1. 0 \in G
  <2> DEFINE o == [k \in 0..0 |-> v]
  <2>1. o \in [0..0 -> T] /\ Upto(o, 0)
    OBVIOUS
  <2> HIDE DEF o, Upto
  <2> QED BY <2>1
<1>2. ASSUME NEW n \in 1..N, n - 1 \in G PROVE n \in G
  <2>1. PICK o \in [0..(n - 1) -> T] : Upto(o, n - 1)
    BY <1>2
  <2> DEFINE p == [k \in 0..n |-> IF k = n THEN step[<<n, o[n - 1]>>] ELSE o[k]]
  <2>2. p \in [0..n -> T]
    OBVIOUS
  <2>3. ASSUME NEW k \in 0..n PROVE p[k] = IF k = 0 THEN v ELSE step[<<k, p[k - 1]>>]
    <3>1. CASE k = n
      <4>1. n # 0 /\ n - 1 \in 0..n /\ n - 1 # n
        OBVIOUS
      <4> QED BY <3>1, <4>1
    <3>2. CASE k # n
      <4>1. k \in 0..(n - 1) /\ p[k] = o[k]
        BY <3>2
      <4>2. k # 0 => k - 1 \in 0..n /\ k - 1 # n
        BY <3>2
      <4>3. o[k] = IF k = 0 THEN v ELSE step[<<k, o[k - 1]>>]
        BY <4>1, <2>1
      <4> QED BY <4>1, <4>2, <4>3
    <3> QED BY <3>1, <3>2
  <2>4. Upto(p, n)
    BY <2>3
  <2> HIDE DEF p, Upto
  <2> QED BY <2>2, <2>4
<1>3. N \in G
  <2> HIDE DEF G
  <2> QED BY <1>1, <1>2, CountUp
<1>4. PICK o \in [0..N -> T] : Upto(o, N)
  BY <1>3
<1>5. 0 \in 0..N /\ \A k \in 1..N : k \in 0..N /\ k # 0
  OBVIOUS
<1> QED BY <1>4, <1>5 DEF Counts

LEMMA SubsetsUp ==
    ASSUME NEW S, IsFiniteSet(S), NEW G,
           \A R \in SUBSET S : (\A Q \in SUBSET R : Q # R => Q \in G) => R \in G
    PROVE  \A R \in SUBSET S : R \in G
<1> DEFINE Bad == {R \in SUBSET S : R \notin G}
           Sizes == {Cardinality(R) : R \in Bad}
<1>1. SUFFICES ASSUME Bad # {} PROVE FALSE
  OBVIOUS
<1>2. \A R \in SUBSET S : IsFiniteSet(R) /\ Cardinality(R) \in Nat
  BY FS_Subset, FS_CardinalityType
<1>3. PICK n \in Sizes : \A m \in Sizes : n <= m
  <2>1. Sizes \in SUBSET Nat /\ Sizes # {}
    BY <1>1, <1>2
  <2> HIDE DEF Sizes
  <2> QED BY <2>1, LeastNat
<1>4. PICK R \in Bad : n = Cardinality(R)
  OBVIOUS
<1>5. ASSUME NEW Q \in SUBSET R, Q # R PROVE Q \in G
  <2>1. Cardinality(Q) < Cardinality(R)
    BY <1>2, <1>5, FS_Subset
  <2>2. Q \in SUBSET S /\ Cardinality(Q) \in Nat /\ Cardinality(R) \in Nat
    BY <1>2
  <2> QED BY <2>1, <2>2, <1>3, <1>4
<1> QED BY <1>5

Descends(o, S, T, v, pred, step) ==
    /\ o \in [SUBSET S -> T] /\ o[{}] = v
    /\ \A R \in SUBSET S : R # {} => o[R] = step[<<R, o[pred[R]]>>]

LEMMA SubsetStepsExist ==
    ASSUME NEW S, IsFiniteSet(S), NEW T, NEW v \in T, NEW pred \in [SUBSET S -> SUBSET S],
           \A R \in SUBSET S : R # {} => pred[R] \subseteq R /\ pred[R] # R,
           NEW step \in [(SUBSET S) \X T -> T]
    PROVE  \E o : Descends(o, S, T, v, pred, step)
<1> DEFINE Upto(n) == {R \in SUBSET S : Cardinality(R) <= n}
           Meets(o, n) == \A R \in Upto(n) : o[R] = IF R = {} THEN v ELSE step[<<R, o[pred[R]]>>]
           N == Cardinality(S)
           G == {n \in 0..N : \E o \in [Upto(n) -> T] : Meets(o, n)}
<1>1. \A R \in SUBSET S : IsFiniteSet(R) /\ Cardinality(R) \in 0..N
  BY FS_Subset, FS_CardinalityType
<1>2. \A R \in SUBSET S : R # {} => Cardinality(pred[R]) < Cardinality(R)
  BY <1>1, FS_Subset
<1>3. 0 \in G
  <2>1. Upto(0) = {{}}
    BY <1>1, FS_EmptySet
  <2> DEFINE o == [R \in Upto(0) |-> v]
  <2>2. o \in [Upto(0) -> T] /\ Meets(o, 0)
    BY <2>1
  <2>3. 0 \in 0..N
    BY FS_CardinalityType
  <2> QED BY <2>2, <2>3
<1>4. ASSUME NEW n \in 1..N, n - 1 \in G PROVE n \in G
  <2>1. PICK o \in [Upto(n - 1) -> T] : Meets(o, n - 1)
    BY <1>4
  <2> DEFINE p == [R \in Upto(n) |-> IF R = {} THEN v ELSE step[<<R, o[pred[R]]>>]]
  <2>2. \A R \in Upto(n) : R # {} => pred[R] \in Upto(n - 1)
    BY <1>1, <1>2
  <2>3. p \in [Upto(n) -> T]
    BY <2>2
  <2>4. \A R \in Upto(n - 1) : R \in Upto(n) /\ p[R] = o[R]
    <3>1. \A R \in Upto(n - 1) : R \in Upto(n)
      BY <1>1
    <3> QED BY <3>1, <2>1
  <2>5. Meets(p, n)
    BY <2>2, <2>4
  <2>6. n \in 0..N
    BY FS_CardinalityType
  <2> HIDE DEF p, Meets, Upto, N
  <2> QED BY <2>3, <2>5, <2>6
<1>5. N \in Nat
  BY FS_CardinalityType
<1>6. N \in G
  <2> HIDE DEF G, N
  <2> QED BY <1>3, <1>4, <1>5, CountUp
<1>7. Upto(N) = SUBSET S
  BY <1>1
<1>8. PICK o \in [SUBSET S -> T] : Meets(o, N)
  BY <1>6, <1>7
<1>9. \A R \in SUBSET S : o[R] = IF R = {} THEN v ELSE step[<<R, o[pred[R]]>>]
  BY <1>7, <1>8
<1> QED BY <1>8, <1>9 DEF Descends

-----------------------------------------------------------------------------
(* An amount, known or not; what sums of amounts are, and when they are    *)
(* not known.                                                              *)
LEMMA AmountOps ==
    ASSUME NEW a \in Decimal, NEW b \in Decimal
    PROVE  /\ SumOf(a, b) \in Decimal /\ (SumOf(a, b) = None <=> a = None \/ b = None)
           /\ Diff(a, b) \in Decimal /\ (Diff(a, b) = None <=> a = None \/ b = None)
           /\ Mul(a, b) \in Decimal /\ (Mul(a, b) = None <=> a = None \/ b = None)
           /\ OrZero(a) \in Int
BY NoneAssumption DEF Decimal, SumOf, Diff, Mul, OrZero

LEMMA ShareType ==
    ASSUME NEW a \in Decimal, NEW p \in Int, NEW q \in Int, q > 0
    PROVE  Share(a, p, q) \in Decimal
<1>1. \A n \in Int : n * p \in Int
  OBVIOUS
<1>2. \A n \in Int : n \div q \in Int
  OBVIOUS
<1> QED BY <1>1, <1>2 DEF Share, Decimal

Sums(over, f, n) == over[0] = 0 /\ \A k \in 1..n : over[k] = SumOf(over[k - 1], f[k])

LEMMA SumToSums ==
    ASSUME NEW n \in Nat, NEW f, \A k \in 1..n : f[k] \in Decimal
    PROVE  \E over : Sums(over, f, n) /\ SumTo(f, n) = over[n]
<1> DEFINE Rec(o) == o = [k \in 0..n |-> IF k = 0 THEN 0 ELSE SumOf(o[k - 1], f[k])]
           step == [p \in (1..n) \X Decimal |-> SumOf(p[2], f[p[1]])]
           over == CHOOSE o : Rec(o)
<1>1. 0 \in Decimal
  BY DEF Decimal
<1>2. step \in [(1..n) \X Decimal -> Decimal]
  BY AmountOps
<1>3. PICK o : Counts(o, n, Decimal, 0, step)
  <2> HIDE DEF step
  <2> QED BY <1>1, <1>2, StepsExist
<1>4. Rec(o)
  <2>1. \A k \in 1..n : k - 1 \in 0..n /\ step[<<k, o[k - 1]>>] = SumOf(o[k - 1], f[k])
    BY <1>3 DEF Counts
  <2> HIDE DEF step
  <2>2. o = [k \in 0..n |-> o[k]]
    BY <1>3 DEF Counts
  <2>3. \A k \in 0..n : k # 0 => k \in 1..n
    OBVIOUS
  <2>4. \A k \in 0..n : o[k] = IF k = 0 THEN 0 ELSE SumOf(o[k - 1], f[k])
    BY <1>3, <2>1, <2>3 DEF Counts
  <2> QED BY <2>2, <2>4
<1>5. Rec(over)
  BY <1>4
<1>6. SumTo(f, n) = over[n]
  BY DEF SumTo
<1> HIDE DEF over
<1>7. Sums(over, f, n)
  BY <1>5 DEF Sums
<1> QED BY <1>6, <1>7

LEMMA SumsAgree ==
    ASSUME NEW n \in Nat, NEW f, NEW g, \A k \in 1..n : f[k] = g[k],
           NEW o, Sums(o, f, n), NEW p, Sums(p, g, n)
    PROVE  o[n] = p[n]
<1> DEFINE G == {k \in 0..n : o[k] = p[k]}
<1>1. 0 \in G
  BY DEF Sums
<1>2. ASSUME NEW k \in 1..n, k - 1 \in G PROVE k \in G
  BY <1>2 DEF Sums
<1>3. n \in 0..n
  OBVIOUS
<1>4. n \in G
  <2> HIDE DEF G
  <2> QED BY <1>1, <1>2, <1>3, CountUp
<1> QED BY <1>4

(* A sum takes what is next to what it is of those before, and depends on  *)
(* what it is of alone.                                                    *)
LEMMA SumToStep ==
    ASSUME NEW n \in Nat, NEW f, \A k \in 1..n : f[k] \in Decimal
    PROVE  SumTo(f, 0) = 0 /\ (n # 0 => SumTo(f, n) = SumOf(SumTo(f, n - 1), f[n]))
<1>1. SumTo(f, 0) = 0
  <2>1. PICK o : Sums(o, f, 0) /\ SumTo(f, 0) = o[0]
    BY SumToSums
  <2> QED BY <2>1 DEF Sums
<1>2. CASE n # 0
  <2>1. PICK o : Sums(o, f, n) /\ SumTo(f, n) = o[n]
    BY SumToSums
  <2>2. n - 1 \in Nat /\ \A k \in 1..(n - 1) : f[k] \in Decimal
    BY <1>2
  <2>3. PICK p : Sums(p, f, n - 1) /\ SumTo(f, n - 1) = p[n - 1]
    BY <2>2, SumToSums
  <2>4. Sums(o, f, n - 1)
    BY <2>1 DEF Sums
  <2>5. o[n - 1] = p[n - 1]
    BY <2>2, <2>3, <2>4, SumsAgree
  <2>6. o[n] = SumOf(o[n - 1], f[n])
    BY <1>2, <2>1 DEF Sums
  <2> QED BY <1>1, <2>1, <2>3, <2>5, <2>6
<1> QED BY <1>1, <1>2

LEMMA SumToSame ==
    ASSUME NEW n \in Nat, NEW f, NEW g, \A k \in 1..n : f[k] = g[k] /\ f[k] \in Decimal
    PROVE  SumTo(f, n) = SumTo(g, n)
<1>1. PICK o : Sums(o, f, n) /\ SumTo(f, n) = o[n]
  BY SumToSums
<1>2. PICK p : Sums(p, g, n) /\ SumTo(g, n) = p[n]
  <2>1. \A k \in 1..n : g[k] \in Decimal
    OBVIOUS
  <2> QED BY <2>1, SumToSums
<1> QED BY <1>1, <1>2, SumsAgree

LEMMA SumToIs ==
    ASSUME NEW n \in Nat, NEW f, \A k \in 1..n : f[k] \in Decimal
    PROVE  /\ SumTo(f, n) \in Decimal
           /\ SumTo(f, n) = None => \E k \in 1..n : f[k] = None
<1>1. PICK over : Sums(over, f, n) /\ SumTo(f, n) = over[n]
  BY SumToSums
<1> DEFINE G == {k \in 0..n : /\ over[k] \in Decimal
                              /\ over[k] = None => \E j \in 1..n : f[j] = None}
<1>2. 0 \in G
  BY <1>1, NoneAssumption DEF Sums, Decimal
<1>3. ASSUME NEW k \in 1..n, k - 1 \in G PROVE k \in G
  <2>1. over[k] = SumOf(over[k - 1], f[k])
    BY <1>1 DEF Sums
  <2> QED BY <1>3, <2>1, AmountOps
<1>4. n \in G
  <2>1. n \in 0..n
    OBVIOUS
  <2> HIDE DEF G
  <2> QED BY <1>2, <1>3, <2>1, CountUp
<1> QED BY <1>1, <1>4

(* Members of a set are added up in some order, which makes no difference. *)
OverSums(o, f) ==
    /\ o \in [SUBSET DOMAIN f -> Decimal]
    /\ \A R \in SUBSET DOMAIN f :
           o[R] = IF R = {} THEN 0 ELSE SumOf(f[CHOOSE y \in R : TRUE], o[R \ {CHOOSE y \in R : TRUE}])

LEMMA SumOverSums ==
    ASSUME NEW f, IsFiniteSet(DOMAIN f), \A x \in DOMAIN f : f[x] \in Decimal
    PROVE  \E o : OverSums(o, f) /\ SumOver(f) = o[DOMAIN f]
<1> DEFINE S == DOMAIN f
           One(R) == CHOOSE y \in R : TRUE
           Rec(o) == o = [R \in SUBSET S |-> IF R = {} THEN 0 ELSE SumOf(f[One(R)], o[R \ {One(R)}])]
           pred == [R \in SUBSET S |-> R \ {One(R)}]
           step == [p \in (SUBSET S) \X Decimal |-> IF p[1] = {} THEN 0 ELSE SumOf(f[One(p[1])], p[2])]
           over == CHOOSE o : Rec(o)
           G == {R \in SUBSET S : over[R] \in Decimal}
<1>1. 0 \in Decimal /\ 0 # None
  BY NoneAssumption DEF Decimal
<1>2. \A R \in SUBSET S : R # {} => One(R) \in R /\ R \ {One(R)} \subseteq R /\ R \ {One(R)} # R
  OBVIOUS
<1>3. step \in [(SUBSET S) \X Decimal -> Decimal]
  <2>1. \A R \in SUBSET S : R # {} => f[One(R)] \in Decimal
    BY <1>2
  <2> HIDE DEF One
  <2> QED BY <1>1, <2>1, AmountOps
<1>4. PICK o : Descends(o, S, Decimal, 0, pred, step)
  <2>1. pred \in [SUBSET S -> SUBSET S] /\ \A R \in SUBSET S : R # {} => pred[R] \subseteq R /\ pred[R] # R
    BY <1>2
  <2> HIDE DEF step, pred, S
  <2>2. IsFiniteSet(S)
    BY DEF S
  <2> QED BY <1>1, <1>3, <2>1, <2>2, SubsetStepsExist
<1>5. Rec(o)
  <2>1. ASSUME NEW R \in SUBSET S, R # {}
        PROVE  step[<<R, o[pred[R]]>>] = SumOf(f[One(R)], o[R \ {One(R)}])
    <3>1. pred[R] = R \ {One(R)} /\ o[pred[R]] \in Decimal
      BY <1>4 DEF Descends
    <3> HIDE DEF One, pred
    <3> QED BY <2>1, <3>1
  <2> HIDE DEF step, pred, One
  <2>2. o = [R \in SUBSET S |-> o[R]]
    BY <1>4 DEF Descends
  <2>3. \A R \in SUBSET S : o[R] = IF R = {} THEN 0 ELSE SumOf(f[One(R)], o[R \ {One(R)}])
    BY <1>4, <2>1 DEF Descends
  <2> QED BY <2>2, <2>3
<1>6. Rec(over)
  BY <1>5
<1>7. ASSUME NEW R \in SUBSET S, \A Q \in SUBSET R : Q # R => Q \in G PROVE R \in G
  <2>1. CASE R = {}
    BY <1>1, <1>6, <2>1
  <2>2. CASE R # {}
    <3>1. over[R] = SumOf(f[One(R)], over[R \ {One(R)}]) /\ R \ {One(R)} \in G /\ f[One(R)] \in Decimal
      <4>1. over[R] = SumOf(f[One(R)], over[R \ {One(R)}])
        BY <1>6, <2>2
      <4> HIDE DEF over, G, One
      <4> QED BY <1>2, <1>7, <2>2, <4>1
    <3>2. One(R) \in S
      BY <1>2, <2>2
    <3> HIDE DEF over, One
    <3> QED BY <3>1, <3>2, AmountOps
  <2> QED BY <2>1, <2>2
<1>8. \A R \in SUBSET S : R \in G
  <2> HIDE DEF G
  <2>1. IsFiniteSet(S)
    OBVIOUS
  <2> QED BY <1>7, <2>1, SubsetsUp
<1>9. over = [R \in SUBSET S |-> over[R]] /\ \A R \in SUBSET S : over[R] \in Decimal
  <2>1. \A R \in SUBSET S : over[R] \in Decimal
    <3> HIDE DEF over
    <3> QED BY <1>8
  <2> HIDE DEF over, One
  <2> QED BY <1>6, <2>1
<1>10. OverSums(over, f)
  <2>1. \A R \in SUBSET S : over[R] = IF R = {} THEN 0 ELSE SumOf(f[One(R)], over[R \ {One(R)}])
    <3> HIDE DEF over, One
    <3> QED BY <1>6
  <2>2. over \in [SUBSET S -> Decimal]
    <3> HIDE DEF over
    <3> QED BY <1>9
  <2> HIDE DEF over
  <2> QED BY <2>1, <2>2 DEF OverSums
<1>11. SumOver(f) = over[S]
  BY DEF SumOver
<1> HIDE DEF over
<1> QED BY <1>10, <1>11

LEMMA SumOverIs ==
    ASSUME NEW f, IsFiniteSet(DOMAIN f), \A x \in DOMAIN f : f[x] \in Decimal
    PROVE  /\ SumOver(f) \in Decimal
           /\ SumOver(f) = None => \E x \in DOMAIN f : f[x] = None
<1>1. PICK o : OverSums(o, f) /\ SumOver(f) = o[DOMAIN f]
  BY SumOverSums
<1> DEFINE G == {R \in SUBSET DOMAIN f : o[R] = None => \E x \in DOMAIN f : f[x] = None}
           One(R) == CHOOSE y \in R : TRUE
<1>2. ASSUME NEW R \in SUBSET DOMAIN f, \A Q \in SUBSET R : Q # R => Q \in G PROVE R \in G
  <2>1. CASE R = {}
    BY <1>1, <2>1, NoneAssumption DEF OverSums
  <2>2. CASE R # {}
    <3>1. One(R) \in R /\ R \ {One(R)} \in SUBSET R /\ R \ {One(R)} # R
      BY <2>2
    <3>2. o[R] = SumOf(f[One(R)], o[R \ {One(R)}])
      BY <1>1, <2>2 DEF OverSums
    <3> HIDE DEF One
    <3>3. f[One(R)] \in Decimal /\ o[R \ {One(R)}] \in Decimal
      BY <1>1, <3>1 DEF OverSums
    <3>4. R \ {One(R)} \in G
      <4> HIDE DEF G
      <4> QED BY <1>2, <3>1
    <3>5. o[R] = None => f[One(R)] = None \/ o[R \ {One(R)}] = None
      BY <3>2, <3>3, AmountOps
    <3> QED BY <3>1, <3>4, <3>5
  <2> QED BY <2>1, <2>2
<1>3. \A R \in SUBSET DOMAIN f : R \in G
  <2> HIDE DEF G
  <2> QED BY <1>2, SubsetsUp
<1> QED BY <1>1, <1>3 DEF OverSums

On(f, R) == [x \in R |-> f[x]]

LEMMA OverSumsAgree ==
    ASSUME NEW f, NEW g, NEW o, OverSums(o, f), NEW p, OverSums(p, g),
           NEW S, IsFiniteSet(S), S \subseteq DOMAIN f, S \subseteq DOMAIN g, \A x \in S : f[x] = g[x]
    PROVE  o[S] = p[S]
<1> DEFINE G == {R \in SUBSET S : o[R] = p[R]}
           One(R) == CHOOSE y \in R : TRUE
<1>1. ASSUME NEW R \in SUBSET S, \A Q \in SUBSET R : Q # R => Q \in G PROVE R \in G
  <2>1. CASE R = {}
    BY <2>1 DEF OverSums
  <2>2. CASE R # {}
    <3>1. One(R) \in R /\ R \ {One(R)} \in SUBSET R /\ R \ {One(R)} # R
      BY <2>2
    <3>2. R \in SUBSET DOMAIN f /\ R \in SUBSET DOMAIN g
      OBVIOUS
    <3>3. o[R] = SumOf(f[One(R)], o[R \ {One(R)}]) /\ p[R] = SumOf(g[One(R)], p[R \ {One(R)}])
      BY <2>2, <3>2 DEF OverSums
    <3> HIDE DEF One
    <3>4. R \ {One(R)} \in G
      <4> HIDE DEF G
      <4> QED BY <1>1, <3>1
    <3> QED BY <3>1, <3>3, <3>4
  <2> QED BY <2>1, <2>2
<1>2. \A R \in SUBSET S : R \in G
  <2> HIDE DEF G
  <2> QED BY <1>1, SubsetsUp
<1> QED BY <1>2

LEMMA SumOverSame ==
    ASSUME NEW f, NEW g, DOMAIN f = DOMAIN g, IsFiniteSet(DOMAIN f),
           \A x \in DOMAIN f : f[x] \in Decimal /\ f[x] = g[x]
    PROVE  SumOver(f) = SumOver(g)
<1>1. PICK o : OverSums(o, f) /\ SumOver(f) = o[DOMAIN f]
  BY SumOverSums
<1>2. PICK p : OverSums(p, g) /\ SumOver(g) = p[DOMAIN g]
  <2>1. \A x \in DOMAIN g : g[x] \in Decimal
    OBVIOUS
  <2> QED BY <2>1, SumOverSums
<1> QED BY <1>1, <1>2, OverSumsAgree

(* The members may be added in any order: any one can be taken off first.  *)
LEMMA SumOverPick ==
    ASSUME NEW f, IsFiniteSet(DOMAIN f), \A x \in DOMAIN f : f[x] \in Decimal, NEW x \in DOMAIN f
    PROVE  SumOver(f) = SumOf(f[x], SumOver(On(f, DOMAIN f \ {x})))
<1>1. PICK o : OverSums(o, f) /\ SumOver(f) = o[DOMAIN f]
  BY SumOverSums
<1> DEFINE G == {R \in SUBSET DOMAIN f : \A y \in R : o[R] = SumOf(f[y], o[R \ {y}])}
           One(R) == CHOOSE y \in R : TRUE
<1>2. ASSUME NEW R \in SUBSET DOMAIN f, \A Q \in SUBSET R : Q # R => Q \in G PROVE R \in G
  <2> SUFFICES ASSUME NEW y \in R PROVE o[R] = SumOf(f[y], o[R \ {y}])
    OBVIOUS
  <2> DEFINE z == One(R)
             Q == (R \ {z}) \ {y}
  <2>1. z \in R /\ o[R] = SumOf(f[z], o[R \ {z}])
    BY <1>1 DEF OverSums
  <2> HIDE DEF z
  <2>2. CASE y = z
    BY <2>1, <2>2
  <2>3. CASE y # z
    <3>1. R \ {z} \in G /\ R \ {y} \in G
      <4>1. /\ R \ {z} \in SUBSET R /\ R \ {z} # R
            /\ R \ {y} \in SUBSET R /\ R \ {y} # R
        BY <2>1
      <4> HIDE DEF G
      <4> QED BY <1>2, <4>1
    <3>2. o[R \ {z}] = SumOf(f[y], o[Q])
      BY <2>3, <3>1
    <3>3. o[R \ {y}] = SumOf(f[z], o[Q])
      <4>1. Q = (R \ {y}) \ {z} /\ z \in R \ {y}
        BY <2>1, <2>3
      <4> QED BY <3>1, <4>1
    <3>4. f[y] \in Decimal /\ f[z] \in Decimal /\ o[Q] \in Decimal
      BY <1>1, <2>1 DEF OverSums
    <3> HIDE DEF Q
    <3>5. SumOf(f[z], SumOf(f[y], o[Q])) = SumOf(f[y], SumOf(f[z], o[Q]))
      BY <3>4, NoneAssumption DEF SumOf, Decimal
    <3> QED BY <2>1, <3>2, <3>3, <3>5
  <2> QED BY <2>2, <2>3
<1>3. \A R \in SUBSET DOMAIN f : R \in G
  <2> HIDE DEF G
  <2> QED BY <1>2, SubsetsUp
<1> DEFINE R == DOMAIN f \ {x}
           g == On(f, R)
<1>4. SumOver(f) = SumOf(f[x], o[R])
  BY <1>1, <1>3
<1>5. DOMAIN g = R /\ IsFiniteSet(R) /\ \A y \in R : g[y] = f[y] /\ g[y] \in Decimal
  BY FS_Subset DEF On
<1> HIDE DEF g
<1>6. PICK p : OverSums(p, g) /\ SumOver(g) = p[DOMAIN g]
  BY <1>5, SumOverSums
<1>7. o[R] = p[R]
  BY <1>1, <1>5, <1>6, OverSumsAgree
<1> QED BY <1>4, <1>5, <1>6, <1>7 DEF g

LEMMA GrowsUp ==
    ASSUME NEW S, IsFiniteSet(S), NEW G, {} \in G,
           \A R \in SUBSET S : \A x \in S \ R : R \in G => R \cup {x} \in G
    PROVE  S \in G
<1>1. ASSUME NEW R \in SUBSET S, \A Q \in SUBSET R : Q # R => Q \in G PROVE R \in G
  <2>1. CASE R # {}
    <3>1. PICK x \in R : TRUE
      BY <2>1
    <3> DEFINE Q == R \ {x}
    <3>2. Q \in SUBSET R /\ Q # R /\ Q \in SUBSET S /\ x \in S \ Q /\ Q \cup {x} = R
      OBVIOUS
    <3> HIDE DEF Q
    <3>3. Q \in G
      BY <1>1, <3>2
    <3> QED BY <3>2, <3>3
  <2> QED BY <2>1
<1>2. \A R \in SUBSET S : R \in G
  BY <1>1, SubsetsUp
<1> QED BY <1>2

LEMMA SumOverNone == ASSUME NEW f PROVE SumOver(On(f, {})) = 0
<1> DEFINE e == On(f, {})
<1>1. DOMAIN e = {}
  BY DEF On
<1> HIDE DEF e
<1>2. PICK o : OverSums(o, e) /\ SumOver(e) = o[{}]
  BY <1>1, FS_EmptySet, SumOverSums
<1> QED BY <1>2 DEF OverSums, e

LEMMA SumOverAdd ==
    ASSUME NEW f, NEW R, IsFiniteSet(R), NEW x, x \notin R, \A y \in R \cup {x} : f[y] \in Decimal
    PROVE  /\ SumOver(On(f, {})) = 0
           /\ SumOver(On(f, R)) \in Decimal
           /\ SumOver(On(f, R \cup {x})) = SumOf(f[x], SumOver(On(f, R)))
<1>1. SumOver(On(f, {})) = 0
  BY SumOverNone
<1> DEFINE g == On(f, R \cup {x})
<1>2. SumOver(On(f, R)) \in Decimal
  <2> DEFINE h == On(f, R)
  <2>1. DOMAIN h = R /\ \A y \in R : h[y] \in Decimal
    BY DEF On
  <2> HIDE DEF h
  <2> QED BY <2>1, SumOverIs DEF h
<1>3. DOMAIN g = R \cup {x} /\ g[x] = f[x] /\ \A y \in DOMAIN g : g[y] \in Decimal
  BY DEF On
<1>4. On(g, DOMAIN g \ {x}) = On(f, R)
  BY DEF On
<1>5. IsFiniteSet(DOMAIN g) /\ x \in DOMAIN g
  BY <1>3, FS_AddElement
<1> HIDE DEF g
<1>6. SumOver(g) = SumOf(g[x], SumOver(On(g, DOMAIN g \ {x})))
  BY <1>3, <1>5, SumOverPick
<1> QED BY <1>1, <1>2, <1>3, <1>4, <1>6 DEF g

LEMMA SumOverInt ==
    ASSUME NEW f, NEW R, IsFiniteSet(R), \A y \in R : f[y] \in Int
    PROVE  SumOver(On(f, R)) \in Int
<1> DEFINE h == On(f, R)
<1>1. DOMAIN h = R /\ \A y \in R : h[y] \in Decimal /\ h[y] # None
  BY NoneAssumption DEF On, Decimal
<1> HIDE DEF h
<1>2. SumOver(h) \in Decimal /\ SumOver(h) # None
  BY <1>1, SumOverIs
<1> QED BY <1>2 DEF h, Decimal

(* Named anew, one by one, what is summed is the same.                     *)
LEMMA SumOverMoved ==
    ASSUME NEW S, IsFiniteSet(S), NEW h, \A i, j \in S : h[i] = h[j] => i = j,
           NEW g, NEW f, \A i \in S : f[i] = g[h[i]] /\ f[i] \in Decimal
    PROVE  SumOver(On(f, S)) = SumOver(On(g, {h[i] : i \in S}))
<1> DEFINE To(R) == {h[i] : i \in R}
           G == {R \in SUBSET S : SumOver(On(f, R)) = SumOver(On(g, To(R)))}
<1>1. \A R \in SUBSET S : IsFiniteSet(R) /\ IsFiniteSet(To(R))
  <2> SUFFICES ASSUME NEW R \in SUBSET S PROVE IsFiniteSet(R) /\ IsFiniteSet(To(R))
    OBVIOUS
  <2> DEFINE m == [i \in R |-> h[i]]
  <2>1. m \in Surjection(R, To(R))
    BY DEF Surjection
  <2> HIDE DEF m, To
  <2> QED BY <2>1, FS_Subset, FS_Surjection
<1>2. {} \in G
  <2>1. On(f, {}) = On(g, To({}))
    BY DEF On
  <2> QED BY <2>1
<1>3. ASSUME NEW R \in SUBSET S, NEW x \in S \ R, R \in G PROVE R \cup {x} \in G
  <2>1. To(R \cup {x}) = To(R) \cup {h[x]} /\ h[x] \notin To(R)
    OBVIOUS
  <2>2. \A y \in To(R) \cup {h[x]} : g[y] \in Decimal
    OBVIOUS
  <2>3. SumOver(On(f, R)) = SumOver(On(g, To(R)))
    BY <1>3
  <2> HIDE DEF To
  <2>4. SumOver(On(f, R \cup {x})) = SumOf(f[x], SumOver(On(f, R)))
    BY <1>1, SumOverAdd
  <2>5. SumOver(On(g, To(R) \cup {h[x]})) = SumOf(g[h[x]], SumOver(On(g, To(R))))
    BY <1>1, <2>1, <2>2, SumOverAdd
  <2>6. SumOver(On(f, R \cup {x})) = SumOver(On(g, To(R \cup {x})))
    BY <2>1, <2>3, <2>4, <2>5
  <2> QED BY <2>6
<1>4. S \in G
  <2> HIDE DEF G
  <2> QED BY <1>2, <1>3, GrowsUp
<1> QED BY <1>4

LEMMA SumToOver ==
    ASSUME NEW n \in Nat, NEW f, \A k \in 1..n : f[k] \in Decimal
    PROVE  SumTo(f, n) = SumOver(On(f, 1..n))
<1> DEFINE G == {k \in 0..n : SumTo(f, k) = SumOver(On(f, 1..k))}
<1>1. 0 \in G
  <2>1. SumTo(f, 0) = 0
    BY SumToStep
  <2>2. 1..0 = {}
    OBVIOUS
  <2>3. SumOver(On(f, {})) = 0
    BY SumOverNone
  <2> QED BY <2>1, <2>2, <2>3
<1>2. ASSUME NEW k \in 1..n, k - 1 \in G PROVE k \in G
  <2>1. SumTo(f, k) = SumOf(SumTo(f, k - 1), f[k])
    <3>1. k \in Nat /\ k # 0 /\ \A j \in 1..k : f[j] \in Decimal
      OBVIOUS
    <3> QED BY <3>1, SumToStep
  <2>2. 1..k = (1..(k - 1)) \cup {k} /\ k \notin 1..(k - 1)
    OBVIOUS
  <2>4. IsFiniteSet(1..(k - 1))
    BY FS_Interval
  <2>3. SumOver(On(f, 1..k)) = SumOf(f[k], SumOver(On(f, 1..(k - 1))))
    <3>1. \A y \in (1..(k - 1)) \cup {k} : f[y] \in Decimal
      BY <2>2
    <3> QED BY <2>2, <2>4, <3>1, SumOverAdd
  <2>5. SumTo(f, k - 1) = SumOver(On(f, 1..(k - 1))) /\ k \in 0..n
    BY <1>2
  <2>6. SumTo(f, k - 1) \in Decimal /\ f[k] \in Decimal
    <3>1. k - 1 \in Nat /\ \A j \in 1..(k - 1) : f[j] \in Decimal
      OBVIOUS
    <3> QED BY <3>1, SumToIs
  <2>7. SumOf(SumTo(f, k - 1), f[k]) = SumOf(f[k], SumTo(f, k - 1))
    BY <2>6 DEF SumOf, Decimal
  <2> QED BY <2>1, <2>2, <2>3, <2>5, <2>7
<1>3. n \in 0..n
  OBVIOUS
<1>4. n \in G
  <2> HIDE DEF G
  <2> QED BY <1>1, <1>2, <1>3, CountUp
<1> QED BY <1>4

LEMMA SumOverTimes ==
    ASSUME NEW S, IsFiniteSet(S), NEW c \in Int, NEW f, NEW g, \A x \in S : f[x] \in Int /\ g[x] = f[x] * c
    PROVE  SumOver(On(g, S)) = SumOver(On(f, S)) * c
<1> DEFINE G == {R \in SUBSET S : SumOver(On(g, R)) = SumOver(On(f, R)) * c}
<1>1. \A x \in S : g[x] \in Int
  OBVIOUS
<1>2. \A R \in SUBSET S : IsFiniteSet(R)
  BY FS_Subset
<1>3. {} \in G
  <2>1. SumOver(On(g, {})) = 0 /\ SumOver(On(f, {})) = 0
    BY SumOverNone
  <2> QED BY <2>1
<1>4. ASSUME NEW R \in SUBSET S, NEW x \in S \ R, R \in G PROVE R \cup {x} \in G
  <2>1. /\ SumOver(On(f, R \cup {x})) = SumOf(f[x], SumOver(On(f, R)))
        /\ SumOver(On(g, R \cup {x})) = SumOf(g[x], SumOver(On(g, R)))
    <3>1. \A y \in R \cup {x} : f[y] \in Decimal /\ g[y] \in Decimal
      BY <1>1 DEF Decimal
    <3> QED BY <1>2, <3>1, SumOverAdd
  <2>2. SumOver(On(f, R)) \in Int /\ SumOver(On(g, R)) \in Int /\ f[x] \in Int /\ g[x] \in Int
    BY <1>1, <1>2, SumOverInt
  <2>3. /\ SumOver(On(f, R \cup {x})) = f[x] + SumOver(On(f, R))
        /\ SumOver(On(g, R \cup {x})) = g[x] + SumOver(On(g, R))
    BY <2>1, <2>2, NoneAssumption DEF SumOf
  <2>4. \A a, b \in Int : (a + b) * c = a * c + b * c
    OBVIOUS
  <2>5. SumOver(On(g, R)) = SumOver(On(f, R)) * c /\ g[x] = f[x] * c
    BY <1>4
  <2>6. SumOver(On(g, R \cup {x})) = SumOver(On(f, R \cup {x})) * c
    BY <2>2, <2>3, <2>4, <2>5
  <2> QED BY <2>6
<1>5. S \in G
  <2> HIDE DEF G
  <2> QED BY <1>3, <1>4, GrowsUp
<1> QED BY <1>5

(* How sums of what is known or not add up, and sums of sums.              *)
LEMMA SumOfLaws ==
    ASSUME NEW a \in Decimal, NEW b \in Decimal, NEW c \in Decimal
    PROVE  /\ SumOf(a, b) \in Decimal /\ SumOf(a, b) = SumOf(b, a)
           /\ SumOf(SumOf(a, b), c) = SumOf(a, SumOf(b, c)) /\ SumOf(a, 0) = a
           /\ Diff(SumOf(a, b), c) = SumOf(Diff(a, c), b)
           /\ Diff(a, SumOf(b, c)) = Diff(Diff(a, b), c)
           /\ Diff(a, b) = SumOf(a, Diff(0, b))
BY NoneAssumption DEF Decimal, SumOf, Diff

LEMMA SumOverKnown ==
    ASSUME NEW f, NEW S, IsFiniteSet(S), \A x \in S : f[x] \in Decimal, SumOver(On(f, S)) # None
    PROVE  \A x \in S : f[x] \in Int
<1> SUFFICES ASSUME NEW x \in S PROVE f[x] \in Int
  OBVIOUS
<1> DEFINE R == S \ {x}
<1>1. R \cup {x} = S /\ x \notin R /\ IsFiniteSet(R)
  BY FS_Subset
<1> HIDE DEF R
<1>2. SumOver(On(f, S)) = SumOf(f[x], SumOver(On(f, R))) /\ SumOver(On(f, R)) \in Decimal
  BY <1>1, SumOverAdd
<1> QED BY <1>2, AmountOps DEF Decimal

(* One of what is summed grows.                                            *)
LEMMA SumOverGrown ==
    ASSUME NEW f, NEW g, NEW S, IsFiniteSet(S), \A y \in S : f[y] \in Decimal /\ g[y] \in Decimal,
           NEW x \in S, \A y \in S \ {x} : f[y] = g[y], NEW d \in Decimal, g[x] = SumOf(f[x], d)
    PROVE  SumOver(On(g, S)) = SumOf(SumOver(On(f, S)), d)
<1> DEFINE R == S \ {x}
<1>1. R \cup {x} = S /\ x \notin R /\ IsFiniteSet(R)
  BY FS_Subset
<1>2. On(f, R) = On(g, R)
  BY DEF On
<1> HIDE DEF R
<1>3. /\ SumOver(On(f, S)) = SumOf(f[x], SumOver(On(f, R)))
      /\ SumOver(On(g, S)) = SumOf(g[x], SumOver(On(g, R)))
      /\ SumOver(On(f, R)) \in Decimal
  BY <1>1, SumOverAdd
<1> DEFINE o == SumOver(On(f, R))
           a == f[x]
<1>4. /\ SumOver(On(f, S)) = SumOf(a, o) /\ SumOver(On(g, S)) = SumOf(SumOf(a, d), o)
      /\ a \in Decimal /\ o \in Decimal
  BY <1>2, <1>3
<1> HIDE DEF a, o
<1> QED BY <1>4, NoneAssumption DEF Decimal, SumOf

LEMMA SumOverPlus ==
    ASSUME NEW S, IsFiniteSet(S), NEW f, NEW g, NEW h,
           \A x \in S : f[x] \in Decimal /\ g[x] \in Decimal /\ h[x] = SumOf(f[x], g[x])
    PROVE  SumOver(On(h, S)) = SumOf(SumOver(On(f, S)), SumOver(On(g, S)))
<1> DEFINE Is(R) == SumOver(On(h, R)) = SumOf(SumOver(On(f, R)), SumOver(On(g, R)))
           G == {R \in SUBSET S : Is(R)}
<1>1. \A x \in S : h[x] \in Decimal
  BY AmountOps
<1>2. \A R \in SUBSET S : IsFiniteSet(R)
  BY FS_Subset
<1>3. {} \in G
  <2>1. SumOver(On(h, {})) = 0 /\ SumOver(On(f, {})) = 0 /\ SumOver(On(g, {})) = 0
    BY SumOverNone
  <2> QED BY <2>1, NoneAssumption DEF SumOf
<1>4. ASSUME NEW R \in SUBSET S, NEW x \in S \ R, R \in G PROVE R \cup {x} \in G
  <2> DEFINE a == SumOver(On(f, R))
             b == SumOver(On(g, R))
  <2>1. \A y \in R \cup {x} : f[y] \in Decimal /\ g[y] \in Decimal /\ h[y] \in Decimal
    BY <1>1
  <2>2. /\ SumOver(On(f, R \cup {x})) = SumOf(f[x], a) /\ a \in Decimal
        /\ SumOver(On(g, R \cup {x})) = SumOf(g[x], b) /\ b \in Decimal
        /\ SumOver(On(h, R \cup {x})) = SumOf(h[x], SumOver(On(h, R)))
    BY <1>2, <2>1, SumOverAdd
  <2>3. SumOver(On(h, R)) = SumOf(a, b) /\ h[x] = SumOf(f[x], g[x]) /\ f[x] \in Decimal /\ g[x] \in Decimal
    BY <1>4, <2>1
  <2> HIDE DEF a, b
  <2>4. \A u, v, w, z \in Decimal : SumOf(SumOf(u, v), SumOf(w, z)) = SumOf(SumOf(u, w), SumOf(v, z))
    BY NoneAssumption DEF Decimal, SumOf
  <2>5. Is(R \cup {x})
    BY <2>2, <2>3, <2>4
  <2> QED BY <2>5
<1>5. S \in G
  <2> HIDE DEF G
  <2> QED BY <1>3, <1>4, GrowsUp
<1> QED BY <1>5

(* What is zero but on some is their sum.                                  *)
LEMMA SumOverOnly ==
    ASSUME NEW S, IsFiniteSet(S), NEW T \in SUBSET S, NEW f, NEW g,
           \A x \in T : g[x] \in Decimal, \A x \in S : f[x] = IF x \in T THEN g[x] ELSE 0
    PROVE  SumOver(On(f, S)) = SumOver(On(g, T))
<1> DEFINE G == {R \in SUBSET S : SumOver(On(f, R)) = SumOver(On(g, R \cap T))}
<1>1. \A x \in S : f[x] \in Decimal
  BY DEF Decimal
<1>2. \A R \in SUBSET S : IsFiniteSet(R) /\ IsFiniteSet(R \cap T)
  BY FS_Subset
<1>3. {} \in G
  <2>1. {} \cap T = {} /\ SumOver(On(f, {})) = 0 /\ SumOver(On(g, {})) = 0
    BY SumOverNone
  <2> QED BY <2>1
<1>4. ASSUME NEW R \in SUBSET S, NEW x \in S \ R, R \in G PROVE R \cup {x} \in G
  <2> DEFINE Q == R \cap T
  <2>1. /\ SumOver(On(f, R \cup {x})) = SumOf(f[x], SumOver(On(f, R)))
        /\ SumOver(On(f, R)) = SumOver(On(g, Q)) /\ SumOver(On(f, R)) \in Decimal
    <3>1. \A y \in R \cup {x} : f[y] \in Decimal
      BY <1>1
    <3> QED BY <1>2, <1>4, <3>1, SumOverAdd
  <2>2. IsFiniteSet(Q) /\ x \notin Q /\ \A y \in Q : g[y] \in Decimal
    BY <1>2
  <2>3. CASE x \in T
    <3>1. (R \cup {x}) \cap T = Q \cup {x} /\ f[x] = g[x]
      BY <2>3
    <3> HIDE DEF Q
    <3>2. \A y \in Q \cup {x} : g[y] \in Decimal
      BY <2>2, <2>3
    <3>3. SumOver(On(g, Q \cup {x})) = SumOf(g[x], SumOver(On(g, Q)))
      BY <2>2, <3>2, SumOverAdd
    <3> QED BY <2>1, <3>1, <3>3
  <2>4. CASE x \notin T
    <3>1. (R \cup {x}) \cap T = Q /\ f[x] = 0
      BY <2>4
    <3> HIDE DEF Q
    <3>2. \A a \in Decimal : SumOf(0, a) = a
      BY NoneAssumption DEF Decimal, SumOf
    <3> QED BY <2>1, <3>1, <3>2
  <2> QED BY <2>3, <2>4
<1>5. S \in G
  <2> HIDE DEF G
  <2> QED BY <1>3, <1>4, GrowsUp
<1>6. S \cap T = T
  OBVIOUS
<1> QED BY <1>5, <1>6

LEMMA SumOverOne == ASSUME NEW f, NEW x, f[x] \in Decimal PROVE SumOver(On(f, {x})) = f[x]
<1>1. {} \cup {x} = {x} /\ x \notin {}
  OBVIOUS
<1>2. SumOver(On(f, {} \cup {x})) = SumOf(f[x], SumOver(On(f, {})))
  BY <1>1, FS_EmptySet, SumOverAdd
<1> QED BY <1>1, <1>2, SumOverNone, NoneAssumption DEF SumOf, Decimal

(* Rows and columns of a table add up to the same.                         *)
Column(F, S, y) == [x \in S |-> F[x][y]]

LEMMA SumOverSwap ==
    ASSUME NEW S, NEW T, NEW F, NEW r, NEW c, IsFiniteSet(S), IsFiniteSet(T),
           \A x \in S, y \in T : F[x][y] \in Decimal,
           \A x \in S : r[x] = SumOver(On(F[x], T)),
           \A y \in T : c[y] = SumOver(On(Column(F, S, y), S))
    PROVE  SumOver(On(r, S)) = SumOver(On(c, T))
<1> DEFINE col(y) == Column(F, S, y)
           cols(R) == [y \in T |-> SumOver(On(col(y), R))]
           Is(R) == SumOver(On(r, R)) = SumOver(On(cols(R), T))
           G == {R \in SUBSET S : Is(R)}
<1>1. \A R \in SUBSET S : IsFiniteSet(R)
  BY FS_Subset
<1>2. \A x \in S : r[x] \in Decimal
  <2> SUFFICES ASSUME NEW x \in S PROVE r[x] \in Decimal
    OBVIOUS
  <2> DEFINE f == F[x]
             g == On(f, T)
  <2>1. DOMAIN g = T /\ \A y \in T : g[y] \in Decimal
    BY DEF On
  <2>2. r[x] = SumOver(g)
    OBVIOUS
  <2> HIDE DEF g, f
  <2> QED BY <2>1, <2>2, SumOverIs
<1>3. \A y \in T : \A x \in S : col(y)[x] = F[x][y]
  BY DEF Column
<1>4. {} \in G
  <2> DEFINE z == cols({})
  <2>1. \A y \in T : z[y] = 0
    BY SumOverNone
  <2> HIDE DEF z
  <2>2. SumOver(On(z, T)) = SumOver(On(z, {}))
    BY <2>1, SumOverOnly
  <2>3. SumOver(On(z, {})) = 0 /\ SumOver(On(r, {})) = 0
    BY SumOverNone
  <2> QED BY <2>2, <2>3 DEF z
<1>5. ASSUME NEW R \in SUBSET S, NEW x \in S \ R, R \in G PROVE R \cup {x} \in G
  <2> DEFINE f == F[x]
             was == cols(R)
             now == cols(R \cup {x})
  <2>1. \A y \in T : /\ f[y] \in Decimal /\ was[y] \in Decimal /\ now[y] = SumOf(f[y], was[y])
    <3> SUFFICES ASSUME NEW y \in T
                 PROVE  f[y] \in Decimal /\ was[y] \in Decimal /\ now[y] = SumOf(f[y], was[y])
      OBVIOUS
    <3> DEFINE g == col(y)
    <3>1. /\ was[y] = SumOver(On(g, R)) /\ now[y] = SumOver(On(g, R \cup {x}))
          /\ g[x] = f[y] /\ \A u \in R \cup {x} : g[u] \in Decimal
      BY <1>3
    <3> HIDE DEF g, was, now, f
    <3>2. SumOver(On(g, R)) \in Decimal /\ SumOver(On(g, R \cup {x})) = SumOf(g[x], SumOver(On(g, R)))
      BY <1>1, <3>1, SumOverAdd
    <3> QED BY <3>1, <3>2
  <2>2. SumOver(On(r, R \cup {x})) = SumOf(r[x], SumOver(On(r, R)))
    <3>1. \A u \in R \cup {x} : r[u] \in Decimal
      BY <1>2
    <3> QED BY <1>1, <3>1, SumOverAdd
  <2>3. r[x] = SumOver(On(f, T)) /\ SumOver(On(r, R)) = SumOver(On(was, T))
    BY <1>5
  <2> HIDE DEF f, was, now
  <2>4. SumOver(On(now, T)) = SumOf(SumOver(On(f, T)), SumOver(On(was, T)))
    BY <2>1, SumOverPlus
  <2>5. SumOver(On(r, R \cup {x})) = SumOver(On(now, T))
    BY <2>2, <2>3, <2>4
  <2> QED BY <2>5 DEF now
<1>6. S \in G
  <2> HIDE DEF G
  <2> QED BY <1>4, <1>5, GrowsUp
<1>7. On(cols(S), T) = On(c, T)
  BY DEF On
<1> QED BY <1>6, <1>7

(* What is summed group by group.                                          *)
AddsByGroup(c, T, f, S, key) == \A y \in T : c[y] = SumOver(On(f, {x \in S : key[x] = y}))

LEMMA SumOverGroups ==
    ASSUME NEW S, IsFiniteSet(S), NEW T, IsFiniteSet(T), NEW key, \A x \in S : key[x] \in T,
           NEW f, \A x \in S : f[x] \in Decimal,
           NEW c, AddsByGroup(c, T, f, S, key)
    PROVE  SumOver(On(c, T)) = SumOver(On(f, S))
<1> DEFINE F == [x \in S |-> [y \in T |-> IF key[x] = y THEN f[x] ELSE 0]]
<1>1. \A x \in S, y \in T : F[x][y] \in Decimal
  BY DEF Decimal
<1>2. \A x \in S : f[x] = SumOver(On(F[x], T))
  <2> SUFFICES ASSUME NEW x \in S PROVE f[x] = SumOver(On(F[x], T))
    OBVIOUS
  <2> DEFINE g == F[x]
             k == key[x]
             h == [y \in T |-> f[x]]
  <2>1. /\ \A y \in T : g[y] = IF y \in {k} THEN h[y] ELSE 0
        /\ k \in T /\ h[k] = f[x] /\ \A y \in {k} : h[y] \in Decimal
    OBVIOUS
  <2> HIDE DEF g, k, h, F
  <2>2. SumOver(On(g, T)) = SumOver(On(h, {k}))
    BY <2>1, SumOverOnly
  <2>3. SumOver(On(h, {k})) = h[k]
    BY <2>1, SumOverOne
  <2> QED BY <2>1, <2>2, <2>3 DEF g
<1>3. \A y \in T : c[y] = SumOver(On(Column(F, S, y), S))
  <2> SUFFICES ASSUME NEW y \in T PROVE c[y] = SumOver(On(Column(F, S, y), S))
    OBVIOUS
  <2> DEFINE g == Column(F, S, y)
             R == {x \in S : key[x] = y}
  <2>1. /\ \A x \in S : g[x] = IF x \in R THEN f[x] ELSE 0
        /\ R \in SUBSET S /\ \A x \in R : f[x] \in Decimal
    BY DEF Column
  <2>2. c[y] = SumOver(On(f, R))
    BY DEF AddsByGroup
  <2> HIDE DEF g, R, F
  <2>3. SumOver(On(g, S)) = SumOver(On(f, R))
    BY <2>1, SumOverOnly
  <2> QED BY <2>2, <2>3 DEF g
<1> HIDE DEF F
<1>4. SumOver(On(f, S)) = SumOver(On(c, T))
  BY SMTT(30), <1>1, <1>2, <1>3, SumOverSwap
<1> QED BY <1>4

(* Sums along sequences put together.                                      *)
LEMMA SumToConcat ==
    ASSUME NEW m \in Nat, NEW n \in Nat, NEW l, NEW f, NEW g, NEW h, l = m + n,
           \A k \in 1..m : f[k] \in Decimal /\ h[k] = f[k],
           \A k \in 1..n : g[k] \in Decimal /\ h[m + k] = g[k]
    PROVE  SumTo(h, l) = SumOf(SumTo(f, m), SumTo(g, n))
<1> DEFINE Is(k) == SumTo(h, m + k) = SumOf(SumTo(f, m), SumTo(g, k))
           G == {k \in 0..n : Is(k)}
<1>1. \A k \in 1..(m + n) : h[k] \in Decimal
  <2> SUFFICES ASSUME NEW k \in 1..(m + n) PROVE h[k] \in Decimal
    OBVIOUS
  <2>1. k \in 1..m \/ (k - m \in 1..n /\ m + (k - m) = k)
    OBVIOUS
  <2> QED BY <2>1
<1>2. SumTo(f, m) \in Decimal
  BY SumToIs
<1>3. 0 \in G
  <2>1. SumTo(h, m) = SumTo(f, m)
    BY SumToSame
  <2>2. SumTo(g, 0) = 0
    BY SumToStep
  <2>3. m + 0 = m /\ 0 \in 0..n
    OBVIOUS
  <2> QED BY <1>2, <2>1, <2>2, <2>3, NoneAssumption DEF SumOf, Decimal
<1>4. ASSUME NEW k \in 1..n, k - 1 \in G PROVE k \in G
  <2>1. k \in 0..n /\ k \in Nat /\ k # 0 /\ k - 1 \in Nat /\ m + k \in Nat /\ m + k # 0 /\ (m + k) - 1 = m + (k - 1)
    OBVIOUS
  <2>2. SumTo(h, m + k) = SumOf(SumTo(h, m + (k - 1)), g[k])
    <3>1. \A j \in 1..(m + k) : h[j] \in Decimal
      BY <1>1
    <3> QED BY <2>1, <3>1, SumToStep
  <2>3. SumTo(g, k) = SumOf(SumTo(g, k - 1), g[k])
    <3>1. \A j \in 1..k : g[j] \in Decimal
      OBVIOUS
    <3> QED BY <2>1, <3>1, SumToStep
  <2>4. SumTo(g, k - 1) \in Decimal /\ g[k] \in Decimal
    <3>1. \A j \in 1..(k - 1) : g[j] \in Decimal
      OBVIOUS
    <3> QED BY <2>1, <3>1, SumToIs
  <2>5. Is(k - 1)
    BY <1>4
  <2>6. \A u, v, w \in Decimal : SumOf(SumOf(u, v), w) = SumOf(u, SumOf(v, w))
    BY SumOfLaws
  <2>7. SumTo(h, m + k) = SumOf(SumTo(f, m), SumTo(g, k))
    BY <1>2, <2>2, <2>3, <2>4, <2>5, <2>6
  <2> QED BY <2>1, <2>7
<1>5. n \in G
  <2>1. n \in 0..n
    OBVIOUS
  <2> HIDE DEF G
  <2> QED BY <1>3, <1>4, <2>1, CountUp
<1> QED BY <1>5

(* One more at the end.                                                    *)
LEMMA SumToMore ==
    ASSUME NEW n \in Nat, NEW f, NEW g, \A k \in 1..n : f[k] \in Decimal /\ g[k] = f[k], g[n + 1] \in Decimal
    PROVE  SumTo(g, n + 1) = SumOf(SumTo(f, n), g[n + 1])
<1>1. n + 1 \in Nat /\ n + 1 # 0 /\ (n + 1) - 1 = n /\ \A k \in 1..(n + 1) : k \in 1..n \/ k = n + 1
  OBVIOUS
<1>2. \A k \in 1..(n + 1) : g[k] \in Decimal
  BY <1>1
<1>3. SumTo(g, n + 1) = SumOf(SumTo(g, n), g[n + 1])
  BY <1>1, <1>2, SumToStep
<1>4. SumTo(g, n) = SumTo(f, n)
  BY SumToSame
<1> QED BY <1>3, <1>4

-----------------------------------------------------------------------------
(* Positions, and that what a user is shown of any of them has a reason    *)
(* for each figure that is missing.                                        *)
Lot == [day : Int, qty : Nat \ {0}, cost : Decimal, base : Decimal]

SaleMade == [day : Int, qty : Int, gain : Decimal, gainBase : Decimal]

IncomeGot == [day : Int, amount : Decimal, base : Decimal]

Position == [lots : Seq(Lot), sales : Seq(SaleMade), income : Seq(IncomeGot), over : Int]

LEMMA RateType == ASSUME NEW d \in Int PROVE Rate(d) \in Decimal
<1> DEFINE fit == {q \in Quotes : q.day <= d /\ d - q.day <= RateWindow}
           Ages == {d - q.day : q \in fit}
<1>1. CASE fit = {}
  BY <1>1 DEF Rate, Decimal
<1>2. CASE fit # {}
  <2>1. \A q \in fit : q \in Quotes /\ q.day \in Int /\ q.rate \in Int /\ d - q.day \in Nat
    BY QuotesAssumption
  <2>2. Ages \in SUBSET Nat /\ Ages # {}
    BY <1>2, <2>1
  <2>3. PICK age \in Ages : \A a \in Ages : age <= a
    <3> HIDE DEF Ages
    <3> QED BY <2>2, LeastNat
  <2>4. PICK q \in fit : age = d - q.day
    OBVIOUS
  <2>5. \A o \in fit : o.day <= q.day
    BY <2>1, <2>3, <2>4
  <2> DEFINE last == CHOOSE x \in fit : \A o \in fit : o.day <= x.day
  <2>6. last \in fit
    <3> HIDE DEF fit
    <3> QED BY <2>5
  <2>7. Rate(d) = last.rate
    BY <1>2 DEF Rate
  <2> HIDE DEF last, fit
  <2> QED BY <2>1, <2>6, <2>7 DEF Decimal
<1> QED BY <1>1, <1>2

LEMMA ConvertType == ASSUME NEW a \in Decimal, NEW d \in Int PROVE Convert(a, d) \in Decimal
BY RateType, AmountOps DEF Convert

LEMMA LotSums ==
    ASSUME NEW lots \in Seq(Lot)
    PROVE  Held(lots) \in Int /\ Cost(lots) \in Decimal /\ CostBase(lots) \in Decimal
<1>1. Len(lots) \in Nat /\ \A k \in 1..Len(lots) : lots[k] \in Lot
  OBVIOUS
<1>2. Held(lots) \in Int
  <2> DEFINE f == [k \in 1..Len(lots) |-> lots[k].qty]
  <2>1. \A k \in 1..Len(lots) : f[k] \in Decimal /\ f[k] # None
    BY <1>1, NoneAssumption DEF Lot, Decimal
  <2>2. Held(lots) = SumTo(f, Len(lots))
    BY DEF Held, TotalSeq
  <2> HIDE DEF f
  <2> QED BY <1>1, <2>1, <2>2, SumToIs DEF Decimal
<1>3. Cost(lots) \in Decimal
  <2> DEFINE f == [k \in 1..Len(lots) |-> lots[k].cost]
  <2>1. \A k \in 1..Len(lots) : f[k] \in Decimal
    BY <1>1 DEF Lot
  <2>2. Cost(lots) = SumTo(f, Len(lots))
    BY DEF Cost, TotalSeq
  <2> HIDE DEF f
  <2> QED BY <1>1, <2>1, <2>2, SumToIs
<1>4. CostBase(lots) \in Decimal
  <2> DEFINE f == [k \in 1..Len(lots) |-> lots[k].base]
  <2>1. \A k \in 1..Len(lots) : f[k] \in Decimal
    BY <1>1 DEF Lot
  <2>2. CostBase(lots) = SumTo(f, Len(lots))
    BY DEF CostBase, TotalSeq
  <2> HIDE DEF f
  <2> QED BY <1>1, <2>1, <2>2, SumToIs
<1> QED BY <1>2, <1>3, <1>4

LEMMA GainsIs ==
    ASSUME NEW sales \in Seq(SaleMade)
    PROVE  Gains(sales) \in Decimal /\ (Gains(sales) = None => \E k \in DOMAIN sales : sales[k].gainBase = None)
<1> DEFINE f == [k \in 1..Len(sales) |-> sales[k].gainBase]
<1>1. Len(sales) \in Nat /\ DOMAIN sales = 1..Len(sales) /\ \A k \in 1..Len(sales) : f[k] \in Decimal
  <2>1. \A k \in 1..Len(sales) : sales[k] \in SaleMade
    OBVIOUS
  <2> QED BY <2>1 DEF SaleMade
<1>2. Gains(sales) = SumTo(f, Len(sales))
  BY DEF Gains, TotalSeq
<1>3. \A k \in 1..Len(sales) : f[k] = sales[k].gainBase
  OBVIOUS
<1> HIDE DEF f
<1> QED BY <1>1, <1>2, <1>3, SumToIs

LEMMA ReceivedIs ==
    ASSUME NEW income \in Seq(IncomeGot)
    PROVE  Received(income) \in Decimal /\ (Received(income) = None => \E k \in DOMAIN income : income[k].base = None)
<1> DEFINE f == [k \in 1..Len(income) |-> income[k].base]
<1>1. Len(income) \in Nat /\ DOMAIN income = 1..Len(income) /\ \A k \in 1..Len(income) : f[k] \in Decimal
  <2>1. \A k \in 1..Len(income) : income[k] \in IncomeGot
    OBVIOUS
  <2> QED BY <2>1 DEF IncomeGot
<1>2. Received(income) = SumTo(f, Len(income))
  BY DEF Received, TotalSeq
<1>3. \A k \in 1..Len(income) : f[k] = income[k].base
  OBVIOUS
<1> HIDE DEF f
<1> QED BY <1>1, <1>2, <1>3, SumToIs

(* portfolio.go's BuildPortfolio over any accounts: a figure it could not  *)
(* compute has its reason, whatever lots, sales and income they have.      *)
THEOREM PositionsHaveReasons ==
    ASSUME NEW accounts, IsFiniteSet(accounts), NEW positions \in [accounts -> Position], NEW now \in Int
    PROVE  HasReasons(PortfolioOf(positions, now))
<1> DEFINE qtyOf == [a \in accounts |-> Held(positions[a].lots)]
           costOf == [a \in accounts |-> CostBase(positions[a].lots)]
           realizedOf == [a \in accounts |-> Gains(positions[a].sales)]
           dividendsOf == [a \in accounts |-> Received(positions[a].income)]
           Reasons == UNION {MissingOf(positions[a], a) : a \in accounts}
           qty == SumOver(qtyOf)
           cost == SumOver(costOf)
           realized == SumOver(realizedOf)
           dividends == SumOver(dividendsOf)
           p == PortfolioOf(positions, now)
<1>1. \A a \in accounts : /\ positions[a].lots \in Seq(Lot)
                          /\ positions[a].sales \in Seq(SaleMade)
                          /\ positions[a].income \in Seq(IncomeGot)
  BY DEF Position
<1>2. qty \in Int
  <2>1. \A a \in accounts : qtyOf[a] \in Decimal /\ qtyOf[a] # None
    BY <1>1, LotSums, NoneAssumption DEF Decimal
  <2>2. DOMAIN qtyOf = accounts
    OBVIOUS
  <2> HIDE DEF qtyOf
  <2> QED BY <2>1, <2>2, SumOverIs DEF Decimal
<1>3. cost \in Decimal /\ (cost = None => Reasons # {})
  <2>1. \A a \in accounts : costOf[a] \in Decimal /\ costOf[a] = CostBase(positions[a].lots)
    BY <1>1, LotSums
  <2>2. DOMAIN costOf = accounts
    OBVIOUS
  <2>3. \A a \in accounts : costOf[a] = None => MissingOf(positions[a], a) # {}
    BY <2>1 DEF MissingOf
  <2> HIDE DEF costOf
  <2>4. cost \in Decimal /\ (cost = None => \E a \in accounts : costOf[a] = None)
    BY <2>1, <2>2, SumOverIs
  <2> QED BY <2>3, <2>4
<1>4. realized \in Decimal /\ (realized = None => Reasons # {})
  <2>1. \A a \in accounts : realizedOf[a] \in Decimal
    BY <1>1, GainsIs
  <2>2. DOMAIN realizedOf = accounts
    OBVIOUS
  <2>3. ASSUME NEW a \in accounts, realizedOf[a] = None PROVE MissingOf(positions[a], a) # {}
    <3>1. PICK k \in DOMAIN positions[a].sales : positions[a].sales[k].gainBase = None
      BY <1>1, <2>3, GainsIs
    <3>2. Why(positions[a].sales[k].gain, a) \in MissingOf(positions[a], a)
      BY <3>1 DEF MissingOf
    <3> QED BY <3>2
  <2> HIDE DEF realizedOf
  <2> QED BY <2>1, <2>2, <2>3, SumOverIs
<1>5. dividends \in Decimal /\ (dividends = None => Reasons # {})
  <2>1. \A a \in accounts : dividendsOf[a] \in Decimal
    BY <1>1, ReceivedIs
  <2>2. DOMAIN dividendsOf = accounts
    OBVIOUS
  <2>3. ASSUME NEW a \in accounts, dividendsOf[a] = None PROVE MissingOf(positions[a], a) # {}
    <3>1. PICK k \in DOMAIN positions[a].income : positions[a].income[k].base = None
      BY <1>1, <2>3, ReceivedIs
    <3>2. Why(positions[a].income[k].amount, a) \in MissingOf(positions[a], a)
      BY <3>1 DEF MissingOf
    <3> QED BY <3>2
  <2> HIDE DEF dividendsOf
  <2> QED BY <2>1, <2>2, <2>3, SumOverIs
<1>6. /\ p.cost = cost /\ p.realized = realized /\ p.dividends = dividends
      /\ p.value = IF qty > 0 THEN Value(qty, now) ELSE 0
      /\ p.unrealized = IF qty > 0 THEN Diff(Value(qty, now), cost) ELSE 0
      /\ p.missing = MissingValue(qty, now) \cup Reasons
  BY DEF PortfolioOf, Shown, Total
<1>7. Value(qty, now) \in Decimal
  BY <1>2, CloseAssumption, AmountOps, ConvertType DEF Value, Decimal
<1> HIDE DEF p, qty, cost, realized, dividends, Reasons
<1>8. qty > 0 /\ Value(qty, now) = None => p.missing # {}
  <2>1. qty > 0 /\ Value(qty, now) = None => MissingValue(qty, now) # {}
    <3>1. qty > 0 => qty # 0
      BY <1>2
    <3> QED BY <3>1, Zenon DEF MissingValue
  <2> QED BY <1>6, <2>1
<1>9. 0 # None
  BY NoneAssumption
<1>10. p.value = None => p.missing # {}
  BY <1>6, <1>8, <1>9
<1>11. p.unrealized = None => qty > 0 /\ (Value(qty, now) = None \/ cost = None)
  BY <1>3, <1>6, <1>7, <1>9, AmountOps
<1>12. p.unrealized = None => p.missing # {}
  BY <1>3, <1>6, <1>8, <1>11
<1>13. HasReasons(p)
  BY <1>3, <1>4, <1>5, <1>6, <1>10, <1>12 DEF HasReasons
<1> QED BY <1>13 DEF p

-----------------------------------------------------------------------------
(* What Sorted gives for a total order: the members, one after another.    *)
TotalOn(pairs, S) ==
    /\ \A x, y \in S : x # y => <<x, y>> \in pairs \/ <<y, x>> \in pairs
    /\ \A x, y, z \in S : <<x, y>> \in pairs /\ <<y, z>> \in pairs => <<x, z>> \in pairs

LEMMA LeastOf ==
    ASSUME NEW S, IsFiniteSet(S), NEW pairs, TotalOn(pairs, S), NEW R \in SUBSET S, R # {}
    PROVE  \E y \in R : \A z \in R \ {y} : <<y, z>> \in pairs
<1> DEFINE Before(y) == {z \in R \ {y} : <<z, y>> \in pairs}
           Sizes == {Cardinality(Before(y)) : y \in R}
<1>1. \A y \in R : IsFiniteSet(Before(y)) /\ Cardinality(Before(y)) \in Nat
  <2>1. IsFiniteSet(R)
    BY FS_Subset
  <2> QED BY <2>1, FS_Subset, FS_CardinalityType
<1>2. PICK n \in Sizes : \A m \in Sizes : n <= m
  <2>1. Sizes \in SUBSET Nat /\ Sizes # {}
    BY <1>1
  <2> HIDE DEF Sizes
  <2> QED BY <2>1, LeastNat
<1>3. PICK y \in R : n = Cardinality(Before(y))
  OBVIOUS
<1>4. ASSUME NEW z \in R \ {y}, <<y, z>> \notin pairs PROVE FALSE
  <2>1. <<z, y>> \in pairs
    BY <1>4 DEF TotalOn
  <2>2. Before(z) \subseteq Before(y) /\ z \in Before(y) /\ z \notin Before(z)
    BY <1>4, <2>1 DEF TotalOn
  <2>3. Before(z) \subseteq Before(y) /\ Before(z) # Before(y)
    BY <2>2
  <2>4. Cardinality(Before(z)) < Cardinality(Before(y))
    <3> HIDE DEF Before
    <3> QED BY <2>3, <1>1, FS_Subset
  <2>5. Cardinality(Before(y)) <= Cardinality(Before(z))
    BY <1>2, <1>3
  <2> HIDE DEF Before
  <2> QED BY <2>4, <2>5, <1>1
<1> QED BY <1>4

InTurn(s, R, pairs) ==
    /\ R = {s[i] : i \in 1..Len(s)}
    /\ \A i, j \in 1..Len(s) : i < j => s[i] # s[j] /\ <<s[i], s[j]>> \in pairs

LEMMA InTurnFirst ==
    ASSUME NEW S, NEW s \in Seq(S), NEW x \in S, NEW R, x \notin R, NEW pairs,
           InTurn(s, R, pairs), \A z \in R : <<x, z>> \in pairs
    PROVE  InTurn(<<x>> \o s, R \cup {x}, pairs)
<1> DEFINE t == <<x>> \o s
           n == Len(s)
<1>1. n \in Nat /\ Len(t) = n + 1 /\ t[1] = x /\ \A i \in 2..(n + 1) : t[i] = s[i - 1]
  OBVIOUS
<1> HIDE DEF t
<1>2. \A i \in 1..n : s[i] \in R /\ t[i + 1] = s[i]
  BY <1>1 DEF InTurn
<1>3. \A i \in 1..(n + 1) : i = 1 \/ (i \in 2..(n + 1) /\ i - 1 \in 1..n)
  BY <1>1
<1>4. R \cup {x} = {t[i] : i \in 1..(n + 1)}
  <2>1. \A y \in R : \E i \in 1..(n + 1) : t[i] = y
    <3> SUFFICES ASSUME NEW y \in R PROVE \E i \in 1..(n + 1) : t[i] = y
      OBVIOUS
    <3>1. PICK i \in 1..n : s[i] = y
      BY DEF InTurn
    <3>2. i + 1 \in 1..(n + 1)
      BY <1>1
    <3> QED BY <1>2, <3>1, <3>2
  <2>2. \A i \in 1..(n + 1) : t[i] \in R \cup {x}
    BY <1>1, <1>2, <1>3
  <2>3. 1 \in 1..(n + 1)
    BY <1>1
  <2> QED BY <1>1, <2>1, <2>2, <2>3
<1>5. ASSUME NEW i \in 1..(n + 1), NEW j \in 1..(n + 1), i < j PROVE t[i] # t[j] /\ <<t[i], t[j]>> \in pairs
  <2>1. j \in 2..(n + 1) /\ j - 1 \in 1..n
    BY <1>1, <1>5
  <2>2. t[j] = s[j - 1] /\ s[j - 1] \in R
    BY <1>1, <1>2, <2>1
  <2>3. CASE i = 1
    BY <1>1, <2>2, <2>3
  <2>4. CASE i # 1
    <3>1. i \in 2..(n + 1) /\ i - 1 \in 1..n /\ i - 1 < j - 1
      BY <1>1, <1>5, <2>4
    <3> QED BY <1>1, <2>1, <2>2, <3>1 DEF InTurn
  <2> QED BY <2>3, <2>4
<1> QED BY <1>1, <1>4, <1>5 DEF InTurn, t

LEMMA SortedIs ==
    ASSUME NEW S, IsFiniteSet(S), NEW pairs, TotalOn(pairs, S)
    PROVE  /\ Sorted(S, pairs) \in Seq(S) /\ Len(Sorted(S, pairs)) = Cardinality(S)
           /\ InTurn(Sorted(S, pairs), S, pairs)
<1> DEFINE One(R) == CHOOSE y \in R : \A z \in R \ {y} : <<y, z>> \in pairs
           Rec(o) == o = [R \in SUBSET S |-> IF R = {} THEN <<>> ELSE <<One(R)>> \o o[R \ {One(R)}]]
           pred == [R \in SUBSET S |-> R \ {One(R)}]
           step == [p \in (SUBSET S) \X Seq(S) |-> IF p[1] = {} THEN <<>> ELSE <<One(p[1])>> \o p[2]]
           from == CHOOSE o : Rec(o)
           G == {R \in SUBSET S : /\ from[R] \in Seq(S) /\ Len(from[R]) = Cardinality(R)
                                  /\ InTurn(from[R], R, pairs)}
<1>1. \A R \in SUBSET S : R # {} => /\ One(R) \in R /\ R \ {One(R)} \subseteq R /\ R \ {One(R)} # R
                                    /\ \A z \in R \ {One(R)} : <<One(R), z>> \in pairs
  BY LeastOf
<1>2. \A x \in S, s \in Seq(S) : <<x>> \o s \in Seq(S) /\ Len(<<x>> \o s) = Len(s) + 1 /\ Len(s) \in Nat
  OBVIOUS
<1>3. <<>> \in Seq(S) /\ Len(<<>>) = 0 /\ Cardinality({}) = 0
  BY FS_EmptySet
<1>4. step \in [(SUBSET S) \X Seq(S) -> Seq(S)]
  <2>1. \A R \in SUBSET S : R # {} => One(R) \in S
    BY <1>1
  <2> HIDE DEF One
  <2> QED BY <1>2, <1>3, <2>1
<1>5. PICK o : Descends(o, S, Seq(S), <<>>, pred, step)
  <2>1. pred \in [SUBSET S -> SUBSET S] /\ \A R \in SUBSET S : R # {} => pred[R] \subseteq R /\ pred[R] # R
    BY <1>1
  <2> HIDE DEF step, pred
  <2> QED BY <1>3, <1>4, <2>1, SubsetStepsExist
<1>6. Rec(o)
  <2>1. ASSUME NEW R \in SUBSET S, R # {}
        PROVE  step[<<R, o[pred[R]]>>] = <<One(R)>> \o o[R \ {One(R)}]
    <3>1. pred[R] = R \ {One(R)} /\ o[pred[R]] \in Seq(S)
      BY <1>5 DEF Descends
    <3> HIDE DEF One, pred
    <3> QED BY <2>1, <3>1
  <2> HIDE DEF step, pred, One
  <2>2. o = [R \in SUBSET S |-> o[R]]
    BY <1>5 DEF Descends
  <2>3. \A R \in SUBSET S : o[R] = IF R = {} THEN <<>> ELSE <<One(R)>> \o o[R \ {One(R)}]
    BY <1>5, <2>1 DEF Descends
  <2> QED BY <2>2, <2>3
<1>7. Rec(from)
  BY <1>6
<1> HIDE DEF from
<1>8. ASSUME NEW R \in SUBSET S, \A Q \in SUBSET R : Q # R => Q \in G PROVE R \in G
  <2>1. CASE R = {}
    <3>1. from[R] = <<>>
      BY <1>7, <2>1
    <3>2. InTurn(<<>>, {}, pairs)
      BY DEF InTurn
    <3> QED BY <1>3, <2>1, <3>1, <3>2
  <2>2. CASE R # {}
    <3>1. from[R] = <<One(R)>> \o from[R \ {One(R)}]
      BY <1>7, <2>2
    <3>2. /\ R \ {One(R)} \in G /\ One(R) \in S /\ One(R) \in R
          /\ \A z \in R \ {One(R)} : <<One(R), z>> \in pairs
      <4> HIDE DEF G, One
      <4> QED BY <1>1, <1>8, <2>2
    <3> HIDE DEF One
    <3>3. IsFiniteSet(R) /\ Cardinality(R) \in Nat
      BY FS_Subset, FS_CardinalityType
    <3>4. Cardinality(R \ {One(R)}) = Cardinality(R) - 1
      BY <3>2, <3>3, FS_RemoveElement
    <3>5. from[R \ {One(R)}] \in Seq(S) /\ Len(from[R \ {One(R)}]) = Cardinality(R) - 1
      BY <3>2, <3>4
    <3>6. from[R] \in Seq(S) /\ Len(from[R]) = Cardinality(R)
      BY <1>2, <3>1, <3>2, <3>3, <3>5
    <3>7. InTurn(from[R], R, pairs)
      <4>1. R = (R \ {One(R)}) \cup {One(R)} /\ One(R) \notin R \ {One(R)} /\ InTurn(from[R \ {One(R)}], R \ {One(R)}, pairs)
        BY <3>2
      <4>2. InTurn(<<One(R)>> \o from[R \ {One(R)}], (R \ {One(R)}) \cup {One(R)}, pairs)
        BY <3>2, <3>5, <4>1, InTurnFirst
      <4> QED BY <3>1, <4>1, <4>2
    <3> QED BY <3>6, <3>7
  <2> QED BY <2>1, <2>2
<1>9. S \in G
  <2>1. \A R \in SUBSET S : R \in G
    <3> HIDE DEF G
    <3> QED BY <1>8, SubsetsUp
  <2> QED BY <2>1
<1> QED BY <1>9 DEF Sorted, from

-----------------------------------------------------------------------------
(* The splits of some days multiply to a whole number, in any order: those *)
(* with no factor, or none above 0, are left out (ledger.go's Ledger).     *)
FactorBy(o, S) ==
    /\ o \in [SUBSET S -> Nat \ {0}]
    /\ \A R \in SUBSET S :
           o[R] = IF R = {} THEN 1
                  ELSE (CHOOSE y \in R : TRUE).factor * o[R \ {CHOOSE y \in R : TRUE}]

LEMMA FactorIs ==
    ASSUME NEW due \in SUBSET Splits
    PROVE  \E o : FactorBy(o, due) /\ Factor(due) = o[due]
<1> DEFINE T == Nat \ {0}
           One(R) == CHOOSE y \in R : TRUE
           Rec(o) == o = [R \in SUBSET due |-> IF R = {} THEN 1 ELSE One(R).factor * o[R \ {One(R)}]]
           pred == [R \in SUBSET due |-> R \ {One(R)}]
           step == [p \in (SUBSET due) \X T |-> IF p[1] = {} THEN 1 ELSE One(p[1]).factor * p[2]]
           by == CHOOSE o : Rec(o)
           G == {R \in SUBSET due : by[R] \in T}
<1>1. IsFiniteSet(due) /\ 1 \in T
  BY SplitsAssumption, FS_Subset
<1>2. \A R \in SUBSET due : R # {} => /\ One(R) \in R /\ R \ {One(R)} \subseteq R /\ R \ {One(R)} # R
                                      /\ One(R).factor \in T
  BY SplitsAssumption
<1>3. \A a, b \in T : a * b \in T
  OBVIOUS
<1>4. step \in [(SUBSET due) \X T -> T]
  <2> HIDE DEF One, T
  <2> QED BY <1>1, <1>2, <1>3
<1>5. PICK o : Descends(o, due, T, 1, pred, step)
  <2>1. pred \in [SUBSET due -> SUBSET due] /\ \A R \in SUBSET due : R # {} => pred[R] \subseteq R /\ pred[R] # R
    BY <1>2
  <2> HIDE DEF step, pred, T
  <2> QED BY <1>1, <1>4, <2>1, SubsetStepsExist
<1>6. Rec(o)
  <2>1. ASSUME NEW R \in SUBSET due, R # {}
        PROVE  step[<<R, o[pred[R]]>>] = One(R).factor * o[R \ {One(R)}]
    <3>1. pred[R] = R \ {One(R)} /\ o[pred[R]] \in T
      BY <1>5 DEF Descends
    <3> HIDE DEF One, pred, T
    <3> QED BY <2>1, <3>1
  <2> HIDE DEF step, pred, One, T
  <2>2. o = [R \in SUBSET due |-> o[R]]
    BY <1>5 DEF Descends
  <2>3. \A R \in SUBSET due : o[R] = IF R = {} THEN 1 ELSE One(R).factor * o[R \ {One(R)}]
    BY <1>5, <2>1 DEF Descends
  <2> QED BY <2>2, <2>3
<1>7. Rec(by)
  BY <1>6
<1> HIDE DEF by
<1>8. ASSUME NEW R \in SUBSET due, \A Q \in SUBSET R : Q # R => Q \in G PROVE R \in G
  <2>1. CASE R = {}
    BY <1>1, <1>7, <2>1
  <2>2. CASE R # {}
    <3>1. by[R] = One(R).factor * by[R \ {One(R)}]
      BY <1>7, <2>2
    <3>2. R \ {One(R)} \in G /\ One(R).factor \in T
      <4> HIDE DEF G, One, T
      <4> QED BY <1>2, <1>8, <2>2
    <3> HIDE DEF One, T
    <3> QED BY <1>3, <3>1, <3>2
  <2> QED BY <2>1, <2>2
<1>9. \A R \in SUBSET due : R \in G
  <2> HIDE DEF G
  <2> QED BY <1>1, <1>8, SubsetsUp
<1>10. FactorBy(by, due)
  <2>1. \A R \in SUBSET due : by[R] = IF R = {} THEN 1 ELSE One(R).factor * by[R \ {One(R)}]
    <3> HIDE DEF One
    <3> QED BY <1>7
  <2>2. by = [R \in SUBSET due |-> by[R]]
    <3> HIDE DEF One
    <3> QED BY <1>7
  <2>3. by \in [SUBSET due -> T]
    BY <1>9, <2>2
  <2> QED BY <2>1, <2>3 DEF FactorBy
<1> QED BY <1>10 DEF Factor, by

LEMMA FactorType ==
    ASSUME NEW due \in SUBSET Splits
    PROVE  Factor(due) \in Nat \ {0}
<1>1. PICK o : FactorBy(o, due) /\ Factor(due) = o[due]
  BY FactorIs
<1> QED BY <1>1 DEF FactorBy

LEMMA FactorsAgree ==
    ASSUME NEW S, NEW Q, NEW o, FactorBy(o, S), NEW p, FactorBy(p, Q),
           NEW U, IsFiniteSet(U), U \subseteq S, U \subseteq Q
    PROVE  o[U] = p[U]
<1> DEFINE G == {R \in SUBSET U : o[R] = p[R]}
           One(R) == CHOOSE y \in R : TRUE
<1>1. ASSUME NEW R \in SUBSET U, \A V \in SUBSET R : V # R => V \in G PROVE R \in G
  <2>1. CASE R = {}
    BY <2>1 DEF FactorBy
  <2>2. CASE R # {}
    <3>1. One(R) \in R /\ R \ {One(R)} \in SUBSET R /\ R \ {One(R)} # R
      BY <2>2
    <3>2. R \in SUBSET S /\ R \in SUBSET Q
      OBVIOUS
    <3>3. o[R] = One(R).factor * o[R \ {One(R)}] /\ p[R] = One(R).factor * p[R \ {One(R)}]
      BY <2>2, <3>2 DEF FactorBy
    <3> HIDE DEF One
    <3>4. R \ {One(R)} \in G
      <4> HIDE DEF G
      <4> QED BY <1>1, <3>1
    <3> QED BY <3>1, <3>3, <3>4
  <2> QED BY <2>1, <2>2
<1>2. \A R \in SUBSET U : R \in G
  <2> HIDE DEF G
  <2> QED BY <1>1, SubsetsUp
<1> QED BY <1>2

LEMMA FactorPick ==
    ASSUME NEW S \in SUBSET Splits, NEW x \in S
    PROVE  Factor(S) = x.factor * Factor(S \ {x})
<1>1. PICK o : FactorBy(o, S) /\ Factor(S) = o[S]
  BY FactorIs
<1> DEFINE G == {R \in SUBSET S : \A y \in R : o[R] = y.factor * o[R \ {y}]}
           One(R) == CHOOSE y \in R : TRUE
<1>2. IsFiniteSet(S) /\ \A y \in S : y.factor \in Nat
  BY SplitsAssumption, FS_Subset
<1>3. ASSUME NEW R \in SUBSET S, \A Q \in SUBSET R : Q # R => Q \in G PROVE R \in G
  <2> SUFFICES ASSUME NEW y \in R PROVE o[R] = y.factor * o[R \ {y}]
    OBVIOUS
  <2> DEFINE z == One(R)
             Q == (R \ {z}) \ {y}
  <2>1. z \in R /\ o[R] = z.factor * o[R \ {z}]
    BY <1>1 DEF FactorBy
  <2> HIDE DEF z
  <2>2. CASE y = z
    BY <2>1, <2>2
  <2>3. CASE y # z
    <3>1. R \ {z} \in G /\ R \ {y} \in G
      <4>1. /\ R \ {z} \in SUBSET R /\ R \ {z} # R
            /\ R \ {y} \in SUBSET R /\ R \ {y} # R
        BY <2>1
      <4> HIDE DEF G
      <4> QED BY <1>3, <4>1
    <3>2. o[R \ {z}] = y.factor * o[Q]
      BY <2>3, <3>1
    <3>3. o[R \ {y}] = z.factor * o[Q]
      <4>1. Q = (R \ {y}) \ {z} /\ z \in R \ {y}
        BY <2>1, <2>3
      <4> QED BY <3>1, <4>1
    <3>4. y.factor \in Nat /\ z.factor \in Nat /\ o[Q] \in Nat
      BY <1>1, <1>2, <2>1 DEF FactorBy
    <3> HIDE DEF Q
    <3>5. \A a, b, c \in Nat : a * (b * c) = b * (a * c)
      OBVIOUS
    <3>6. z.factor * (y.factor * o[Q]) = y.factor * (z.factor * o[Q])
      BY <3>4, <3>5
    <3> QED BY <2>1, <3>2, <3>3, <3>6
  <2> QED BY <2>2, <2>3
<1>4. \A R \in SUBSET S : R \in G
  <2> HIDE DEF G
  <2> QED BY <1>2, <1>3, SubsetsUp
<1> DEFINE R == S \ {x}
<1>5. Factor(S) = x.factor * o[R]
  BY <1>1, <1>4
<1>6. PICK p : FactorBy(p, R) /\ Factor(R) = p[R]
  BY FactorIs
<1>7. o[R] = p[R]
  BY <1>1, <1>2, <1>6, FS_Subset, FactorsAgree
<1> QED BY <1>5, <1>6, <1>7

LEMMA FactorUnion ==
    ASSUME NEW A \in SUBSET Splits, NEW B \in SUBSET Splits, A \cap B = {}
    PROVE  Factor(A \cup B) = Factor(A) * Factor(B)
<1> DEFINE G == {R \in SUBSET B : Factor(A \cup R) = Factor(A) * Factor(R)}
<1>1. IsFiniteSet(B) /\ \A y \in B : y.factor \in Nat
  BY SplitsAssumption, FS_Subset
<1>2. \A S \in SUBSET Splits : Factor(S) \in Nat
  BY FactorType
<1>3. Factor({}) = 1
  <2>1. PICK o : FactorBy(o, {}) /\ Factor({}) = o[{}]
    BY FactorIs
  <2> QED BY <2>1 DEF FactorBy
<1>4. {} \in G
  <2>1. Factor(A) * 1 = Factor(A)
    BY <1>2
  <2> QED BY <1>3, <2>1
<1>5. ASSUME NEW R \in SUBSET B, NEW x \in B \ R, R \in G PROVE R \cup {x} \in G
  <2>1. Factor(R \cup {x}) = x.factor * Factor(R)
    <3>1. (R \cup {x}) \ {x} = R /\ R \cup {x} \in SUBSET Splits
      OBVIOUS
    <3> QED BY <3>1, FactorPick
  <2>2. Factor(A \cup (R \cup {x})) = x.factor * Factor(A \cup R)
    <3>1. (A \cup (R \cup {x})) \ {x} = A \cup R /\ A \cup (R \cup {x}) \in SUBSET Splits
      OBVIOUS
    <3> QED BY <3>1, FactorPick
  <2>3. Factor(A) \in Nat /\ Factor(R) \in Nat /\ x.factor \in Nat
    BY <1>1, <1>2
  <2>4. \A a, b, c \in Nat : a * (b * c) = b * (a * c)
    OBVIOUS
  <2>5. Factor(A \cup R) = Factor(A) * Factor(R)
    BY <1>5
  <2>6. Factor(A \cup (R \cup {x})) = Factor(A) * Factor(R \cup {x})
    BY <2>1, <2>2, <2>3, <2>4, <2>5
  <2> QED BY <2>6
<1>6. B \in G
  <2> HIDE DEF G
  <2> QED BY <1>1, <1>4, <1>5, GrowsUp
<1> QED BY <1>6

LEMMA FactorDue ==
    ASSUME NEW a \in Int, NEW b \in Int, NEW c \in Int, a <= b, b <= c
    PROVE  /\ Factor(Due(a, c)) = Factor(Due(a, b)) * Factor(Due(b, c))
           /\ Factor(Due(a, a)) = 1
           /\ (\A s \in Splits : s.day > b) => Factor(Due(a, b)) = 1
<1>1. \A s \in Splits : s.day \in Int
  BY SplitsAssumption
<1>2. Due(a, c) = Due(a, b) \cup Due(b, c) /\ Due(a, b) \cap Due(b, c) = {}
  BY <1>1 DEF Due
<1>3. Due(a, b) \in SUBSET Splits /\ Due(b, c) \in SUBSET Splits
  BY DEF Due
<1>4. Due(a, a) = {} /\ ((\A s \in Splits : s.day > b) => Due(a, b) = {})
  BY <1>1 DEF Due
<1>5. Factor({}) = 1
  <2>1. PICK o : FactorBy(o, {}) /\ Factor({}) = o[{}]
    BY FactorIs
  <2> QED BY <2>1 DEF FactorBy
<1>6. Factor(Due(a, b) \cup Due(b, c)) = Factor(Due(a, b)) * Factor(Due(b, c))
  BY <1>2, <1>3, FactorUnion
<1> QED BY <1>2, <1>4, <1>5, <1>6

-----------------------------------------------------------------------------
(* What lots hold and cost, as sums over their places.                     *)
Qtys(lots) == [k \in 1..Len(lots) |-> lots[k].qty]

Bases(lots) == [k \in 1..Len(lots) |-> lots[k].base]

LEMMA LotsOver ==
    ASSUME NEW lots \in Seq(Lot)
    PROVE  /\ Held(lots) = SumTo(Qtys(lots), Len(lots)) /\ CostBase(lots) = SumTo(Bases(lots), Len(lots))
           /\ Held(lots) = SumOver(On(Qtys(lots), DOMAIN lots))
           /\ CostBase(lots) = SumOver(On(Bases(lots), DOMAIN lots))
           /\ \A k \in DOMAIN lots : /\ Qtys(lots)[k] = lots[k].qty /\ lots[k].qty \in Int
                                     /\ Bases(lots)[k] = lots[k].base /\ lots[k].base \in Decimal
<1>1. Len(lots) \in Nat /\ DOMAIN lots = 1..Len(lots)
  OBVIOUS
<1>2. \A k \in DOMAIN lots : /\ Qtys(lots)[k] = lots[k].qty /\ lots[k].qty \in Int
                             /\ Bases(lots)[k] = lots[k].base /\ lots[k].base \in Decimal
  <2>1. \A k \in DOMAIN lots : lots[k] \in Lot
    OBVIOUS
  <2> QED BY <1>1, <2>1 DEF Lot, Qtys, Bases
<1>3. Held(lots) = SumTo(Qtys(lots), Len(lots)) /\ CostBase(lots) = SumTo(Bases(lots), Len(lots))
  BY DEF Held, CostBase, TotalSeq, Qtys, Bases
<1>4. \A k \in 1..Len(lots) : Qtys(lots)[k] \in Decimal /\ Bases(lots)[k] \in Decimal
  BY <1>1, <1>2 DEF Decimal
<1>5. /\ SumTo(Qtys(lots), Len(lots)) = SumOver(On(Qtys(lots), 1..Len(lots)))
      /\ SumTo(Bases(lots), Len(lots)) = SumOver(On(Bases(lots), 1..Len(lots)))
  BY <1>1, <1>4, SumToOver
<1> QED BY <1>1, <1>2, <1>3, <1>5

LEMMA NoLots == Held(<<>>) = 0 /\ CostBase(<<>>) = 0
<1>1. Held(<<>>) = SumTo(Qtys(<<>>), 0) /\ CostBase(<<>>) = SumTo(Bases(<<>>), 0)
  BY DEF Held, CostBase, TotalSeq, Qtys, Bases
<1>2. \A f : SumTo(f, 0) = 0
  <2>1. \A f : \A k \in 1..0 : f[k] \in Decimal
    OBVIOUS
  <2> QED BY <2>1, SumToStep
<1> QED BY <1>1, <1>2

LEMMA LotsAppend ==
    ASSUME NEW lots \in Seq(Lot), NEW l \in Lot
    PROVE  /\ Held(Append(lots, l)) = Held(lots) + l.qty
           /\ CostBase(Append(lots, l)) = SumOf(CostBase(lots), l.base)
<1> DEFINE s == Append(lots, l)
           n == Len(lots)
<1>1. /\ n \in Nat /\ Len(s) = n + 1 /\ s \in Seq(Lot) /\ s[n + 1] = l /\ n + 1 \in 1..(n + 1)
      /\ \A k \in 1..n : s[k] = lots[k] /\ k \in 1..(n + 1)
      /\ DOMAIN lots = 1..n /\ DOMAIN s = 1..(n + 1)
  OBVIOUS
<1> HIDE DEF s, n
<1>2. /\ \A k \in 1..n : /\ Qtys(s)[k] = Qtys(lots)[k] /\ Qtys(lots)[k] \in Decimal
                         /\ Bases(s)[k] = Bases(lots)[k] /\ Bases(lots)[k] \in Decimal
      /\ Qtys(s)[n + 1] = l.qty /\ l.qty \in Int /\ Bases(s)[n + 1] = l.base /\ l.base \in Decimal
  <2>1. \A k \in 1..n : /\ Qtys(lots)[k] = lots[k].qty /\ Qtys(lots)[k] \in Int
                        /\ Bases(lots)[k] = lots[k].base /\ Bases(lots)[k] \in Decimal
    BY <1>1, LotsOver
  <2>2. \A k \in 1..(n + 1) : /\ Qtys(s)[k] = s[k].qty /\ s[k].qty \in Int
                              /\ Bases(s)[k] = s[k].base /\ s[k].base \in Decimal
    BY <1>1, LotsOver
  <2>3. \A k \in 1..n : /\ Qtys(s)[k] = Qtys(lots)[k] /\ Qtys(lots)[k] \in Decimal
                        /\ Bases(s)[k] = Bases(lots)[k] /\ Bases(lots)[k] \in Decimal
    BY <1>1, <2>1, <2>2 DEF Decimal
  <2>4. /\ Qtys(s)[n + 1] = l.qty /\ l.qty \in Int
        /\ Bases(s)[n + 1] = l.base /\ l.base \in Decimal
    BY <1>1, <2>2
  <2> QED BY <2>3, <2>4
<1>3. Qtys(s)[n + 1] \in Decimal /\ Bases(s)[n + 1] \in Decimal
  BY <1>2 DEF Decimal
<1>4. /\ SumTo(Qtys(s), n + 1) = SumOf(SumTo(Qtys(lots), n), l.qty)
      /\ SumTo(Bases(s), n + 1) = SumOf(SumTo(Bases(lots), n), l.base)
  BY <1>1, <1>2, <1>3, SumToMore
<1>5. /\ Held(lots) = SumTo(Qtys(lots), n) /\ CostBase(lots) = SumTo(Bases(lots), n)
      /\ Held(s) = SumTo(Qtys(s), n + 1) /\ CostBase(s) = SumTo(Bases(s), n + 1)
      /\ Held(lots) \in Int
  BY <1>1, LotsOver, LotSums DEF n
<1>6. Held(s) = Held(lots) + l.qty
  BY <1>2, <1>4, <1>5, NoneAssumption DEF SumOf
<1> QED BY <1>4, <1>5, <1>6 DEF s

-----------------------------------------------------------------------------
(* What is taken from the oldest lots: what is not taken of a part of one  *)
(* stays, at the rest of its cost.                                         *)
Taking == [left : Nat, moved : Seq(Lot), kept : Seq(Lot)]

LEMMA ShareAll ==
    ASSUME NEW a \in Decimal, NEW q \in Nat \ {0}
    PROVE  Share(a, q, q) = a /\ (a # None => Share(a, 0, q) = 0)
<1>1. \A x \in Int : (x * q) \div q = x /\ (x * 0) \div q = 0
  OBVIOUS
<1> QED BY <1>1, NoneAssumption DEF Share, Decimal

LEMMA TakeInParts ==
    ASSUME NEW st \in Taking, NEW l \in Lot
    PROVE  \E take, part, rest :
               /\ take \in Nat /\ take <= st.left /\ take <= l.qty /\ (take = st.left \/ take = l.qty)
               /\ take > 0 => part \in Lot /\ part.qty = take
               /\ take < l.qty => rest \in Lot /\ rest.qty = l.qty - take
               /\ SumOf(rest.base, part.base) = l.base
               /\ take = 0 => rest.base = l.base
               /\ take = l.qty => part.base = l.base
               /\ Take(st, l) = [left |-> st.left - take,
                                 moved |-> IF take > 0 THEN Append(st.moved, part) ELSE st.moved,
                                 kept |-> IF take < l.qty THEN Append(st.kept, rest) ELSE st.kept]
<1> DEFINE take == IF l.qty > st.left THEN st.left ELSE l.qty
           part == Part(l, take)
           rest == Rest(l, part)
<1>1. take \in Nat /\ take <= st.left /\ take <= l.qty /\ (take = st.left \/ take = l.qty)
  BY DEF Taking, Lot
<1>2. part = [l EXCEPT !.qty = take, !.cost = Share(l.cost, take, l.qty), !.base = Share(l.base, take, l.qty)]
  BY DEF Part
<1>3. /\ part.qty = take /\ part.cost \in Decimal
      /\ part.base = Share(l.base, take, l.qty) /\ part.base \in Decimal
      /\ take > 0 => part \in Lot
  <2>1. l.qty \in Int /\ l.qty > 0 /\ l.cost \in Decimal /\ l.base \in Decimal /\ take \in Int
    BY <1>1 DEF Lot
  <2>2. Share(l.cost, take, l.qty) \in Decimal /\ Share(l.base, take, l.qty) \in Decimal
    <3> HIDE DEF take
    <3> QED BY <2>1, ShareType
  <2> HIDE DEF take, part
  <2>3. l = [day |-> l.day, qty |-> l.qty, cost |-> l.cost, base |-> l.base] /\ l.day \in Int
    BY DEF Lot
  <2>4. part = [day |-> l.day, qty |-> take, cost |-> Share(l.cost, take, l.qty), base |-> Share(l.base, take, l.qty)]
    BY <1>2, <2>3
  <2> QED BY <1>1, <2>2, <2>3, <2>4 DEF Lot
<1> HIDE DEF take, part
<1>4. rest = [l EXCEPT !.qty = l.qty - take, !.cost = Diff(l.cost, part.cost), !.base = Diff(l.base, part.base)]
  BY <1>3 DEF Rest
<1>5. rest.qty = l.qty - take /\ rest.base = Diff(l.base, part.base) /\ (take < l.qty => rest \in Lot)
  <2>1. Diff(l.cost, part.cost) \in Decimal /\ Diff(l.base, part.base) \in Decimal
    <3>1. l.cost \in Decimal /\ l.base \in Decimal
      BY DEF Lot
    <3> QED BY <1>3, <3>1, AmountOps
  <2>2. l = [day |-> l.day, qty |-> l.qty, cost |-> l.cost, base |-> l.base] /\ l.day \in Int /\ l.qty \in Nat
    BY DEF Lot
  <2> HIDE DEF rest
  <2>3. rest = [day |-> l.day, qty |-> l.qty - take, cost |-> Diff(l.cost, part.cost),
                base |-> Diff(l.base, part.base)]
    BY <1>4, <2>2
  <2> QED BY <1>1, <2>1, <2>2, <2>3 DEF Lot
<1>6. Take(st, l) = [left |-> st.left - take,
                     moved |-> IF take > 0 THEN Append(st.moved, part) ELSE st.moved,
                     kept |-> IF take < l.qty THEN Append(st.kept, rest) ELSE st.kept]
  BY <1>3 DEF Take, TakePart, take, part
<1> HIDE DEF rest
<1>7. /\ SumOf(rest.base, part.base) = l.base
      /\ take = 0 => rest.base = l.base
      /\ take = l.qty => part.base = l.base
  <2>1. l.base \in Decimal /\ l.qty \in Nat \ {0}
    BY DEF Lot
  <2>2. Share(l.base, l.qty, l.qty) = l.base /\ (l.base # None => Share(l.base, 0, l.qty) = 0)
    BY <2>1, ShareAll
  <2>3. l.base = None => part.base = None
    BY <1>3 DEF Share
  <2>4. \A a, b \in Decimal : /\ (a = None => b = None) => SumOf(Diff(a, b), b) = a
                              /\ (a # None => b = 0) /\ (a = None => b = None) => Diff(a, b) = a
    BY NoneAssumption DEF Decimal, SumOf, Diff
  <2> QED BY <1>3, <1>5, <2>1, <2>2, <2>3, <2>4
<1> QED BY <1>1, <1>3, <1>5, <1>6, <1>7

(* What is taken and what stays are the lots, and so are their costs.      *)
LEMMA TakeIs ==
    ASSUME NEW st \in Taking, NEW l \in Lot
    PROVE  LET to == Take(st, l)
           IN /\ to \in Taking
              /\ to.left + Held(to.moved) = st.left + Held(st.moved)
              /\ Held(to.kept) + Held(to.moved) = Held(st.kept) + Held(st.moved) + l.qty
              /\ SumOf(CostBase(to.kept), CostBase(to.moved)) =
                     SumOf(SumOf(CostBase(st.kept), CostBase(st.moved)), l.base)
              /\ (st.left > 0 => st.kept = <<>>) => (to.left > 0 => to.kept = <<>>)
<1> DEFINE to == Take(st, l)
<1>1. PICK take, part, rest :
          /\ take \in Nat /\ take <= st.left /\ take <= l.qty /\ (take = st.left \/ take = l.qty)
          /\ take > 0 => part \in Lot /\ part.qty = take
          /\ take < l.qty => rest \in Lot /\ rest.qty = l.qty - take
          /\ SumOf(rest.base, part.base) = l.base
          /\ take = 0 => rest.base = l.base
          /\ take = l.qty => part.base = l.base
          /\ to = [left |-> st.left - take,
                   moved |-> IF take > 0 THEN Append(st.moved, part) ELSE st.moved,
                   kept |-> IF take < l.qty THEN Append(st.kept, rest) ELSE st.kept]
  BY TakeInParts
<1>2. /\ to.left = st.left - take
      /\ to.moved = IF take > 0 THEN Append(st.moved, part) ELSE st.moved
      /\ to.kept = IF take < l.qty THEN Append(st.kept, rest) ELSE st.kept
      /\ to = [left |-> to.left, moved |-> to.moved, kept |-> to.kept]
  BY <1>1
<1> HIDE DEF to
<1>3. /\ l.qty \in Nat \ {0} /\ l.base \in Decimal
      /\ st.left \in Nat /\ st.moved \in Seq(Lot) /\ st.kept \in Seq(Lot)
  BY DEF Lot, Taking
<1>4. /\ Held(st.moved) \in Int /\ Held(st.kept) \in Int
      /\ CostBase(st.moved) \in Decimal /\ CostBase(st.kept) \in Decimal
  BY <1>3, LotSums
<1>5. /\ to.moved \in Seq(Lot) /\ Held(to.moved) = Held(st.moved) + take
      /\ CostBase(to.moved) = IF take > 0 THEN SumOf(CostBase(st.moved), part.base) ELSE CostBase(st.moved)
  <2>1. CASE take > 0
    <3>1. part \in Lot /\ part.qty = take /\ to.moved = Append(st.moved, part)
      BY <1>1, <1>2, <2>1
    <3>2. /\ Held(to.moved) = Held(st.moved) + take /\ to.moved \in Seq(Lot)
          /\ CostBase(to.moved) = SumOf(CostBase(st.moved), part.base)
      BY <1>3, <3>1, LotsAppend
    <3> QED BY <2>1, <3>2
  <2>2. CASE ~(take > 0)
    <3>1. take = 0 /\ to.moved = st.moved
      BY <1>1, <1>2, <2>2
    <3> QED BY <1>3, <1>4, <2>2, <3>1
  <2> QED BY <2>1, <2>2
<1>6. /\ to.kept \in Seq(Lot) /\ Held(to.kept) = Held(st.kept) + l.qty - take
      /\ CostBase(to.kept) = IF take < l.qty THEN SumOf(CostBase(st.kept), rest.base) ELSE CostBase(st.kept)
  <2>1. CASE take < l.qty
    <3>1. rest \in Lot /\ rest.qty = l.qty - take /\ to.kept = Append(st.kept, rest)
      BY <1>1, <1>2, <2>1
    <3>2. /\ Held(to.kept) = Held(st.kept) + (l.qty - take) /\ to.kept \in Seq(Lot)
          /\ CostBase(to.kept) = SumOf(CostBase(st.kept), rest.base)
      BY <1>3, <3>1, LotsAppend
    <3> QED BY <1>3, <1>4, <2>1, <3>2
  <2>2. CASE ~(take < l.qty)
    <3>1. take = l.qty /\ to.kept = st.kept
      BY <1>1, <1>2, <1>3, <2>2
    <3> QED BY <1>3, <1>4, <2>2, <3>1
  <2> QED BY <2>1, <2>2
<1>7. to \in Taking
  <2>1. to.left \in Nat
    BY <1>1, <1>2, <1>3
  <2> QED BY <1>2, <1>5, <1>6, <2>1 DEF Taking
<1>8. to.left + Held(to.moved) = st.left + Held(st.moved)
  BY <1>1, <1>2, <1>3, <1>4, <1>5
<1>9. Held(to.kept) + Held(to.moved) = Held(st.kept) + Held(st.moved) + l.qty
  BY <1>1, <1>3, <1>4, <1>5, <1>6
<1>10. SumOf(CostBase(to.kept), CostBase(to.moved)) = SumOf(SumOf(CostBase(st.kept), CostBase(st.moved)), l.base)
  <2> DEFINE k == CostBase(st.kept)
             m == CostBase(st.moved)
  <2>1. k \in Decimal /\ m \in Decimal /\ l.base \in Decimal
    BY <1>3, <1>4
  <2> HIDE DEF k, m
  <2>2. CASE take = 0
    <3>1. CostBase(to.moved) = m /\ CostBase(to.kept) = SumOf(k, l.base)
      BY <1>1, <1>3, <1>5, <1>6, <2>2 DEF k, m
    <3>2. \A a, b, c \in Decimal : SumOf(SumOf(a, c), b) = SumOf(SumOf(a, b), c)
      BY NoneAssumption DEF Decimal, SumOf
    <3> QED BY <2>1, <3>1, <3>2 DEF k, m
  <2>3. CASE take = l.qty
    <3>1. CostBase(to.moved) = SumOf(m, l.base) /\ CostBase(to.kept) = k
      BY <1>1, <1>3, <1>5, <1>6, <2>3 DEF k, m
    <3>2. \A a, b, c \in Decimal : SumOf(a, SumOf(b, c)) = SumOf(SumOf(a, b), c)
      BY SumOfLaws
    <3> QED BY <2>1, <3>1, <3>2 DEF k, m
  <2>4. CASE take # 0 /\ take # l.qty
    <3>1. take > 0 /\ take < l.qty
      BY <1>1, <1>3, <2>4
    <3>2. /\ CostBase(to.moved) = SumOf(m, part.base) /\ CostBase(to.kept) = SumOf(k, rest.base)
          /\ part.base \in Decimal /\ rest.base \in Decimal
      BY <1>1, <1>5, <1>6, <3>1 DEF k, m, Lot
    <3>3. \A a, b, c, d \in Decimal : SumOf(SumOf(a, c), SumOf(b, d)) = SumOf(SumOf(a, b), SumOf(c, d))
      BY NoneAssumption DEF Decimal, SumOf
    <3> QED BY <1>1, <2>1, <3>2, <3>3 DEF k, m
  <2> QED BY <2>2, <2>3, <2>4
<1>11. (st.left > 0 => st.kept = <<>>) => (to.left > 0 => to.kept = <<>>)
  <2>1. to.left > 0 => take = l.qty /\ st.left > 0
    BY <1>1, <1>2, <1>3
  <2> QED BY <1>2, <1>3, <2>1
<1> QED BY <1>7, <1>8, <1>9, <1>10, <1>11 DEF to


LEMMA TakeOldestIs ==
    ASSUME NEW lots \in Seq(Lot), NEW qty \in Nat
    PROVE  LET to == TakeOldest(lots, qty)
           IN /\ to \in Taking
              /\ to.left + Held(to.moved) = qty
              /\ Held(to.kept) + Held(to.moved) = Held(lots)
              /\ SumOf(CostBase(to.kept), CostBase(to.moved)) = CostBase(lots)
              /\ to.left > 0 => to.kept = <<>>
<1> DEFINE n == Len(lots)
           first == [left |-> qty, moved |-> <<>>, kept |-> <<>>]
           Rec(o) == o = [k \in 0..n |-> IF k = 0 THEN first ELSE Take(o[k - 1], lots[k])]
           step == [p \in (1..n) \X Taking |-> Take(p[2], lots[p[1]])]
           taken == CHOOSE o : Rec(o)
           f == Qtys(lots)
           g == Bases(lots)
           Right(st, sum, cost) == /\ st \in Taking
                                   /\ st.left + Held(st.moved) = qty
                                   /\ Held(st.kept) + Held(st.moved) = sum
                                   /\ SumOf(CostBase(st.kept), CostBase(st.moved)) = cost
                                   /\ st.left > 0 => st.kept = <<>>
           G == {k \in 0..n : Right(taken[k], SumTo(f, k), SumTo(g, k))}
<1>1. n \in Nat /\ \A k \in 1..n : lots[k] \in Lot
  OBVIOUS
<1>2. /\ \A k \in 1..n : f[k] = lots[k].qty /\ f[k] \in Decimal /\ f[k] \in Int
      /\ \A k \in 1..n : g[k] = lots[k].base /\ g[k] \in Decimal
  BY <1>1, LotsOver DEF Decimal
<1> HIDE DEF f, g
<1>3. first \in Taking
  BY DEF Taking
<1>4. \A st \in Taking, l \in Lot : Take(st, l) \in Taking
  BY TakeIs
<1>5. step \in [(1..n) \X Taking -> Taking]
  BY <1>1, <1>4
<1>6. PICK o : Counts(o, n, Taking, first, step)
  <2> HIDE DEF step, first
  <2> QED BY <1>1, <1>3, <1>5, StepsExist
<1>7. Rec(o)
  <2>1. \A k \in 1..n : k - 1 \in 0..n /\ step[<<k, o[k - 1]>>] = Take(o[k - 1], lots[k])
    <3> HIDE DEF n, first
    <3>1. \A k \in 1..n : k - 1 \in 0..n /\ o[k - 1] \in Taking
      BY <1>1, <1>6 DEF Counts
    <3>2. \A k \in 1..n, st \in Taking : step[<<k, st>>] = Take(st, lots[k])
      OBVIOUS
    <3> HIDE DEF step
    <3> QED BY <3>1, <3>2
  <2> HIDE DEF step, first
  <2>2. o = [k \in 0..n |-> o[k]]
    BY <1>6 DEF Counts
  <2>3. \A k \in 0..n : k # 0 => k \in 1..n
    BY <1>1
  <2>4. \A k \in 0..n : o[k] = IF k = 0 THEN first ELSE Take(o[k - 1], lots[k])
    BY <1>6, <2>1, <2>3 DEF Counts
  <2> QED BY <2>2, <2>4
<1>8. Rec(taken)
  BY <1>7
<1>9. TakeOldest(lots, qty) = taken[n]
  BY DEF TakeOldest
<1> HIDE DEF taken
<1>10. taken[0] = first /\ \A k \in 1..n : taken[k] = Take(taken[k - 1], lots[k])
  BY <1>1, <1>8
<1>11. 0 \in G
  <2>1. SumTo(f, 0) = 0 /\ SumTo(g, 0) = 0
    BY <1>1, <1>2, SumToStep
  <2>2. Held(<<>>) = 0 /\ CostBase(<<>>) = 0 /\ SumOf(0, 0) = 0
    BY NoLots, NoneAssumption DEF SumOf
  <2>3. first.left = qty /\ first.moved = <<>> /\ first.kept = <<>>
    OBVIOUS
  <2> HIDE DEF first
  <2> QED BY <1>1, <1>3, <1>10, <2>1, <2>2, <2>3
<1>12. ASSUME NEW k \in 1..n, k - 1 \in G PROVE k \in G
  <2> DEFINE st == taken[k - 1]
             to == taken[k]
  <2>1. Right(st, SumTo(f, k - 1), SumTo(g, k - 1))
    BY <1>12
  <2>2. to = Take(st, lots[k]) /\ lots[k] \in Lot
    BY <1>1, <1>10
  <2>3. SumTo(f, k) = SumOf(SumTo(f, k - 1), lots[k].qty) /\ SumTo(g, k) = SumOf(SumTo(g, k - 1), lots[k].base)
    <3>1. k \in Nat /\ k # 0 /\ \A j \in 1..k : f[j] \in Decimal /\ g[j] \in Decimal
      BY <1>1, <1>2
    <3> QED BY <1>2, <3>1, SumToStep
  <2> HIDE DEF st, to
  <2>4. /\ to \in Taking
        /\ to.left + Held(to.moved) = st.left + Held(st.moved)
        /\ Held(to.kept) + Held(to.moved) = Held(st.kept) + Held(st.moved) + lots[k].qty
        /\ SumOf(CostBase(to.kept), CostBase(to.moved)) =
               SumOf(SumOf(CostBase(st.kept), CostBase(st.moved)), lots[k].base)
        /\ to.left > 0 => to.kept = <<>>
    BY <2>1, <2>2, TakeIs
  <2>5. Held(st.kept) \in Int /\ Held(st.moved) \in Int /\ lots[k].qty \in Int
    <3>1. st.kept \in Seq(Lot) /\ st.moved \in Seq(Lot) /\ lots[k].qty \in Int
      BY <2>1, <2>2 DEF Taking, Lot
    <3> QED BY <3>1, LotSums
  <2>6. SumTo(f, k) = SumTo(f, k - 1) + lots[k].qty
    BY <2>1, <2>3, <2>5, NoneAssumption DEF SumOf
  <2>7. Right(to, SumTo(f, k), SumTo(g, k))
    BY <2>1, <2>3, <2>4, <2>5, <2>6
  <2> QED BY <1>1, <2>7 DEF to
<1>13. Right(taken[n], SumTo(f, n), SumTo(g, n))
  <2>1. n \in 0..n
    BY <1>1
  <2>2. n \in G
    <3> HIDE DEF G
    <3> QED BY <1>1, <1>11, <1>12, <2>1, CountUp
  <2> QED BY <2>2
<1>14. Held(lots) = SumTo(f, n) /\ CostBase(lots) = SumTo(g, n)
  BY LotsOver DEF f, g
<1> QED BY <1>9, <1>13, <1>14

-----------------------------------------------------------------------------
(* Lots scaled by a split, sorted by date, put together.                   *)
LEMMA LotsScaled ==
    ASSUME NEW lots \in Seq(Lot), NEW factor \in Nat \ {0}
    PROVE  /\ Scaled(lots, factor) \in Seq(Lot)
           /\ Held(Scaled(lots, factor)) = Held(lots) * factor /\ CostBase(Scaled(lots, factor)) = CostBase(lots)
<1> DEFINE to == Scaled(lots, factor)
<1>1. Len(lots) \in Nat /\ DOMAIN lots = 1..Len(lots) /\ \A i \in DOMAIN lots : lots[i] \in Lot
  OBVIOUS
<1>2. to = [i \in DOMAIN lots |-> [lots[i] EXCEPT !.qty = lots[i].qty * factor]]
  BY DEF Scaled
<1>3. \A i \in DOMAIN lots : to[i] \in Lot /\ to[i].qty = lots[i].qty * factor /\ to[i].base = lots[i].base
  <2>1. ASSUME NEW i \in DOMAIN lots
        PROVE  to[i] \in Lot /\ to[i].qty = lots[i].qty * factor /\ to[i].base = lots[i].base
    <3>1. lots[i] \in Lot
      BY <1>1
    <3>2. lots[i].qty \in Nat \ {0}
      BY <3>1 DEF Lot
    <3>3. lots[i].qty * factor \in Nat \ {0}
      BY <3>2
    <3>4. to[i] = [lots[i] EXCEPT !.qty = lots[i].qty * factor]
      BY <1>2
    <3> QED BY <3>1, <3>3, <3>4 DEF Lot
  <2> QED BY <2>1
<1>4. DOMAIN to = DOMAIN lots /\ to = [i \in DOMAIN lots |-> to[i]]
  BY <1>2
<1> HIDE DEF to
<1>5. to \in Seq(Lot) /\ DOMAIN to = DOMAIN lots
  BY <1>1, <1>3, <1>4
<1>6. SumOver(On(Qtys(to), DOMAIN lots)) = SumOver(On(Qtys(lots), DOMAIN lots)) * factor
  <2>1. IsFiniteSet(DOMAIN lots) /\ factor \in Int
    BY <1>1, FS_Interval
  <2>2. \A k \in DOMAIN lots : Qtys(lots)[k] = lots[k].qty /\ lots[k].qty \in Int
    BY LotsOver
  <2>3. \A k \in DOMAIN to : Qtys(to)[k] = to[k].qty
    BY <1>5, LotsOver
  <2>4. \A k \in DOMAIN lots : Qtys(lots)[k] \in Int /\ Qtys(to)[k] = Qtys(lots)[k] * factor
    BY <1>3, <1>5, <2>2, <2>3
  <2> QED BY <2>1, <2>4, SumOverTimes
<1>7. SumOver(On(Bases(to), DOMAIN lots)) = SumOver(On(Bases(lots), DOMAIN lots))
  <2>1. \A k \in DOMAIN lots : Bases(to)[k] = Bases(lots)[k]
    BY <1>3, <1>5, LotsOver
  <2>2. On(Bases(to), DOMAIN lots) = On(Bases(lots), DOMAIN lots)
    BY <2>1 DEF On
  <2> QED BY <2>2
<1>8. /\ Held(to) = SumOver(On(Qtys(to), DOMAIN lots)) /\ CostBase(to) = SumOver(On(Bases(to), DOMAIN lots))
      /\ Held(lots) = SumOver(On(Qtys(lots), DOMAIN lots)) /\ CostBase(lots) = SumOver(On(Bases(lots), DOMAIN lots))
  BY <1>5, LotsOver
<1> QED BY <1>5, <1>6, <1>7, <1>8 DEF to

LEMMA LotsByDay ==
    ASSUME NEW lots \in Seq(Lot)
    PROVE  ByDay(lots) \in Seq(Lot) /\ Held(ByDay(lots)) = Held(lots) /\ CostBase(ByDay(lots)) = CostBase(lots)
<1> DEFINE S == DOMAIN lots
           pairs == {p \in S \X S : \/ lots[p[1]].day < lots[p[2]].day
                                    \/ lots[p[1]].day = lots[p[2]].day /\ p[1] < p[2]}
           order == Sorted(S, pairs)
           to == ByDay(lots)
<1>1. Len(lots) \in Nat /\ S = 1..Len(lots) /\ \A i \in S : lots[i] \in Lot /\ lots[i].day \in Int /\ i \in Int
  <2>1. \A i \in S : lots[i] \in Lot
    OBVIOUS
  <2> QED BY <2>1 DEF Lot
<1>2. to = [n \in S |-> lots[order[n]]]
  BY DEF ByDay, InOrder
<1>3. IsFiniteSet(S) /\ Cardinality(S) = Len(lots)
  BY <1>1, FS_Interval
<1>4. TotalOn(pairs, S)
  BY SMTT(30), <1>1 DEF TotalOn
<1> HIDE DEF S, pairs
<1>5. order \in Seq(S) /\ Len(order) = Len(lots) /\ InTurn(order, S, pairs)
  BY <1>3, <1>4, SortedIs
<1> HIDE DEF order
<1>6. \A n \in S : order[n] \in S
  BY <1>1, <1>5
<1>7. S = {order[n] : n \in S} /\ \A i, j \in S : order[i] = order[j] => i = j
  <2>1. S = {order[n] : n \in 1..Len(order)}
    BY <1>5 DEF InTurn
  <2>2. \A i, j \in 1..Len(order) : i < j => order[i] # order[j]
    BY <1>5 DEF InTurn
  <2>3. \A i, j \in S : i < j \/ j < i \/ i = j
    BY <1>1
  <2> QED BY <1>1, <1>5, <2>1, <2>2, <2>3
<1>8. to \in Seq(Lot) /\ DOMAIN to = S /\ \A n \in S : to[n] = lots[order[n]]
  <2>1. DOMAIN to = S /\ \A n \in S : to[n] = lots[order[n]] /\ to[n] \in Lot
    BY <1>1, <1>2, <1>6
  <2>2. to = [n \in 1..Len(lots) |-> to[n]]
    BY <1>1, <1>2
  <2> HIDE DEF to
  <2>3. to \in [1..Len(lots) -> Lot]
    BY <1>1, <2>1, <2>2
  <2> QED BY <1>1, <2>1, <2>3, SeqDef
<1> HIDE DEF to
<1>9. /\ SumOver(On(Qtys(to), S)) = SumOver(On(Qtys(lots), {order[n] : n \in S}))
      /\ SumOver(On(Bases(to), S)) = SumOver(On(Bases(lots), {order[n] : n \in S}))
  <2>1. /\ \A k \in S : Qtys(lots)[k] = lots[k].qty /\ lots[k].qty \in Int
        /\ \A k \in S : Bases(lots)[k] = lots[k].base /\ lots[k].base \in Decimal
    BY LotsOver DEF S
  <2>2. \A k \in S : Qtys(to)[k] = to[k].qty /\ Bases(to)[k] = to[k].base
    BY <1>8, LotsOver
  <2>3. /\ \A k \in S : Qtys(to)[k] = Qtys(lots)[order[k]] /\ Qtys(to)[k] \in Decimal
        /\ \A k \in S : Bases(to)[k] = Bases(lots)[order[k]] /\ Bases(to)[k] \in Decimal
    BY <1>6, <1>8, <2>1, <2>2 DEF Decimal
  <2> QED BY <1>3, <1>7, <2>3, SumOverMoved
<1>10. /\ Held(to) = SumOver(On(Qtys(to), S)) /\ Held(lots) = SumOver(On(Qtys(lots), S))
       /\ CostBase(to) = SumOver(On(Bases(to), S)) /\ CostBase(lots) = SumOver(On(Bases(lots), S))
  BY <1>8, LotsOver DEF S
<1> QED BY <1>7, <1>8, <1>9, <1>10 DEF to

LEMMA LotsConcat ==
    ASSUME NEW a \in Seq(Lot), NEW b \in Seq(Lot)
    PROVE  Held(a \o b) = Held(a) + Held(b) /\ CostBase(a \o b) = SumOf(CostBase(a), CostBase(b))
<1> DEFINE c == a \o b
           m == Len(a)
           n == Len(b)
           l == Len(c)
<1>1. /\ m \in Nat /\ n \in Nat /\ c \in Seq(Lot) /\ l = m + n
      /\ DOMAIN a = 1..m /\ DOMAIN b = 1..n /\ DOMAIN c = 1..(m + n)
      /\ \A k \in 1..m : c[k] = a[k] /\ k \in 1..(m + n)
      /\ \A k \in 1..n : c[m + k] = b[k] /\ m + k \in 1..(m + n)
  OBVIOUS
<1> HIDE DEF c, l, m, n
<1>0. \A lots \in Seq(Lot) : \A k \in DOMAIN lots :
          /\ Qtys(lots)[k] = lots[k].qty /\ Qtys(lots)[k] \in Decimal
          /\ Bases(lots)[k] = lots[k].base /\ Bases(lots)[k] \in Decimal
  BY LotsOver DEF Decimal
<1>2. /\ \A k \in 1..m : /\ Qtys(c)[k] = Qtys(a)[k] /\ Qtys(a)[k] \in Decimal
                         /\ Bases(c)[k] = Bases(a)[k] /\ Bases(a)[k] \in Decimal
      /\ \A k \in 1..n : /\ Qtys(c)[m + k] = Qtys(b)[k] /\ Qtys(b)[k] \in Decimal
                         /\ Bases(c)[m + k] = Bases(b)[k] /\ Bases(b)[k] \in Decimal
  <2>1. /\ \A k \in 1..m : /\ Qtys(a)[k] = a[k].qty /\ Qtys(a)[k] \in Decimal
                           /\ Bases(a)[k] = a[k].base /\ Bases(a)[k] \in Decimal
        /\ \A k \in 1..n : /\ Qtys(b)[k] = b[k].qty /\ Qtys(b)[k] \in Decimal
                           /\ Bases(b)[k] = b[k].base /\ Bases(b)[k] \in Decimal
        /\ \A k \in 1..(m + n) : Qtys(c)[k] = c[k].qty /\ Bases(c)[k] = c[k].base
    BY <1>0, <1>1
  <2>2. \A k \in 1..m : Qtys(c)[k] = a[k].qty /\ Bases(c)[k] = a[k].base
    BY <1>1, <2>1
  <2>3. ASSUME NEW k \in 1..n PROVE Qtys(c)[m + k] = b[k].qty /\ Bases(c)[m + k] = b[k].base
    <3> DEFINE i == m + k
    <3>1. i \in 1..(m + n) /\ c[i] = b[k]
      BY <1>1
    <3> HIDE DEF i
    <3>2. Qtys(c)[i] = b[k].qty /\ Bases(c)[i] = b[k].base
      BY <2>1, <3>1
    <3> QED BY <3>2 DEF i
  <2> QED BY <2>1, <2>2, <2>3
<1>3. /\ SumTo(Qtys(c), l) = SumOf(SumTo(Qtys(a), m), SumTo(Qtys(b), n))
      /\ SumTo(Bases(c), l) = SumOf(SumTo(Bases(a), m), SumTo(Bases(b), n))
  <2>1. SumTo(Qtys(c), l) = SumOf(SumTo(Qtys(a), m), SumTo(Qtys(b), n))
    <3>1. /\ \A k \in 1..m : Qtys(a)[k] \in Decimal /\ Qtys(c)[k] = Qtys(a)[k]
          /\ \A k \in 1..n : Qtys(b)[k] \in Decimal /\ Qtys(c)[m + k] = Qtys(b)[k]
      BY <1>2
    <3> QED BY SMTT(30), <1>1, <3>1, SumToConcat
  <2>2. SumTo(Bases(c), l) = SumOf(SumTo(Bases(a), m), SumTo(Bases(b), n))
    <3>1. /\ \A k \in 1..m : Bases(a)[k] \in Decimal /\ Bases(c)[k] = Bases(a)[k]
          /\ \A k \in 1..n : Bases(b)[k] \in Decimal /\ Bases(c)[m + k] = Bases(b)[k]
      BY <1>2
    <3> QED BY SMTT(30), <1>1, <3>1, SumToConcat
  <2> QED BY <2>1, <2>2
<1>4. /\ Held(a) = SumTo(Qtys(a), m) /\ CostBase(a) = SumTo(Bases(a), m)
      /\ Held(b) = SumTo(Qtys(b), n) /\ CostBase(b) = SumTo(Bases(b), n)
      /\ Held(c) = SumTo(Qtys(c), l) /\ CostBase(c) = SumTo(Bases(c), l)
      /\ Held(a) \in Int /\ Held(b) \in Int
  BY <1>1, LotsOver, LotSums DEF l, m, n
<1>5. Held(c) = Held(a) + Held(b)
  BY <1>3, <1>4, NoneAssumption DEF SumOf
<1> QED BY <1>3, <1>4, <1>5 DEF c


-----------------------------------------------------------------------------
(* A trade as the ledger reads it, and what the ledger does with it.       *)
IsTrade(t) ==
    /\ t.day \in Int /\ t.account \in Int /\ t.side \in Sides
    /\ t.qty \in Decimal /\ t.amount \in Decimal /\ t.fees \in Decimal

LEMMA AcquireType ==
    ASSUME NEW p \in Position, NEW t, t.day \in Int, NEW qty \in Nat \ {0}, NEW cost \in Decimal
    PROVE  Acquire(p, t, qty, cost) \in Position
<1> DEFINE lot == [day |-> t.day, qty |-> qty, cost |-> cost, base |-> Convert(cost, t.day)]
<1>1. lot \in Lot
  BY ConvertType DEF Lot
<1>2. Append(p.lots, lot) \in Seq(Lot)
  BY <1>1 DEF Position
<1>3. Acquire(p, t, qty, cost) = [p EXCEPT !.lots = Append(p.lots, lot)]
  BY DEF Acquire
<1> HIDE DEF lot
<1> QED BY <1>2, <1>3 DEF Position

LEMMA ReceiveType ==
    ASSUME NEW p \in Position, NEW t, IsTrade(t)
    PROVE  Receive(p, t) \in Position
<1> DEFINE got == [day |-> t.day, amount |-> t.amount, base |-> Convert(t.amount, t.day)]
<1>1. got \in IncomeGot
  BY ConvertType DEF IncomeGot, IsTrade
<1>2. Append(p.income, got) \in Seq(IncomeGot)
  BY <1>1 DEF Position
<1>3. Receive(p, t) = [p EXCEPT !.income = Append(p.income, got)]
  BY DEF Receive
<1> HIDE DEF got
<1> QED BY <1>2, <1>3 DEF Position

LEMMA SaleType ==
    ASSUME NEW t, IsTrade(t), HasQty(t), NEW moved \in Seq(Lot)
    PROVE  Sale(t, moved) \in SaleMade
<1> DEFINE net == Diff(t.amount, OrZero(t.fees))
           proceeds == Share(net, Held(moved), t.qty)
<1>1. t.qty \in Int /\ t.qty > 0 /\ t.day \in Int /\ t.amount \in Decimal /\ t.fees \in Decimal
  BY DEF IsTrade, HasQty, Decimal
<1>2. Held(moved) \in Int /\ Cost(moved) \in Decimal /\ CostBase(moved) \in Decimal
  BY LotSums
<1>3. net \in Decimal
  <2>1. OrZero(t.fees) \in Decimal
    BY <1>1, AmountOps DEF Decimal
  <2> QED BY <1>1, <2>1, AmountOps
<1> HIDE DEF net
<1>4. proceeds \in Decimal
  BY <1>1, <1>2, <1>3, ShareType
<1>5. Sale(t, moved) = Realized(t, moved, proceeds)
  BY DEF Sale, net
<1> HIDE DEF proceeds
<1>6. Diff(proceeds, Cost(moved)) \in Decimal /\ Diff(Convert(proceeds, t.day), CostBase(moved)) \in Decimal
  BY <1>1, <1>2, <1>4, AmountOps, ConvertType
<1> QED BY <1>1, <1>2, <1>5, <1>6 DEF Realized, SaleMade

(* A disposal takes its quantity: what lots there are, oldest first, and   *)
(* the rest of it is oversold; no share is lost or taken twice.            *)
THEOREM DisposeConserves ==
    ASSUME NEW p \in Position, NEW t, IsTrade(t), HasQty(t)
    PROVE  LET to == Dispose(p, t)
           IN /\ to \in Position
              /\ Held(to.lots) - to.over = Held(p.lots) - p.over - t.qty
              /\ to.over >= p.over /\ (to.over > p.over => to.lots = <<>>)
<1> DEFINE taken == TakeOldest(p.lots, t.qty)
           to == Dispose(p, t)
<1>1. t.qty \in Nat /\ t.qty > 0 /\ p.lots \in Seq(Lot) /\ p.sales \in Seq(SaleMade) /\ p.over \in Int
  BY DEF IsTrade, HasQty, Decimal, Position
<1>2. /\ taken \in Taking
      /\ taken.left + Held(taken.moved) = t.qty
      /\ Held(taken.kept) + Held(taken.moved) = Held(p.lots)
      /\ taken.left > 0 => taken.kept = <<>>
  BY <1>1, TakeOldestIs
<1> DEFINE sales == IF t.side = "sell" /\ Held(taken.moved) > 0 THEN Append(p.sales, Sale(t, taken.moved))
                    ELSE p.sales
<1>3. to = [p EXCEPT !.lots = taken.kept, !.over = p.over + taken.left, !.sales = sales]
  BY DEF Dispose, Give
<1> HIDE DEF taken
<1>4. sales \in Seq(SaleMade)
  <2>1. Sale(t, taken.moved) \in SaleMade
    BY <1>2, SaleType DEF Taking
  <2> QED BY <1>1, <2>1
<1> HIDE DEF sales, to
<1>5. taken.left \in Nat /\ taken.moved \in Seq(Lot) /\ taken.kept \in Seq(Lot)
  BY <1>2 DEF Taking
<1>6. to.lots = taken.kept /\ to.over = p.over + taken.left /\ to \in Position
  <2>1. p = [lots |-> p.lots, sales |-> p.sales, income |-> p.income, over |-> p.over] /\ p.income \in Seq(IncomeGot)
    BY DEF Position
  <2>2. to = [lots |-> taken.kept, sales |-> sales, income |-> p.income, over |-> p.over + taken.left]
    BY <1>3, <2>1
  <2>3. p.over + taken.left \in Int
    BY <1>1, <1>5
  <2> QED BY <1>4, <1>5, <2>1, <2>2, <2>3 DEF Position
<1>7. Held(taken.moved) \in Int /\ Held(taken.kept) \in Int /\ Held(p.lots) \in Int
  BY <1>1, <1>5, LotSums
<1> QED BY <1>1, <1>2, <1>5, <1>6, <1>7 DEF to

LEMMA ArriveType ==
    ASSUME NEW p \in Position, NEW in, IsTrade(in), HasQty(in), NEW moved \in Seq(Lot)
    PROVE  Arrive(p, in, moved) \in Position
<1> DEFINE q == [p EXCEPT !.lots = ByDay(p.lots \o moved)]
           rest == in.qty - Held(moved)
           cost == Share(SumOf(in.amount, OrZero(in.fees)), rest, in.qty)
<1>1. q \in Position
  <2>1. p.lots \o moved \in Seq(Lot)
    BY DEF Position
  <2>2. ByDay(p.lots \o moved) \in Seq(Lot)
    BY <2>1, LotsByDay
  <2> QED BY <2>2 DEF Position
<1>2. in.qty \in Int /\ in.qty > 0 /\ in.day \in Int /\ in.amount \in Decimal /\ in.fees \in Decimal
  BY DEF IsTrade, HasQty, Decimal
<1>3. rest \in Int
  BY <1>2, LotSums
<1>4. SumOf(in.amount, OrZero(in.fees)) \in Decimal
  <2>1. OrZero(in.fees) \in Decimal
    BY <1>2, AmountOps DEF Decimal
  <2> QED BY <1>2, <2>1, AmountOps
<1>5. Arrive(p, in, moved) = IF rest <= 0 THEN q ELSE Acquire(q, in, rest, cost)
  BY DEF Arrive, AcquireRest
<1> HIDE DEF q, rest
<1>6. cost \in Decimal
  BY <1>2, <1>3, <1>4, ShareType
<1> HIDE DEF cost
<1>7. rest > 0 => Acquire(q, in, rest, cost) \in Position
  BY <1>1, <1>2, <1>3, <1>6, AcquireType
<1> QED BY <1>1, <1>3, <1>5, <1>7

LEMMA ScaleType ==
    ASSUME NEW accounts, NEW positions \in [accounts -> Position], NEW from, NEW to
    PROVE  Scale(positions, from, to) \in [accounts -> Position]
<1> DEFINE factor == Factor(Due(from, to))
<1>1. factor \in Nat \ {0}
  BY FactorType DEF Due
<1>2. Scale(positions, from, to) =
          [a \in accounts |-> [positions[a] EXCEPT !.lots = Scaled(positions[a].lots, factor)]]
  BY DEF Scale
<1> HIDE DEF factor
<1>3. ASSUME NEW lots \in Seq(Lot) PROVE Scaled(lots, factor) \in Seq(Lot)
  BY <1>1, LotsScaled
<1>4. ASSUME NEW a \in accounts PROVE [positions[a] EXCEPT !.lots = Scaled(positions[a].lots, factor)] \in Position
  <2>1. positions[a] \in Position /\ positions[a].lots \in Seq(Lot)
    BY DEF Position
  <2>2. Scaled(positions[a].lots, factor) \in Seq(Lot)
    BY <2>1, <1>3
  <2> QED BY <2>1, <2>2 DEF Position
<1> QED BY <1>2, <1>4

LEMMA ApplyType ==
    ASSUME NEW accounts, NEW positions \in [accounts -> Position], NEW t, IsTrade(t), t.account \in accounts
    PROVE  Apply(positions, t) \in [accounts -> Position]
<1> DEFINE p == positions[t.account]
           cost == SumOf(t.amount, OrZero(t.fees))
           to == CASE Acquires(t.side) /\ HasQty(t) -> Acquire(p, t, t.qty, cost)
                   [] Disposes(t.side) /\ HasQty(t) -> Dispose(p, t)
                   [] t.side = "dividend" -> Receive(p, t)
                   [] OTHER -> p
<1>1. p \in Position
  OBVIOUS
<1>2. Apply(positions, t) = [positions EXCEPT ![t.account] = to]
  BY DEF Apply
<1> HIDE DEF p
<1>3. HasQty(t) => t.qty \in Nat \ {0}
  BY DEF HasQty, IsTrade, Decimal
<1>4. cost \in Decimal
  <2>1. t.amount \in Decimal /\ t.fees \in Decimal
    BY DEF IsTrade
  <2>2. OrZero(t.fees) \in Decimal
    BY <2>1, AmountOps DEF Decimal
  <2> QED BY <2>1, <2>2, AmountOps
<1> HIDE DEF cost
<1>5. HasQty(t) => Acquire(p, t, t.qty, cost) \in Position
  BY <1>1, <1>3, <1>4, AcquireType DEF IsTrade
<1>6. HasQty(t) => Dispose(p, t) \in Position
  BY <1>1, DisposeConserves
<1>7. Receive(p, t) \in Position
  BY <1>1, ReceiveType
<1>8. to \in Position
  <2>1. \/ Acquires(t.side) /\ HasQty(t) /\ to = Acquire(p, t, t.qty, cost)
        \/ Disposes(t.side) /\ HasQty(t) /\ to = Dispose(p, t)
        \/ to = Receive(p, t)
        \/ to = p
    <3>1. ~(Acquires(t.side) /\ Disposes(t.side)) /\ ~(Acquires(t.side) /\ t.side = "dividend")
          /\ ~(Disposes(t.side) /\ t.side = "dividend")
      BY DEF Acquires, Disposes
    <3> QED BY <3>1
  <2> HIDE DEF to
  <2> QED BY <1>1, <1>5, <1>6, <1>7, <2>1
<1> HIDE DEF to
<1> QED BY <1>2, <1>8

LEMMA TransferType ==
    ASSUME NEW accounts, NEW positions \in [accounts -> Position],
           NEW out, IsTrade(out), out.account \in accounts,
           NEW in, IsTrade(in), in.account \in accounts, Fits(in, out)
    PROVE  Transfer(positions, out, in) \in [accounts -> Position]
<1> DEFINE moved == TakeOldest(positions[out.account].lots, out.qty).moved
           given == Apply(positions, out)
           to == IF HasQty(out) THEN Arrive(given[in.account], in, moved) ELSE given[in.account]
<1>1. given \in [accounts -> Position]
  BY ApplyType
<1>2. Transfer(positions, out, in) = [given EXCEPT ![in.account] = to]
  BY DEF Transfer
<1>3. HasQty(out) => HasQty(in) /\ moved \in Seq(Lot)
  <2>1. HasQty(out) => HasQty(in) /\ out.qty \in Nat
    BY DEF Fits, Eq, HasQty, IsTrade, Decimal
  <2>2. positions[out.account].lots \in Seq(Lot)
    BY DEF Position
  <2>3. HasQty(out) => TakeOldest(positions[out.account].lots, out.qty) \in Taking
    BY <2>1, <2>2, TakeOldestIs
  <2> QED BY <2>1, <2>3 DEF Taking
<1> HIDE DEF moved, given
<1>4. to \in Position
  BY <1>1, <1>3, ArriveType
<1> HIDE DEF to
<1> QED BY <1>1, <1>2, <1>4

-----------------------------------------------------------------------------
(* The trades of an account list, paired and walked through in order.      *)
LEMMA NearestIs ==
    ASSUME NEW ts, NEW out, out.day \in Int, NEW fit \in SUBSET Nat, fit # {},
           \A j \in fit : ts[j].day \in Int
    PROVE  LET j == Nearest(ts, out, fit)
           IN j \in fit /\ \A k \in fit :
                  Gap(ts[j], out) < Gap(ts[k], out) \/ (Gap(ts[j], out) = Gap(ts[k], out) /\ j <= k)
<1> DEFINE gaps == {Gap(ts[j], out) : j \in fit}
<1>1. \A j \in fit : Gap(ts[j], out) \in Nat
  BY DEF Gap, Abs
<1>2. PICK least \in gaps : \A g \in gaps : least <= g
  <2>1. gaps \in SUBSET Nat /\ gaps # {}
    BY <1>1
  <2> HIDE DEF gaps
  <2> QED BY <2>1, LeastNat
<1> DEFINE nearest == {j \in fit : Gap(ts[j], out) = least}
<1>3. PICK j \in nearest : \A k \in nearest : j <= k
  <2>1. nearest \in SUBSET Nat /\ nearest # {}
    OBVIOUS
  <2> HIDE DEF nearest
  <2> QED BY <2>1, LeastNat
<1>4. \A k \in fit : Gap(ts[j], out) < Gap(ts[k], out) \/ (Gap(ts[j], out) = Gap(ts[k], out) /\ j <= k)
  <2> SUFFICES ASSUME NEW k \in fit
               PROVE  Gap(ts[j], out) < Gap(ts[k], out) \/ (Gap(ts[j], out) = Gap(ts[k], out) /\ j <= k)
    OBVIOUS
  <2>1. least <= Gap(ts[k], out) /\ Gap(ts[j], out) = least
    BY <1>2
  <2>2. CASE Gap(ts[k], out) = least
    BY <1>3, <2>1, <2>2
  <2>3. CASE Gap(ts[k], out) # least
    BY <1>1, <1>3, <2>1, <2>3
  <2> QED BY <2>2, <2>3
<1>5. j \in fit
  OBVIOUS
<1> HIDE DEF nearest, gaps
<1> QED BY <1>4, <1>5 DEF Nearest

(* An out and the in that it is paired with, by their places.              *)
Matches(ts) == {p \in (DOMAIN ts) \X (DOMAIN ts) : Fits(ts[p[2]], ts[p[1]])}

AreTrades(ts) == Len(ts) \in Nat /\ DOMAIN ts = 1..Len(ts) /\ \A n \in DOMAIN ts : IsTrade(ts[n])

LEMMA PairNextType ==
    ASSUME NEW ts, AreTrades(ts), NEW into \in SUBSET Matches(ts), NEW n \in DOMAIN ts
    PROVE  PairNext(ts, into, n) \in SUBSET Matches(ts)
<1> DEFINE fit == {j \in DOMAIN ts : Fits(ts[j], ts[n]) /\ \A p \in into : p[2] # j}
<1>1. \A j \in DOMAIN ts : j \in Nat /\ ts[j].day \in Int
  BY DEF AreTrades, IsTrade
<1>2. PairNext(ts, into, n) = Pair(ts, into, n, fit)
  BY DEF PairNext
<1>3. fit \in SUBSET DOMAIN ts /\ \A j \in fit : Fits(ts[j], ts[n])
  OBVIOUS
<1> HIDE DEF fit
<1>4. CASE fit # {} /\ ts[n].side = "transfer_out"
  <2>1. Nearest(ts, ts[n], fit) \in fit
    BY <1>1, <1>3, <1>4, NearestIs
  <2>2. <<n, Nearest(ts, ts[n], fit)>> \in Matches(ts)
    BY <1>3, <2>1 DEF Matches
  <2> QED BY <1>2, <2>2 DEF Pair
<1>5. CASE ~(fit # {} /\ ts[n].side = "transfer_out")
  BY <1>2, <1>5 DEF Pair
<1> QED BY <1>4, <1>5

(* The pairs of a list: each is an out's place and an in's, and no place   *)
(* is in two of them.                                                      *)
Pairing(ts, into) ==
    /\ into \in SUBSET Matches(ts)
    /\ \A p \in into : ts[p[1]].side = "transfer_out"
    /\ \A p, q \in into : p[1] = q[1] \/ p[2] = q[2] => p = q

LEMMA PairNextIs ==
    ASSUME NEW ts, AreTrades(ts), NEW into, Pairing(ts, into), NEW n \in DOMAIN ts, \A p \in into : p[1] < n
    PROVE  /\ Pairing(ts, PairNext(ts, into, n))
           /\ \A p \in PairNext(ts, into, n) : p[1] <= n
<1> DEFINE fit == {j \in DOMAIN ts : Fits(ts[j], ts[n]) /\ \A p \in into : p[2] # j}
<1>1. n \in Nat /\ \A j \in DOMAIN ts : j \in Nat /\ ts[j].day \in Int
  BY DEF AreTrades, IsTrade
<1>2. PairNext(ts, into, n) = Pair(ts, into, n, fit)
  BY DEF PairNext
<1>3. fit \in SUBSET DOMAIN ts /\ \A j \in fit : Fits(ts[j], ts[n]) /\ \A p \in into : p[2] # j
  OBVIOUS
<1>4. \A p \in into : p \in (DOMAIN ts) \X (DOMAIN ts) /\ p[1] \in Nat
  BY <1>1 DEF Pairing, Matches
<1> HIDE DEF fit
<1>5. CASE fit # {} /\ ts[n].side = "transfer_out"
  <2> DEFINE new == <<n, Nearest(ts, ts[n], fit)>>
  <2>1. Nearest(ts, ts[n], fit) \in fit
    BY <1>1, <1>3, <1>5, NearestIs
  <2>2. new \in Matches(ts) /\ new[1] = n /\ \A p \in into : p[1] # new[1] /\ p[2] # new[2]
    BY <1>1, <1>3, <1>4, <2>1 DEF Matches
  <2>3. PairNext(ts, into, n) = into \cup {new}
    BY <1>2, <1>5 DEF Pair
  <2> HIDE DEF new
  <2>4. Pairing(ts, into \cup {new})
    BY <1>5, <2>2 DEF Pairing
  <2>5. \A p \in into \cup {new} : p[1] <= n
    BY <1>1, <1>4, <2>2
  <2> QED BY <2>3, <2>4, <2>5
<1>6. CASE ~(fit # {} /\ ts[n].side = "transfer_out")
  <2>1. PairNext(ts, into, n) = into
    BY <1>2, <1>6 DEF Pair
  <2> QED BY <1>1, <1>4, <2>1
<1> QED BY <1>5, <1>6

(* The pairs made once the list is walked to a place.                      *)
PairsMade(at, ts) ==
    /\ PairTransfers(ts) = at[Len(ts)]
    /\ at[0] = {}
    /\ \A k \in 1..Len(ts) : at[k] = PairNext(ts, at[k - 1], k)
    /\ \A k \in 0..Len(ts) : Pairing(ts, at[k]) /\ \A p \in at[k] : p[1] <= k

LEMMA PairsMadeIs ==
    ASSUME NEW ts, AreTrades(ts)
    PROVE  \E at : PairsMade(at, ts)
<1> DEFINE n == Len(ts)
           T == SUBSET Matches(ts)
           Rec(o) == o = [k \in 0..n |-> IF k = 0 THEN {} ELSE PairNext(ts, o[k - 1], k)]
           step == [p \in (1..n) \X T |-> PairNext(ts, p[2], p[1])]
           into == CHOOSE o : Rec(o)
           G == {k \in 0..n : Pairing(ts, into[k]) /\ \A p \in into[k] : p[1] <= k}
<1>1. n \in Nat /\ DOMAIN ts = 1..n /\ {} \in T
  BY DEF AreTrades
<1>2. \A k \in 1..n, s \in T : PairNext(ts, s, k) \in T
  BY <1>1, PairNextType
<1> HIDE DEF n, T
<1>3. step \in [(1..n) \X T -> T]
  BY <1>2
<1>4. PICK o : Counts(o, n, T, {}, step)
  <2> HIDE DEF step
  <2> QED BY <1>1, <1>3, StepsExist
<1>5. Rec(o)
  <2>1. \A k \in 1..n : k - 1 \in 0..n /\ o[k - 1] \in T
    BY <1>1, <1>4 DEF Counts
  <2>2. \A k \in 1..n, s \in T : step[<<k, s>>] = PairNext(ts, s, k)
    OBVIOUS
  <2> HIDE DEF step
  <2>3. o = [k \in 0..n |-> o[k]]
    BY <1>4 DEF Counts
  <2>4. \A k \in 0..n : k # 0 => k \in 1..n
    BY <1>1
  <2>5. \A k \in 0..n : o[k] = IF k = 0 THEN {} ELSE PairNext(ts, o[k - 1], k)
    BY <1>4, <2>1, <2>2, <2>4 DEF Counts
  <2> QED BY <2>3, <2>5
<1>6. Rec(into)
  BY <1>5
<1>7. PairTransfers(ts) = into[n]
  BY DEF PairTransfers, n
<1> HIDE DEF into
<1>8. 0 \in 0..n /\ \A k \in 1..n : k \in 0..n /\ k # 0
  BY <1>1
<1>9. into[0] = {} /\ \A k \in 1..n : into[k] = PairNext(ts, into[k - 1], k)
  BY <1>6, <1>8
<1>10. 0 \in G /\ \A k \in 1..n : k - 1 \in G => k \in G
  <2>2. ASSUME NEW k \in 1..n, k - 1 \in G PROVE k \in G
    <3>1. into[k] = PairNext(ts, into[k - 1], k)
      BY <1>9
    <3>2. Pairing(ts, into[k - 1]) /\ k \in DOMAIN ts /\ \A p \in into[k - 1] : p[1] < k
      <4>1. Pairing(ts, into[k - 1]) /\ \A p \in into[k - 1] : p[1] <= k - 1
        BY <2>2
      <4>2. \A p \in into[k - 1] : p[1] \in 1..n
        BY <1>1, <4>1 DEF Pairing, Matches
      <4> QED BY <1>1, <4>1, <4>2
    <3>3. /\ Pairing(ts, PairNext(ts, into[k - 1], k))
          /\ \A p \in PairNext(ts, into[k - 1], k) : p[1] <= k
      <4> DEFINE before == into[k - 1]
      <4>1. Pairing(ts, before) /\ k \in DOMAIN ts /\ \A p \in before : p[1] < k
        BY <3>2
      <4> HIDE DEF before
      <4>2. Pairing(ts, PairNext(ts, before, k)) /\ \A p \in PairNext(ts, before, k) : p[1] <= k
        BY <4>1, PairNextIs
      <4> QED BY <4>2 DEF before
    <3> QED BY <1>8, <3>1, <3>3
  <2>3. Pairing(ts, {})
    BY DEF Pairing
  <2> QED BY <1>8, <1>9, <2>2, <2>3
<1>11. \A k \in 0..n : k \in G
  <2> HIDE DEF G
  <2> QED BY <1>1, <1>10, CountUp
<1>12. PairsMade(into, ts)
  BY <1>7, <1>9, <1>11 DEF PairsMade, n
<1> QED BY <1>12

LEMMA PairTransfersIs ==
    ASSUME NEW ts, AreTrades(ts)
    PROVE  Pairing(ts, PairTransfers(ts))
<1>1. PICK at : PairsMade(at, ts)
  BY PairsMadeIs
<1>2. Len(ts) \in 0..Len(ts)
  BY DEF AreTrades
<1> QED BY <1>1, <1>2 DEF PairsMade

LEMMA PassType ==
    ASSUME NEW ts, AreTrades(ts), NEW into \in SUBSET Matches(ts),
           NEW accounts, \A k \in DOMAIN ts : ts[k].account \in accounts,
           NEW st \in [day : Int, positions : [accounts -> Position]], NEW n \in DOMAIN ts
    PROVE  Pass(st, ts, into, n) \in [day : Int, positions : [accounts -> Position]]
<1> DEFINE scaled == Scale(st.positions, st.day, ts[n].day)
<1>1. scaled \in [accounts -> Position]
  BY ScaleType
<1>2. ts[n].day \in Int /\ IsTrade(ts[n])
  BY DEF AreTrades, IsTrade
<1> HIDE DEF scaled
<1>3. Step(scaled, ts, into, n) \in [accounts -> Position]
  <2>1. CASE \E p \in into : p[1] = n
    <3> DEFINE q == CHOOSE p \in into : p[1] = n
    <3>1. q \in into /\ q[1] = n
      BY <2>1
    <3>2. Step(scaled, ts, into, n) = Transfer(scaled, ts[n], ts[q[2]])
      BY <2>1 DEF Step
    <3> HIDE DEF q
    <3>3. q[2] \in DOMAIN ts /\ Fits(ts[q[2]], ts[n])
      BY <3>1 DEF Matches
    <3>4. IsTrade(ts[q[2]])
      BY <3>3 DEF AreTrades
    <3> QED BY <1>1, <1>2, <3>2, <3>3, <3>4, TransferType
  <2>2. CASE ~\E p \in into : p[1] = n
    BY <1>1, <1>2, <2>2, ApplyType DEF Step
  <2> QED BY <2>1, <2>2
<1> QED BY <1>2, <1>3 DEF Pass, scaled

(* The walk through a list, trade by trade.                                *)
Walks(at, ts, into, accounts) ==
    /\ Walk(ts, into) = at[Len(ts)]
    /\ at[0] = [day |-> 0, positions |-> [a \in accounts |-> NoPosition]]
    /\ \A k \in 1..Len(ts) : at[k] = Pass(at[k - 1], ts, into, k)
    /\ \A k \in 0..Len(ts) : at[k] \in [day : Int, positions : [accounts -> Position]]

LEMMA WalkIs ==
    ASSUME NEW ts, AreTrades(ts), NEW into \in SUBSET Matches(ts),
           NEW accounts, accounts = {ts[k].account : k \in DOMAIN ts}
    PROVE  \E at : Walks(at, ts, into, accounts)
<1> DEFINE n == Len(ts)
           T == [day : Int, positions : [accounts -> Position]]
           start == [day |-> 0, positions |-> [a \in {ts[k].account : k \in DOMAIN ts} |-> NoPosition]]
           Rec(o) == o = [k \in 0..n |-> IF k = 0 THEN start ELSE Pass(o[k - 1], ts, into, k)]
           step == [p \in (1..n) \X T |-> Pass(p[2], ts, into, p[1])]
           at == CHOOSE o : Rec(o)
           G == {k \in 0..n : at[k] \in T}
<1>1. n \in Nat /\ DOMAIN ts = 1..n
  BY DEF AreTrades
<1>2. start \in T /\ start = [day |-> 0, positions |-> [a \in accounts |-> NoPosition]]
  <2>1. NoPosition \in Position
    BY DEF NoPosition, Position
  <2> QED BY <2>1
<1>3. \A k \in 1..n, s \in T : Pass(s, ts, into, k) \in T
  <2>1. \A k \in DOMAIN ts : ts[k].account \in accounts
    OBVIOUS
  <2> QED BY <1>1, <2>1, PassType
<1>4. Walk(ts, into) = at[n]
  BY DEF Walk
<1> HIDE DEF n, T, start
<1>5. step \in [(1..n) \X T -> T]
  BY <1>3
<1>6. PICK o : Counts(o, n, T, start, step)
  <2> HIDE DEF step
  <2> QED BY <1>1, <1>2, <1>5, StepsExist
<1>7. Rec(o)
  <2>1. \A k \in 1..n : k - 1 \in 0..n /\ o[k - 1] \in T
    BY <1>1, <1>6 DEF Counts
  <2>2. \A k \in 1..n, s \in T : step[<<k, s>>] = Pass(s, ts, into, k)
    OBVIOUS
  <2> HIDE DEF step
  <2>3. o = [k \in 0..n |-> o[k]]
    BY <1>6 DEF Counts
  <2>4. \A k \in 0..n : k # 0 => k \in 1..n
    BY <1>1
  <2>5. \A k \in 0..n : o[k] = IF k = 0 THEN start ELSE Pass(o[k - 1], ts, into, k)
    BY <1>6, <2>1, <2>2, <2>4 DEF Counts
  <2> QED BY <2>3, <2>5
<1>8. Rec(at)
  BY <1>7
<1> HIDE DEF at
<1>9. 0 \in 0..n /\ n \in 0..n /\ \A k \in 1..n : k \in 0..n /\ k # 0
  BY <1>1
<1>10. at[0] = start /\ \A k \in 1..n : at[k] = Pass(at[k - 1], ts, into, k)
  BY <1>8, <1>9
<1>11. 0 \in G /\ \A k \in 1..n : k - 1 \in G => k \in G
  BY <1>2, <1>3, <1>9, <1>10
<1>12. \A k \in 0..n : k \in G
  <2> HIDE DEF G
  <2> QED BY <1>1, <1>11, CountUp
<1>13. Walks(at, ts, into, accounts)
  BY <1>2, <1>4, <1>10, <1>12 DEF Walks, n, T
<1> QED BY <1>13

(* A trades table of one instrument: one trade per day, account and side.  *)
IsTable(table) ==
    /\ IsFiniteSet(table)
    /\ \A t \in table : IsTrade(t) /\ (t.side # "dividend" => HasQty(t))
    /\ \A t, u \in table : Group(t) = Group(u) => t = u

LEMMA NameOrderIs == \A s \in Sides : NameOrder(s) \in 1..7 /\ SideNames[NameOrder(s)] = s
<1> SUFFICES ASSUME NEW s \in Sides PROVE NameOrder(s) \in 1..7 /\ SideNames[NameOrder(s)] = s
  OBVIOUS
<1>1. DOMAIN SideNames = 1..7
  BY DEF SideNames
<1>2. \E k \in 1..7 : SideNames[k] = s
  <2>1. /\ SideNames[1] = "buy" /\ SideNames[2] = "dividend" /\ SideNames[3] = "espp" /\ SideNames[4] = "sell"
        /\ SideNames[5] = "transfer_in" /\ SideNames[6] = "transfer_out" /\ SideNames[7] = "vest"
    BY DEF SideNames
  <2> QED BY <2>1 DEF Sides
<1> QED BY <1>1, <1>2 DEF NameOrder

LEMMA EarlierTotal ==
    ASSUME NEW table, IsTable(table)
    PROVE  TotalOn({p \in table \X table : Earlier(p[1], p[2])}, table)
<1>1. \A t \in table : /\ t.day \in Int /\ t.account \in Int /\ SideOrder(t.side) \in Int
                       /\ NameOrder(t.side) \in Int
  BY NameOrderIs DEF IsTable, IsTrade, SideOrder
<1>2. ASSUME NEW t \in table, NEW u \in table, t # u PROVE Earlier(t, u) \/ Earlier(u, t)
  <2>1. t.day # u.day \/ t.account # u.account \/ t.side # u.side
    BY <1>2 DEF IsTable, Group
  <2>2. t.side # u.side => NameOrder(t.side) # NameOrder(u.side)
    BY NameOrderIs DEF IsTable, IsTrade
  <2> HIDE DEF SideOrder, NameOrder
  <2> QED BY <1>1, <2>1, <2>2 DEF Earlier
<1>3. ASSUME NEW t \in table, NEW u \in table, NEW v \in table, Earlier(t, u), Earlier(u, v)
      PROVE  Earlier(t, v)
  BY <1>1, <1>3 DEF Earlier
<1> QED BY <1>2, <1>3 DEF TotalOn

LEMMA LedgerType ==
    ASSUME NEW table, IsTable(table), NEW until \in Int
    PROVE  \E accounts : IsFiniteSet(accounts) /\ Ledger(table, until) \in [accounts -> Position]
<1> DEFINE S == {t \in table : t.day <= until}
           pairs == {p \in S \X S : Earlier(p[1], p[2])}
           ts == Sorted(S, pairs)
           accounts == {ts[k].account : k \in DOMAIN ts}
           into == PairTransfers(ts)
           end == Walk(ts, into)
<1>1. IsTable(S)
  BY FS_Subset DEF IsTable
<1>2. Ledger(table, until) = Scale(end.positions, end.day, until)
  BY DEF Ledger, LedgerOf, Until, InOrder
<1> HIDE DEF S
<1>3. TotalOn(pairs, S)
  BY <1>1, EarlierTotal
<1> HIDE DEF pairs
<1>4. ts \in Seq(S)
  BY <1>1, <1>3, SortedIs DEF IsTable
<1> HIDE DEF ts
<1>5. AreTrades(ts)
  BY <1>1, <1>4 DEF AreTrades, IsTable
<1>6. IsFiniteSet(accounts)
  <2>1. IsFiniteSet(DOMAIN ts)
    BY <1>4, FS_Interval
  <2> DEFINE f == [k \in DOMAIN ts |-> ts[k].account]
  <2>2. f \in Surjection(DOMAIN ts, accounts)
    BY DEF Surjection
  <2> QED BY <2>1, <2>2, FS_Surjection
<1>7. into \in SUBSET Matches(ts)
  BY <1>5, PairTransfersIs DEF Pairing
<1> HIDE DEF into
<1>8. end \in [day : Int, positions : [accounts -> Position]]
  <2>1. PICK at : Walks(at, ts, into, accounts)
    BY <1>5, <1>7, WalkIs
  <2>2. Len(ts) \in 0..Len(ts)
    BY <1>5 DEF AreTrades
  <2> QED BY <2>1, <2>2 DEF Walks
<1> HIDE DEF end, accounts
<1>9. Ledger(table, until) \in [accounts -> Position]
  BY <1>2, <1>8, ScaleType
<1> QED BY <1>6, <1>9

(* What a user is shown of any trades table has a reason for each figure   *)
(* that is missing.                                                        *)
THEOREM PortfolioHasReasons ==
    ASSUME NEW table, IsTable(table), NEW now \in Int
    PROVE  HasReasons(BuildPortfolio(table, now))
<1>1. PICK accounts : IsFiniteSet(accounts) /\ Ledger(table, now) \in [accounts -> Position]
  BY LedgerType
<1> QED BY <1>1, PositionsHaveReasons DEF BuildPortfolio

-----------------------------------------------------------------------------
(* The fills of a day-group, and what each step of matching a source makes *)
(* of them.                                                                *)
RowOf(side) == {e \in TradeEvent : side # "dividend" => e.qty # None /\ e.qty > 0}

Fill(side) == [row : RowOf(side), src : TradeSource, sources : SUBSET TradeSource, refs : SUBSET STRING]

LEMMA NewFillType ==
    ASSUME NEW side, NEW src \in TradeSource, NEW e \in RowOf(side)
    PROVE  NewFill(src, e) \in Fill(side)
BY DEF NewFill, Fill, RowOf, TradeEvent

LEMMA FillInType ==
    ASSUME NEW side, NEW row \in RowOf(side), NEW e \in RowOf(side)
    PROVE  FillIn(row, e) \in RowOf(side)
<1> DEFINE Given(own, copied) == IF own = None THEN copied ELSE own
           fees == Given(row.fees, e.fees)
           price == Given(row.price, e.price)
           amount == Given(row.amount, e.amount)
<1>1. fees \in Decimal /\ price \in Decimal /\ amount \in Decimal
  BY DEF RowOf, TradeEvent
<1>2. FillIn(row, e) = [row EXCEPT !.fees = fees, !.price = price, !.amount = amount]
  BY DEF FillIn
<1> HIDE DEF fees, price, amount
<1> QED BY <1>1, <1>2 DEF RowOf, TradeEvent

LEMMA CopyOfType ==
    ASSUME NEW side, NEW f \in Fill(side), NEW src \in TradeSource, NEW es \in SUBSET RowOf(side), NEW one, one => es # {}
    PROVE  CopyOf(f, src, es, one) \in Fill(side)
<1> DEFINE row == IF one THEN FillIn(f.row, CHOOSE e \in es : TRUE) ELSE f.row
           refs == f.refs \cup UNION {e.refs : e \in es}
<1>1. row \in RowOf(side)
  <2>1. f.row \in RowOf(side)
    BY DEF Fill
  <2>2. one => (CHOOSE e \in es : TRUE) \in RowOf(side)
    OBVIOUS
  <2>3. one => FillIn(f.row, CHOOSE e \in es : TRUE) \in RowOf(side)
    BY <2>1, <2>2, FillInType
  <2> QED BY <2>1, <2>3
<1>2. refs \in SUBSET STRING
  BY DEF Fill, RowOf, TradeEvent
<1>3. CopyOf(f, src, es, one) = [row |-> row, src |-> f.src, sources |-> f.sources \cup {src}, refs |-> refs]
  BY DEF CopyOf
<1> HIDE DEF row, refs
<1> QED BY <1>1, <1>2, <1>3 DEF Fill

LEMMA RowsFinite ==
    ASSUME NEW side, NEW rows \in Seq(RowOf(side)), NEW R \in SUBSET DOMAIN rows
    PROVE  IsFiniteSet(R) /\ IsFiniteSet({rows[r] : r \in R}) /\ {rows[r] : r \in R} \subseteq RowOf(side)
<1>1. IsFiniteSet(R)
  <2>1. IsFiniteSet(DOMAIN rows)
    BY FS_Interval
  <2> QED BY <2>1, FS_Subset
<1> DEFINE f == [r \in R |-> rows[r]]
<1>2. f \in Surjection(R, {rows[r] : r \in R})
  BY DEF Surjection
<1> QED BY <1>1, <1>2, FS_Surjection

LEMMA SumKnownType ==
    ASSUME NEW f, IsFiniteSet(DOMAIN f), \A x \in DOMAIN f : f[x] \in Decimal
    PROVE  SumKnown(f) \in Decimal
<1> DEFINE known == {x \in DOMAIN f : f[x] # None}
           g == [x \in known |-> f[x]]
<1>1. SumKnown(f) = IF known = {} THEN None ELSE SumOver(g)
  BY DEF SumKnown
<1>2. SumOver(g) \in Decimal
  <2>1. IsFiniteSet(DOMAIN g) /\ \A x \in DOMAIN g : g[x] \in Decimal
    BY FS_Subset
  <2> HIDE DEF g
  <2> QED BY <2>1, SumOverIs
<1> HIDE DEF g, known
<1> QED BY <1>1, <1>2 DEF Decimal

LEMMA SumKnownPositive ==
    ASSUME NEW f, IsFiniteSet(DOMAIN f), DOMAIN f # {}, \A x \in DOMAIN f : f[x] \in Nat \ {0}
    PROVE  SumKnown(f) \in Nat \ {0}
<1> DEFINE known == {x \in DOMAIN f : f[x] # None}
           S == DOMAIN f
           G == {R \in SUBSET S : SumOver(On(f, R)) \in Nat /\ (R # {} => SumOver(On(f, R)) # 0)}
<1>1. known = S /\ SumKnown(f) = SumOver(On(f, S))
  <2>1. known = S
    BY NoneAssumption
  <2>2. SumKnown(f) = IF known = {} THEN None ELSE SumOver(On(f, known))
    BY DEF SumKnown, On
  <2> QED BY <2>1, <2>2
<1>2. \A x \in S : f[x] \in Decimal /\ f[x] # None
  BY NoneAssumption DEF Decimal
<1>3. {} \in G
  BY SumOverNone
<1>4. ASSUME NEW R \in SUBSET S, NEW x \in S \ R, R \in G PROVE R \cup {x} \in G
  <2>1. IsFiniteSet(R)
    BY FS_Subset
  <2>2. SumOver(On(f, R \cup {x})) = SumOf(f[x], SumOver(On(f, R)))
    BY <1>2, <2>1, SumOverAdd
  <2>3. SumOver(On(f, R)) \in Nat /\ f[x] \in Nat \ {0}
    BY <1>4
  <2>4. SumOf(f[x], SumOver(On(f, R))) = f[x] + SumOver(On(f, R))
    BY <2>3, NoneAssumption DEF SumOf
  <2> QED BY <2>2, <2>3, <2>4
<1>5. S \in G
  <2> HIDE DEF G
  <2> QED BY <1>3, <1>4, GrowsUp
<1> QED BY <1>1, <1>5

LEMMA AddFeesType ==
    ASSUME NEW side, NEW fills \in Seq(Fill(side)), NEW is \in SUBSET DOMAIN fills, is # {},
           NEW es \in SUBSET RowOf(side), IsFiniteSet(es)
    PROVE  AddFees(fills, is, es) \in Seq(Fill(side)) /\ Len(AddFees(fills, is, es)) = Len(fills)
<1> DEFINE first == CHOOSE i \in is : \A j \in is : i <= j
           charges == [e \in es |-> e.fees]
           fees == SumKnown(charges)
<1>1. first \in is
  <2>1. is \in SUBSET Nat
    OBVIOUS
  <2>2. \E i \in is : \A j \in is : i <= j
    BY <2>1, LeastNat
  <2> QED BY <2>2
<1>2. fees \in Decimal
  <2>1. IsFiniteSet(DOMAIN charges) /\ \A e \in DOMAIN charges : charges[e] \in Decimal
    BY DEF RowOf, TradeEvent
  <2> HIDE DEF charges
  <2> QED BY <2>1, SumKnownType
<1>3. AddFees(fills, is, es) = IF \E i \in is : fills[i].row.fees # None THEN fills
                               ELSE [fills EXCEPT ![first].row.fees = fees]
  BY DEF AddFees, AddUp
<1> HIDE DEF first, fees, charges
<1> DEFINE row == [fills[first].row EXCEPT !.fees = fees]
           fill == [fills[first] EXCEPT !.row = row]
<1>4. fills[first] \in Fill(side)
  BY <1>1
<1>5. row \in RowOf(side)
  BY <1>2, <1>4 DEF Fill, RowOf, TradeEvent
<1>6. fill \in Fill(side)
  <2> HIDE DEF row
  <2> QED BY <1>4, <1>5 DEF Fill
<1>7. [fills EXCEPT ![first].row.fees = fees] = [fills EXCEPT ![first] = fill]
  BY <1>1, <1>4 DEF Fill
<1> HIDE DEF fill
<1>8. [fills EXCEPT ![first] = fill] \in Seq(Fill(side)) /\ Len([fills EXCEPT ![first] = fill]) = Len(fills)
  BY <1>1, <1>6
<1> QED BY <1>3, <1>7, <1>8

IsState(st, rows, side) ==
    /\ st.fills \in Seq(Fill(side)) /\ st.left \in SUBSET DOMAIN rows /\ st.open \in SUBSET DOMAIN st.fills
    /\ DOMAIN st.fills = {} => st.left = DOMAIN rows

LEMMA SameLength ==
    ASSUME NEW side, NEW s \in Seq(Fill(side)), NEW t, DOMAIN t = DOMAIN s, t = [i \in DOMAIN s |-> t[i]],
           \A i \in DOMAIN s : t[i] \in Fill(side)
    PROVE  t \in Seq(Fill(side)) /\ DOMAIN t = DOMAIN s
<1>1. Len(s) \in Nat /\ DOMAIN s = 1..Len(s)
  OBVIOUS
<1>2. t \in [1..Len(s) -> Fill(side)]
  BY <1>1
<1> QED BY <1>1, <1>2, SeqDef

LEMMA StartType ==
    ASSUME NEW side, NEW fills \in Seq(Fill(side)), NEW src, NEW rows
    PROVE  IsState(Start(fills, src, rows), rows, side)
BY DEF IsState, Start

LEMMA ByRefType ==
    ASSUME NEW side, NEW rows \in Seq(RowOf(side)), NEW st, IsState(st, rows, side), NEW src \in TradeSource
    PROVE  IsState(ByRef(st, src, rows), rows, side)
<1> DEFINE Shared(r) == {i \in st.open : SharesRef(st.fills[i], rows[r])}
           Rows(i) == {r \in DOMAIN rows : i \in Shared(r)}
           es(i) == {rows[r] : r \in Rows(i)}
           one(i) == \E r \in Rows(i) : Rows(i) = {r} /\ Shared(r) = {i}
           f(i) == CopyOf(st.fills[i], src, es(i), one(i))
           Copied(i) == IF Cardinality(es(i)) > 1 THEN AddFees(<<f(i)>>, {1}, es(i))[1] ELSE f(i)
           fills == [i \in DOMAIN st.fills |-> IF Rows(i) = {} THEN st.fills[i] ELSE Copied(i)]
           left == {r \in DOMAIN rows : Shared(r) = {}}
           open == {i \in st.open : Rows(i) = {}}
<1>1. ByRef(st, src, rows) = [fills |-> fills, left |-> left, open |-> open]
  BY DEF ByRef
<1>2. left \in SUBSET DOMAIN rows /\ open \in SUBSET DOMAIN st.fills
  BY DEF IsState
<1>7. DOMAIN st.fills = {} => left = DOMAIN rows
  BY DEF IsState
<1>3. ASSUME NEW i \in DOMAIN st.fills PROVE Copied(i) \in Fill(side)
  <2>1. Rows(i) \in SUBSET DOMAIN rows
    OBVIOUS
  <2>2. IsFiniteSet(es(i)) /\ es(i) \in SUBSET RowOf(side)
    <3> HIDE DEF Rows
    <3> QED BY <2>1, RowsFinite
  <2>3. one(i) => es(i) # {}
    OBVIOUS
  <2>4. st.fills[i] \in Fill(side)
    BY DEF IsState
  <2> HIDE DEF es, one
  <2>5. f(i) \in Fill(side)
    BY <2>2, <2>3, <2>4, CopyOfType
  <2> HIDE DEF f
  <2>6. <<f(i)>> \in Seq(Fill(side)) /\ {1} \in SUBSET DOMAIN <<f(i)>> /\ {1} # {} /\ Len(<<f(i)>>) = 1
    BY <2>5
  <2>7. /\ AddFees(<<f(i)>>, {1}, es(i)) \in Seq(Fill(side))
        /\ Len(AddFees(<<f(i)>>, {1}, es(i))) = 1
    <3> DEFINE s == <<f(i)>>
               T == {1}
    <3>1. s \in Seq(Fill(side)) /\ T \in SUBSET DOMAIN s /\ T # {} /\ Len(s) = 1
      BY <2>6
    <3> HIDE DEF s, T
    <3>2. AddFees(s, T, es(i)) \in Seq(Fill(side)) /\ Len(AddFees(s, T, es(i))) = Len(s)
      BY <2>2, <3>1, AddFeesType
    <3> QED BY <3>1, <3>2 DEF s, T
  <2>8. AddFees(<<f(i)>>, {1}, es(i))[1] \in Fill(side)
    BY <2>7
  <2> QED BY <2>5, <2>8
<1>4. \A i \in DOMAIN st.fills : fills[i] \in Fill(side)
  <2>1. \A i \in DOMAIN st.fills : st.fills[i] \in Fill(side)
    BY DEF IsState
  <2> HIDE DEF Copied, Rows
  <2> QED BY <1>3, <2>1
<1>5. DOMAIN fills = DOMAIN st.fills /\ fills = [i \in DOMAIN st.fills |-> fills[i]]
  OBVIOUS
<1> HIDE DEF fills, left, open
<1>6. fills \in Seq(Fill(side)) /\ DOMAIN fills = DOMAIN st.fills
  BY <1>4, <1>5, SameLength DEF IsState
<1> QED BY <1>1, <1>2, <1>6, <1>7 DEF IsState

IsPaired(o, st, rows, pairs) ==
    o = [ps \in SUBSET pairs |->
           LET first == NearestOf(st, rows, ps)
           IN IF first = {} THEN {} ELSE first \cup o[StillOpen(ps, first)]]

LEMMA PairedIs ==
    ASSUME NEW rows, NEW st, NEW pairs, IsFiniteSet(pairs)
    PROVE  /\ \E o : IsPaired(o, st, rows, pairs)
           /\ \A o : IsPaired(o, st, rows, pairs) => o[pairs] \in SUBSET pairs
<1> DEFINE T == SUBSET pairs
           first(ps) == NearestOf(st, rows, ps)
           Rec(o) == o = [ps \in SUBSET pairs |->
                            IF first(ps) = {} THEN {} ELSE first(ps) \cup o[StillOpen(ps, first(ps))]]
           pred == [ps \in SUBSET pairs |-> IF first(ps) = {} THEN {} ELSE StillOpen(ps, first(ps))]
           step == [p \in (SUBSET pairs) \X T |-> IF first(p[1]) = {} THEN {} ELSE first(p[1]) \cup p[2]]
<1>1. \A ps \in SUBSET pairs : first(ps) \in SUBSET ps
  BY DEF NearestOf
<1>2. \A ps \in SUBSET pairs : first(ps) # {} => /\ StillOpen(ps, first(ps)) \subseteq ps
                                                 /\ StillOpen(ps, first(ps)) # ps
  BY <1>1 DEF StillOpen
<1> HIDE DEF first
<1>3. pred \in [SUBSET pairs -> SUBSET pairs] /\ \A R \in SUBSET pairs : R # {} => pred[R] \subseteq R /\ pred[R] # R
  BY <1>2
<1>4. step \in [(SUBSET pairs) \X T -> T] /\ {} \in T
  BY <1>1
<1>5. PICK o : Descends(o, pairs, T, {}, pred, step)
  <2> HIDE DEF step, pred, T
  <2> QED BY <1>3, <1>4, SubsetStepsExist
<1>6. Rec(o)
  <2>1. ASSUME NEW ps \in SUBSET pairs, ps # {}
        PROVE  o[ps] = IF first(ps) = {} THEN {} ELSE first(ps) \cup o[StillOpen(ps, first(ps))]
    <3>1. o[ps] = step[<<ps, o[pred[ps]]>>] /\ pred[ps] \in SUBSET pairs /\ o[pred[ps]] \in T
      <4> HIDE DEF pred, step, T
      <4> QED BY <1>3, <1>5, <2>1 DEF Descends
    <3>2. o[ps] = IF first(ps) = {} THEN {} ELSE first(ps) \cup o[pred[ps]]
      <4> HIDE DEF pred
      <4> QED BY <3>1
    <3> QED BY <3>2
  <2>2. first({}) = {} /\ o[{}] = {}
    <3> HIDE DEF pred, step, T
    <3> QED BY <1>1, <1>5 DEF Descends
  <2>3. o = [ps \in SUBSET pairs |-> o[ps]]
    <3> HIDE DEF pred, step, T
    <3> QED BY <1>5 DEF Descends
  <2> HIDE DEF pred, step
  <2> QED BY <2>1, <2>2, <2>3
<1>7. IsPaired(o, st, rows, pairs)
  BY <1>6 DEF IsPaired, first
<1>8. ASSUME NEW paired, IsPaired(paired, st, rows, pairs) PROVE paired[pairs] \in SUBSET pairs
  <2> DEFINE G == {ps \in SUBSET pairs : paired[ps] \in T}
  <2>1. Rec(paired)
    BY <1>8 DEF IsPaired, first
  <2>2. ASSUME NEW R \in SUBSET pairs, \A Q \in SUBSET R : Q # R => Q \in G PROVE R \in G
    <3>1. paired[R] = IF first(R) = {} THEN {} ELSE first(R) \cup paired[StillOpen(R, first(R))]
      BY <2>1
    <3>2. first(R) # {} => StillOpen(R, first(R)) \in G
      <4> HIDE DEF G
      <4> QED BY <1>2, <2>2
    <3>3. first(R) \in SUBSET pairs /\ (first(R) # {} => paired[StillOpen(R, first(R))] \in SUBSET pairs)
      BY <1>1, <3>2
    <3>4. CASE first(R) = {}
      <4>1. paired[R] = {}
        BY <3>1, <3>4
      <4> QED BY <4>1
    <3>5. CASE first(R) # {}
      <4>1. paired[R] = first(R) \cup paired[StillOpen(R, first(R))]
        BY <3>1, <3>5
      <4> QED BY <3>3, <3>5, <4>1
    <3> QED BY <3>4, <3>5
  <2>3. \A R \in SUBSET pairs : R \in G
    <3> HIDE DEF G
    <3> QED BY <2>2, SubsetsUp
  <2> QED BY <2>3
<1> QED BY <1>7, <1>8

LEMMA ByPriceType ==
    ASSUME NEW side, NEW rows \in Seq(RowOf(side)), NEW st, IsState(st, rows, side), NEW src \in TradeSource
    PROVE  IsState(ByPrice(st, src, rows), rows, side)
<1> DEFINE pairs == Pairs(st, rows)
           paired == CHOOSE o : o = [ps \in SUBSET pairs |->
                      LET first == NearestOf(st, rows, ps)
                      IN IF first = {} THEN {} ELSE first \cup o[StillOpen(ps, first)]]
           taken == paired[pairs]
           es(i) == {rows[p[1]] : p \in {q \in taken : q[2] = i}}
           fills == [i \in DOMAIN st.fills |->
                       IF \E p \in taken : p[2] = i THEN CopyOf(st.fills[i], src, es(i), TRUE) ELSE st.fills[i]]
           left == st.left \ {p[1] : p \in taken}
           open == st.open \ {p[2] : p \in taken}
<1>1. ByPrice(st, src, rows) = [fills |-> fills, left |-> left, open |-> open]
  BY DEF ByPrice
<1>2. pairs \in SUBSET (st.left \X st.open)
  BY DEF Pairs
<1>3. IsFiniteSet(pairs)
  <2>1. IsFiniteSet(st.left)
    BY RowsFinite DEF IsState
  <2>2. IsFiniteSet(st.open)
    <3>1. IsFiniteSet(DOMAIN st.fills)
      BY FS_Interval DEF IsState
    <3> QED BY <3>1, FS_Subset DEF IsState
  <2>3. IsFiniteSet(st.left \X st.open)
    BY <2>1, <2>2, FS_Product
  <2> HIDE DEF pairs
  <2> QED BY <1>2, <2>3, FS_Subset
<1>4. taken \in SUBSET pairs
  <2> HIDE DEF pairs
  <2>1. \E o : IsPaired(o, st, rows, pairs)
    BY <1>3, PairedIs
  <2>2. paired = CHOOSE o : IsPaired(o, st, rows, pairs)
    BY DEF IsPaired
  <2> HIDE DEF paired
  <2>3. IsPaired(paired, st, rows, pairs)
    BY <2>1, <2>2
  <2> QED BY <1>3, <2>3, PairedIs
<1> HIDE DEF taken, paired, pairs
<1>5. \A p \in taken : p[1] \in DOMAIN rows /\ rows[p[1]] \in RowOf(side)
  BY <1>2, <1>4 DEF IsState
<1>6. ASSUME NEW i \in DOMAIN st.fills PROVE fills[i] \in Fill(side)
  <2>1. st.fills[i] \in Fill(side)
    BY DEF IsState
  <2>2. es(i) \in SUBSET RowOf(side)
    BY <1>5
  <2>3. CASE \E p \in taken : p[2] = i
    <3>1. es(i) # {}
      BY <2>3
    <3> HIDE DEF es
    <3>2. CopyOf(st.fills[i], src, es(i), TRUE) \in Fill(side)
      BY <2>1, <2>2, <3>1, CopyOfType
    <3> QED BY <2>3, <3>2
  <2>4. CASE ~(\E p \in taken : p[2] = i)
    BY <2>1, <2>4
  <2> QED BY <2>3, <2>4
<1>7. DOMAIN fills = DOMAIN st.fills /\ fills = [i \in DOMAIN st.fills |-> fills[i]]
  OBVIOUS
<1>8. left \in SUBSET DOMAIN rows /\ open \in SUBSET DOMAIN st.fills
  BY DEF IsState
<1>10. DOMAIN st.fills = {} => left = DOMAIN rows
  <2>1. DOMAIN st.fills = {} => taken = {} /\ st.left = DOMAIN rows
    BY <1>2, <1>4 DEF IsState
  <2> QED BY <2>1
<1> HIDE DEF fills, left, open
<1>9. fills \in Seq(Fill(side)) /\ DOMAIN fills = DOMAIN st.fills
  BY <1>6, <1>7, SameLength DEF IsState
<1> QED BY <1>1, <1>8, <1>9, <1>10 DEF IsState

LEMMA InPartsType ==
    ASSUME NEW side, NEW rows \in Seq(RowOf(side)), NEW st, IsState(st, rows, side), NEW src \in TradeSource
    PROVE  InParts(st, src, rows) \in Seq(Fill(side)) /\ (rows # <<>> => InParts(st, src, rows) # <<>>)
<1> DEFINE es == {rows[r] : r \in st.left}
           copied == [i \in DOMAIN st.fills |->
                        IF i \in st.open THEN CopyOf(st.fills[i], src, es, FALSE) ELSE st.fills[i]]
           pairs == {p \in st.left \X st.left : p[1] < p[2]}
           new == Sorted(st.left, pairs)
           added == [n \in DOMAIN new |-> NewFill(src, rows[new[n]])]
           oneSet == /\ st.left # {} /\ st.open # {} /\ Cardinality(st.left) + Cardinality(st.open) > 2
                     /\ SameTotal(st, rows)
<1>1. InParts(st, src, rows) = IF oneSet THEN AddFees(copied, st.open, es) ELSE st.fills \o added
  BY DEF InParts, InOrder
<1>2. st.left \in SUBSET DOMAIN rows /\ st.fills \in Seq(Fill(side)) /\ st.open \in SUBSET DOMAIN st.fills
      /\ (DOMAIN st.fills = {} => st.left = DOMAIN rows)
  BY DEF IsState
<1>3. IsFiniteSet(st.left) /\ IsFiniteSet(es) /\ es \in SUBSET RowOf(side)
  <2> HIDE DEF es
  <2> QED BY <1>2, RowsFinite DEF es
<1> HIDE DEF es
<1>4. CASE oneSet
  <2>1. \A i \in DOMAIN st.fills : copied[i] \in Fill(side)
    <3>1. \A i \in DOMAIN st.fills : st.fills[i] \in Fill(side)
      BY <1>2
    <3>2. \A i \in DOMAIN st.fills : CopyOf(st.fills[i], src, es, FALSE) \in Fill(side)
      BY <1>3, <3>1, CopyOfType
    <3> QED BY <3>1, <3>2
  <2>2. DOMAIN copied = DOMAIN st.fills /\ copied = [i \in DOMAIN st.fills |-> copied[i]]
    OBVIOUS
  <2> HIDE DEF copied
  <2>3. copied \in Seq(Fill(side)) /\ DOMAIN copied = DOMAIN st.fills
    BY <1>2, <2>1, <2>2, SameLength
  <2>4. AddFees(copied, st.open, es) \in Seq(Fill(side)) /\ Len(AddFees(copied, st.open, es)) = Len(copied)
    BY <1>2, <1>3, <1>4, <2>3, AddFeesType
  <2>5. Len(copied) # 0
    BY <1>2, <1>4, <2>3
  <2> QED BY <1>1, <1>4, <2>4, <2>5
<1>5. CASE ~oneSet
  <2>1. TotalOn(pairs, st.left)
    <3>1. st.left \in SUBSET Nat
      BY <1>2
    <3> QED BY <3>1 DEF TotalOn
  <2> HIDE DEF pairs
  <2>2. new \in Seq(st.left) /\ Len(new) = Cardinality(st.left)
    BY <1>3, <2>1, SortedIs
  <2>7. rows # <<>> => st.fills # <<>> \/ Len(new) # 0
    <3>1. rows # <<>> => DOMAIN rows # {}
      <4> DEFINE E == RowOf(side)
      <4>1. rows \in Seq(E)
        OBVIOUS
      <4> HIDE DEF E
      <4>2. Len(rows) \in Nat /\ DOMAIN rows = 1..Len(rows) /\ (rows # <<>> => Len(rows) # 0)
        BY <4>1, EmptySeq
      <4>3. Len(rows) # 0 => 1 \in 1..Len(rows)
        BY <4>2
      <4> QED BY <4>2, <4>3
    <3>2. st.left # {} => Cardinality(st.left) # 0
      BY <1>3, FS_EmptySet
    <3>3. st.fills = <<>> => DOMAIN st.fills = {}
      OBVIOUS
    <3> HIDE DEF new
    <3> QED BY <1>2, <2>2, <3>1, <3>2, <3>3
  <2> HIDE DEF new
  <2>3. \A n \in DOMAIN new : rows[new[n]] \in RowOf(side)
    BY <1>2, <2>2
  <2>4. \A n \in DOMAIN new : added[n] \in Fill(side)
    BY <2>3, NewFillType
  <2>5. added \in Seq(Fill(side)) /\ Len(added) = Len(new)
    <3>1. Len(new) \in Nat /\ DOMAIN new = 1..Len(new)
      BY <2>2
    <3>2. added \in [1..Len(new) -> Fill(side)]
      BY <2>4, <3>1
    <3> QED BY <3>1, <3>2, SeqDef
  <2> HIDE DEF added
  <2>6. /\ st.fills \o added \in Seq(Fill(side))
        /\ Len(st.fills \o added) = Len(st.fills) + Len(added)
    <3> DEFINE F == Fill(side)
    <3>1. st.fills \in Seq(F) /\ added \in Seq(F)
      BY <1>2, <2>5
    <3> HIDE DEF F
    <3>2. st.fills \o added \in Seq(F) /\ Len(st.fills \o added) = Len(st.fills) + Len(added)
      BY <3>1
    <3> QED BY <3>2 DEF F
  <2>8. Len(st.fills) \in Nat /\ Len(new) \in Nat /\ (st.fills # <<>> => Len(st.fills) # 0)
    BY <1>2, <2>2
  <2>9. rows # <<>> => st.fills \o added # <<>>
    BY <2>5, <2>6, <2>7, <2>8
  <2> QED BY <1>1, <1>5, <2>6, <2>9
<1> QED BY <1>4, <1>5

LEMMA MatchSourceType ==
    ASSUME NEW side, NEW fills \in Seq(Fill(side)), NEW src \in TradeSource, NEW rows \in Seq(RowOf(side))
    PROVE  /\ MatchSource(fills, src, rows) \in Seq(Fill(side))
           /\ rows # <<>> => MatchSource(fills, src, rows) # <<>>
<1> DEFINE start == Start(fills, src, rows)
           byRef == ByRef(start, src, rows)
           byPrice == ByPrice(byRef, src, rows)
<1>1. IsState(start, rows, side)
  BY StartType
<1> HIDE DEF start
<1>2. IsState(byRef, rows, side)
  BY <1>1, ByRefType
<1> HIDE DEF byRef
<1>3. IsState(byPrice, rows, side)
  BY <1>2, ByPriceType
<1> HIDE DEF byPrice
<1>4. InParts(byPrice, src, rows) \in Seq(Fill(side)) /\ (rows # <<>> => InParts(byPrice, src, rows) # <<>>)
  BY <1>3, InPartsType
<1> QED BY <1>4 DEF MatchSource, byPrice, byRef, start

(* The sources of a day-group, in turn; its trade.                         *)
LEMMA TrustedTotal ==
    ASSUME NEW S \in SUBSET TradeSource, RankedOnce(S)
    PROVE  TotalOn({p \in S \X S : TrustedMore(p[1], p[2])}, S)
<1>1. \A s \in S : DocRank(s) \in Int /\ s.id \in Int
  BY DEF DocRank, DocOrder, TradeSource
<1> QED BY <1>1 DEF TotalOn, TrustedMore, RankedOnce

LEMMA MergeFillsType ==
    ASSUME NEW side, NEW rowsOf, IsFiniteSet(DOMAIN rowsOf), DOMAIN rowsOf \subseteq TradeSource,
           RankedOnce(DOMAIN rowsOf), DOMAIN rowsOf # {},
           \A s \in DOMAIN rowsOf : rowsOf[s] \in Seq(RowOf(side)) /\ rowsOf[s] # <<>>
    PROVE  MergeFills(rowsOf) \in Seq(Fill(side)) /\ MergeFills(rowsOf) # <<>>
<1> DEFINE S == DOMAIN rowsOf
           pairs == {p \in S \X S : TrustedMore(p[1], p[2])}
           sources == Sorted(S, pairs)
           n == Len(sources)
           T == Seq(Fill(side))
           Merge(k, fills) == MatchSource(fills, sources[k], rowsOf[sources[k]])
           Rec(o) == o = [k \in 0..n |-> IF k = 0 THEN <<>> ELSE Merge(k, o[k - 1])]
           step == [p \in (1..n) \X T |-> Merge(p[1], p[2])]
           merged == CHOOSE o : Rec(o)
           G == {k \in 0..n : merged[k] \in T}
<1>1. MergeFills(rowsOf) = merged[n]
  BY DEF MergeFills, InOrder
<1>2. TotalOn(pairs, S)
  BY TrustedTotal
<1> HIDE DEF pairs
<1>3. sources \in Seq(S) /\ Len(sources) # 0
  <2>1. sources \in Seq(S) /\ Len(sources) = Cardinality(S)
    BY <1>2, SortedIs
  <2>2. Cardinality(S) # 0
    BY FS_EmptySet
  <2> HIDE DEF sources
  <2> QED BY <2>1, <2>2
<1> HIDE DEF sources
<1>4. n \in Nat /\ n # 0 /\ \A k \in 1..n : sources[k] \in S
  BY <1>3
<1>5. <<>> \in T
  OBVIOUS
<1>6. \A k \in 1..n, fills \in T : Merge(k, fills) \in T /\ Merge(k, fills) # <<>>
  BY <1>4, MatchSourceType
<1> HIDE DEF n, T, Merge
<1>7. step \in [(1..n) \X T -> T]
  BY <1>6
<1>8. PICK o : Counts(o, n, T, <<>>, step)
  <2> HIDE DEF step
  <2> QED BY <1>4, <1>5, <1>7, StepsExist
<1>9. Rec(o)
  <2>1. \A k \in 1..n : k - 1 \in 0..n /\ o[k - 1] \in T
    BY <1>4, <1>8 DEF Counts
  <2>2. \A k \in 1..n, s \in T : step[<<k, s>>] = Merge(k, s)
    OBVIOUS
  <2> HIDE DEF step
  <2>3. o = [k \in 0..n |-> o[k]]
    BY <1>8 DEF Counts
  <2>4. \A k \in 0..n : k # 0 => k \in 1..n
    BY <1>4
  <2>5. \A k \in 0..n : o[k] = IF k = 0 THEN <<>> ELSE Merge(k, o[k - 1])
    BY <1>8, <2>1, <2>2, <2>4 DEF Counts
  <2> QED BY <2>3, <2>5
<1>10. Rec(merged)
  BY <1>9
<1> HIDE DEF merged
<1>11. 0 \in 0..n /\ n \in 0..n /\ \A k \in 1..n : k \in 0..n /\ k # 0
  BY <1>4
<1>12. 0 \in G /\ \A k \in 1..n : k - 1 \in G => k \in G
  <2>1. merged[0] = <<>>
    BY <1>10, <1>11
  <2>2. ASSUME NEW k \in 1..n, k - 1 \in G PROVE k \in G
    <3>1. merged[k] = Merge(k, merged[k - 1])
      BY <1>10, <1>11
    <3> QED BY <1>6, <1>11, <2>2, <3>1
  <2> QED BY <1>5, <1>11, <2>1, <2>2
<1>13. n \in G
  <2> HIDE DEF G
  <2> QED BY <1>4, <1>11, <1>12, CountUp
<1>14. merged[n] = Merge(n, merged[n - 1]) /\ n - 1 \in 0..n /\ n \in 1..n
  BY <1>4, <1>10, <1>11
<1>15. n - 1 \in G
  <2> HIDE DEF G
  <2> QED BY <1>4, <1>11, <1>12, <1>14, CountUp
<1>16. merged[n] # <<>>
  BY <1>6, <1>14, <1>15
<1> QED BY <1>1, <1>13, <1>16 DEF T

IsWhole(e) == e.side # "dividend" => e.qty # None /\ e.qty > 0

LEMMA GroupRowsType ==
    ASSUME NEW rows, IsRows(rows), \A e \in rows : IsWhole(e), NEW k
    PROVE  /\ GroupRows(rows, k) \in Seq(RowOf(k.side))
           /\ (\E e \in rows : Group(e) = k) => GroupRows(rows, k) # <<>>
<1> DEFINE S == {e \in rows : Group(e) = k}
           pairs == {p \in S \X S : p[1].line < p[2].line}
<1>1. GroupRows(rows, k) = Sorted(S, pairs)
  BY DEF GroupRows, InOrder
<1>2. IsFiniteSet(S) /\ S \in SUBSET RowOf(k.side)
  <2>1. \A e \in S : e \in TradeEvent /\ e.side = k.side /\ IsWhole(e)
    BY DEF IsRows, Group
  <2>2. S \in SUBSET RowOf(k.side)
    BY <2>1 DEF IsWhole, RowOf
  <2> QED BY <2>2, FS_Subset DEF IsRows
<1>3. \A e, g \in S : e.line \in Int /\ (e.line = g.line => e = g)
  BY DEF IsRows, RowOf, TradeEvent
<1> HIDE DEF S
<1>4. TotalOn(pairs, S)
  BY <1>3 DEF TotalOn
<1> HIDE DEF pairs
<1>5. Sorted(S, pairs) \in Seq(S) /\ Len(Sorted(S, pairs)) = Cardinality(S)
  BY <1>2, <1>4, SortedIs
<1>6. Sorted(S, pairs) \in Seq(RowOf(k.side))
  BY <1>2, <1>5
<1>7. (\E e \in rows : Group(e) = k) => Cardinality(S) # 0
  <2>1. (\E e \in rows : Group(e) = k) => S # {}
    BY DEF S
  <2> QED BY <1>2, <2>1, FS_EmptySet
<1> QED BY <1>1, <1>5, <1>6, <1>7

LEMMA SettleType ==
    ASSUME NEW k, k.day \in Int, k.account \in Int, k.side \in Sides, NEW fills \in Seq(Fill(k.side)), fills # <<>>
    PROVE  IsTrade(Settle(k, fills)) /\ IsWhole(Settle(k, fills)) /\ Group(Settle(k, fills)) = [day |-> k.day, account |-> k.account, side |-> k.side]
<1> DEFINE D == DOMAIN fills
           qtys == [i \in D |-> fills[i].row.qty]
           amounts == [i \in D |-> Gross(fills[i].row)]
           charges == [i \in D |-> fills[i].row.fees]
           qty == SumKnown(qtys)
           amount == SumOver(amounts)
           fees == SumKnown(charges)
<1>1. IsFiniteSet(D)
  BY FS_Interval
<1>2. \A i \in D : fills[i].row \in TradeEvent /\ (k.side # "dividend" => fills[i].row.qty \in Nat \ {0})
  <2>1. \A i \in D : fills[i] \in Fill(k.side)
    OBVIOUS
  <2>2. \A i \in D : fills[i].row \in RowOf(k.side)
    BY <2>1 DEF Fill
  <2> QED BY <2>2 DEF RowOf, TradeEvent, Decimal
<1>7. k.side # "dividend" => qty \in Nat \ {0}
  <2> SUFFICES ASSUME k.side # "dividend" PROVE qty \in Nat \ {0}
    OBVIOUS
  <2>1. DOMAIN qtys = D /\ \A i \in D : qtys[i] \in Nat \ {0}
    BY <1>2
  <2>2. D # {}
    <3>1. Len(fills) \in Nat /\ D = 1..Len(fills) /\ Len(fills) # 0
      BY EmptySeq
    <3>2. 1 \in 1..Len(fills)
      BY <3>1
    <3> QED BY <3>1, <3>2
  <2> HIDE DEF D, qtys
  <2> QED BY <1>1, <2>1, <2>2, SumKnownPositive
<1>3. qty \in Decimal
  <2>1. IsFiniteSet(DOMAIN qtys) /\ \A i \in DOMAIN qtys : qtys[i] \in Decimal
    BY <1>1, <1>2 DEF TradeEvent
  <2> HIDE DEF qtys
  <2> QED BY <2>1, SumKnownType
<1>4. fees \in Decimal
  <2>1. IsFiniteSet(DOMAIN charges) /\ \A i \in DOMAIN charges : charges[i] \in Decimal
    BY <1>1, <1>2 DEF TradeEvent
  <2> HIDE DEF charges
  <2> QED BY <2>1, SumKnownType
<1>5. amount \in Decimal
  <2>1. \A e \in TradeEvent : Gross(e) \in Decimal
    BY AmountOps DEF Gross, TradeEvent
  <2>2. IsFiniteSet(DOMAIN amounts) /\ \A i \in DOMAIN amounts : amounts[i] \in Decimal
    BY <1>1, <1>2, <2>1
  <2> HIDE DEF amounts
  <2> QED BY <2>2, SumOverIs
<1>6. Settle(k, fills) = [day |-> k.day, account |-> k.account, side |-> k.side, qty |-> qty, amount |-> amount,
                          fees |-> fees, record |-> fills[1].src]
  BY DEF Settle, AddUp, Total
<1> HIDE DEF qty, amount, fees, D
<1>8. Settle(k, fills).side = k.side /\ Settle(k, fills).qty = qty
  BY <1>6
<1>9. IsWhole(Settle(k, fills))
  BY <1>7, <1>8, NoneAssumption DEF IsWhole
<1> QED BY <1>3, <1>4, <1>5, <1>6, <1>9 DEF IsTrade, Group

(* The rows each source has, as they were offered.                         *)
IsBook(b) ==
    /\ IsFiniteSet(DOMAIN b) /\ DOMAIN b \subseteq TradeSource /\ RankedOnce(DOMAIN b)
    /\ \A s \in DOMAIN b : IsRows(b[s]) /\ \A e \in b[s] : IsWhole(e)

(* Whatever documents a book has, they settle to a table of one trade for  *)
(* each day, account and side that has a row, with the figures the ledger  *)
(* reads.                                                                  *)
THEOREM ReconcileIsTable ==
    ASSUME NEW b, IsBook(b)
    PROVE  IsTable(Reconcile(b))
<1> DEFINE events == UNION {b[s] : s \in DOMAIN b}
           groups == {Group(e) : e \in events}
           Rows(k) == [s \in {t \in DOMAIN b : \E e \in b[t] : Group(e) = k} |-> GroupRows(b[s], k)]
           settled == [k \in groups |-> Settle(k, MergeFills(Rows(k)))]
           table == {settled[k] : k \in groups}
<1>1. Reconcile(b) = table
  BY DEF Reconcile
<1>2. IsFiniteSet(events) /\ events \subseteq TradeEvent
  <2> DEFINE at == [s \in DOMAIN b |-> b[s]]
             images == {b[s] : s \in DOMAIN b}
  <2>1. at \in Surjection(DOMAIN b, images)
    BY DEF Surjection
  <2>2. IsFiniteSet(images)
    <3> HIDE DEF images, at
    <3> QED BY <2>1, FS_Surjection DEF IsBook
  <2>3. \A R \in images : IsFiniteSet(R) /\ R \subseteq TradeEvent
    BY DEF IsBook, IsRows
  <2>4. IsFiniteSet(UNION images)
    BY <2>2, <2>3, FS_UNION
  <2> QED BY <2>3, <2>4
<1>3. IsFiniteSet(groups)
  <2> DEFINE of == [e \in events |-> Group(e)]
  <2>1. of \in Surjection(events, groups)
    BY DEF Surjection
  <2> HIDE DEF of, groups, events
  <2> QED BY <1>2, <2>1, FS_Surjection
<1>4. \A k \in groups : /\ k.day \in Int /\ k.account \in Int /\ k.side \in Sides
                        /\ k = [day |-> k.day, account |-> k.account, side |-> k.side]
  BY <1>2 DEF Group, TradeEvent
<1>5. ASSUME NEW k \in groups 
      PROVE  MergeFills(Rows(k)) \in Seq(Fill(k.side)) /\ MergeFills(Rows(k)) # <<>>
  <2> DEFINE rows == Rows(k)
  <2>1. /\ DOMAIN rows \subseteq DOMAIN b
        /\ \A s \in DOMAIN rows : rows[s] = GroupRows(b[s], k) /\ \E e \in b[s] : Group(e) = k
    OBVIOUS
  <2>5. DOMAIN rows # {}
    OBVIOUS
  <2> HIDE DEF rows
  <2>2. IsFiniteSet(DOMAIN rows) /\ DOMAIN rows \subseteq TradeSource /\ RankedOnce(DOMAIN rows)
    BY <2>1, FS_Subset DEF IsBook, RankedOnce
  <2>3. \A s \in DOMAIN rows : rows[s] \in Seq(RowOf(k.side)) /\ rows[s] # <<>>
    BY <2>1, GroupRowsType DEF IsBook
  <2>4. MergeFills(rows) \in Seq(Fill(k.side)) /\ MergeFills(rows) # <<>>
    BY <2>2, <2>3, <2>5, MergeFillsType
  <2> QED BY <2>4 DEF rows
<1>6. \A k \in groups : settled[k] = Settle(k, MergeFills(Rows(k)))
  OBVIOUS
<1>7. settled \in Surjection(groups, table)
  BY DEF Surjection
<1> HIDE DEF settled, Rows, groups
<1>8. \A k \in groups : IsTrade(settled[k]) /\ IsWhole(settled[k]) /\ Group(settled[k]) = k
  BY <1>4, <1>5, <1>6, SettleType
<1>9. IsFiniteSet(table)
  <2> HIDE DEF table
  <2> QED BY <1>3, <1>7, FS_Surjection
<1>10. \A t \in table : IsTrade(t) /\ (t.side # "dividend" => HasQty(t))
  BY <1>8 DEF IsWhole, HasQty
<1>11. \A t, u \in table : Group(t) = Group(u) => t = u
  BY <1>8
<1> QED BY <1>1, <1>9, <1>10, <1>11 DEF IsTable

-----------------------------------------------------------------------------
(* The invariant: the book has documents offered, the trades table is what *)
(* they settle to, and the day is a number.                                *)
IInv ==
    /\ IsBook(book) /\ DOMAIN book \subseteq {o.src : o \in Offers}
    /\ IsTable(trades) /\ trades = Reconcile(book)
    /\ today \in Nat

LEMMA InitIInv == Init => IInv
<1> SUFFICES ASSUME Init PROVE IInv
  OBVIOUS
<1>1. book = <<>> /\ trades = {} /\ today = 1
  BY DEF Init
<1>2. DOMAIN book = {}
  BY <1>1
<1>3. IsBook(book)
  BY <1>2, FS_EmptySet DEF IsBook, RankedOnce
<1>4. Reconcile(book) = {}
  BY <1>2 DEF Reconcile
<1>5. IsTable(trades)
  BY <1>3, <1>4, <1>1, ReconcileIsTable
<1> QED BY <1>1, <1>2, <1>3, <1>4, <1>5 DEF IInv

LEMMA NextIInv == IInv /\ [Next]_vars => IInv'
<1> SUFFICES ASSUME IInv, [Next]_vars PROVE IInv'
  OBVIOUS
<1>1. ASSUME NEW o \in Offers, AddTradeEvents(o.src, o.rows) PROVE IInv'
  <2> DEFINE s == o.src
             good == {e \in o.rows : CheckRow(e)}
             D == DOMAIN book \cup {s}
  <2>1. /\ book' = [t \in D |-> IF t = s THEN good ELSE book[t]]
        /\ trades' = Reconcile(book') /\ today' = today
    BY <1>1 DEF AddTradeEvents
  <2>2. s \in TradeSource /\ IsRows(o.rows) /\ RankedOnce({q.src : q \in Offers})
    BY OffersAssumption
  <2>3. IsRows(good) /\ \A e \in good : IsWhole(e)
    <3>1. IsRows(good)
      BY <2>2, FS_Subset DEF IsRows
    <3>2. \A e \in good : IsWhole(e)
      BY DEF CheckRow, IsWhole
    <3> QED BY <3>1, <3>2
  <2>4. IsFiniteSet(D) /\ D \subseteq TradeSource /\ D \subseteq {q.src : q \in Offers}
    <3>1. IsFiniteSet(DOMAIN book) /\ DOMAIN book \subseteq TradeSource /\ DOMAIN book \subseteq {q.src : q \in Offers}
      BY DEF IInv, IsBook
    <3>2. IsFiniteSet(D)
      BY <3>1, FS_AddElement
    <3> QED BY <2>2, <3>1, <3>2
  <2>5. RankedOnce(D)
    BY <2>2, <2>4 DEF RankedOnce
  <2>6. DOMAIN book' = D /\ \A t \in D : IsRows(book'[t]) /\ \A e \in book'[t] : IsWhole(e)
    <3>1. \A t \in DOMAIN book : IsRows(book[t]) /\ \A e \in book[t] : IsWhole(e)
      BY DEF IInv, IsBook
    <3> HIDE DEF good
    <3> QED BY <2>1, <2>3, <3>1
  <2> HIDE DEF D
  <2>7. IsBook(book')
    BY <2>4, <2>5, <2>6 DEF IsBook
  <2>8. IsTable(trades')
    BY <2>1, <2>7, ReconcileIsTable
  <2> QED BY <2>1, <2>4, <2>6, <2>7, <2>8 DEF IInv
<1>2. CASE NewDay
  BY <1>2 DEF NewDay, IInv
<1>3. CASE UNCHANGED vars
  BY <1>3 DEF vars, IInv
<1> QED BY <1>1, <1>2, <1>3 DEF Next

(* A figure that could not be computed has its reason in Missing, whatever *)
(* documents came in, in whatever order and with whatever rates, prices    *)
(* and splits: nothing is shown as missing that nothing is said of.        *)
THEOREM MissingSaysWhyAlways == Spec => []MissingSaysWhy
<1>1. IInv => MissingSaysWhy
  <2> SUFFICES ASSUME IInv PROVE MissingSaysWhy
    OBVIOUS
  <2>1. IsTable(trades) /\ today \in Int
    BY DEF IInv
  <2> QED BY <2>1, PortfolioHasReasons DEF MissingSaysWhy
<1> QED BY <1>1, InitIInv, NextIInv, PTL DEF Spec

(* The trades table is what the documents in hand settle to, one trade for *)
(* each day, account and side, however they came in and were written again.*)
THEOREM TableAlways == Spec => [](IsTable(trades) /\ trades = Reconcile(book))
<1>1. IInv => IsTable(trades) /\ trades = Reconcile(book)
  BY DEF IInv
<1> QED BY <1>1, InitIInv, NextIInv, PTL DEF Spec

-----------------------------------------------------------------------------
(* What a position holds, less what it gave and did not have, is changed   *)
(* by a trade by the trade's quantity and by nothing else.                 *)
Net(p) == Held(p.lots) - p.over

Signed(t) == IF Acquires(t.side) THEN t.qty ELSE IF Disposes(t.side) THEN -t.qty ELSE 0

LEMMA AcquireNet ==
    ASSUME NEW p \in Position, NEW t, t.day \in Int, NEW qty \in Nat \ {0}, NEW cost \in Decimal
    PROVE  /\ Net(Acquire(p, t, qty, cost)) = Net(p) + qty
           /\ Acquire(p, t, qty, cost).over = p.over
<1> DEFINE lot == [day |-> t.day, qty |-> qty, cost |-> cost, base |-> Convert(cost, t.day)]
<1>1. lot \in Lot /\ lot.qty = qty
  BY ConvertType DEF Lot
<1>2. Acquire(p, t, qty, cost) = [p EXCEPT !.lots = Append(p.lots, lot)]
  BY DEF Acquire
<1> HIDE DEF lot
<1>3. p.lots \in Seq(Lot) /\ p.over \in Int /\ Held(p.lots) \in Int
  BY LotSums DEF Position
<1>4. Held(Append(p.lots, lot)) = Held(p.lots) + qty
  BY <1>1, <1>3, LotsAppend
<1>5. Acquire(p, t, qty, cost).lots = Append(p.lots, lot) /\ Acquire(p, t, qty, cost).over = p.over
  BY <1>2 DEF Position
<1> QED BY <1>3, <1>4, <1>5 DEF Net

LEMMA ArriveNet ==
    ASSUME NEW p \in Position, NEW in, IsTrade(in), HasQty(in), NEW moved \in Seq(Lot), Held(moved) <= in.qty
    PROVE  Net(Arrive(p, in, moved)) = Net(p) + in.qty /\ Arrive(p, in, moved).over = p.over
<1> DEFINE lots == p.lots \o moved
           q == [p EXCEPT !.lots = ByDay(lots)]
           rest == in.qty - Held(moved)
           cost == Share(SumOf(in.amount, OrZero(in.fees)), rest, in.qty)
<1>1. /\ in.qty \in Int /\ in.qty > 0 /\ in.day \in Int /\ Held(moved) \in Int
      /\ p.lots \in Seq(Lot) /\ p.over \in Int /\ Held(p.lots) \in Int
  BY LotSums DEF IsTrade, HasQty, Decimal, Position
<1>2. lots \in Seq(Lot) /\ Held(lots) = Held(p.lots) + Held(moved)
  BY <1>1, LotsConcat
<1> HIDE DEF lots
<1>3. ByDay(lots) \in Seq(Lot) /\ Held(ByDay(lots)) = Held(lots)
  BY <1>2, LotsByDay
<1>4. q \in Position /\ q.over = p.over /\ Net(q) = Held(p.lots) + Held(moved) - p.over
  <2>1. q \in Position /\ q.over = p.over /\ q.lots = ByDay(lots)
    BY <1>3 DEF Position
  <2> HIDE DEF q
  <2>2. Net(q) = Held(ByDay(lots)) - p.over
    BY <2>1 DEF Net
  <2> QED BY <1>1, <1>2, <1>3, <2>1, <2>2
<1>5. cost \in Decimal
  <2>1. in.amount \in Decimal /\ in.fees \in Decimal
    BY DEF IsTrade
  <2>2. SumOf(in.amount, OrZero(in.fees)) \in Decimal
    <3>1. OrZero(in.fees) \in Decimal
      BY <2>1, AmountOps DEF Decimal
    <3> QED BY <2>1, <3>1, AmountOps
  <2>3. rest \in Int
    BY <1>1
  <2> HIDE DEF rest
  <2> QED BY <1>1, <2>2, <2>3, ShareType
<1>6. Arrive(p, in, moved) = IF rest <= 0 THEN q ELSE Acquire(q, in, rest, cost)
  BY DEF Arrive, AcquireRest, lots
<1> HIDE DEF q, cost
<1>7. CASE rest <= 0
  BY <1>1, <1>4, <1>6, <1>7 DEF Net
<1>8. CASE ~(rest <= 0)
  <2>1. rest \in Nat \ {0}
    BY <1>1, <1>8
  <2>2. Net(Acquire(q, in, rest, cost)) = Net(q) + rest /\ Acquire(q, in, rest, cost).over = q.over
    <3> HIDE DEF rest
    <3> QED BY <1>1, <1>4, <1>5, <2>1, AcquireNet
  <2> QED BY <1>1, <1>4, <1>6, <1>8, <2>2 DEF Net
<1> QED BY <1>7, <1>8

LEMMA NetType == ASSUME NEW p \in Position PROVE Net(p) \in Int /\ p.over \in Int
BY LotSums DEF Position, Net

(* What a trade makes of its account's position.                           *)
LEMMA ApplyIs ==
    ASSUME NEW accounts, NEW positions \in [accounts -> Position], NEW t, IsTrade(t), t.account \in accounts,
           t.side # "dividend" => HasQty(t)
    PROVE  LET p == positions[t.account]
               cost == SumOf(t.amount, OrZero(t.fees))
               to == Apply(positions, t)
           IN /\ \A a \in accounts : a # t.account => to[a] = positions[a]
              /\ cost \in Decimal /\ (t.side # "dividend" => t.qty \in Nat \ {0})
              /\ \/ Acquires(t.side) /\ ~Disposes(t.side) /\ to[t.account] = Acquire(p, t, t.qty, cost)
                 \/ Disposes(t.side) /\ ~Acquires(t.side) /\ to[t.account] = Dispose(p, t)
                 \/ t.side = "dividend" /\ ~Acquires(t.side) /\ ~Disposes(t.side) /\ to[t.account] = Receive(p, t)
<1> DEFINE p == positions[t.account]
           cost == SumOf(t.amount, OrZero(t.fees))
           to == CASE Acquires(t.side) /\ HasQty(t) -> Acquire(p, t, t.qty, cost)
                   [] Disposes(t.side) /\ HasQty(t) -> Dispose(p, t)
                   [] t.side = "dividend" -> Receive(p, t)
                   [] OTHER -> p
<1>1. Apply(positions, t) = [positions EXCEPT ![t.account] = to]
  BY DEF Apply
<1>2. Apply(positions, t)[t.account] = to /\ \A a \in accounts : a # t.account => Apply(positions, t)[a] = positions[a]
  <2> HIDE DEF to
  <2> QED BY <1>1
<1>3. \/ Acquires(t.side) /\ ~Disposes(t.side) /\ to = Acquire(p, t, t.qty, cost)
      \/ Disposes(t.side) /\ ~Acquires(t.side) /\ to = Dispose(p, t)
      \/ t.side = "dividend" /\ ~Acquires(t.side) /\ ~Disposes(t.side) /\ to = Receive(p, t)
  <2> HIDE DEF p, cost
  <2>1. /\ ~(Acquires(t.side) /\ Disposes(t.side)) /\ ~(Acquires(t.side) /\ t.side = "dividend")
        /\ ~(Disposes(t.side) /\ t.side = "dividend")
    BY DEF Acquires, Disposes
  <2>2. Acquires(t.side) \/ Disposes(t.side) \/ t.side = "dividend"
    BY DEF Acquires, Disposes, IsTrade, Sides
  <2> QED BY <2>1, <2>2
<1>4. t.side # "dividend" => t.qty \in Nat \ {0}
  BY DEF HasQty, IsTrade, Decimal
<1>5. cost \in Decimal
  <2>1. t.amount \in Decimal /\ t.fees \in Decimal
    BY DEF IsTrade
  <2>2. OrZero(t.fees) \in Decimal
    BY <2>1, AmountOps DEF Decimal
  <2> QED BY <2>1, <2>2, AmountOps
<1> HIDE DEF to
<1> QED BY <1>2, <1>3, <1>4, <1>5

LEMMA ApplyNet ==
    ASSUME NEW accounts, NEW positions \in [accounts -> Position], NEW t, IsTrade(t), t.account \in accounts,
           t.side # "dividend" => HasQty(t), NEW a \in accounts
    PROVE  LET to == Apply(positions, t)[a]
           IN /\ Net(to) = Net(positions[a]) + (IF a = t.account THEN Signed(t) ELSE 0)
              /\ to.over >= positions[a].over
              /\ a # t.account => to = positions[a]
<1> DEFINE p == positions[t.account]
           cost == SumOf(t.amount, OrZero(t.fees))
           to == Apply(positions, t)[t.account]
<1>1. p \in Position /\ positions[a] \in Position
  OBVIOUS
<1>2. /\ a # t.account => Apply(positions, t)[a] = positions[a]
      /\ cost \in Decimal /\ (t.side # "dividend" => t.qty \in Nat \ {0})
      /\ \/ Acquires(t.side) /\ ~Disposes(t.side) /\ to = Acquire(p, t, t.qty, cost)
         \/ Disposes(t.side) /\ ~Acquires(t.side) /\ to = Dispose(p, t)
         \/ t.side = "dividend" /\ ~Acquires(t.side) /\ ~Disposes(t.side) /\ to = Receive(p, t)
  BY ApplyIs
<1>3. Net(p) \in Int /\ p.over \in Int /\ Net(positions[a]) \in Int /\ positions[a].over \in Int
  BY <1>1, NetType
<1>4. CASE a # t.account
  BY <1>2, <1>3, <1>4
<1>5. CASE a = t.account
  <2> HIDE DEF to, cost, p
  <2>1. Net(to) = Net(p) + Signed(t) /\ to.over >= p.over
    <3>1. CASE Acquires(t.side) /\ ~Disposes(t.side) /\ to = Acquire(p, t, t.qty, cost)
      <4>1. t.qty \in Nat \ {0} /\ t.day \in Int
        BY <1>2, <3>1 DEF Acquires, IsTrade
      <4>2. Net(to) = Net(p) + t.qty /\ to.over = p.over
        BY <1>1, <1>2, <3>1, <4>1, AcquireNet
      <4> QED BY <1>3, <3>1, <4>2 DEF Signed
    <3>2. CASE Disposes(t.side) /\ ~Acquires(t.side) /\ to = Dispose(p, t)
      <4>1. t.qty \in Nat \ {0} /\ HasQty(t)
        BY <1>2, <3>2 DEF Disposes
      <4>2. /\ Held(to.lots) - to.over = Held(p.lots) - p.over - t.qty
            /\ to.over >= p.over
        BY <1>1, <3>2, <4>1, DisposeConserves
      <4> QED BY <1>3, <3>2, <4>1, <4>2 DEF Signed, Net
    <3>3. CASE t.side = "dividend" /\ ~Acquires(t.side) /\ ~Disposes(t.side) /\ to = Receive(p, t)
      <4>1. to.lots = p.lots /\ to.over = p.over
        BY <1>1, <3>3 DEF Receive, Position
      <4> QED BY <1>3, <3>3, <4>1 DEF Net, Signed
    <3> QED BY <1>2, <3>1, <3>2, <3>3
  <2> QED BY <1>5, <2>1 DEF p, to
<1> QED BY <1>4, <1>5

LEMMA TransferNet ==
    ASSUME NEW accounts, NEW positions \in [accounts -> Position],
           NEW out, IsTrade(out), out.account \in accounts, HasQty(out),
           NEW in, IsTrade(in), in.account \in accounts, Fits(in, out), NEW a \in accounts
    PROVE  LET to == Transfer(positions, out, in)[a]
           IN /\ Net(to) = Net(positions[a]) + (IF a = out.account THEN Signed(out)
                                                ELSE IF a = in.account THEN in.qty ELSE 0)
              /\ to.over >= positions[a].over
<1> DEFINE taken == TakeOldest(positions[out.account].lots, out.qty)
           given == Apply(positions, out)
           to == Arrive(given[in.account], in, taken.moved)
<1>1. given \in [accounts -> Position]
  BY ApplyType
<1>2. Transfer(positions, out, in) = [given EXCEPT ![in.account] = to]
  BY DEF Transfer
<1>3. /\ Net(given[a]) = Net(positions[a]) + (IF a = out.account THEN Signed(out) ELSE 0)
      /\ given[a].over >= positions[a].over
  BY ApplyNet
<1>4. in.account # out.account /\ in.qty = out.qty /\ out.qty \in Nat /\ HasQty(in)
  BY DEF Fits, Eq, HasQty, IsTrade, Decimal
<1>5. taken.moved \in Seq(Lot) /\ Held(taken.moved) <= in.qty
  <2>1. positions[out.account].lots \in Seq(Lot)
    BY DEF Position
  <2>2. taken \in Taking /\ taken.left + Held(taken.moved) = out.qty
    BY <1>4, <2>1, TakeOldestIs
  <2> HIDE DEF taken
  <2>3. taken.left \in Nat /\ taken.moved \in Seq(Lot)
    BY <2>2 DEF Taking
  <2>4. Held(taken.moved) \in Int
    BY <2>3, LotSums
  <2> QED BY <1>4, <2>2, <2>3, <2>4
<1> HIDE DEF taken, given
<1>6. Net(to) = Net(given[in.account]) + in.qty /\ to.over = given[in.account].over
  BY <1>1, <1>4, <1>5, ArriveNet
<1> HIDE DEF to
<1>7. CASE a = in.account
  <2>1. Transfer(positions, out, in)[a] = to
    BY <1>1, <1>2, <1>7
  <2>2. Net(positions[a]) \in Int /\ positions[a].over \in Int /\ given[a].over \in Int
    BY <1>1, NetType
  <2> QED BY <1>3, <1>4, <1>6, <1>7, <2>1, <2>2
<1>8. CASE a # in.account
  <2>1. Transfer(positions, out, in)[a] = given[a]
    BY <1>1, <1>2, <1>8
  <2> QED BY <1>3, <1>8, <2>1
<1> QED BY <1>7, <1>8

(* What an account got less what it gave by a day, in that day's shares,   *)
(* of the trades T, of which those that are the second of a pair of into   *)
(* were taken with its first.                                              *)
Grown(t, into, d) == t.qty * Factor(Due(TakenOn(t, into), d))

SumAt(S, into, d) == SumOver([t \in S |-> Grown(t, into, d)])

GotBy(T, a) == {t \in T : t.account = a /\ Acquires(t.side)}

GaveBy(T, a) == {t \in T : t.account = a /\ Disposes(t.side)}

Owed(T, a, into, d) == SumAt(GotBy(T, a), into, d) - SumAt(GaveBy(T, a), into, d)

AreTaken(T, into, d) ==
    /\ IsFiniteSet(T)
    /\ \A t \in T : /\ IsTrade(t) /\ (t.side # "dividend" => HasQty(t))
                    /\ TakenOn(t, into) \in Int /\ TakenOn(t, into) <= d

LEMMA NoneDue ==
    ASSUME NEW from \in Int, NEW to \in Int, \A s \in Splits : s.day > to
    PROVE  Factor(Due(from, to)) = 1
<1>1. Due(from, to) = {}
  BY SplitsAssumption DEF Due
<1>2. Factor({}) = 1
  <2>1. PICK o : FactorBy(o, {}) /\ Factor({}) = o[{}]
    BY FactorIs
  <2> QED BY <2>1 DEF FactorBy
<1> QED BY <1>1, <1>2

LEMMA DueType ==
    ASSUME NEW from, NEW to
    PROVE  Factor(Due(from, to)) \in Nat \ {0}
BY FactorType DEF Due

LEMMA SumAtType ==
    ASSUME NEW S, IsFiniteSet(S), NEW into, NEW d, \A t \in S : t.qty \in Int
    PROVE  SumAt(S, into, d) \in Int
<1> DEFINE f == [t \in S |-> Grown(t, into, d)]
<1>1. \A t \in S : f[t] \in Int
  BY DueType DEF Grown
<1>2. SumAt(S, into, d) = SumOver(On(f, S))
  BY DEF SumAt, On
<1> HIDE DEF f
<1> QED BY <1>1, <1>2, SumOverInt

LEMMA SumAtLater ==
    ASSUME NEW S, IsFiniteSet(S), NEW into, NEW d \in Int, NEW to \in Int,
           \A t \in S : t.qty \in Int /\ TakenOn(t, into) \in Int /\ TakenOn(t, into) <= d /\ d <= to
    PROVE  SumAt(S, into, to) = SumAt(S, into, d) * Factor(Due(d, to))
<1> DEFINE f == [t \in S |-> Grown(t, into, d)]
           g == [t \in S |-> Grown(t, into, to)]
           c == Factor(Due(d, to))
<1>1. c \in Int
  BY DueType
<1>2. ASSUME NEW t \in S PROVE f[t] \in Int /\ g[t] = f[t] * c
  <2> DEFINE x == TakenOn(t, into)
  <2>1. Factor(Due(x, to)) = Factor(Due(x, d)) * Factor(Due(d, to))
    <3>1. x \in Int /\ x <= d /\ d <= to
      OBVIOUS
    <3> HIDE DEF x
    <3> QED BY <3>1, FactorDue
  <2>2. Factor(Due(x, d)) \in Int /\ t.qty \in Int
    BY DueType
  <2>3. \A q, m, n \in Int : q * (m * n) = (q * m) * n
    OBVIOUS
  <2>4. f[t] = t.qty * Factor(Due(x, d)) /\ g[t] = t.qty * Factor(Due(x, to))
    BY DEF Grown
  <2> HIDE DEF x, f, g
  <2> QED BY <1>1, <2>1, <2>2, <2>3, <2>4
<1>3. SumAt(S, into, d) = SumOver(On(f, S)) /\ SumAt(S, into, to) = SumOver(On(g, S))
  BY DEF SumAt, On
<1> HIDE DEF f, g, c
<1>4. SumOver(On(g, S)) = SumOver(On(f, S)) * c
  BY <1>1, <1>2, SumOverTimes
<1> QED BY <1>3, <1>4 DEF c

LEMMA SumAtAdd ==
    ASSUME NEW S, NEW into, NEW d \in Int, NEW t, IsFiniteSet(S), t \notin S, TakenOn(t, into) = d,
           t.qty \in Int, \A u \in S : u.qty \in Int
    PROVE  SumAt(S \cup {t}, into, d) = SumAt(S, into, d) + t.qty
<1> DEFINE f == [u \in S \cup {t} |-> Grown(u, into, d)]
<1>1. \A u \in S \cup {t} : f[u] \in Int /\ f[u] \in Decimal
  BY DueType DEF Grown, Decimal
<1>2. f[t] = t.qty
  <2>1. Factor(Due(d, d)) = 1 /\ t.qty \in Int
    BY FactorDue
  <2>2. f[t] = t.qty * Factor(Due(d, d))
    BY DEF Grown
  <2> HIDE DEF f
  <2> QED BY <2>1, <2>2
<1>3. SumAt(S \cup {t}, into, d) = SumOver(On(f, S \cup {t})) /\ SumAt(S, into, d) = SumOver(On(f, S))
  BY DEF SumAt, On
<1> HIDE DEF f
<1>4. SumOver(On(f, S \cup {t})) = SumOf(f[t], SumOver(On(f, S)))
  BY <1>1, SumOverAdd
<1>5. SumOver(On(f, S)) \in Int /\ f[t] \in Int
  BY <1>1, SumOverInt
<1> QED BY <1>2, <1>3, <1>4, <1>5, NoneAssumption DEF SumOf

LEMMA SidesFinite ==
    ASSUME NEW T, NEW into, NEW d, AreTaken(T, into, d), NEW a
    PROVE  /\ IsFiniteSet(GotBy(T, a)) /\ IsFiniteSet(GaveBy(T, a))
           /\ \A t \in GotBy(T, a) \cup GaveBy(T, a) :
                  t \in T /\ t.qty \in Int /\ TakenOn(t, into) \in Int /\ TakenOn(t, into) <= d
           /\ SumAt(GotBy(T, a), into, d) \in Int /\ SumAt(GaveBy(T, a), into, d) \in Int
           /\ Owed(T, a, into, d) \in Int
<1>1. IsFiniteSet(GotBy(T, a)) /\ IsFiniteSet(GaveBy(T, a))
  BY FS_Subset DEF GotBy, GaveBy, AreTaken
<1>2. \A t \in GotBy(T, a) \cup GaveBy(T, a) :
          t \in T /\ t.qty \in Int /\ TakenOn(t, into) \in Int /\ TakenOn(t, into) <= d
  BY DEF GotBy, GaveBy, AreTaken, Acquires, Disposes, HasQty, IsTrade, Decimal
<1>3. SumAt(GotBy(T, a), into, d) \in Int /\ SumAt(GaveBy(T, a), into, d) \in Int
  BY <1>1, <1>2, SumAtType
<1> QED BY <1>1, <1>2, <1>3 DEF Owed

LEMMA OwedLater ==
    ASSUME NEW T, NEW into, NEW d \in Int, AreTaken(T, into, d), NEW a,
           NEW to \in Int, T # {} => d <= to
    PROVE  Owed(T, a, into, to) = Owed(T, a, into, d) * Factor(Due(d, to))
<1> DEFINE got == GotBy(T, a)
           gave == GaveBy(T, a)
           c == Factor(Due(d, to))
<1>1. /\ IsFiniteSet(got) /\ IsFiniteSet(gave)
      /\ \A t \in got \cup gave : t \in T /\ t.qty \in Int /\ TakenOn(t, into) \in Int /\ TakenOn(t, into) <= d
      /\ SumAt(got, into, d) \in Int /\ SumAt(gave, into, d) \in Int
  BY SidesFinite
<1>2. c \in Int
  BY DueType
<1> HIDE DEF got, gave
<1>3. SumAt(got, into, to) = SumAt(got, into, d) * c /\ SumAt(gave, into, to) = SumAt(gave, into, d) * c
  BY <1>1, SumAtLater
<1>4. \A x, y, z \in Int : x * z - y * z = (x - y) * z
  OBVIOUS
<1> HIDE DEF c
<1>5. SumAt(got, into, to) - SumAt(gave, into, to) = (SumAt(got, into, d) - SumAt(gave, into, d)) * c
  BY <1>1, <1>2, <1>3, <1>4
<1> QED BY <1>5 DEF Owed, got, gave, c

LEMMA OwedAdd ==
    ASSUME NEW T, NEW into, NEW d \in Int, NEW a, NEW t,
           AreTaken(T, into, d), t \notin T, IsTrade(t), t.side # "dividend" => HasQty(t), TakenOn(t, into) = d
    PROVE  /\ AreTaken(T \cup {t}, into, d)
           /\ Owed(T \cup {t}, a, into, d) = Owed(T, a, into, d) + (IF a = t.account THEN Signed(t) ELSE 0)
<1> DEFINE got == GotBy(T, a)
           gave == GaveBy(T, a)
<1>1. AreTaken(T \cup {t}, into, d)
  BY FS_AddElement DEF AreTaken
<1>2. /\ IsFiniteSet(got) /\ IsFiniteSet(gave)
      /\ \A u \in got \cup gave : u \in T /\ u.qty \in Int
      /\ SumAt(got, into, d) \in Int /\ SumAt(gave, into, d) \in Int
  BY SidesFinite
<1>3. ~(Acquires(t.side) /\ Disposes(t.side)) /\ (Acquires(t.side) \/ Disposes(t.side) => t.qty \in Int)
  BY DEF Acquires, Disposes, HasQty, IsTrade, Decimal
<1>4. /\ GotBy(T \cup {t}, a) = IF a = t.account /\ Acquires(t.side) THEN got \cup {t} ELSE got
      /\ GaveBy(T \cup {t}, a) = IF a = t.account /\ Disposes(t.side) THEN gave \cup {t} ELSE gave
  <2>1. GotBy(T \cup {t}, a) = IF a = t.account /\ Acquires(t.side) THEN got \cup {t} ELSE got
    <3>1. CASE a = t.account /\ Acquires(t.side)
      BY <3>1 DEF GotBy
    <3>2. CASE ~(a = t.account /\ Acquires(t.side))
      BY <3>2 DEF GotBy
    <3> QED BY <3>1, <3>2
  <2>2. GaveBy(T \cup {t}, a) = IF a = t.account /\ Disposes(t.side) THEN gave \cup {t} ELSE gave
    <3>1. CASE a = t.account /\ Disposes(t.side)
      BY <3>1 DEF GaveBy
    <3>2. CASE ~(a = t.account /\ Disposes(t.side))
      BY <3>2 DEF GaveBy
    <3> QED BY <3>1, <3>2
  <2> QED BY <2>1, <2>2
<1> HIDE DEF got, gave
<1>5. t \notin got /\ t \notin gave
  BY <1>2
<1>6. Acquires(t.side) => SumAt(got \cup {t}, into, d) = SumAt(got, into, d) + t.qty
  BY <1>2, <1>3, <1>5, SumAtAdd
<1>7. Disposes(t.side) => SumAt(gave \cup {t}, into, d) = SumAt(gave, into, d) + t.qty
  BY <1>2, <1>3, <1>5, SumAtAdd
<1>8. /\ Owed(T, a, into, d) = SumAt(got, into, d) - SumAt(gave, into, d)
      /\ Owed(T \cup {t}, a, into, d) = SumAt(GotBy(T \cup {t}, a), into, d) - SumAt(GaveBy(T \cup {t}, a), into, d)
  BY DEF Owed, got, gave
<1>9. CASE a = t.account /\ Acquires(t.side)
  <2>1. GotBy(T \cup {t}, a) = got \cup {t} /\ GaveBy(T \cup {t}, a) = gave
    BY <1>3, <1>4, <1>9
  <2>2. Signed(t) = t.qty /\ t.qty \in Int
    BY <1>3, <1>9 DEF Signed
  <2>3. Owed(T \cup {t}, a, into, d) = SumAt(got \cup {t}, into, d) - SumAt(gave, into, d)
    BY <1>8, <2>1
  <2> QED BY <1>1, <1>2, <1>6, <1>8, <1>9, <2>2, <2>3
<1>10. CASE a = t.account /\ Disposes(t.side)
  <2>1. GotBy(T \cup {t}, a) = got /\ GaveBy(T \cup {t}, a) = gave \cup {t}
    BY <1>3, <1>4, <1>10
  <2>2. Signed(t) = -t.qty /\ t.qty \in Int
    BY <1>3, <1>10 DEF Signed
  <2>3. Owed(T \cup {t}, a, into, d) = SumAt(got, into, d) - SumAt(gave \cup {t}, into, d)
    BY <1>8, <2>1
  <2> QED BY <1>1, <1>2, <1>7, <1>8, <1>10, <2>2, <2>3
<1>11. CASE ~(a = t.account /\ (Acquires(t.side) \/ Disposes(t.side)))
  <2>1. GotBy(T \cup {t}, a) = got /\ GaveBy(T \cup {t}, a) = gave
    BY <1>4, <1>11
  <2>2. (IF a = t.account THEN Signed(t) ELSE 0) = 0
    BY <1>11 DEF Signed
  <2> QED BY <1>1, <1>2, <1>8, <2>1, <2>2
<1> QED BY <1>9, <1>10, <1>11

(* As long as no disposal was short, or no split is to come, a position is *)
(* what the trades taken so far come to.                                   *)
Owes(accounts, positions, d, T, into, quiet) ==
    \A a \in accounts :
        /\ positions[a].over >= 0
        /\ positions[a].over = 0 \/ quiet => Net(positions[a]) = Owed(T, a, into, d)

LEMMA ScaleOwes ==
    ASSUME NEW accounts, NEW positions \in [accounts -> Position], NEW d \in Int, NEW to \in Int,
           NEW T, NEW into, AreTaken(T, into, d), T # {} => d <= to,
           NEW quiet, quiet => Factor(Due(d, to)) = 1, Owes(accounts, positions, d, T, into, quiet)
    PROVE  AreTaken(T, into, to) /\ Owes(accounts, Scale(positions, d, to), to, T, into, quiet)
<1> DEFINE c == Factor(Due(d, to))
<1>1. AreTaken(T, into, to)
  BY DEF AreTaken
<1>2. c \in Nat \ {0}
  BY DueType
<1>3. Scale(positions, d, to) = [a \in accounts |-> [positions[a] EXCEPT !.lots = Scaled(positions[a].lots, c)]]
  BY DEF Scale
<1>4. quiet => c = 1
  OBVIOUS
<1>5. \A a : Owed(T, a, into, to) = Owed(T, a, into, d) * c /\ Owed(T, a, into, d) \in Int
  BY OwedLater, SidesFinite
<1> HIDE DEF c
<1>6. ASSUME NEW a \in accounts
      PROVE  /\ Scale(positions, d, to)[a].over >= 0
             /\ Scale(positions, d, to)[a].over = 0 \/ quiet =>
                    Net(Scale(positions, d, to)[a]) = Owed(T, a, into, to)
  <2> DEFINE p == positions[a]
             q == Scale(positions, d, to)[a]
  <2>1. p \in Position /\ p.lots \in Seq(Lot) /\ p.over \in Int
    BY DEF Position
  <2>2. q = [p EXCEPT !.lots = Scaled(p.lots, c)]
    BY <1>3
  <2>3. p.over >= 0 /\ (p.over = 0 \/ quiet => Net(p) = Owed(T, a, into, d))
    BY DEF Owes
  <2> HIDE DEF p, q
  <2>4. q.lots = Scaled(p.lots, c) /\ q.over = p.over
    BY <2>1, <2>2 DEF Position
  <2>5. Held(q.lots) = Held(p.lots) * c /\ Held(p.lots) \in Int
    BY <1>2, <2>1, <2>4, LotsScaled, LotSums
  <2>6. Net(q) = Held(p.lots) * c - p.over /\ Net(p) = Held(p.lots) - p.over
    BY <2>4, <2>5 DEF Net
  <2>7. ASSUME p.over = 0 \/ quiet PROVE Net(q) = Net(p) * c
    <3>1. CASE p.over = 0
      <4>1. Net(q) = Held(p.lots) * c /\ Net(p) = Held(p.lots)
        BY <1>2, <2>1, <2>5, <2>6, <3>1
      <4> QED BY <4>1
    <3>2. CASE quiet
      <4>1. c = 1
        BY <1>4, <3>2
      <4>2. Held(p.lots) * c = Held(p.lots)
        BY <2>5, <4>1
      <4>3. Net(p) * c = Net(p)
        BY <2>1, <2>5, <2>6, <4>1
      <4> QED BY <2>6, <4>2, <4>3
    <3> QED BY <2>7, <3>1, <3>2
  <2>8. q.over = 0 \/ quiet => Net(q) = Owed(T, a, into, to)
    BY <1>5, <2>3, <2>4, <2>7
  <2> QED BY <2>3, <2>4, <2>8 DEF q
<1> QED BY <1>1, <1>6 DEF Owes

LEMMA ApplyOwes ==
    ASSUME NEW accounts, NEW positions \in [accounts -> Position], NEW d \in Int,
           NEW T, NEW into, AreTaken(T, into, d), NEW quiet, Owes(accounts, positions, d, T, into, quiet),
           NEW t, IsTrade(t), t.account \in accounts, t.side # "dividend" => HasQty(t),
           t \notin T, TakenOn(t, into) = d
    PROVE  /\ AreTaken(T \cup {t}, into, d)
           /\ Owes(accounts, Apply(positions, t), d, T \cup {t}, into, quiet)
<1>1. AreTaken(T \cup {t}, into, d)
  BY OwedAdd
<1>2. ASSUME NEW a \in accounts
      PROVE  /\ Apply(positions, t)[a].over >= 0
             /\ Apply(positions, t)[a].over = 0 \/ quiet =>
                    Net(Apply(positions, t)[a]) = Owed(T \cup {t}, a, into, d)
  <2> DEFINE p == positions[a]
             q == Apply(positions, t)[a]
             given == IF a = t.account THEN Signed(t) ELSE 0
  <2>1. Net(q) = Net(p) + given /\ q.over >= p.over
    BY ApplyNet
  <2>2. Owed(T \cup {t}, a, into, d) = Owed(T, a, into, d) + given
    BY OwedAdd
  <2>3. p.over >= 0 /\ (p.over = 0 \/ quiet => Net(p) = Owed(T, a, into, d))
    BY DEF Owes
  <2>4. p.over \in Int /\ q.over \in Int
    <3>1. Apply(positions, t) \in [accounts -> Position]
      BY ApplyType
    <3> QED BY <3>1, NetType
  <2> HIDE DEF p, q, given
  <2>5. q.over >= 0 /\ (q.over = 0 \/ quiet => Net(q) = Owed(T \cup {t}, a, into, d))
    BY <2>1, <2>2, <2>3, <2>4
  <2> QED BY <2>5 DEF q
<1> QED BY <1>1, <1>2 DEF Owes

LEMMA TransferOwes ==
    ASSUME NEW accounts, NEW positions \in [accounts -> Position], NEW d \in Int,
           NEW T, NEW into, AreTaken(T, into, d), NEW quiet, Owes(accounts, positions, d, T, into, quiet),
           NEW out, IsTrade(out), out.account \in accounts, HasQty(out), out \notin T, TakenOn(out, into) = d,
           NEW in, IsTrade(in), in.account \in accounts, in \notin T, TakenOn(in, into) = d, Fits(in, out)
    PROVE  /\ AreTaken(T \cup {out, in}, into, d)
           /\ Owes(accounts, Transfer(positions, out, in), d, T \cup {out, in}, into, quiet)
<1>1. /\ T \cup {out, in} = (T \cup {out}) \cup {in} /\ in \notin T \cup {out}
      /\ in.account # out.account /\ in.side = "transfer_in" /\ HasQty(in)
  BY DEF Fits, Eq, HasQty
<1>2. /\ AreTaken(T \cup {out}, into, d)
      /\ \A a : Owed(T \cup {out}, a, into, d) =
                    Owed(T, a, into, d) + (IF a = out.account THEN Signed(out) ELSE 0)
  BY OwedAdd
<1>3. /\ AreTaken(T \cup {out, in}, into, d)
      /\ \A a : Owed(T \cup {out, in}, a, into, d) =
                    Owed(T \cup {out}, a, into, d) + (IF a = in.account THEN Signed(in) ELSE 0)
  <2> DEFINE S == T \cup {out}
  <2>1. AreTaken(S, into, d) /\ in \notin S /\ HasQty(in)
    BY <1>1, <1>2
  <2> HIDE DEF S
  <2>2. /\ AreTaken(S \cup {in}, into, d)
        /\ \A a : Owed(S \cup {in}, a, into, d) =
                      Owed(S, a, into, d) + (IF a = in.account THEN Signed(in) ELSE 0)
    <3>1. IsTrade(in) /\ (in.side # "dividend" => HasQty(in)) /\ TakenOn(in, into) = d
      BY <2>1
    <3>2. AreTaken(S \cup {in}, into, d)
      BY <2>1, <3>1, OwedAdd
    <3>3. ASSUME NEW a
          PROVE  Owed(S \cup {in}, a, into, d) =
                     Owed(S, a, into, d) + (IF a = in.account THEN Signed(in) ELSE 0)
      BY SMTT(30), <2>1, <3>1, OwedAdd
    <3> QED BY <3>2, <3>3
  <2> QED BY <1>1, <2>2 DEF S
<1>4. Signed(in) = in.qty /\ in.qty \in Int
  BY <1>1 DEF Signed, Acquires, HasQty, IsTrade, Decimal
<1>5. ASSUME NEW a \in accounts
      PROVE  /\ Transfer(positions, out, in)[a].over >= 0
             /\ Transfer(positions, out, in)[a].over = 0 \/ quiet =>
                    Net(Transfer(positions, out, in)[a]) = Owed(T \cup {out, in}, a, into, d)
  <2> DEFINE p == positions[a]
             q == Transfer(positions, out, in)[a]
             given == IF a = out.account THEN Signed(out) ELSE IF a = in.account THEN in.qty ELSE 0
  <2>1. Net(q) = Net(p) + given /\ q.over >= p.over
    BY TransferNet
  <2>2. Owed(T \cup {out, in}, a, into, d) = Owed(T, a, into, d) + given
    <3>1. Owed(T, a, into, d) \in Int
      BY SidesFinite
    <3>2. CASE a = out.account
      <4>1. Owed(T \cup {out}, a, into, d) = Owed(T, a, into, d) + Signed(out) /\ Signed(out) \in Int
        BY <1>2, <3>2 DEF Signed, IsTrade, HasQty, Decimal
      <4>2. Owed(T \cup {out, in}, a, into, d) = Owed(T \cup {out}, a, into, d) + 0
        BY <1>1, <1>3, <3>2
      <4> QED BY <3>1, <3>2, <4>1, <4>2
    <3>3. CASE a = in.account
      <4>1. Owed(T \cup {out}, a, into, d) = Owed(T, a, into, d) + 0
        BY <1>1, <1>2, <3>3
      <4>2. Owed(T \cup {out, in}, a, into, d) = Owed(T \cup {out}, a, into, d) + in.qty
        BY <1>3, <1>4, <3>3
      <4> QED BY <1>1, <1>4, <3>1, <3>3, <4>1, <4>2
    <3>4. CASE a # out.account /\ a # in.account
      <4>1. Owed(T \cup {out}, a, into, d) = Owed(T, a, into, d) + 0
        BY <1>2, <3>4
      <4>2. Owed(T \cup {out, in}, a, into, d) = Owed(T \cup {out}, a, into, d) + 0
        BY <1>3, <3>4
      <4> QED BY <3>1, <3>4, <4>1, <4>2
    <3> QED BY <3>2, <3>3, <3>4
  <2>3. p.over >= 0 /\ (p.over = 0 \/ quiet => Net(p) = Owed(T, a, into, d))
    BY DEF Owes
  <2>4. p.over \in Int /\ q.over \in Int
    <3>1. Transfer(positions, out, in) \in [accounts -> Position]
      BY TransferType
    <3> QED BY <3>1, NetType
  <2> HIDE DEF p, q, given
  <2>5. q.over >= 0 /\ (q.over = 0 \/ quiet => Net(q) = Owed(T \cup {out, in}, a, into, d))
    BY <2>1, <2>2, <2>3, <2>4
  <2> QED BY <2>5 DEF q
<1> QED BY <1>3, <1>5 DEF Owes

-----------------------------------------------------------------------------
(* What the lots of a position cost less the gains of its sales: what was  *)
(* paid for its shares less what was got for them. What each step makes of *)
(* it, when it has the shares that it gives.                               *)
Worth(p) == Diff(CostBase(p.lots), Gains(p.sales))

GainsAt(sales) == [k \in 1..Len(sales) |-> sales[k].gainBase]

LEMMA GainsOver ==
    ASSUME NEW sales \in Seq(SaleMade)
    PROVE  /\ Gains(sales) = SumTo(GainsAt(sales), Len(sales))
           /\ Gains(sales) = SumOver(On(GainsAt(sales), DOMAIN sales))
           /\ \A k \in DOMAIN sales : GainsAt(sales)[k] = sales[k].gainBase /\ sales[k].gainBase \in Decimal
<1>1. Len(sales) \in Nat /\ DOMAIN sales = 1..Len(sales)
  OBVIOUS
<1>2. \A k \in DOMAIN sales : GainsAt(sales)[k] = sales[k].gainBase /\ sales[k].gainBase \in Decimal
  <2>1. \A k \in DOMAIN sales : sales[k] \in SaleMade
    OBVIOUS
  <2> QED BY <1>1, <2>1 DEF SaleMade, GainsAt
<1>3. Gains(sales) = SumTo(GainsAt(sales), Len(sales))
  BY DEF Gains, TotalSeq, GainsAt
<1>4. SumTo(GainsAt(sales), Len(sales)) = SumOver(On(GainsAt(sales), 1..Len(sales)))
  BY <1>1, <1>2, SumToOver
<1> QED BY <1>1, <1>2, <1>3, <1>4

LEMMA GainsAppend ==
    ASSUME NEW sales \in Seq(SaleMade), NEW s \in SaleMade
    PROVE  Gains(Append(sales, s)) = SumOf(Gains(sales), s.gainBase)
<1> DEFINE to == Append(sales, s)
           n == Len(sales)
<1>1. /\ n \in Nat /\ Len(to) = n + 1 /\ to \in Seq(SaleMade) /\ to[n + 1] = s /\ n + 1 \in 1..(n + 1)
      /\ \A k \in 1..n : to[k] = sales[k] /\ k \in 1..(n + 1)
      /\ DOMAIN sales = 1..n /\ DOMAIN to = 1..(n + 1)
  OBVIOUS
<1> HIDE DEF to, n
<1>2. /\ \A k \in 1..n : GainsAt(to)[k] = GainsAt(sales)[k] /\ GainsAt(sales)[k] \in Decimal
      /\ GainsAt(to)[n + 1] = s.gainBase /\ GainsAt(to)[n + 1] \in Decimal
  BY <1>1, GainsOver
<1>3. SumTo(GainsAt(to), n + 1) = SumOf(SumTo(GainsAt(sales), n), GainsAt(to)[n + 1])
  BY <1>1, <1>2, SumToMore
<1>4. Gains(sales) = SumTo(GainsAt(sales), n) /\ Gains(to) = SumTo(GainsAt(to), n + 1)
  BY <1>1, GainsOver DEF n
<1> QED BY <1>2, <1>3, <1>4 DEF to

LEMMA WorthType ==
    ASSUME NEW p \in Position
    PROVE  /\ CostBase(p.lots) \in Decimal /\ Gains(p.sales) \in Decimal /\ Worth(p) \in Decimal
           /\ Worth(p) \in Int => CostBase(p.lots) \in Int /\ Gains(p.sales) \in Int
<1>1. CostBase(p.lots) \in Decimal /\ Gains(p.sales) \in Decimal
  BY LotSums, GainsIs DEF Position
<1> QED BY <1>1, AmountOps, NoneAssumption DEF Worth, Decimal

LEMMA AcquireWorth ==
    ASSUME NEW p \in Position, NEW t, t.day \in Int, NEW qty \in Nat \ {0}, NEW cost \in Decimal
    PROVE  Worth(Acquire(p, t, qty, cost)) = SumOf(Worth(p), Convert(cost, t.day))
<1> DEFINE lot == [day |-> t.day, qty |-> qty, cost |-> cost, base |-> Convert(cost, t.day)]
           to == Acquire(p, t, qty, cost)
<1>1. lot \in Lot /\ lot.base = Convert(cost, t.day) /\ Convert(cost, t.day) \in Decimal
  BY ConvertType DEF Lot
<1>2. to = [p EXCEPT !.lots = Append(p.lots, lot)]
  BY DEF Acquire
<1> HIDE DEF lot, to
<1>3. to.lots = Append(p.lots, lot) /\ to.sales = p.sales /\ p.lots \in Seq(Lot)
  BY <1>2 DEF Position
<1>4. CostBase(to.lots) = SumOf(CostBase(p.lots), Convert(cost, t.day))
  BY <1>1, <1>3, LotsAppend
<1>5. CostBase(p.lots) \in Decimal /\ Gains(p.sales) \in Decimal
  BY WorthType
<1> QED BY <1>1, <1>3, <1>4, <1>5, SumOfLaws DEF Worth, to

LEMMA DisposeWorth ==
    ASSUME NEW p \in Position, NEW t, IsTrade(t), HasQty(t), Dispose(p, t).over = p.over
    PROVE  LET to == Dispose(p, t)
               moved == TakeOldest(p.lots, t.qty).moved
           IN /\ moved \in Seq(Lot) /\ Held(moved) = t.qty
              /\ t.side = "sell" => Worth(to) = SumOf(Worth(p), Diff(0, Got(t)))
              /\ t.side # "sell" => Worth(p) = SumOf(Worth(to), CostBase(moved))
<1> DEFINE taken == TakeOldest(p.lots, t.qty)
           moved == taken.moved
           to == Dispose(p, t)
           net == Diff(t.amount, OrZero(t.fees))
           sale == Sale(t, moved)
<1>1. t.qty \in Nat \ {0} /\ p.lots \in Seq(Lot) /\ p.sales \in Seq(SaleMade) /\ p.over \in Int
  BY DEF IsTrade, HasQty, Decimal, Position
<1>2. /\ taken \in Taking /\ taken.left + Held(moved) = t.qty
      /\ SumOf(CostBase(taken.kept), CostBase(moved)) = CostBase(p.lots)
  BY <1>1, TakeOldestIs
<1>3. /\ to.lots = taken.kept /\ to.over = p.over + taken.left
      /\ to.sales = IF t.side = "sell" /\ Held(moved) > 0 THEN Append(p.sales, sale) ELSE p.sales
  <2> HIDE DEF taken, sale
  <2>1. to = Give(p, t, taken)
    BY DEF Dispose, taken
  <2> HIDE DEF to
  <2> QED BY <2>1 DEF Give, Position, sale
<1>4. sale.gainBase = Diff(Convert(Share(net, Held(moved), t.qty), t.day), CostBase(moved))
  BY DEF Sale, Realized
<1> HIDE DEF taken, to
<1>5. taken.left = 0 /\ Held(moved) = t.qty /\ moved \in Seq(Lot) /\ taken.kept \in Seq(Lot)
  <2>1. taken.left \in Nat /\ moved \in Seq(Lot) /\ taken.kept \in Seq(Lot)
    BY <1>2 DEF Taking
  <2>2. taken.left = 0
    BY <1>1, <1>3, <2>1 DEF to
  <2>3. Held(moved) \in Int
    BY <2>1, LotSums
  <2> QED BY <1>1, <1>2, <2>1, <2>2, <2>3
<1>6. net \in Decimal /\ t.day \in Int
  <2>1. t.amount \in Decimal /\ t.fees \in Decimal /\ t.day \in Int
    BY DEF IsTrade
  <2>2. OrZero(t.fees) \in Decimal
    BY <2>1, AmountOps DEF Decimal
  <2> QED BY <2>1, <2>2, AmountOps
<1>7. Share(net, Held(moved), t.qty) = net /\ Got(t) = Convert(net, t.day)
  <2>1. Got(t) = Convert(net, t.day)
    BY DEF Got
  <2> HIDE DEF net
  <2> QED BY <1>1, <1>5, <1>6, <2>1, ShareAll
<1>8. Got(t) \in Decimal /\ sale.gainBase = Diff(Got(t), CostBase(moved))
  <2> HIDE DEF net, moved, sale
  <2> QED BY <1>4, <1>6, <1>7, ConvertType
<1>9. sale \in SaleMade
  <2> HIDE DEF moved
  <2> QED BY <1>5, SaleType
<1> DEFINE k == CostBase(taken.kept)
           m == CostBase(moved)
           g == Gains(p.sales)
<1>10. k \in Decimal /\ m \in Decimal /\ g \in Decimal /\ CostBase(p.lots) = SumOf(k, m)
  BY <1>1, <1>2, <1>5, LotSums, GainsIs
<1> HIDE DEF moved, sale
<1>11. CASE t.side = "sell"
  <2>1. to.sales = Append(p.sales, sale)
    BY <1>1, <1>3, <1>5, <1>11
  <2>2. Gains(to.sales) = SumOf(g, Diff(Got(t), m))
    BY <1>1, <1>8, <1>9, <2>1, GainsAppend
  <2>3. Worth(to) = Diff(k, SumOf(g, Diff(Got(t), m))) /\ Worth(p) = Diff(SumOf(k, m), g)
    BY <1>3, <1>10, <2>2 DEF Worth
  <2> HIDE DEF k, m, g
  <2>4. \A a, b, c, e \in Decimal : Diff(a, SumOf(c, Diff(e, b))) = SumOf(Diff(SumOf(a, b), c), Diff(0, e))
    BY NoneAssumption DEF Decimal, SumOf, Diff
  <2> QED BY <1>5, <1>8, <1>10, <1>11, <2>3, <2>4 DEF to, moved, taken
<1>12. CASE t.side # "sell"
  <2>1. Worth(to) = Diff(k, g) /\ Worth(p) = Diff(SumOf(k, m), g)
    BY <1>3, <1>10, <1>12 DEF Worth
  <2>2. Worth(p) = SumOf(Worth(to), m)
    <3> HIDE DEF k, m, g
    <3> QED BY <1>10, <2>1, SumOfLaws
  <2> QED BY <1>5, <1>12, <2>2 DEF to, moved, taken
<1> QED BY <1>11, <1>12

LEMMA ArriveWorth ==
    ASSUME NEW p \in Position, NEW in, IsTrade(in), NEW moved \in Seq(Lot), Held(moved) = in.qty
    PROVE  Worth(Arrive(p, in, moved)) = SumOf(Worth(p), CostBase(moved))
<1> DEFINE lots == p.lots \o moved
           to == Arrive(p, in, moved)
<1>1. p.lots \in Seq(Lot) /\ Held(moved) \in Int /\ lots \in Seq(Lot)
  BY LotSums DEF Position
<1>2. CostBase(lots) = SumOf(CostBase(p.lots), CostBase(moved)) /\ CostBase(ByDay(lots)) = CostBase(lots)
  <2>1. CostBase(ByDay(lots)) = CostBase(lots)
    <3> HIDE DEF lots
    <3> QED BY <1>1, LotsByDay
  <2> QED BY <1>1, <2>1, LotsConcat
<1> HIDE DEF lots
<1>3. to = [p EXCEPT !.lots = ByDay(lots)]
  <2>1. in.qty - Held(moved) <= 0
    BY <1>1
  <2> QED BY <2>1 DEF Arrive, AcquireRest, lots
<1> HIDE DEF to
<1>4. to.lots = ByDay(lots) /\ to.sales = p.sales
  BY <1>3 DEF Position
<1>5. CostBase(p.lots) \in Decimal /\ Gains(p.sales) \in Decimal /\ CostBase(moved) \in Decimal
  BY WorthType, LotSums
<1> QED BY <1>2, <1>4, <1>5, SumOfLaws DEF Worth, to

LEMMA ReceiveWorth == ASSUME NEW p \in Position, NEW t PROVE Worth(Receive(p, t)) = Worth(p)
<1>1. Receive(p, t).lots = p.lots /\ Receive(p, t).sales = p.sales
  BY DEF Receive, Position
<1> QED BY <1>1 DEF Worth

(* The same of all accounts together, and of trades: a transfer is worth   *)
(* nothing, unless only its in is a trade.                                 *)
AllWorth(accounts, positions) == SumOver([a \in accounts |-> Worth(positions[a])])

Bought(T, into) == {t \in T : Acquires(t.side)} \ {q[2] : q \in into}

Sold(T) == {t \in T : t.side = "sell"}

Flow(t, into) == IF t \in Bought({t}, into) THEN Paid(t) ELSE IF t.side = "sell" THEN Diff(0, Got(t)) ELSE 0

Flows(T, into) == SumOver([t \in T |-> Flow(t, into)])

LEMMA FlowType ==
    ASSUME NEW t, IsTrade(t)
    PROVE  Paid(t) \in Decimal /\ Got(t) \in Decimal /\ \A into : Flow(t, into) \in Decimal
<1>1. t.amount \in Decimal /\ t.fees \in Decimal /\ t.day \in Int
  BY DEF IsTrade
<1>2. OrZero(t.fees) \in Decimal
  BY <1>1, AmountOps DEF Decimal
<1>3. SumOf(t.amount, OrZero(t.fees)) \in Decimal /\ Diff(t.amount, OrZero(t.fees)) \in Decimal
  BY <1>1, <1>2, AmountOps
<1>4. Paid(t) \in Decimal /\ Got(t) \in Decimal
  BY <1>1, <1>3, ConvertType DEF Paid, Got
<1>5. 0 \in Decimal
  BY DEF Decimal
<1>6. Diff(0, Got(t)) \in Decimal
  BY <1>4, <1>5, AmountOps
<1> QED BY <1>4, <1>5, <1>6 DEF Flow

LEMMA FlowsAdd ==
    ASSUME NEW T, NEW into, NEW t, IsFiniteSet(T), t \notin T, \A u \in T \cup {t} : IsTrade(u)
    PROVE  /\ Flows(T \cup {t}, into) = SumOf(Flows(T, into), Flow(t, into))
           /\ Flows(T, into) \in Decimal /\ Flow(t, into) \in Decimal
<1> DEFINE f == [u \in T \cup {t} |-> Flow(u, into)]
<1>1. \A u \in T \cup {t} : f[u] = Flow(u, into) /\ f[u] \in Decimal
  BY FlowType
<1>2. Flows(T \cup {t}, into) = SumOver(On(f, T \cup {t})) /\ Flows(T, into) = SumOver(On(f, T))
  BY DEF Flows, On
<1> HIDE DEF f
<1>3. SumOver(On(f, T \cup {t})) = SumOf(f[t], SumOver(On(f, T))) /\ SumOver(On(f, T)) \in Decimal
  BY <1>1, SumOverAdd
<1>4. f[t] = Flow(t, into) /\ f[t] \in Decimal
  BY <1>1
<1> QED BY <1>2, <1>3, <1>4, SumOfLaws

LEMMA AllWorthType ==
    ASSUME NEW accounts, NEW positions \in [accounts -> Position], IsFiniteSet(accounts)
    PROVE  AllWorth(accounts, positions) \in Decimal
<1> DEFINE f == [a \in accounts |-> Worth(positions[a])]
<1>1. DOMAIN f = accounts /\ \A a \in accounts : f[a] \in Decimal
  BY WorthType
<1> HIDE DEF f
<1>2. SumOver(f) \in Decimal
  BY <1>1, SumOverIs
<1> QED BY <1>2 DEF AllWorth, f

LEMMA AllWorthGrown ==
    ASSUME NEW accounts, NEW positions \in [accounts -> Position], NEW to \in [accounts -> Position],
           NEW x \in accounts, NEW d \in Decimal, IsFiniteSet(accounts),
           \A a \in accounts : a # x => to[a] = positions[a],
           Worth(to[x]) = SumOf(Worth(positions[x]), d)
    PROVE  AllWorth(accounts, to) = SumOf(AllWorth(accounts, positions), d)
<1> DEFINE f == [a \in accounts |-> Worth(positions[a])]
           g == [a \in accounts |-> Worth(to[a])]
<1>1. \A a \in accounts : f[a] = Worth(positions[a]) /\ f[a] \in Decimal /\ g[a] = Worth(to[a]) /\ g[a] \in Decimal
  BY WorthType
<1>2. AllWorth(accounts, positions) = SumOver(On(f, accounts)) /\ AllWorth(accounts, to) = SumOver(On(g, accounts))
  BY DEF AllWorth, On
<1> HIDE DEF f, g
<1>3. g[x] = SumOf(f[x], d) /\ \A a \in accounts \ {x} : f[a] = g[a]
  BY <1>1
<1>4. SumOver(On(g, accounts)) = SumOf(SumOver(On(f, accounts)), d)
  BY <1>1, <1>3, SumOverGrown
<1> QED BY <1>2, <1>4

LEMMA ApplyWorth ==
    ASSUME NEW accounts, NEW positions \in [accounts -> Position], NEW t, NEW into, IsFiniteSet(accounts),
           IsTrade(t), t.account \in accounts, t.side # "dividend" => HasQty(t),
           t.side # "transfer_out", \A q \in into : q[2] # t,
           Apply(positions, t)[t.account].over = positions[t.account].over
    PROVE  AllWorth(accounts, Apply(positions, t)) = SumOf(AllWorth(accounts, positions), Flow(t, into))
<1> DEFINE p == positions[t.account]
           cost == SumOf(t.amount, OrZero(t.fees))
           to == Apply(positions, t)
<1>1. /\ \A a \in accounts : a # t.account => to[a] = positions[a]
      /\ cost \in Decimal /\ (t.side # "dividend" => t.qty \in Nat \ {0})
      /\ \/ Acquires(t.side) /\ ~Disposes(t.side) /\ to[t.account] = Acquire(p, t, t.qty, cost)
         \/ Disposes(t.side) /\ ~Acquires(t.side) /\ to[t.account] = Dispose(p, t)
         \/ t.side = "dividend" /\ ~Acquires(t.side) /\ ~Disposes(t.side) /\ to[t.account] = Receive(p, t)
  BY ApplyIs
<1>2. p \in Position /\ to \in [accounts -> Position] /\ t.day \in Int
  BY ApplyType DEF IsTrade
<1>3. Paid(t) = Convert(cost, t.day) /\ Flow(t, into) \in Decimal
  BY FlowType DEF Paid
<1>4. t \in Bought({t}, into) <=> Acquires(t.side)
  BY DEF Bought
<1> HIDE DEF cost, to
<1>5. Worth(to[t.account]) = SumOf(Worth(p), Flow(t, into))
  <2> HIDE DEF p
  <2>1. CASE Acquires(t.side) /\ ~Disposes(t.side) /\ to[t.account] = Acquire(p, t, t.qty, cost)
    <3>1. t.qty \in Nat \ {0}
      BY <1>1, <2>1 DEF Acquires
    <3>2. Worth(to[t.account]) = SumOf(Worth(p), Convert(cost, t.day))
      BY <1>1, <1>2, <2>1, <3>1, AcquireWorth
    <3> QED BY <1>3, <1>4, <2>1, <3>2 DEF Flow
  <2>2. CASE Disposes(t.side) /\ ~Acquires(t.side) /\ to[t.account] = Dispose(p, t)
    <3>1. t.side = "sell" /\ HasQty(t)
      BY <2>2 DEF Disposes
    <3>2. Dispose(p, t).over = p.over
      BY <2>2 DEF to, p
    <3>3. Worth(to[t.account]) = SumOf(Worth(p), Diff(0, Got(t)))
      BY <1>2, <2>2, <3>1, <3>2, DisposeWorth
    <3> QED BY <1>4, <2>2, <3>1, <3>3 DEF Flow
  <2>3. CASE t.side = "dividend" /\ ~Acquires(t.side) /\ ~Disposes(t.side) /\ to[t.account] = Receive(p, t)
    <3>1. Worth(to[t.account]) = Worth(p) /\ Worth(p) \in Decimal
      BY <1>2, <2>3, ReceiveWorth, WorthType
    <3>2. Flow(t, into) = 0
      BY <1>4, <2>3 DEF Flow
    <3>3. SumOf(Worth(p), 0) = Worth(p)
      BY <3>1, NoneAssumption DEF SumOf, Decimal
    <3> QED BY <3>1, <3>2, <3>3
  <2> QED BY <1>1, <2>1, <2>2, <2>3
<1> DEFINE d == Flow(t, into)
<1>6. d \in Decimal /\ Worth(to[t.account]) = SumOf(Worth(positions[t.account]), d)
  BY <1>3, <1>5
<1> HIDE DEF d
<1>7. AllWorth(accounts, to) = SumOf(AllWorth(accounts, positions), d)
  BY <1>1, <1>2, <1>6, AllWorthGrown
<1> QED BY <1>7 DEF d, to

LEMMA TransferWorth ==
    ASSUME NEW accounts, NEW positions \in [accounts -> Position], NEW out, NEW in, IsFiniteSet(accounts),
           IsTrade(out), out.account \in accounts, HasQty(out), out.side = "transfer_out",
           IsTrade(in), in.account \in accounts, Fits(in, out),
           Transfer(positions, out, in)[out.account].over = positions[out.account].over
    PROVE  AllWorth(accounts, Transfer(positions, out, in)) = AllWorth(accounts, positions)
<1> DEFINE p == positions[out.account]
           given == Apply(positions, out)
           moved == TakeOldest(p.lots, out.qty).moved
           arrived == Arrive(given[in.account], in, moved)
           to == Transfer(positions, out, in)
           m == CostBase(moved)
<1>1. /\ given \in [accounts -> Position] /\ to \in [accounts -> Position]
      /\ in.account # out.account /\ in.qty = out.qty
  BY ApplyType, TransferType DEF Fits, Eq
<1>2. to = [given EXCEPT ![in.account] = arrived]
  BY DEF Transfer
<1>3. /\ \A a \in accounts : a # out.account => given[a] = positions[a]
      /\ given[out.account] = Dispose(p, out) /\ p \in Position
  BY ApplyIs DEF Acquires, Disposes
<1> HIDE DEF given, arrived, moved, p
<1>4. to[in.account] = arrived /\ \A a \in accounts : a # in.account => to[a] = given[a]
  BY <1>1, <1>2
<1> HIDE DEF to
<1>5. Dispose(p, out).over = p.over
  BY <1>1, <1>3, <1>4 DEF to, p
<1>6. moved \in Seq(Lot) /\ Held(moved) = in.qty /\ Worth(p) = SumOf(Worth(Dispose(p, out)), m)
  BY <1>1, <1>3, <1>5, DisposeWorth DEF moved
<1>7. Worth(arrived) = SumOf(Worth(given[in.account]), m)
  BY <1>1, <1>6, ArriveWorth DEF arrived
<1>8. m \in Decimal
  BY <1>6, LotSums
<1> HIDE DEF m
<1>9. AllWorth(accounts, to) = SumOf(AllWorth(accounts, given), m)
  BY <1>1, <1>4, <1>7, <1>8, AllWorthGrown
<1>10. AllWorth(accounts, positions) = SumOf(AllWorth(accounts, given), m)
  <2>1. \A a \in accounts : a # out.account => positions[a] = given[a]
    BY <1>3
  <2>2. Worth(positions[out.account]) = SumOf(Worth(given[out.account]), m)
    BY <1>3, <1>6 DEF p
  <2> QED BY <1>1, <1>8, <2>1, <2>2, AllWorthGrown
<1> QED BY <1>9, <1>10 DEF to

(* A trade leaves an account's sales as they are, or is one more of them.  *)
Sells(before, after, day) == after = before \/ \E s : s.day = day /\ after = Append(before, s)

LEMMA ApplySales ==
    ASSUME NEW accounts, NEW positions \in [accounts -> Position], NEW t, NEW a \in accounts
    PROVE  Sells(positions[a].sales, Apply(positions, t)[a].sales, t.day)
<1> DEFINE p == positions[t.account]
           cost == SumOf(t.amount, OrZero(t.fees))
           to == CASE Acquires(t.side) /\ HasQty(t) -> Acquire(p, t, t.qty, cost)
                   [] Disposes(t.side) /\ HasQty(t) -> Dispose(p, t)
                   [] t.side = "dividend" -> Receive(p, t)
                   [] OTHER -> p
<1>1. Apply(positions, t) = [positions EXCEPT ![t.account] = to]
  BY DEF Apply
<1>2. CASE a # t.account
  BY <1>1, <1>2 DEF Sells
<1>3. CASE a = t.account
  <2>1. p \in Position /\ Apply(positions, t)[a] = to /\ positions[a] = p
    BY <1>1, <1>3
  <2>2. Acquire(p, t, t.qty, cost).sales = p.sales /\ Receive(p, t).sales = p.sales
    BY <2>1 DEF Acquire, Receive, Position
  <2> DEFINE taken == TakeOldest(p.lots, t.qty)
             sale == Sale(t, taken.moved)
  <2>3. Dispose(p, t).sales = p.sales \/ Dispose(p, t).sales = Append(p.sales, sale)
    <3>1. Give(p, t, taken).sales = IF t.side = "sell" /\ Held(taken.moved) > 0 THEN Append(p.sales, sale) ELSE p.sales
      <4> HIDE DEF taken, sale
      <4> QED BY <2>1 DEF Give, Position, sale
    <3> QED BY <3>1 DEF Dispose
  <2>4. sale.day = t.day
    BY DEF Sale, Realized
  <2> HIDE DEF sale, p, cost
  <2>5. to.sales = p.sales \/ to.sales = Append(p.sales, sale)
    BY <2>2, <2>3
  <2> HIDE DEF to
  <2> QED BY <2>1, <2>4, <2>5 DEF Sells
<1> QED BY <1>2, <1>3

LEMMA ArriveSales ==
    ASSUME NEW p \in Position, NEW in, NEW moved
    PROVE  Arrive(p, in, moved).sales = p.sales
<1> DEFINE q == [p EXCEPT !.lots = ByDay(p.lots \o moved)]
           rest == in.qty - Held(moved)
           cost == Share(SumOf(in.amount, OrZero(in.fees)), rest, in.qty)
<1>1. Arrive(p, in, moved) = IF rest <= 0 THEN q ELSE Acquire(q, in, rest, cost)
  BY DEF Arrive, AcquireRest
<1>2. q.sales = p.sales /\ Acquire(q, in, rest, cost).sales = p.sales
  BY DEF Position, Acquire
<1> QED BY <1>1, <1>2

LEMMA TransferSales ==
    ASSUME NEW accounts, NEW positions \in [accounts -> Position], NEW out, IsTrade(out), out.account \in accounts,
           NEW in, in.account \in accounts, NEW a \in accounts
    PROVE  Transfer(positions, out, in)[a].sales = Apply(positions, out)[a].sales
<1> DEFINE given == Apply(positions, out)
           moved == TakeOldest(positions[out.account].lots, out.qty).moved
           to == IF HasQty(out) THEN Arrive(given[in.account], in, moved) ELSE given[in.account]
<1>1. Transfer(positions, out, in) = [given EXCEPT ![in.account] = to]
  BY DEF Transfer
<1>2. given \in [accounts -> Position]
  BY ApplyType
<1> HIDE DEF given, moved
<1>3. to.sales = given[in.account].sales
  BY <1>2, ArriveSales
<1> HIDE DEF to
<1> QED BY <1>1, <1>2, <1>3 DEF given

(* Of the trades T taken: no disposal was short and each out has its in,   *)
(* what is held is worth what the trades made it; sales are on their days. *)
OutsPaired(T, into) == \A t \in T : t.side = "transfer_out" => \E q \in into : q[1] = t

SalesOf(accounts, positions, T) ==
    \A a \in accounts : \A n \in DOMAIN positions[a].sales : \E t \in T : t.day = positions[a].sales[n].day

Settles(accounts, positions, T, into) ==
    /\ IsFiniteSet(accounts) /\ SalesOf(accounts, positions, T)
    /\ (\A a \in accounts : positions[a].over = 0) /\ OutsPaired(T, into) =>
           AllWorth(accounts, positions) = Flows(T, into)

LEMMA NoneSettles ==
    ASSUME NEW accounts, NEW positions, IsFiniteSet(accounts), \A a \in accounts : positions[a] = NoPosition, NEW into
    PROVE  Settles(accounts, positions, {}, into)
<1>1. NoPosition.lots = <<>> /\ NoPosition.sales = <<>>
  BY DEF NoPosition
<1>2. Worth(NoPosition) = 0
  <2>1. Gains(<<>>) = 0
    <3>1. <<>> \in Seq(SaleMade) /\ DOMAIN GainsAt(<<>>) = {} /\ On(GainsAt(<<>>), {}) = On(GainsAt(<<>>), DOMAIN <<>>)
      BY DEF GainsAt
    <3>2. Gains(<<>>) = SumOver(On(GainsAt(<<>>), {}))
      BY <3>1, GainsOver
    <3> QED BY <3>2, SumOverNone
  <2> QED BY <1>1, <2>1, NoLots, NoneAssumption DEF Worth, Diff
<1>3. SalesOf(accounts, positions, {})
  BY <1>1 DEF SalesOf
<1>4. AllWorth(accounts, positions) = 0
  <2> DEFINE f == [a \in accounts |-> Worth(positions[a])]
  <2>1. f = On(f, accounts) /\ \A a \in accounts : f[a] = 0
    BY <1>2 DEF On
  <2> HIDE DEF f
  <2>2. SumOver(On(f, accounts)) = SumOver(On(f, {}))
    BY <2>1, SumOverOnly
  <2> QED BY <2>1, <2>2, SumOverNone DEF AllWorth, f
<1>5. Flows({}, into) = 0
  <2> DEFINE f == [t \in {} |-> Flow(t, into)]
  <2>1. Flows({}, into) = SumOver(On(f, {}))
    BY DEF Flows, On
  <2> QED BY <2>1, SumOverNone
<1> QED BY <1>3, <1>4, <1>5 DEF Settles

LEMMA SalesOfMore ==
    ASSUME NEW accounts, NEW positions \in [accounts -> Position], NEW to \in [accounts -> Position],
           NEW T, NEW t, SalesOf(accounts, positions, T),
           \A a \in accounts : Sells(positions[a].sales, to[a].sales, t.day), NEW U, T \cup {t} \subseteq U
    PROVE  SalesOf(accounts, to, U)
<1> SUFFICES ASSUME NEW a \in accounts, NEW n \in DOMAIN to[a].sales PROVE \E u \in U : u.day = to[a].sales[n].day
  BY DEF SalesOf
<1> DEFINE before == positions[a].sales
           after == to[a].sales
<1>1. before \in Seq(SaleMade) /\ \A m \in DOMAIN before : \E u \in T : u.day = before[m].day
  BY DEF SalesOf, Position
<1>2. CASE after = before
  <2>1. n \in DOMAIN before /\ after[n] = before[n]
    BY <1>2
  <2> HIDE DEF before, after
  <2> QED BY <1>1, <2>1 DEF after
<1>3. CASE \E s : s.day = t.day /\ after = Append(before, s)
  <2>1. PICK s : s.day = t.day /\ after = Append(before, s)
    BY <1>3
  <2>2. (n \in DOMAIN before /\ after[n] = before[n]) \/ after[n] = s
    <3>1. n \in DOMAIN after
      OBVIOUS
    <3> HIDE DEF before, after
    <3> QED BY <1>1, <2>1, <3>1
  <2> HIDE DEF before, after
  <2> QED BY <1>1, <2>1, <2>2 DEF after
<1>4. Sells(before, after, t.day)
  OBVIOUS
<1> HIDE DEF before, after
<1> QED BY <1>2, <1>3, <1>4 DEF Sells

LEMMA ScaleSettles ==
    ASSUME NEW accounts, NEW positions \in [accounts -> Position], NEW from, NEW to, NEW T, NEW into,
           Settles(accounts, positions, T, into)
    PROVE  Settles(accounts, Scale(positions, from, to), T, into)
<1> DEFINE c == Factor(Due(from, to))
           after == Scale(positions, from, to)
<1>1. c \in Nat \ {0} /\ after = [a \in accounts |-> [positions[a] EXCEPT !.lots = Scaled(positions[a].lots, c)]]
  <2>1. Due(from, to) \in SUBSET Splits
    BY DEF Due
  <2> QED BY <2>1, FactorType DEF Scale
<1> HIDE DEF c, after
<1>2. ASSUME NEW a \in accounts
      PROVE  /\ after[a].sales = positions[a].sales /\ after[a].over = positions[a].over
             /\ Worth(after[a]) = Worth(positions[a])
  <2> DEFINE p == positions[a]
             q == after[a]
             lots == Scaled(p.lots, c)
  <2>1. p \in Position /\ p.lots \in Seq(Lot)
    BY DEF Position
  <2>2. q = [p EXCEPT !.lots = lots]
    BY <1>1
  <2>3. CostBase(lots) = CostBase(p.lots)
    BY <1>1, <2>1, LotsScaled
  <2> HIDE DEF p, q, lots
  <2>4. q.lots = lots /\ q.sales = p.sales /\ q.over = p.over
    BY <2>1, <2>2 DEF Position
  <2> QED BY <2>3, <2>4 DEF Worth, p, q
<1>3. AllWorth(accounts, after) = AllWorth(accounts, positions)
  <2>1. [a \in accounts |-> Worth(after[a])] = [a \in accounts |-> Worth(positions[a])]
    BY <1>2
  <2> QED BY <2>1 DEF AllWorth
<1>4. SalesOf(accounts, after, T)
  BY <1>2 DEF Settles, SalesOf
<1> QED BY <1>2, <1>3, <1>4 DEF Settles, after

LEMMA ApplySettles ==
    ASSUME NEW accounts, NEW positions \in [accounts -> Position], NEW T, NEW into, NEW t,
           Settles(accounts, positions, T, into), \A a \in accounts : positions[a].over >= 0,
           IsFiniteSet(T), t \notin T, \A u \in T \cup {t} : IsTrade(u),
           t.account \in accounts, t.side # "dividend" => HasQty(t), \A q \in into : q[1] # t /\ q[2] # t
    PROVE  Settles(accounts, Apply(positions, t), T \cup {t}, into)
<1> DEFINE to == Apply(positions, t)
<1>1. IsTrade(t) /\ to \in [accounts -> Position] /\ IsFiniteSet(accounts)
  BY ApplyType DEF Settles
<1>2. \A a \in accounts : to[a].over >= positions[a].over /\ to[a].over \in Int /\ positions[a].over \in Int
  <2>1. \A a \in accounts : to[a].over >= positions[a].over
    BY <1>1, ApplyNet
  <2> QED BY <1>1, <2>1, NetType
<1>3. SalesOf(accounts, to, T \cup {t})
  <2>1. \A a \in accounts : Sells(positions[a].sales, to[a].sales, t.day)
    BY ApplySales
  <2> HIDE DEF to
  <2> QED BY <1>1, <2>1, SalesOfMore DEF Settles
<1>4. ASSUME \A a \in accounts : to[a].over = 0, OutsPaired(T \cup {t}, into)
      PROVE  AllWorth(accounts, to) = Flows(T \cup {t}, into)
  <2>1. \A a \in accounts : positions[a].over = 0
    BY <1>2, <1>4
  <2>2. OutsPaired(T, into) /\ t.side # "transfer_out"
    BY <1>4 DEF OutsPaired
  <2>3. AllWorth(accounts, positions) = Flows(T, into)
    BY <2>1, <2>2 DEF Settles
  <2>4. to[t.account].over = positions[t.account].over
    BY <1>4, <2>1
  <2>5. AllWorth(accounts, to) = SumOf(AllWorth(accounts, positions), Flow(t, into))
    BY <1>1, <2>2, <2>4, ApplyWorth
  <2>6. Flows(T \cup {t}, into) = SumOf(Flows(T, into), Flow(t, into))
    BY FlowsAdd
  <2> HIDE DEF to
  <2> QED BY <2>3, <2>5, <2>6
<1> QED BY <1>1, <1>3, <1>4 DEF Settles

LEMMA TransferSettles ==
    ASSUME NEW accounts, NEW positions \in [accounts -> Position], NEW T, NEW into, NEW out, NEW in,
           Settles(accounts, positions, T, into), \A a \in accounts : positions[a].over >= 0,
           IsFiniteSet(T), out \notin T, in \notin T, \A u \in T \cup {out, in} : IsTrade(u),
           out.account \in accounts, HasQty(out), out.side = "transfer_out",
           in.account \in accounts, Fits(in, out), <<out, in>> \in into
    PROVE  Settles(accounts, Transfer(positions, out, in), T \cup {out, in}, into)
<1> DEFINE to == Transfer(positions, out, in)
           S == T \cup {out}
<1>1. /\ IsTrade(out) /\ IsTrade(in) /\ to \in [accounts -> Position] /\ IsFiniteSet(accounts)
      /\ S \cup {in} = T \cup {out, in} /\ IsFiniteSet(S) /\ in \notin S
  <2>1. in # out
    BY DEF Fits
  <2> QED BY <2>1, TransferType, FS_AddElement DEF Settles
<1>2. \A a \in accounts : to[a].over >= positions[a].over /\ to[a].over \in Int /\ positions[a].over \in Int
  <2>1. \A a \in accounts : to[a].over >= positions[a].over
    BY <1>1, TransferNet
  <2> QED BY <1>1, <2>1, NetType
<1>3. SalesOf(accounts, to, T \cup {out, in})
  <2>1. \A a \in accounts : Sells(positions[a].sales, to[a].sales, out.day)
    <3>1. \A a \in accounts : Sells(positions[a].sales, Apply(positions, out)[a].sales, out.day)
      BY ApplySales
    <3>2. \A a \in accounts : to[a].sales = Apply(positions, out)[a].sales
      BY <1>1, TransferSales
    <3> QED BY <3>1, <3>2
  <2>2. T \cup {out} \subseteq T \cup {out, in}
    OBVIOUS
  <2> HIDE DEF to
  <2> QED BY <1>1, <2>1, <2>2, SalesOfMore DEF Settles
<1>4. Flow(out, into) = 0 /\ Flow(in, into) = 0
  <2>1. <<out, in>>[2] = in /\ in.side = "transfer_in"
    BY DEF Fits
  <2>2. in \in {q[2] : q \in into}
    BY <2>1
  <2> QED BY <2>1, <2>2 DEF Flow, Bought, Acquires
<1>5. Flows(T \cup {out, in}, into) = Flows(T, into)
  <2>1. Flows(S, into) = SumOf(Flows(T, into), 0) /\ Flows(T, into) \in Decimal
    BY <1>4, FlowsAdd
  <2>2. Flows(S \cup {in}, into) = SumOf(Flows(S, into), 0)
    <3>1. \A u \in S \cup {in} : IsTrade(u)
      BY <1>1
    <3> HIDE DEF S
    <3> QED BY <1>1, <1>4, <3>1, FlowsAdd
  <2> HIDE DEF S
  <2>3. SumOf(Flows(T, into), 0) = Flows(T, into)
    <3> DEFINE x == Flows(T, into)
    <3>1. x \in Decimal
      BY <2>1
    <3> HIDE DEF x
    <3>2. SumOf(x, 0) = x
      BY <3>1, NoneAssumption DEF SumOf, Decimal
    <3> QED BY <3>2 DEF x
  <2>4. Flows(T \cup {out, in}, into) = Flows(S \cup {in}, into)
    BY <1>1
  <2>5. Flows(S \cup {in}, into) = SumOf(Flows(T, into), 0)
    BY <2>1, <2>2, <2>3
  <2> QED BY <2>3, <2>4, <2>5
<1>6. ASSUME \A a \in accounts : to[a].over = 0, OutsPaired(T \cup {out, in}, into)
      PROVE  AllWorth(accounts, to) = Flows(T \cup {out, in}, into)
  <2>1. \A a \in accounts : positions[a].over = 0
    BY <1>2, <1>6
  <2>2. OutsPaired(T, into)
    BY <1>6 DEF OutsPaired
  <2>3. AllWorth(accounts, positions) = Flows(T, into)
    BY <2>1, <2>2 DEF Settles
  <2>4. to[out.account].over = positions[out.account].over
    BY <1>6, <2>1
  <2>5. AllWorth(accounts, to) = AllWorth(accounts, positions)
    BY <1>1, <2>4, TransferWorth
  <2> QED BY <1>5, <2>3, <2>5
<1> QED BY <1>1, <1>3, <1>6 DEF Settles

(* The places of the trades taken once the walk is at a place: an in that  *)
(* is paired is taken with its out.                                        *)
TakenAt(into, n) == {i \in 1..n : \A p \in into : p[2] # i} \cup {p[2] : p \in {q \in into : q[1] <= n}}

LEMMA TakenAtIs ==
    ASSUME NEW ts, AreTrades(ts), NEW into, Pairing(ts, into)
    PROVE  /\ TakenAt(into, 0) = {} /\ TakenAt(into, Len(ts)) = DOMAIN ts
           /\ \A n \in DOMAIN ts :
                  /\ TakenAt(into, n) \subseteq DOMAIN ts /\ TakenAt(into, n - 1) \subseteq DOMAIN ts
                  /\ (\E p \in into : p[2] = n) => TakenAt(into, n) = TakenAt(into, n - 1)
                  /\ \A p \in into : p[1] = n =>
                         /\ TakenAt(into, n) = TakenAt(into, n - 1) \cup {n, p[2]}
                         /\ n \notin TakenAt(into, n - 1) /\ p[2] \notin TakenAt(into, n - 1)
                  /\ (\A p \in into : p[1] # n /\ p[2] # n) =>
                         /\ TakenAt(into, n) = TakenAt(into, n - 1) \cup {n}
                         /\ n \notin TakenAt(into, n - 1)
<1>1. Len(ts) \in Nat /\ DOMAIN ts = 1..Len(ts)
  BY DEF AreTrades
<1>2. \A p \in into : /\ p[1] \in 1..Len(ts) /\ p[2] \in 1..Len(ts)
                      /\ ts[p[1]].side = "transfer_out" /\ ts[p[2]].side = "transfer_in"
  BY <1>1 DEF Pairing, Matches, Fits
<1>3. \A p, q \in into : /\ p[1] # q[2]
                         /\ p[1] = q[1] \/ p[2] = q[2] => p = q
  BY <1>2 DEF Pairing
<1>4. TakenAt(into, 0) = {} /\ TakenAt(into, Len(ts)) = DOMAIN ts
  BY <1>1, <1>2 DEF TakenAt
<1>5. ASSUME NEW n \in DOMAIN ts
      PROVE  /\ TakenAt(into, n) \subseteq DOMAIN ts /\ TakenAt(into, n - 1) \subseteq DOMAIN ts
             /\ (\E p \in into : p[2] = n) => TakenAt(into, n) = TakenAt(into, n - 1)
             /\ \A p \in into : p[1] = n =>
                    /\ TakenAt(into, n) = TakenAt(into, n - 1) \cup {n, p[2]}
                    /\ n \notin TakenAt(into, n - 1) /\ p[2] \notin TakenAt(into, n - 1)
             /\ (\A p \in into : p[1] # n /\ p[2] # n) =>
                    /\ TakenAt(into, n) = TakenAt(into, n - 1) \cup {n}
                    /\ n \notin TakenAt(into, n - 1)
  <2>1. n \in 1..Len(ts) /\ 1..n = (1..(n - 1)) \cup {n} /\ n \notin 1..(n - 1)
    BY <1>1
  <2>2. \A p \in into : p[1] <= n <=> p[1] <= n - 1 \/ p[1] = n
    BY <1>2, <2>1
  <2>3. TakenAt(into, n) \subseteq DOMAIN ts /\ TakenAt(into, n - 1) \subseteq DOMAIN ts
    BY <1>1, <1>2, <2>1 DEF TakenAt
  <2>4. ASSUME NEW p \in into, p[2] = n PROVE TakenAt(into, n) = TakenAt(into, n - 1)
    <3>1. \A q \in into : q[1] # n
      BY <1>3, <2>4
    <3> QED BY <2>1, <2>2, <2>4, <3>1 DEF TakenAt
  <2>5. ASSUME NEW p \in into, p[1] = n
        PROVE  /\ TakenAt(into, n) = TakenAt(into, n - 1) \cup {n, p[2]}
               /\ n \notin TakenAt(into, n - 1) /\ p[2] \notin TakenAt(into, n - 1)
    <3>1. \A q \in into : q[2] # n /\ (q[1] = n => q = p) /\ (q[2] = p[2] => q = p)
      BY <1>3, <2>5
    <3>2. ~(p[1] <= n - 1)
      BY <2>1, <2>5
    <3>3. n \notin TakenAt(into, n - 1) /\ p[2] \notin TakenAt(into, n - 1)
      BY <2>1, <3>1, <3>2 DEF TakenAt
    <3>4. TakenAt(into, n) = TakenAt(into, n - 1) \cup {n, p[2]}
      <4>1. {i \in 1..n : \A q \in into : q[2] # i} = {i \in 1..(n - 1) : \A q \in into : q[2] # i} \cup {n}
        BY <2>1, <3>1
      <4>2. {q \in into : q[1] <= n} = {q \in into : q[1] <= n - 1} \cup {p}
        BY <2>2, <2>5, <3>1
      <4>3. {r[2] : r \in {q \in into : q[1] <= n}} = {r[2] : r \in {q \in into : q[1] <= n - 1}} \cup {p[2]}
        BY <4>2
      <4> QED BY <4>1, <4>3 DEF TakenAt
    <3> QED BY <3>3, <3>4
  <2>6. ASSUME \A p \in into : p[1] # n /\ p[2] # n
        PROVE  /\ TakenAt(into, n) = TakenAt(into, n - 1) \cup {n}
               /\ n \notin TakenAt(into, n - 1)
    <3>1. n \notin TakenAt(into, n - 1)
      BY <2>1, <2>6 DEF TakenAt
    <3>2. {i \in 1..n : \A q \in into : q[2] # i} = {i \in 1..(n - 1) : \A q \in into : q[2] # i} \cup {n}
      BY <2>1, <2>6
    <3>3. {q \in into : q[1] <= n} = {q \in into : q[1] <= n - 1}
      BY <2>2, <2>6
    <3> QED BY <3>1, <3>2, <3>3 DEF TakenAt
  <2> QED BY <2>3, <2>4, <2>5, <2>6
<1> QED BY <1>4, <1>5

(* When a trade of the list is taken.                                      *)
LEMMA TakenOnIs ==
    ASSUME NEW ts, AreTrades(ts), NEW into, Pairing(ts, into),
           \A i, j \in DOMAIN ts : ts[i] = ts[j] => i = j,
           NEW pairs, pairs = {<<ts[p[1]], ts[p[2]]>> : p \in into}
    PROVE  /\ \A p \in into : TakenOn(ts[p[2]], pairs) = ts[p[1]].day
           /\ \A k \in DOMAIN ts : (\A p \in into : p[2] # k) => TakenOn(ts[k], pairs) = ts[k].day
<1>1. \A p \in into : p[1] \in DOMAIN ts /\ p[2] \in DOMAIN ts
  BY DEF Pairing, Matches
<1>2. ASSUME NEW p \in into PROVE TakenOn(ts[p[2]], pairs) = ts[p[1]].day
  <2> DEFINE t == ts[p[2]]
             q == CHOOSE r \in pairs : r[2] = t
  <2>1. <<ts[p[1]], ts[p[2]]>> \in pairs
    OBVIOUS
  <2>2. \E r \in pairs : r[2] = t
    BY <2>1
  <2>3. q \in pairs /\ q[2] = t
    BY <2>2
  <2>4. TakenOn(t, pairs) = q[1].day
    BY <2>2 DEF TakenOn
  <2> HIDE DEF q
  <2>5. PICK r \in into : q = <<ts[r[1]], ts[r[2]]>>
    BY <2>3
  <2>6. ts[r[2]] = ts[p[2]]
    BY <2>3, <2>5
  <2>7. r = p
    BY <1>1, <2>6 DEF Pairing
  <2> QED BY <2>4, <2>5, <2>7
<1>3. ASSUME NEW k \in DOMAIN ts, \A p \in into : p[2] # k PROVE TakenOn(ts[k], pairs) = ts[k].day
  <2>1. ~\E r \in pairs : r[2] = ts[k]
    BY <1>1, <1>3
  <2> QED BY <2>1 DEF TakenOn
<1> QED BY <1>2, <1>3

Listed(ts, S) == {ts[i] : i \in S}

LEMMA WalkBalances ==
    ASSUME NEW ts, AreTrades(ts), NEW into, Pairing(ts, into), NEW until \in Int,
           \A k \in DOMAIN ts : ts[k].day <= until /\ (ts[k].side # "dividend" => HasQty(ts[k])),
           \A i, j \in DOMAIN ts : i < j => ts[i] # ts[j] /\ ts[i].day <= ts[j].day,
           NEW pairs, pairs = {<<ts[p[1]], ts[p[2]]>> : p \in into},
           NEW quiet, quiet => \A s \in Splits : s.day > until,
           NEW accounts, accounts = {ts[k].account : k \in DOMAIN ts}
    PROVE  LET st == Walk(ts, into)
               T == Listed(ts, DOMAIN ts)
           IN /\ AreTaken(T, pairs, st.day) /\ (T # {} => st.day <= until)
              /\ Owes(accounts, st.positions, st.day, T, pairs, quiet) /\ Settles(accounts, st.positions, T, pairs)
              /\ st \in [day : Int, positions : [accounts -> Position]]
<1> DEFINE N == Len(ts)
           T(k) == Listed(ts, TakenAt(into, k))
<1>1. N \in Nat /\ DOMAIN ts = 1..N /\ \A k \in 1..N : IsTrade(ts[k]) /\ ts[k].day \in Int /\ ts[k].account \in accounts
  BY DEF AreTrades, IsTrade
<1>2. \A i, j \in DOMAIN ts : ts[i] = ts[j] => i = j
  <2>1. \A i, j \in DOMAIN ts : i < j \/ j < i \/ i = j
    BY <1>1
  <2> QED BY <2>1
<1>3. PICK at : Walks(at, ts, into, accounts)
  BY WalkIs DEF Pairing
<1>11. ASSUME NEW n \in DOMAIN ts
       PROVE  /\ TakenAt(into, n - 1) \subseteq DOMAIN ts
              /\ (\E p \in into : p[2] = n) => TakenAt(into, n) = TakenAt(into, n - 1)
              /\ \A p \in into : p[1] = n =>
                     /\ TakenAt(into, n) = TakenAt(into, n - 1) \cup {n, p[2]}
                     /\ n \notin TakenAt(into, n - 1) /\ p[2] \notin TakenAt(into, n - 1)
              /\ (\A p \in into : p[1] # n /\ p[2] # n) =>
                     /\ TakenAt(into, n) = TakenAt(into, n - 1) \cup {n}
                     /\ n \notin TakenAt(into, n - 1)
  BY TakenAtIs
<1>12. /\ \A p \in into : TakenOn(ts[p[2]], pairs) = ts[p[1]].day
       /\ \A k \in DOMAIN ts : (\A p \in into : p[2] # k) => TakenOn(ts[k], pairs) = ts[k].day
  BY <1>2, TakenOnIs
<1> DEFINE Right(k) ==
               /\ AreTaken(T(k), pairs, at[k].day)
               /\ Owes(accounts, at[k].positions, at[k].day, T(k), pairs, quiet)
               /\ Settles(accounts, at[k].positions, T(k), pairs)
               /\ T(k) # {} => \E m \in 1..k : at[k].day = ts[m].day
           G == {k \in 0..N : Right(k)}
<1>4. /\ Walk(ts, into) = at[N]
      /\ at[0] = [day |-> 0, positions |-> [a \in accounts |-> NoPosition]]
      /\ \A k \in 1..N : at[k] = Pass(at[k - 1], ts, into, k)
      /\ \A k \in 0..N : at[k] \in [day : Int, positions : [accounts -> Position]]
  BY <1>3 DEF Walks
<1>5. 0 \in 0..N /\ N \in 0..N /\ \A k \in 1..N : k \in 0..N /\ k - 1 \in 0..N
  BY <1>1
<1>6. 0 \in G
  <2>1. T(0) = {}
    BY TakenAtIs DEF Listed
  <2>2. \A a : Owed({}, a, pairs, 0) = 0
    <3>1. \A a : GotBy({}, a) = {} /\ GaveBy({}, a) = {}
      BY DEF GotBy, GaveBy
    <3>2. SumAt({}, pairs, 0) = 0
      <4> DEFINE f == [t \in {} |-> Grown(t, pairs, 0)]
      <4>1. SumAt({}, pairs, 0) = SumOver(On(f, {}))
        BY DEF SumAt, On
      <4> QED BY <4>1, SumOverNone
    <3>3. ASSUME NEW a PROVE Owed({}, a, pairs, 0) = 0
      <4>1. Owed({}, a, pairs, 0) = SumAt({}, pairs, 0) - SumAt({}, pairs, 0)
        BY <3>1 DEF Owed
      <4> QED BY <3>2, <4>1
    <3> QED BY <3>3
  <2>3. NoPosition \in Position /\ NoPosition.over = 0 /\ Net(NoPosition) = 0
    <3>1. NoPosition.lots = <<>> /\ NoPosition.over = 0 /\ NoPosition \in Position
      BY DEF NoPosition, Position
    <3>2. Held(<<>>) = 0
      BY NoLots
    <3> QED BY <3>1, <3>2 DEF Net
  <2>4. at[0].day = 0 /\ \A a \in accounts : at[0].positions[a] = NoPosition
    BY <1>4
  <2>5. Owes(accounts, at[0].positions, at[0].day, {}, pairs, quiet)
    BY <2>2, <2>3, <2>4 DEF Owes
  <2>6. AreTaken({}, pairs, at[0].day)
    BY FS_EmptySet DEF AreTaken
  <2>7. Settles(accounts, at[0].positions, {}, pairs)
    <3>1. IsFiniteSet(accounts)
      <4>1. IsFiniteSet(1..N) /\ accounts = {ts[k].account : k \in 1..N}
        BY <1>1, FS_Interval
      <4> DEFINE f == [k \in 1..N |-> ts[k].account]
      <4>2. f \in Surjection(1..N, accounts)
        BY <4>1 DEF Surjection
      <4> QED BY <4>1, <4>2, FS_Surjection
    <3> QED BY <2>4, <3>1, NoneSettles
  <2> HIDE DEF T
  <2> QED BY <1>5, <2>1, <2>5, <2>6, <2>7
<1>7. ASSUME NEW k \in 1..N, k - 1 \in G PROVE k \in G
  <2> DEFINE st == at[k - 1]
             d == ts[k].day
             before == T(k - 1)
             scaled == Scale(st.positions, st.day, d)
  <2>1. Right(k - 1) /\ at[k] = Pass(st, ts, into, k)
    BY <1>4, <1>7
  <2>2. st.day \in Int /\ st.positions \in [accounts -> Position] /\ d \in Int
    BY <1>1, <1>4, <1>5
  <2>3. CASE \E p \in into : p[2] = k
    <3>1. T(k) = before
      BY <1>1, <1>11, <2>3
    <3>2. at[k] = st
      BY <2>1, <2>3 DEF Pass
    <3>3. \A m \in 1..(k - 1) : m \in 1..k
      BY <1>1
    <3> HIDE DEF T, st
    <3> QED BY <1>5, <2>1, <3>1, <3>2, <3>3 DEF st
  <2>4. CASE ~\E p \in into : p[2] = k
    <3>1. at[k].day = d /\ at[k].positions = Step(scaled, ts, into, k)
      BY <2>1, <2>4 DEF Pass
    <3>2. before # {} => st.day <= d
      <4>1. before # {} => \E m \in 1..(k - 1) : st.day = ts[m].day
        BY <2>1
      <4>2. \A m \in 1..(k - 1) : m \in DOMAIN ts /\ m < k /\ k \in DOMAIN ts
        BY <1>1
      <4> HIDE DEF before, st
      <4> QED BY <4>1, <4>2
    <3>3. quiet => Factor(Due(st.day, d)) = 1
      <4>1. d <= until
        BY <1>1
      <4>2. quiet => \A s \in Splits : s.day > d
        BY <2>2, <4>1, SplitsAssumption
      <4> QED BY <2>2, <4>2, NoneDue
    <3>4. /\ AreTaken(before, pairs, d) /\ Owes(accounts, scaled, d, before, pairs, quiet)
          /\ scaled \in [accounts -> Position] /\ Settles(accounts, scaled, before, pairs)
      <4>1. AreTaken(before, pairs, st.day) /\ Owes(accounts, st.positions, st.day, before, pairs, quiet)
        BY <2>1
      <4>2. scaled \in [accounts -> Position]
        BY <2>2, ScaleType
      <4>3. Settles(accounts, scaled, before, pairs)
        <5>1. Settles(accounts, st.positions, before, pairs)
          BY <2>1
        <5> HIDE DEF before, st, d
        <5> QED BY <2>2, <5>1, ScaleSettles
      <4> HIDE DEF before, st, d
      <4> QED BY <2>2, <3>2, <3>3, <4>1, <4>2, <4>3, ScaleOwes
    <3>5. \A i \in DOMAIN ts : i \notin TakenAt(into, k - 1) => ts[i] \notin before
      BY <1>1, <1>2, <1>11 DEF Listed
    <3>6. k \in 1..k /\ d = ts[k].day
      BY <1>1
    <3>9. IsFiniteSet(before) /\ (\A u \in before : IsTrade(u)) /\ \A a \in accounts : scaled[a].over >= 0
      BY <3>4 DEF AreTaken, Owes
    <3>7. CASE \E p \in into : p[1] = k
      <4> DEFINE q == CHOOSE p \in into : p[1] = k
                 out == ts[k]
                 in == ts[q[2]]
      <4>1. q \in into /\ q[1] = k
        BY <3>7
      <4>2. Step(scaled, ts, into, k) = Transfer(scaled, out, in)
        BY <3>7 DEF Step
      <4> HIDE DEF q
      <4>3. q[2] \in 1..N /\ Fits(in, out) /\ out.side = "transfer_out" /\ <<out, in>> \in pairs
        BY <1>1, <4>1 DEF Pairing, Matches
      <4>4. /\ T(k) = before \cup {out, in} /\ out \notin before /\ in \notin before
        <5>1. /\ TakenAt(into, k) = TakenAt(into, k - 1) \cup {k, q[2]}
              /\ k \notin TakenAt(into, k - 1) /\ q[2] \notin TakenAt(into, k - 1)
          BY <1>1, <1>11, <4>1
        <5>2. out \notin before /\ in \notin before
          <6> HIDE DEF before
          <6> QED BY <1>1, <3>5, <4>3, <5>1
        <5> QED BY <5>1, <5>2 DEF Listed
      <4>5. TakenOn(out, pairs) = d /\ TakenOn(in, pairs) = d
        BY <1>1, <1>12, <2>4, <4>1
      <4>6. HasQty(out) /\ IsTrade(out) /\ IsTrade(in) /\ out.account \in accounts /\ in.account \in accounts
        BY <1>1, <4>3
      <4> HIDE DEF before, scaled, out, in, d, T
      <4>7. /\ AreTaken(before \cup {out, in}, pairs, d)
            /\ Owes(accounts, Transfer(scaled, out, in), d, before \cup {out, in}, pairs, quiet)
        BY <2>2, <3>4, <4>3, <4>4, <4>5, <4>6, TransferOwes
      <4>8. Settles(accounts, Transfer(scaled, out, in), before \cup {out, in}, pairs)
        <5>1. \A u \in before \cup {out, in} : IsTrade(u)
          BY <3>9, <4>6
        <5> QED BY <3>4, <3>9, <4>3, <4>4, <4>6, <5>1, TransferSettles
      <4> QED BY <1>5, <3>1, <3>6, <4>2, <4>4, <4>7, <4>8
    <3>8. CASE ~\E p \in into : p[1] = k
      <4> DEFINE t == ts[k]
      <4>1. Step(scaled, ts, into, k) = Apply(scaled, t)
        BY <3>8 DEF Step
      <4>2. T(k) = before \cup {t} /\ t \notin before
        <5>1. TakenAt(into, k) = TakenAt(into, k - 1) \cup {k} /\ k \notin TakenAt(into, k - 1)
          BY <1>1, <1>11, <2>4, <3>8
        <5>2. t \notin before
          <6> HIDE DEF before
          <6> QED BY <1>1, <3>5, <5>1
        <5> QED BY <5>1, <5>2 DEF Listed
      <4>3. TakenOn(t, pairs) = d
        BY <1>1, <1>12, <2>4
      <4>4. IsTrade(t) /\ t.account \in accounts /\ (t.side # "dividend" => HasQty(t))
        BY <1>1
      <4>6. \A r \in pairs : r[1] # t /\ r[2] # t
        <5>1. \A p \in into : p[1] \in DOMAIN ts /\ p[2] \in DOMAIN ts /\ p[1] # k /\ p[2] # k /\ k \in DOMAIN ts
          BY <1>1, <2>4, <3>8 DEF Pairing, Matches
        <5>2. \A p \in into : ts[p[1]] # t /\ ts[p[2]] # t
          BY <1>2, <5>1
        <5> QED BY <5>2
      <4> HIDE DEF before, scaled, t, d, T
      <4>5. /\ AreTaken(before \cup {t}, pairs, d)
            /\ Owes(accounts, Apply(scaled, t), d, before \cup {t}, pairs, quiet)
        BY <2>2, <3>4, <4>2, <4>3, <4>4, ApplyOwes
      <4>7. Settles(accounts, Apply(scaled, t), before \cup {t}, pairs)
        <5>1. \A u \in before \cup {t} : IsTrade(u)
          BY <3>9, <4>4
        <5> QED BY <3>4, <3>9, <4>2, <4>4, <4>6, <5>1, ApplySettles
      <4> QED BY <1>5, <3>1, <3>6, <4>1, <4>2, <4>5, <4>7
    <3> QED BY <3>7, <3>8
  <2> QED BY <2>3, <2>4
<1>8. Right(N)
  <2>1. N \in G
    <3> HIDE DEF G
    <3> QED BY <1>1, <1>5, <1>6, <1>7, CountUp
  <2> QED BY <2>1
<1>9. T(N) = Listed(ts, DOMAIN ts)
  BY TakenAtIs
<1>10. T(N) # {} => at[N].day <= until
  <2>1. T(N) # {} => \E m \in 1..N : at[N].day = ts[m].day
    BY <1>8
  <2> HIDE DEF T
  <2> QED BY <1>1, <2>1
<1> HIDE DEF T, N
<1> QED BY <1>4, <1>5, <1>8, <1>9, <1>10

(* The trades that the ledger has got to on a day, in order.               *)
InRow(ts) ==
    /\ AreTrades(ts)
    /\ \A i, j \in DOMAIN ts : i < j => ts[i] # ts[j] /\ ts[i].day <= ts[j].day /\ Earlier(ts[i], ts[j])

LEMMA TradesListed ==
    ASSUME NEW table, IsTable(table), NEW until \in Int
    PROVE  LET S == {t \in table : t.day <= until}
               ts == InOrder(S, Earlier)
           IN /\ InRow(ts) /\ Listed(ts, DOMAIN ts) = S
              /\ \A k \in DOMAIN ts : ts[k].day <= until /\ (ts[k].side # "dividend" => HasQty(ts[k]))
<1> DEFINE S == {t \in table : t.day <= until}
           order == {p \in S \X S : Earlier(p[1], p[2])}
           ts == Sorted(S, order)
<1>1. IsTable(S) /\ \A t \in S : t.day <= until
  BY FS_Subset DEF IsTable
<1>2. ts = InOrder(S, Earlier)
  BY DEF InOrder
<1>3. \A t, u \in S : Earlier(t, u) => t.day <= u.day
  BY <1>1 DEF Earlier, IsTable, IsTrade
<1> HIDE DEF S
<1>4. TotalOn(order, S)
  BY <1>1, EarlierTotal
<1>5. ts \in Seq(S) /\ InTurn(ts, S, order)
  <2> HIDE DEF order
  <2> QED BY <1>1, <1>4, SortedIs DEF IsTable
<1>6. \A p \in order : p[1] \in S /\ p[2] \in S /\ Earlier(p[1], p[2])
  OBVIOUS
<1> HIDE DEF order
<1>7. \A i, j \in 1..Len(ts) : i < j => <<ts[i], ts[j]>> \in order
  BY <1>5 DEF InTurn
<1>8. \A i, j \in 1..Len(ts) : i < j => ts[i] # ts[j] /\ Earlier(ts[i], ts[j])
  <2>1. \A i, j \in 1..Len(ts) : i < j => ts[i] # ts[j]
    BY <1>5 DEF InTurn
  <2>2. ASSUME NEW i \in 1..Len(ts), NEW j \in 1..Len(ts), i < j PROVE Earlier(ts[i], ts[j])
    <3> DEFINE p == <<ts[i], ts[j]>>
    <3>1. p \in order /\ p[1] = ts[i] /\ p[2] = ts[j]
      BY <1>7, <2>2
    <3> HIDE DEF p
    <3> QED BY <1>6, <3>1
  <2> QED BY <2>1, <2>2
<1> HIDE DEF ts
<1>9. /\ AreTrades(ts) /\ DOMAIN ts = 1..Len(ts) /\ Len(ts) \in Nat
      /\ \A k \in DOMAIN ts : ts[k] \in S /\ ts[k].day <= until /\ (ts[k].side # "dividend" => HasQty(ts[k]))
  BY <1>1, <1>5 DEF AreTrades, IsTable
<1>10. \A i, j \in DOMAIN ts : i < j => ts[i] # ts[j] /\ ts[i].day <= ts[j].day
  BY <1>3, <1>8, <1>9
<1>11. Listed(ts, DOMAIN ts) = S
  BY <1>5, <1>9 DEF InTurn, Listed
<1>12. InRow(ts)
  BY <1>8, <1>9, <1>10 DEF InRow
<1> QED BY <1>2, <1>9, <1>11, <1>12 DEF S

LEMMA LedgerBalances ==
    ASSUME NEW table, IsTable(table), NEW until \in Int
    PROVE  LET S == {t \in table : t.day <= until}
               ts == InOrder(S, Earlier)
               pairs == {<<ts[p[1]], ts[p[2]]>> : p \in PairTransfers(ts)}
           IN \E accounts : /\ Ledger(table, until) \in [accounts -> Position]
                            /\ Owes(accounts, Ledger(table, until), until, S, pairs,
                                    \A s \in Splits : s.day > until)
                            /\ Settles(accounts, Ledger(table, until), S, pairs)
<1> DEFINE S == {t \in table : t.day <= until}
           ts == InOrder(S, Earlier)
           into == PairTransfers(ts)
           pairs == {<<ts[p[1]], ts[p[2]]>> : p \in into}
           accounts == {ts[k].account : k \in DOMAIN ts}
           quiet == \A s \in Splits : s.day > until
           st == Walk(ts, into)
<1>1. Ledger(table, until) = Scale(st.positions, st.day, until)
  BY DEF Ledger, LedgerOf, Until
<1>2. /\ InRow(ts) /\ Listed(ts, DOMAIN ts) = S
      /\ \A k \in DOMAIN ts : ts[k].day <= until /\ (ts[k].side # "dividend" => HasQty(ts[k]))
  BY TradesListed
<1> HIDE DEF S, ts
<1>3. AreTrades(ts) /\ \A i, j \in DOMAIN ts : i < j => ts[i] # ts[j] /\ ts[i].day <= ts[j].day
  BY <1>2 DEF InRow
<1>4. Pairing(ts, into)
  BY <1>3, PairTransfersIs
<1> HIDE DEF into
<1>5. /\ AreTaken(S, pairs, st.day) /\ (S # {} => st.day <= until)
       /\ Owes(accounts, st.positions, st.day, S, pairs, quiet) /\ Settles(accounts, st.positions, S, pairs)
       /\ st \in [day : Int, positions : [accounts -> Position]]
  <2>1. quiet => \A s \in Splits : s.day > until
    OBVIOUS
  <2>2. pairs = {<<ts[p[1]], ts[p[2]]>> : p \in into} /\ accounts = {ts[k].account : k \in DOMAIN ts}
    OBVIOUS
  <2>3. AreTrades(ts) /\ \A k \in DOMAIN ts : ts[k].day <= until /\ (ts[k].side # "dividend" => HasQty(ts[k]))
    BY <1>2, <1>3
  <2> HIDE DEF quiet, pairs, accounts, st
  <2>4. /\ AreTaken(Listed(ts, DOMAIN ts), pairs, Walk(ts, into).day)
        /\ Listed(ts, DOMAIN ts) # {} => Walk(ts, into).day <= until
        /\ Owes(accounts, Walk(ts, into).positions, Walk(ts, into).day, Listed(ts, DOMAIN ts), pairs, quiet)
        /\ Settles(accounts, Walk(ts, into).positions, Listed(ts, DOMAIN ts), pairs)
        /\ Walk(ts, into) \in [day : Int, positions : [accounts -> Position]]
    BY ZenonT(60), <1>3, <1>4, <2>1, <2>2, <2>3, WalkBalances
  <2> QED BY <1>2, <2>4 DEF st
<1>6. quiet => Factor(Due(st.day, until)) = 1
  <2> HIDE DEF st
  <2> QED BY <1>5, NoneDue
<1> HIDE DEF st, pairs, accounts, quiet
<1>7. /\ Ledger(table, until) \in [accounts -> Position]
       /\ Owes(accounts, Ledger(table, until), until, S, pairs, quiet)
       /\ Settles(accounts, Ledger(table, until), S, pairs)
  <2>1. st.day \in Int /\ st.positions \in [accounts -> Position]
    BY <1>5
  <2>2. Scale(st.positions, st.day, until) \in [accounts -> Position]
    BY <2>1, ScaleType
  <2>3. Owes(accounts, Scale(st.positions, st.day, until), until, S, pairs, quiet)
    BY <1>5, <1>6, <2>1, ScaleOwes
  <2>4. Settles(accounts, Scale(st.positions, st.day, until), S, pairs)
    BY <1>5, <2>1, ScaleSettles
  <2> QED BY <1>1, <2>2, <2>3, <2>4
<1> QED BY <1>7 DEF S, ts, into, pairs, quiet

(* Through sales across lots, transfers and splits, an account holds what  *)
(* it got less what it gave, less what it gave and did not have: whatever  *)
(* documents came in, no share is lost between two accounts or arrives     *)
(* twice.                                                                  *)
THEOREM SharesConservedAlways == Spec => []SharesConserved
<1>1. IInv => SharesConserved
  <2> SUFFICES ASSUME IInv PROVE SharesConserved
    OBVIOUS
  <2> DEFINE ts == InOrder(Done, Earlier)
             into == {<<ts[p[1]], ts[p[2]]>> : p \in PairTransfers(ts)}
             quiet == \A s \in Splits : s.day > today
             positions == Ledger(trades, today)
  <2>1. IsTable(trades) /\ today \in Int
    BY DEF IInv
  <2>2. PICK accounts : positions \in [accounts -> Position] /\ Owes(accounts, positions, today, Done, into, quiet)
    BY <2>1, LedgerBalances DEF Done
  <2>3. Into = into
    BY DEF Into
  <2> HIDE DEF positions, into
  <2>4. ASSUME NEW a \in DOMAIN positions, positions[a].over = 0 \/ quiet
        PROVE  LET Qty(t) == t.qty * Growth(TakenOn(t, into))
                   mine == {t \in Done : t.account = a}
               IN Held(positions[a].lots) - positions[a].over =
                      Total(Qty, {t \in mine : Acquires(t.side)}) - Total(Qty, {t \in mine : Disposes(t.side)})
    <3>1. Held(positions[a].lots) - positions[a].over = Owed(Done, a, into, today)
      BY <2>2, <2>4 DEF Owes, Net
    <3>2. GotBy(Done, a) = {t \in {u \in Done : u.account = a} : Acquires(t.side)}
          /\ GaveBy(Done, a) = {t \in {u \in Done : u.account = a} : Disposes(t.side)}
      BY DEF GotBy, GaveBy
    <3> QED BY <3>1, <3>2 DEF Owed, SumAt, Grown, Growth, Total
  <2>5. HeldIs(positions, into)
    BY <2>4 DEF HeldIs
  <2> QED BY <2>3, <2>5 DEF SharesConserved, positions
<1> QED BY <1>1, InitIInv, NextIInv, PTL DEF Spec

-----------------------------------------------------------------------------
(* The gains of all years are the gains of all sales.                      *)
LEMMA GainsByYear ==
    ASSUME NEW sales \in Seq(SaleMade), NEW Y, IsFiniteSet(Y), \A n \in DOMAIN sales : Year(sales[n].day) \in Y,
           NEW c, \A y \in Y : c[y] = SumOver([n \in OfYear(sales, y) |-> sales[n].gainBase])
    PROVE  SumOver(On(c, Y)) = Gains(sales) /\ \A y \in Y : c[y] \in Decimal
<1> DEFINE S == DOMAIN sales
           f == GainsAt(sales)
           key == [n \in S |-> Year(sales[n].day)]
<1>1. /\ Gains(sales) = SumOver(On(f, S))
      /\ \A n \in S : f[n] = sales[n].gainBase /\ f[n] \in Decimal
  BY GainsOver
<1>2. IsFiniteSet(S)
  <2>1. S = 1..Len(sales) /\ Len(sales) \in Nat
    OBVIOUS
  <2> QED BY <2>1, FS_Interval
<1>3. \A n \in S : key[n] \in Y
  OBVIOUS
<1>4. \A y \in Y : c[y] = SumOver(On(f, {n \in S : key[n] = y}))
  <2> SUFFICES ASSUME NEW y \in Y PROVE c[y] = SumOver(On(f, {n \in S : key[n] = y}))
    OBVIOUS
  <2>1. {n \in S : key[n] = y} = OfYear(sales, y)
    BY DEF OfYear
  <2>2. [n \in OfYear(sales, y) |-> sales[n].gainBase] = On(f, OfYear(sales, y))
    <3>1. \A n \in OfYear(sales, y) : sales[n].gainBase = f[n]
      BY <1>1 DEF OfYear
    <3> HIDE DEF f
    <3> QED BY <3>1 DEF On
  <2> QED BY <2>1, <2>2
<1>5. \A y \in Y : c[y] \in Decimal
  <2> SUFFICES ASSUME NEW y \in Y PROVE c[y] \in Decimal
    OBVIOUS
  <2> DEFINE R == {n \in S : key[n] = y}
             g == On(f, R)
  <2>1. IsFiniteSet(R) /\ R \subseteq S
    BY <1>2, FS_Subset
  <2>2. DOMAIN g = R /\ \A n \in R : g[n] \in Decimal
    BY <1>1 DEF On
  <2>3. c[y] = SumOver(g)
    BY <1>4
  <2> HIDE DEF g, R, f, S
  <2> QED BY <2>1, <2>2, <2>3, SumOverIs
<1> HIDE DEF S, f, key
<1>6. SumOver(On(c, Y)) = SumOver(On(f, S))
  <2>1. (\A n \in S : f[n] \in Decimal) /\ AddsByGroup(c, Y, f, S, key)
    BY <1>1, <1>4 DEF AddsByGroup
  <2> QED BY <1>2, <1>3, <2>1, SumOverGroups
<1> QED BY <1>1, <1>5, <1>6

LEMMA YearsAddUp ==
    ASSUME NEW accounts, IsFiniteSet(accounts), NEW positions \in [accounts -> Position], NEW Y, IsFiniteSet(Y),
           \A a \in accounts : \A n \in DOMAIN positions[a].sales : Year(positions[a].sales[n].day) \in Y
    PROVE  SumOver([y \in Y |-> ProfitOfYear(positions, y).realized]) =
               SumOver([a \in accounts |-> Gains(positions[a].sales)])
<1> DEFINE of(a, y) == SumOver([n \in OfYear(positions[a].sales, y) |-> positions[a].sales[n].gainBase])
           F == [a \in accounts |-> [y \in Y |-> of(a, y)]]
           r == [a \in accounts |-> Gains(positions[a].sales)]
           c == [y \in Y |-> ProfitOfYear(positions, y).realized]
<1>1. \A a \in accounts : SumOver(On(F[a], Y)) = r[a] /\ \A y \in Y : F[a][y] \in Decimal
  <2> SUFFICES ASSUME NEW a \in accounts
               PROVE  SumOver(On(F[a], Y)) = r[a] /\ \A y \in Y : F[a][y] \in Decimal
    OBVIOUS
  <2> DEFINE sales == positions[a].sales
             g == F[a]
  <2>1. sales \in Seq(SaleMade) /\ \A n \in DOMAIN sales : Year(sales[n].day) \in Y
    BY DEF Position
  <2>2. \A y \in Y : g[y] = SumOver([n \in OfYear(sales, y) |-> sales[n].gainBase])
    OBVIOUS
  <2>3. r[a] = Gains(sales)
    OBVIOUS
  <2> HIDE DEF g, sales, r, F
  <2>4. SumOver(On(g, Y)) = Gains(sales) /\ \A y \in Y : g[y] \in Decimal
    BY <2>1, <2>2, GainsByYear
  <2> QED BY <2>3, <2>4 DEF g
<1>2. \A y \in Y : c[y] = SumOver(On(Column(F, accounts, y), accounts))
  <2> SUFFICES ASSUME NEW y \in Y PROVE c[y] = SumOver(On(Column(F, accounts, y), accounts))
    OBVIOUS
  <2>1. c[y] = SumOver([a \in accounts |-> of(a, y)])
    BY DEF ProfitOfYear, Total
  <2>2. On(Column(F, accounts, y), accounts) = [a \in accounts |-> of(a, y)]
    BY DEF On, Column
  <2> QED BY <2>1, <2>2
<1>3. c = On(c, Y) /\ r = On(r, accounts)
  BY DEF On
<1> HIDE DEF F, r, c
<1>4. SumOver(On(r, accounts)) = SumOver(On(c, Y))
  BY <1>1, <1>2, SumOverSwap
<1> QED BY <1>3, <1>4 DEF r, c

(* What trades come to, when it is known: what was paid less what was got. *)
LEMMA FlowsKnown ==
    ASSUME NEW T, IsFiniteSet(T), \A t \in T : IsTrade(t), NEW into, Flows(T, into) \in Int
    PROVE  Flows(T, into) = Total(Paid, Bought(T, into)) - Total(Got, Sold(T))
<1> DEFINE B == Bought(T, into)
           S == Sold(T)
           paid == [t \in T |-> Paid(t)]
           got == [t \in T |-> Got(t)]
           f == [t \in T |-> Flow(t, into)]
           b == [t \in T |-> IF t \in B THEN paid[t] ELSE 0]
           s == [t \in T |-> IF t \in S THEN got[t] ELSE 0]
<1>1. B \in SUBSET T /\ S \in SUBSET T /\ B \cap S = {}
  BY DEF Bought, Sold, Acquires
<1>2. \A t \in T : f[t] = IF t \in B THEN paid[t] ELSE IF t \in S THEN Diff(0, got[t]) ELSE 0
  BY DEF Flow, Bought, Sold
<1>3. \A t \in T : f[t] \in Decimal /\ paid[t] \in Decimal /\ got[t] \in Decimal
  BY FlowType
<1>4. Flows(T, into) = SumOver(On(f, T)) /\ Total(Paid, B) = SumOver(On(paid, B)) /\ Total(Got, S) = SumOver(On(got, S))
  <2>1. f = On(f, T)
    BY DEF On
  <2>2. [t \in B |-> Paid(t)] = On(paid, B)
    BY <1>1 DEF On
  <2>3. [t \in S |-> Got(t)] = On(got, S)
    BY <1>1 DEF On
  <2> QED BY <2>1, <2>2, <2>3 DEF Flows, Total
<1>5. \A t \in T : b[t] = (IF t \in B THEN paid[t] ELSE 0) /\ s[t] = (IF t \in S THEN got[t] ELSE 0)
  OBVIOUS
<1> HIDE DEF B, S, paid, got, f, b, s
<1>6. \A t \in T : f[t] \in Int
  <2>1. SumOver(On(f, T)) # None
    BY <1>4, NoneAssumption
  <2> QED BY <1>3, <2>1, SumOverKnown
<1>7. \A t \in T : s[t] \in Int /\ b[t] \in Int /\ b[t] = f[t] + s[t]
  <2> SUFFICES ASSUME NEW t \in T PROVE s[t] \in Int /\ b[t] \in Int /\ b[t] = f[t] + s[t]
    OBVIOUS
  <2>1. CASE t \in B
    <3>1. t \notin S
      BY <1>1, <2>1
    <3> QED BY <1>2, <1>5, <1>6, <2>1, <3>1
  <2>2. CASE t \notin B /\ t \in S
    <3>1. f[t] = Diff(0, got[t]) /\ f[t] \in Int /\ got[t] \in Decimal /\ s[t] = got[t] /\ b[t] = 0
      BY <1>2, <1>3, <1>5, <1>6, <2>2
    <3>2. got[t] \in Int
      BY <3>1, NoneAssumption DEF Diff, Decimal
    <3>3. f[t] = 0 - got[t]
      BY <3>1, <3>2, NoneAssumption DEF Diff
    <3> QED BY <3>1, <3>2, <3>3
  <2>3. CASE t \notin B /\ t \notin S
    BY <1>2, <1>5, <2>3
  <2> QED BY <2>1, <2>2, <2>3
<1>8. SumOver(On(b, T)) = SumOf(SumOver(On(f, T)), SumOver(On(s, T)))
  <2>1. \A t \in T : f[t] \in Decimal /\ s[t] \in Decimal /\ b[t] = SumOf(f[t], s[t])
    BY <1>6, <1>7, NoneAssumption DEF Decimal, SumOf
  <2> QED BY <2>1, SumOverPlus
<1>9. SumOver(On(b, T)) = SumOver(On(paid, B)) /\ SumOver(On(s, T)) = SumOver(On(got, S))
  <2>1. /\ \A t \in B : paid[t] \in Decimal
        /\ \A t \in S : got[t] \in Decimal
    BY <1>1, <1>3
  <2>2. SumOver(On(b, T)) = SumOver(On(paid, B))
    BY <1>1, <1>5, <2>1, SumOverOnly
  <2>3. SumOver(On(s, T)) = SumOver(On(got, S))
    BY <1>1, <1>5, <2>1, SumOverOnly
  <2> QED BY <2>2, <2>3
<1>10. SumOver(On(f, T)) \in Int /\ SumOver(On(s, T)) \in Int
  BY <1>6, <1>7, SumOverInt
<1> DEFINE x == SumOver(On(f, T))
           y == SumOver(On(s, T))
           z == SumOver(On(b, T))
<1>11. x \in Int /\ y \in Int /\ z = SumOf(x, y)
  BY <1>8, <1>10
<1>12. Flows(T, into) = x /\ Total(Paid, B) = z /\ Total(Got, S) = y
  BY <1>4, <1>9
<1> HIDE DEF x, y, z
<1>13. x = z - y
  BY <1>11, NoneAssumption DEF SumOf
<1> QED BY <1>12, <1>13 DEF B, S

(* The cash, where no position is short and each transfer out arrived.     *)
GainsOf(positions, T) ==
    LET GainOf(y) == ProfitOfYear(positions, y).realized IN Total(GainOf, {Year(t.day) : t \in T})

LEMMA CashIs ==
    ASSUME NEW accounts, NEW positions \in [accounts -> Position], NEW T, NEW into, NEW now,
           IsFiniteSet(T), \A t \in T : IsTrade(t), Settles(accounts, positions, T, into),
           \A a \in accounts : positions[a].over >= 0, OutsPaired(T, into),
           PortfolioOf(positions, now).missing = {}
    PROVE  /\ PortfolioOf(positions, now).realized = GainsOf(positions, T)
           /\ PortfolioOf(positions, now).cost - GainsOf(positions, T) =
                  Total(Paid, Bought(T, into)) - Total(Got, Sold(T))
<1> DEFINE p == PortfolioOf(positions, now)
           cost == [a \in accounts |-> CostBase(positions[a].lots)]
           gain == [a \in accounts |-> Gains(positions[a].sales)]
           worth == [a \in accounts |-> Worth(positions[a])]
           Y == {Year(t.day) : t \in T}
           byYear == SumOver([y \in Y |-> ProfitOfYear(positions, y).realized])
<1>1. IsFiniteSet(accounts) /\ DOMAIN positions = accounts
  BY DEF Settles
<1>2. /\ p.cost = SumOver(cost) /\ p.realized = SumOver(gain)
      /\ \A a \in accounts : MissingOf(positions[a], a) \subseteq p.missing
  BY <1>1 DEF PortfolioOf, Shown, Total
<1>3. ASSUME NEW a \in accounts
      PROVE  /\ positions[a].over = 0 /\ CostBase(positions[a].lots) # None
             /\ \A n \in DOMAIN positions[a].sales : positions[a].sales[n].gainBase # None
  <2> DEFINE q == positions[a]
  <2>1. MissingOf(q, a) = {}
    BY <1>2
  <2>2. q.over \in Int /\ q.over >= 0
    BY NetType
  <2> HIDE DEF q
  <2>3. ~(q.over > 0) /\ CostBase(q.lots) # None
    BY <2>1 DEF MissingOf
  <2>4. ASSUME NEW n \in DOMAIN q.sales, q.sales[n].gainBase = None PROVE FALSE
    <3>1. Why(q.sales[n].gain, a) \in MissingOf(q, a)
      BY <2>4 DEF MissingOf
    <3> QED BY <2>1, <3>1
  <2>5. q.over = 0
    BY <2>2, <2>3
  <2> QED BY <2>3, <2>4, <2>5 DEF q
<1>4. ASSUME NEW a \in accounts
      PROVE  cost[a] \in Int /\ gain[a] \in Int /\ worth[a] = cost[a] - gain[a]
  <2> DEFINE q == positions[a]
  <2>1. q \in Position /\ q.sales \in Seq(SaleMade)
    BY DEF Position
  <2>2. CostBase(q.lots) # None /\ \A n \in DOMAIN q.sales : q.sales[n].gainBase # None
    BY <1>3
  <2>3. cost[a] = CostBase(q.lots) /\ gain[a] = Gains(q.sales) /\ worth[a] = Worth(q)
    OBVIOUS
  <2> HIDE DEF q
  <2>4. CostBase(q.lots) \in Decimal /\ Gains(q.sales) \in Decimal
    BY <2>1, WorthType
  <2>5. Gains(q.sales) # None
    BY <2>1, <2>2, GainsIs
  <2>6. CostBase(q.lots) \in Int /\ Gains(q.sales) \in Int
    BY <2>2, <2>4, <2>5 DEF Decimal
  <2>7. Worth(q) = CostBase(q.lots) - Gains(q.sales)
    BY <2>6, NoneAssumption DEF Worth, Diff
  <2> QED BY <2>3, <2>6, <2>7
<1>5. SumOver(worth) = Flows(T, into)
  BY <1>3 DEF Settles, AllWorth
<1>6. SumOver(gain) = byYear
  <2>1. IsFiniteSet(Y)
    <3> DEFINE f == [t \in T |-> Year(t.day)]
    <3>1. f \in Surjection(T, Y)
      BY DEF Surjection
    <3> QED BY <3>1, FS_Surjection
  <2>2. \A a \in accounts : \A n \in DOMAIN positions[a].sales : Year(positions[a].sales[n].day) \in Y
    BY DEF Settles, SalesOf
  <2> HIDE DEF Y
  <2> QED BY <1>1, <2>1, <2>2, YearsAddUp
<1>7. cost = On(cost, accounts) /\ gain = On(gain, accounts) /\ worth = On(worth, accounts)
  BY DEF On
<1>8. byYear = GainsOf(positions, T)
  BY DEF GainsOf, Total
<1> HIDE DEF p, cost, gain, worth, byYear
<1>9. SumOver(cost) = SumOver(worth) + SumOver(gain) /\ SumOver(worth) \in Int /\ SumOver(gain) \in Int
  <2>1. \A a \in accounts : worth[a] \in Int /\ gain[a] \in Int
    BY <1>4
  <2>2. \A a \in accounts : /\ worth[a] \in Decimal /\ gain[a] \in Decimal
                            /\ cost[a] = SumOf(worth[a], gain[a])
    BY <1>4, NoneAssumption DEF Decimal, SumOf
  <2>3. SumOver(On(cost, accounts)) = SumOf(SumOver(On(worth, accounts)), SumOver(On(gain, accounts)))
    BY <1>1, <2>2, SumOverPlus
  <2>4. SumOver(On(worth, accounts)) \in Int /\ SumOver(On(gain, accounts)) \in Int
    BY <1>1, <2>1, SumOverInt
  <2> QED BY <1>7, <2>3, <2>4, NoneAssumption DEF SumOf
<1>10. Flows(T, into) = Total(Paid, Bought(T, into)) - Total(Got, Sold(T))
  <2>1. Flows(T, into) \in Int
    BY <1>5, <1>9
  <2> QED BY <2>1, FlowsKnown
<1>11. p.realized = byYear /\ p.cost - byYear = Flows(T, into)
  <2> DEFINE x == SumOver(worth)
             y == SumOver(gain)
  <2>1. x \in Int /\ y \in Int /\ p.cost = x + y /\ p.realized = y /\ byYear = y /\ Flows(T, into) = x
    BY <1>2, <1>5, <1>6, <1>9
  <2> HIDE DEF x, y
  <2> QED BY <2>1
<1> QED BY <1>8, <1>10, <1>11 DEF p, byYear

(* What a user is shown is the cash, whatever documents came in: when      *)
(* nothing is missing and every transfer out arrived, what is held cost,   *)
(* less the gains shown by stock or by year, what was paid for shares less *)
(* what was got for them, through parts of lots sold and lots moved.       *)
THEOREM CashAddsUpAlways == Spec => []CashAddsUp
<1>1. IInv => CashAddsUp
  <2> SUFFICES ASSUME IInv PROVE CashAddsUp
    OBVIOUS
  <2> DEFINE ts == InOrder(Done, Earlier)
             into == {<<ts[p[1]], ts[p[2]]>> : p \in PairTransfers(ts)}
             positions == Ledger(trades, today)
             p == PortfolioOf(positions, today)
  <2>1. IsTable(trades) /\ today \in Int
    BY DEF IInv
  <2>2. PICK accounts : /\ positions \in [accounts -> Position] /\ Settles(accounts, positions, Done, into)
                        /\ \A a \in accounts : positions[a].over >= 0
    BY <2>1, LedgerBalances DEF Done, Owes
  <2>3. IsFiniteSet(Done) /\ \A t \in Done : IsTrade(t)
    BY <2>1, FS_Subset DEF Done, IsTable
  <2>4. Into = into
    BY DEF Into
  <2>5. BuildPortfolio(trades, today) = p
    BY DEF BuildPortfolio
  <2> HIDE DEF positions, into
  <2>6. IsTheCash(p, GainedInYears(positions), into)
    <3> SUFFICES ASSUME p.missing = {}, OutsPaired(Done, into)
                 PROVE  /\ p.realized = GainedInYears(positions)
                        /\ p.cost - GainedInYears(positions) =
                               Total(Paid, Bought(Done, into)) - Total(Got, Sold(Done))
      BY DEF IsTheCash, OutsPaired, Bought, Sold
    <3>1. PortfolioOf(positions, today).missing = {}
      OBVIOUS
    <3> HIDE DEF p
    <3>2. /\ PortfolioOf(positions, today).realized = GainsOf(positions, Done)
          /\ PortfolioOf(positions, today).cost - GainsOf(positions, Done) =
                 Total(Paid, Bought(Done, into)) - Total(Got, Sold(Done))
      BY <2>2, <2>3, <3>1, CashIs
    <3>3. GainedInYears(positions) = GainsOf(positions, Done)
      BY DEF GainedInYears, GainsOf
    <3> QED BY <3>2, <3>3 DEF p
  <2> QED BY <2>4, <2>5, <2>6 DEF CashAddsUp, positions
<1> QED BY <1>1, InitIInv, NextIInv, PTL DEF Spec

-----------------------------------------------------------------------------
(* Two lists of trades that have the same up to a day, one way and other.  *)
Agrees(ts, us, e) == \A k \in DOMAIN ts : ts[k].day < e => k \in DOMAIN us /\ us[k] = ts[k]

LEMMA EarlierOneWay == ASSUME NEW t, IsTrade(t), NEW u, IsTrade(u) PROVE ~(Earlier(t, u) /\ Earlier(u, t))
<1>1. \A s \in Sides : NameOrder(s) \in Int /\ SideOrder(s) \in Int
  BY NameOrderIs DEF SideOrder
<1>2. /\ t.day \in Int /\ t.account \in Int /\ NameOrder(t.side) \in Int /\ SideOrder(t.side) \in Int
      /\ u.day \in Int /\ u.account \in Int /\ NameOrder(u.side) \in Int /\ SideOrder(u.side) \in Int
  BY <1>1 DEF IsTrade
<1> QED BY <1>2 DEF Earlier

LEMMA ListsAgree ==
    ASSUME NEW ts, InRow(ts), NEW us, InRow(us), NEW e \in Int,
           \A k \in DOMAIN ts : ts[k].day < e => \E i \in DOMAIN us : us[i] = ts[k],
           \A i \in DOMAIN us : us[i].day < e => \E k \in DOMAIN ts : ts[k] = us[i]
    PROVE  Agrees(ts, us, e)
<1> DEFINE n == Len(ts)
           Right(j) == ts[j].day < e => j \in DOMAIN us /\ us[j] = ts[j]
           G == {k \in 0..n : \A j \in 1..k : Right(j)}
<1>1. /\ n \in Nat /\ DOMAIN ts = 1..n /\ Len(us) \in Nat /\ DOMAIN us = 1..Len(us)
      /\ \A k \in DOMAIN ts : IsTrade(ts[k]) /\ ts[k].day \in Int
      /\ \A i \in DOMAIN us : IsTrade(us[i]) /\ us[i].day \in Int
  BY DEF InRow, AreTrades, IsTrade
<1>2. /\ \A i, j \in DOMAIN ts : i < j => ts[i] # ts[j] /\ ts[i].day <= ts[j].day /\ Earlier(ts[i], ts[j])
      /\ \A i, j \in DOMAIN us : i < j => us[i] # us[j] /\ us[i].day <= us[j].day /\ Earlier(us[i], us[j])
  BY DEF InRow
<1>3. ASSUME NEW k \in 1..n, \A j \in 1..(k - 1) : Right(j) PROVE Right(k)
  <2> SUFFICES ASSUME ts[k].day < e PROVE k \in DOMAIN us /\ us[k] = ts[k]
    OBVIOUS
  <2>1. k \in DOMAIN ts /\ \A j \in 1..(k - 1) : j \in DOMAIN ts /\ j < k
    BY <1>1
  <2>2. PICK i \in DOMAIN us : us[i] = ts[k]
    BY <2>1
  <2>3. \A j \in 1..(k - 1) : j \in DOMAIN us /\ us[j] = ts[j] /\ us[j] # ts[k]
    <3> SUFFICES ASSUME NEW j \in 1..(k - 1) PROVE j \in DOMAIN us /\ us[j] = ts[j] /\ us[j] # ts[k]
      OBVIOUS
    <3>1. ts[j].day <= ts[k].day /\ ts[j] # ts[k] /\ ts[j].day \in Int /\ ts[k].day \in Int
      BY <1>1, <1>2, <2>1
    <3>2. ts[j].day < e
      BY <3>1
    <3> QED BY <1>3, <3>1, <3>2
  <2>4. i \in Nat /\ ~(i < k)
    <3>1. i \in Nat /\ i >= 1
      BY <1>1
    <3> QED BY <1>1, <2>2, <2>3, <3>1
  <2>5. CASE i > k
    <3>1. k \in DOMAIN us
      BY <1>1, <2>5
    <3>2. us[k].day <= us[i].day /\ Earlier(us[k], us[i]) /\ us[k] # us[i]
      BY <1>2, <2>5, <3>1
    <3>3. us[k].day < e
      <4>1. us[k].day \in Int /\ us[i].day \in Int /\ us[i].day < e
        BY <1>1, <2>2, <3>1
      <4> QED BY <3>2, <4>1
    <3>4. PICK l \in DOMAIN ts : ts[l] = us[k]
      BY <3>1, <3>3
    <3>5. l \in Nat /\ l >= 1
      BY <1>1
    <3>6. ~(l < k)
      <4> SUFFICES ASSUME l < k PROVE FALSE
        OBVIOUS
      <4>1. l \in 1..(k - 1)
        BY <1>1, <3>5
      <4>2. us[l] = us[k] /\ l \in DOMAIN us
        BY <2>3, <3>4, <4>1
      <4> QED BY <1>2, <3>1, <4>2
    <3>7. l # k
      BY <2>2, <3>2, <3>4
    <3>8. l > k
      BY <1>1, <3>5, <3>6, <3>7
    <3>9. Earlier(ts[k], ts[l])
      BY <1>2, <2>1, <3>8
    <3> QED BY <1>1, <2>1, <2>2, <3>2, <3>4, <3>9, EarlierOneWay
  <2>6. CASE ~(i > k)
    <3>1. i = k
      BY <1>1, <2>4, <2>6
    <3> QED BY <2>2, <3>1
  <2> QED BY <2>5, <2>6
<1>4. 0 \in G
  BY <1>1
<1>5. ASSUME NEW k \in 1..n, k - 1 \in G PROVE k \in G
  <2>1. \A j \in 1..(k - 1) : Right(j)
    BY <1>5
  <2>2. Right(k)
    <3> HIDE DEF Right
    <3> QED BY <1>3, <2>1
  <2>3. \A j \in 1..k : j \in 1..(k - 1) \/ j = k
    BY <1>1
  <2> HIDE DEF Right
  <2> QED BY <1>1, <2>1, <2>2, <2>3
<1>6. n \in G
  <2>1. n \in 0..n
    BY <1>1
  <2> HIDE DEF G
  <2> QED BY <1>1, <1>4, <1>5, <2>1, CountUp
<1> QED BY <1>1, <1>6 DEF Agrees

LEMMA PairNextAgrees ==
    ASSUME NEW ts, InRow(ts), NEW us, InRow(us), NEW c \in Int, Agrees(ts, us, c + TransferWindow),
           Agrees(us, ts, c + TransferWindow), NEW into, NEW n \in DOMAIN ts, ts[n].day < c
    PROVE  PairNext(ts, into, n) = PairNext(us, into, n)
<1> DEFINE fit == {j \in DOMAIN ts : Fits(ts[j], ts[n]) /\ \A p \in into : p[2] # j}
           fitU == {j \in DOMAIN us : Fits(us[j], us[n]) /\ \A p \in into : p[2] # j}
           out == ts[n]
<1>1. /\ DOMAIN ts \subseteq Nat /\ \A k \in DOMAIN ts : ts[k].day \in Int
      /\ DOMAIN us \subseteq Nat /\ \A k \in DOMAIN us : us[k].day \in Int
  BY DEF InRow, AreTrades, IsTrade
<1>2. out \in {ts[n]} /\ out.day \in Int /\ out.day < c /\ TransferWindow \in Nat
  BY <1>1, WindowsAssumption
<1>3. n \in DOMAIN us /\ us[n] = out
  <2>1. ts[n].day < c + TransferWindow
    BY <1>1, <1>2
  <2> QED BY <2>1 DEF Agrees
<1>4. /\ PairNext(ts, into, n) = Pair(ts, into, n, fit)
      /\ PairNext(us, into, n) = Pair(us, into, n, fitU)
  BY DEF PairNext
<1>5. \A x, y : x \in Int /\ y \in Int /\ Abs(x - y) <= TransferWindow /\ y < c => x < c + TransferWindow
  BY <1>2 DEF Abs
<1>6. ASSUME NEW j \in DOMAIN ts, Fits(ts[j], out) PROVE j \in DOMAIN us /\ us[j] = ts[j]
  <2>1. Abs(ts[j].day - out.day) <= TransferWindow
    BY <1>6 DEF Fits, Gap
  <2>2. ts[j].day < c + TransferWindow
    BY <1>1, <1>2, <1>5, <2>1
  <2> QED BY <2>2 DEF Agrees
<1>7. ASSUME NEW j \in DOMAIN us, Fits(us[j], out) PROVE j \in DOMAIN ts /\ us[j] = ts[j]
  <2>1. Abs(us[j].day - out.day) <= TransferWindow
    BY <1>7 DEF Fits, Gap
  <2>2. us[j].day < c + TransferWindow
    BY <1>1, <1>2, <1>5, <2>1
  <2> QED BY <2>2 DEF Agrees
<1>8. fit = fitU /\ \A j \in fit : us[j] = ts[j]
  <2>1. \A j \in fit : j \in fitU /\ us[j] = ts[j]
    BY <1>3, <1>6
  <2>2. \A j \in fitU : j \in fit
    BY <1>3, <1>7
  <2> QED BY <2>1, <2>2
<1>9. fit \in SUBSET Nat /\ \A j \in fit : ts[j].day \in Int /\ us[j].day \in Int
  BY <1>1, <1>8
<1> HIDE DEF fit, fitU
<1>10. fit # {} => Nearest(ts, out, fit) = Nearest(us, out, fit)
  <2> SUFFICES ASSUME fit # {} PROVE Nearest(ts, out, fit) = Nearest(us, out, fit)
    OBVIOUS
  <2> DEFINE i == Nearest(ts, out, fit)
             j == Nearest(us, out, fit)
             before(k, l) == Gap(ts[k], out) < Gap(ts[l], out) \/ (Gap(ts[k], out) = Gap(ts[l], out) /\ k <= l)
  <2>1. i \in fit /\ \A k \in fit : before(i, k)
    BY <1>2, <1>9, NearestIs
  <2>2. j \in fit /\ \A k \in fit : Gap(us[j], out) < Gap(us[k], out) \/ (Gap(us[j], out) = Gap(us[k], out) /\ j <= k)
    BY <1>2, <1>9, NearestIs
  <2> HIDE DEF i, j
  <2>3. before(i, j) /\ before(j, i)
    BY <1>8, <2>1, <2>2
  <2>4. Gap(ts[i], out) \in Int /\ Gap(ts[j], out) \in Int /\ i \in Nat /\ j \in Nat
    BY <1>2, <1>9, <2>1, <2>2 DEF Gap, Abs
  <2>5. i = j
    BY <2>3, <2>4
  <2> QED BY <2>5 DEF i, j
<1> QED BY <1>3, <1>4, <1>8, <1>10 DEF Pair

(* What is paired is paired when its out is reached, and stays.            *)
LEMMA PairsStay ==
    ASSUME NEW ts, AreTrades(ts), NEW at, PairsMade(at, ts)
    PROVE  \A n \in 0..Len(ts) : at[n] = {p \in at[Len(ts)] : p[1] <= n}
<1> DEFINE N == Len(ts)
           G == {n \in 0..N : \A m \in 0..n : at[m] = {p \in at[n] : p[1] <= m}}
<1>1. N \in Nat /\ DOMAIN ts = 1..N /\ 0 \in 0..N /\ N \in 0..N
  BY DEF AreTrades
<1>2. \A n \in 0..N : \A p \in at[n] : p[1] \in Nat /\ p[1] <= n
  BY <1>1 DEF PairsMade, Pairing, Matches
<1>3. 0 \in G
  <2>1. \A m \in 0..0 : m = 0
    OBVIOUS
  <2> QED BY <1>1, <2>1 DEF PairsMade
<1>4. ASSUME NEW n \in 1..N, n - 1 \in G PROVE n \in G
  <2>1. n \in 0..N /\ n - 1 \in 0..N /\ n \in Nat
    BY <1>1
  <2>2. at[n] = PairNext(ts, at[n - 1], n)
    BY DEF PairsMade
  <2>3. at[n] = at[n - 1] \/ \E x : at[n] = at[n - 1] \cup {<<n, x>>}
    BY <2>2 DEF PairNext, Pair
  <2>4. at[n - 1] = {p \in at[n] : p[1] <= n - 1}
    <3>1. \A p \in at[n - 1] : p[1] \in Nat /\ p[1] <= n - 1
      BY <1>2, <2>1
    <3>2. \A x : ~(<<n, x>>[1] <= n - 1)
      BY <2>1
    <3> QED BY <2>3, <3>1, <3>2
  <2>5. \A m \in 0..n : at[m] = {p \in at[n] : p[1] <= m}
    <3> SUFFICES ASSUME NEW m \in 0..n PROVE at[m] = {p \in at[n] : p[1] <= m}
      OBVIOUS
    <3>1. CASE m = n
      BY <1>2, <2>1, <3>1
    <3>2. CASE m # n
      <4>1. m \in 0..(n - 1) /\ m \in Nat
        BY <2>1, <3>2
      <4>2. at[m] = {p \in at[n - 1] : p[1] <= m}
        BY <1>4, <4>1
      <4>3. \A p \in at[n] : p[1] \in Nat /\ (p[1] <= m => p[1] <= n - 1)
        BY <1>2, <2>1, <4>1
      <4> QED BY <2>4, <4>2, <4>3
    <3> QED BY <3>1, <3>2
  <2> QED BY <2>1, <2>5
<1>5. N \in G
  <2> HIDE DEF G
  <2> QED BY <1>1, <1>3, <1>4, CountUp
<1> QED BY <1>5

LEMMA PairsAgree ==
    ASSUME NEW ts, InRow(ts), NEW us, InRow(us), NEW c \in Int, Agrees(ts, us, c + TransferWindow),
           Agrees(us, ts, c + TransferWindow)
    PROVE  \A p \in PairTransfers(ts) : ts[p[1]].day < c => p \in PairTransfers(us)
<1> DEFINE N == Len(ts)
           M == Len(us)
<1>1. /\ AreTrades(ts) /\ N \in Nat /\ DOMAIN ts = 1..N /\ AreTrades(us) /\ M \in Nat /\ DOMAIN us = 1..M
      /\ \A k \in 1..N : ts[k].day \in Int
  BY DEF InRow, AreTrades, IsTrade
<1>2. PICK at : PairsMade(at, ts)
  BY <1>1, PairsMadeIs
<1>3. PICK bt : PairsMade(bt, us)
  BY <1>1, PairsMadeIs
<1> DEFINE Right(n) == n = 0 \/ ts[n].day < c => n \in 0..M /\ at[n] = bt[n]
           G == {n \in 0..N : Right(n)}
<1>4. 0 \in G
  <2>1. at[0] = {} /\ bt[0] = {}
    BY <1>2, <1>3 DEF PairsMade
  <2>2. 0 \in 0..N /\ 0 \in 0..M
    BY <1>1
  <2> QED BY <2>1, <2>2
<1>5. ASSUME NEW n \in 1..N, n - 1 \in G PROVE n \in G
  <2>1. n \in 0..N /\ n # 0 /\ n \in Nat /\ n \in DOMAIN ts
    BY <1>1
  <2> SUFFICES ASSUME ts[n].day < c PROVE n \in 0..M /\ at[n] = bt[n]
    BY <2>1
  <2>2. n \in DOMAIN us
    <3>1. ts[n].day < c + TransferWindow
      BY <1>1, WindowsAssumption
    <3> QED BY <2>1, <3>1 DEF Agrees
  <2>3. n - 1 = 0 \/ ts[n - 1].day < c
    <3> SUFFICES ASSUME n - 1 # 0 PROVE ts[n - 1].day < c
      OBVIOUS
    <3>1. n - 1 \in DOMAIN ts /\ n - 1 < n
      BY <1>1, <2>1
    <3>2. ts[n - 1].day <= ts[n].day
      BY <2>1, <3>1 DEF InRow
    <3> QED BY <1>1, <2>1, <3>1, <3>2
  <2>4. at[n - 1] = bt[n - 1]
    BY <1>5, <2>3
  <2>5. PairNext(ts, at[n - 1], n) = PairNext(us, at[n - 1], n)
    BY <2>1, PairNextAgrees
  <2>6. at[n] = PairNext(ts, at[n - 1], n) /\ bt[n] = PairNext(us, bt[n - 1], n)
    BY <1>1, <1>2, <1>3, <2>1, <2>2 DEF PairsMade
  <2> QED BY <1>1, <2>2, <2>4, <2>5, <2>6
<1>6. \A n \in 0..N : n \in G
  <2> HIDE DEF G
  <2> QED BY <1>1, <1>4, <1>5, CountUp
<1> SUFFICES ASSUME NEW p \in PairTransfers(ts), ts[p[1]].day < c PROVE p \in PairTransfers(us)
  OBVIOUS
<1>7. p \in at[N] /\ p[1] \in 1..N /\ p[1] \in 0..N /\ p[1] \in Nat
  BY <1>1, <1>2 DEF PairsMade, Pairing, Matches
<1>8. p \in at[p[1]]
  BY <1>1, <1>2, <1>7, PairsStay
<1>9. p[1] \in 0..M /\ at[p[1]] = bt[p[1]]
  BY <1>6, <1>7
<1>10. p \in bt[M]
  BY <1>1, <1>3, <1>8, <1>9, PairsStay
<1> QED BY <1>3, <1>10 DEF PairsMade

(* Where two ledgers have the same positions and take the same trade they  *)
(* have the same again.                                                    *)
Same(p, q, accounts) == \A a \in accounts : p[a] = q[a]

LEMMA ApplyAgrees ==
    ASSUME NEW A, NEW p \in [A -> Position], NEW B, NEW q \in [B -> Position], Same(p, q, A \cap B),
           NEW t, t.account \in A \cap B
    PROVE  Same(Apply(p, t), Apply(q, t), A \cap B)
<1> DEFINE to(x) == CASE Acquires(t.side) /\ HasQty(t) -> Acquire(x, t, t.qty, SumOf(t.amount, OrZero(t.fees)))
                      [] Disposes(t.side) /\ HasQty(t) -> Dispose(x, t)
                      [] t.side = "dividend" -> Receive(x, t)
                      [] OTHER -> x
<1>1. /\ Apply(p, t) = [p EXCEPT ![t.account] = to(p[t.account])]
      /\ Apply(q, t) = [q EXCEPT ![t.account] = to(q[t.account])]
  BY DEF Apply
<1> HIDE DEF to
<1>2. p[t.account] = q[t.account]
  BY DEF Same
<1> QED BY <1>1, <1>2 DEF Same

LEMMA TransferAgrees ==
    ASSUME NEW A, NEW p \in [A -> Position], NEW B, NEW q \in [B -> Position], Same(p, q, A \cap B),
           NEW out, IsTrade(out), out.account \in A \cap B, NEW in, in.account \in A \cap B
    PROVE  Same(Transfer(p, out, in), Transfer(q, out, in), A \cap B)
<1> DEFINE to(x, y) == IF HasQty(out) THEN Arrive(x, in, TakeOldest(y.lots, out.qty).moved) ELSE x
           pp == Apply(p, out)
           qq == Apply(q, out)
<1>1. /\ Transfer(p, out, in) = [pp EXCEPT ![in.account] = to(pp[in.account], p[out.account])]
      /\ Transfer(q, out, in) = [qq EXCEPT ![in.account] = to(qq[in.account], q[out.account])]
  BY DEF Transfer
<1>2. pp \in [A -> Position] /\ qq \in [B -> Position]
  BY ApplyType
<1>3. Same(pp, qq, A \cap B)
  BY ApplyAgrees
<1> HIDE DEF to, pp, qq
<1>4. pp[in.account] = qq[in.account] /\ p[out.account] = q[out.account]
  BY <1>3 DEF Same
<1> QED BY <1>1, <1>2, <1>3, <1>4 DEF Same

LEMMA ScaleAgrees ==
    ASSUME NEW A, NEW p \in [A -> Position], NEW B, NEW q \in [B -> Position], Same(p, q, A \cap B),
           NEW from, NEW to
    PROVE  Same(Scale(p, from, to), Scale(q, from, to), A \cap B)
<1>1. DOMAIN p = A /\ DOMAIN q = B
  OBVIOUS
<1> QED BY <1>1 DEF Same, Scale

LEMMA StepAgrees ==
    ASSUME NEW A, NEW p \in [A -> Position], NEW B, NEW q \in [B -> Position], Same(p, q, A \cap B),
           NEW ts, AreTrades(ts), NEW into, Pairing(ts, into), \A k \in DOMAIN ts : ts[k].account \in A,
           NEW us, AreTrades(us), NEW onto, Pairing(us, onto), \A k \in DOMAIN us : us[k].account \in B,
           NEW n \in DOMAIN ts, n \in DOMAIN us, us[n] = ts[n],
           \A r \in into : r[1] = n => r \in onto /\ r[2] \in DOMAIN us /\ us[r[2]] = ts[r[2]],
           \A r \in onto : r[1] = n => r \in into
    PROVE  Same(Step(p, ts, into, n), Step(q, us, onto, n), A \cap B)
<1>1. IsTrade(ts[n]) /\ ts[n].account \in A /\ ts[n].account \in B
  BY DEF AreTrades
<1>2. CASE \E r \in into : r[1] = n
  <2> DEFINE r == CHOOSE x \in into : x[1] = n
             s == CHOOSE x \in onto : x[1] = n
  <2>1. r \in into /\ r[1] = n
    BY <1>2
  <2>2. \E x \in onto : x[1] = n
    BY <2>1
  <2>3. s \in onto /\ s[1] = n
    BY <2>2
  <2>4. Step(p, ts, into, n) = Transfer(p, ts[n], ts[r[2]])
    BY <1>2 DEF Step
  <2>5. Step(q, us, onto, n) = Transfer(q, us[n], us[s[2]])
    BY <2>2 DEF Step
  <2> HIDE DEF r, s
  <2>6. r = s
    BY <2>1, <2>3 DEF Pairing
  <2>7. r[2] \in DOMAIN ts /\ r[2] \in DOMAIN us /\ us[r[2]] = ts[r[2]]
    BY <2>1 DEF Pairing, Matches
  <2>8. ts[r[2]].account \in A /\ ts[r[2]].account \in B
    BY <2>7
  <2>9. Same(Transfer(p, ts[n], ts[r[2]]), Transfer(q, ts[n], ts[r[2]]), A \cap B)
    BY <1>1, <2>8, TransferAgrees
  <2>10. us[n] = ts[n] /\ us[s[2]] = ts[r[2]]
    BY <2>6, <2>7
  <2>11. Step(q, us, onto, n) = Transfer(q, ts[n], ts[r[2]])
    BY <2>5, <2>10
  <2> QED BY <2>4, <2>9, <2>11
<1>3. CASE ~\E r \in into : r[1] = n
  <2>1. ~\E r \in onto : r[1] = n
    BY <1>3
  <2>2. Step(p, ts, into, n) = Apply(p, ts[n]) /\ Step(q, us, onto, n) = Apply(q, ts[n])
    BY <1>3, <2>1 DEF Step
  <2>3. ts[n].account \in A \cap B
    BY <1>1
  <2>4. Same(Apply(p, ts[n]), Apply(q, ts[n]), A \cap B)
    BY <2>3, ApplyAgrees
  <2> QED BY <2>2, <2>4
<1> QED BY <1>2, <1>3

(* K of the trades of a list in order are dated before a day.              *)
Before(ts, K, d) == K \in 0..Len(ts) /\ \A k \in DOMAIN ts : ts[k].day < d <=> k <= K

LEMMA WalksAgree ==
    ASSUME NEW ts, InRow(ts), NEW us, InRow(us), NEW d \in Int,
           Agrees(ts, us, d + 2 * TransferWindow), Agrees(us, ts, d + 2 * TransferWindow),
           NEW A, A = {ts[k].account : k \in DOMAIN ts}, NEW B, B = {us[k].account : k \in DOMAIN us},
           NEW at, Walks(at, ts, PairTransfers(ts), A), NEW bt, Walks(bt, us, PairTransfers(us), B),
           NEW K, Before(ts, K, d)
    PROVE  at[K].day = bt[K].day /\ Same(at[K].positions, bt[K].positions, A \cap B)
<1> DEFINE into == PairTransfers(ts)
           onto == PairTransfers(us)
           c == d + TransferWindow
           e == d + 2 * TransferWindow
           Right(k) == at[k].day = bt[k].day /\ Same(at[k].positions, bt[k].positions, A \cap B)
           G == {k \in 0..K : Right(k)}
<1>1. /\ AreTrades(ts) /\ Len(ts) \in Nat /\ DOMAIN ts = 1..Len(ts) /\ \A k \in DOMAIN ts : ts[k].day \in Int
      /\ AreTrades(us) /\ Len(us) \in Nat /\ DOMAIN us = 1..Len(us) /\ \A k \in DOMAIN us : us[k].day \in Int
      /\ c \in Int /\ e \in Int /\ e = c + TransferWindow /\ d <= c /\ c <= e
  BY WindowsAssumption DEF InRow, AreTrades, IsTrade
<1>0. K \in Nat /\ K \in 0..Len(ts) /\ \A k \in 1..K : ts[k].day < d
  BY <1>1 DEF Before
<1> HIDE DEF c, e
<1>2. Agrees(ts, us, e) /\ Agrees(us, ts, e)
  BY DEF e
<1>3. /\ Pairing(ts, into) /\ \A p \in into : ts[p[1]].day < c => p \in onto
      /\ Pairing(us, onto) /\ \A p \in onto : us[p[1]].day < c => p \in into
  BY <1>1, <1>2, PairTransfersIs, PairsAgree
<1> HIDE DEF into, onto
<1>4. /\ at[0] = [day |-> 0, positions |-> [a \in A |-> NoPosition]]
      /\ bt[0] = [day |-> 0, positions |-> [a \in B |-> NoPosition]]
      /\ \A k \in 1..Len(ts) : at[k] = Pass(at[k - 1], ts, into, k)
      /\ \A k \in 1..Len(us) : bt[k] = Pass(bt[k - 1], us, onto, k)
      /\ \A k \in 0..Len(ts) : at[k] \in [day : Int, positions : [A -> Position]]
      /\ \A k \in 0..Len(us) : bt[k] \in [day : Int, positions : [B -> Position]]
  BY DEF Walks, into, onto
<1>5. 0 \in G
  <2>1. Right(0)
    BY <1>4 DEF Same
  <2> QED BY <1>0, <2>1
<1>6. ASSUME NEW k \in 1..K, k - 1 \in G PROVE k \in G
  <2>1. k \in 1..Len(ts) /\ k - 1 \in 0..Len(ts) /\ k \in DOMAIN ts /\ k \in 0..K /\ ts[k].day < d
    BY <1>0, <1>1
  <2>2. k \in DOMAIN us /\ us[k] = ts[k]
    BY <1>1, <1>2, <2>1 DEF Agrees
  <2>3. k \in 1..Len(us) /\ k - 1 \in 0..Len(us)
    BY <1>1, <2>2
  <2>4. Right(k - 1)
    BY <1>6
  <2> DEFINE p == Scale(at[k - 1].positions, at[k - 1].day, ts[k].day)
             q == Scale(bt[k - 1].positions, bt[k - 1].day, us[k].day)
             here == \E r \in into : r[2] = k
             there == \E r \in onto : r[2] = k
  <2>5. /\ at[k] = IF here THEN at[k - 1] ELSE [day |-> ts[k].day, positions |-> Step(p, ts, into, k)]
        /\ bt[k] = IF there THEN bt[k - 1] ELSE [day |-> us[k].day, positions |-> Step(q, us, onto, k)]
    BY <1>4, <2>1, <2>3 DEF Pass
  <2>6. at[k - 1].positions \in [A -> Position] /\ bt[k - 1].positions \in [B -> Position]
    BY <1>4, <2>1, <2>3
  <2>7. /\ p \in [A -> Position] /\ q \in [B -> Position]
        /\ Same(p, q, A \cap B)
    <3>1. p \in [A -> Position] /\ q \in [B -> Position]
      BY <2>6, ScaleType
    <3>2. Same(Scale(at[k - 1].positions, at[k - 1].day, ts[k].day),
               Scale(bt[k - 1].positions, at[k - 1].day, ts[k].day), A \cap B)
      BY <2>4, <2>6, ScaleAgrees
    <3> QED BY <2>2, <2>4, <3>1, <3>2
  <2>8. \A r \in into : r[1] \in DOMAIN ts /\ r[2] \in DOMAIN ts /\ Abs(ts[r[2]].day - ts[r[1]].day) <= TransferWindow
    BY <1>3 DEF Pairing, Matches, Fits, Gap
  <2>9. \A r \in onto : r[1] \in DOMAIN us /\ r[2] \in DOMAIN us /\ Abs(us[r[2]].day - us[r[1]].day) <= TransferWindow
    BY <1>3 DEF Pairing, Matches, Fits, Gap
  <2>10. \A x, y \in Int : Abs(x - y) <= TransferWindow => (x < d => y < c) /\ (y < c => x < e) /\ (y < d => y < c)
    BY <1>1, WindowsAssumption DEF Abs, c, e
  <2>11. here <=> there
    <3>1. ASSUME NEW r \in into, r[2] = k PROVE r \in onto
      <4>1. ts[r[1]].day < c
        BY <1>1, <2>1, <2>8, <2>10, <3>1
      <4> QED BY <1>3, <4>1
    <3>2. ASSUME NEW r \in onto, r[2] = k PROVE r \in into
      <4>1. us[r[1]].day < c
        BY <1>1, <2>1, <2>2, <2>9, <2>10, <3>2
      <4> QED BY <1>3, <4>1
    <3> QED BY <3>1, <3>2
  <2>12. \A r \in into : r[1] = k => r \in onto /\ r[2] \in DOMAIN us /\ us[r[2]] = ts[r[2]]
    <3> SUFFICES ASSUME NEW r \in into, r[1] = k PROVE r \in onto /\ r[2] \in DOMAIN us /\ us[r[2]] = ts[r[2]]
      OBVIOUS
    <3>1. ts[r[1]].day < c
      BY <1>1, <2>1
    <3>2. ts[r[2]].day < e
      BY <1>1, <2>8, <2>10, <3>1
    <3> QED BY <1>2, <1>3, <2>8, <3>1, <3>2 DEF Agrees
  <2>13. \A r \in onto : r[1] = k => r \in into
    <3>1. us[k].day < c
      BY <1>1, <2>1, <2>2
    <3> QED BY <1>3, <3>1
  <2>14. Same(Step(p, ts, into, k), Step(q, us, onto, k), A \cap B)
    <3>1. (\A j \in DOMAIN ts : ts[j].account \in A) /\ \A j \in DOMAIN us : us[j].account \in B
      OBVIOUS
    <3> HIDE DEF p, q
    <3> QED BY <1>1, <1>3, <2>1, <2>2, <2>7, <2>12, <2>13, <3>1, StepAgrees
  <2> HIDE DEF here, there, p, q
  <2>15. Right(k)
    BY <2>2, <2>4, <2>5, <2>11, <2>14
  <2> QED BY <2>1, <2>15
<1>7. K \in G
  <2>1. K \in 0..K
    BY <1>0
  <2> HIDE DEF G
  <2> QED BY <1>0, <1>5, <1>6, <2>1, CountUp
<1> QED BY <1>7

(* A trade of a day or after it leaves the sales before the day alone.     *)
LEMMA ApplyLater ==
    ASSUME NEW accounts, NEW positions \in [accounts -> Position], NEW t, IsTrade(t), NEW d \in Int, t.day >= d,
           NEW a \in accounts
    PROVE  SoldBefore(Apply(positions, t)[a], d) = SoldBefore(positions[a], d)
<1> DEFINE p == positions[a]
           to == Apply(positions, t)[a]
<1>1. p.sales \in Seq(SaleMade) /\ Sells(p.sales, to.sales, t.day)
  BY ApplySales DEF Position
<1> HIDE DEF p, to
<1>2. CASE to.sales = p.sales
  BY <1>2 DEF SoldBefore, p, to
<1>3. CASE \E s : s.day = t.day /\ to.sales = Append(p.sales, s)
  <2>1. PICK sale : sale.day = t.day /\ to.sales = Append(p.sales, sale)
    BY <1>3
  <2> DEFINE s == p.sales
             n == Len(s) + 1
  <2>2. /\ DOMAIN to.sales = DOMAIN s \cup {n} /\ to.sales[n] = sale
        /\ \A m \in DOMAIN s : to.sales[m] = s[m]
    BY <1>1, <2>1
  <2>3. ~(to.sales[n].day < d)
    BY <2>1, <2>2 DEF IsTrade
  <2> HIDE DEF n, s
  <2>4. {m \in DOMAIN to.sales : to.sales[m].day < d} = {m \in DOMAIN s : s[m].day < d}
    BY <2>2, <2>3
  <2> QED BY <2>2, <2>4 DEF SoldBefore, s, p, to
<1> QED BY <1>1, <1>2, <1>3 DEF Sells

LEMMA StepLater ==
    ASSUME NEW accounts, NEW positions \in [accounts -> Position], NEW ts, AreTrades(ts), NEW into, Pairing(ts, into),
           \A k \in DOMAIN ts : ts[k].account \in accounts,
           NEW n \in DOMAIN ts, NEW d \in Int, ts[n].day >= d, NEW a \in accounts
    PROVE  SoldBefore(Step(positions, ts, into, n)[a], d) = SoldBefore(positions[a], d)
<1>1. IsTrade(ts[n]) /\ ts[n].account \in accounts
  BY DEF AreTrades
<1>2. SoldBefore(Apply(positions, ts[n])[a], d) = SoldBefore(positions[a], d)
  BY <1>1, ApplyLater
<1>3. CASE \E p \in into : p[1] = n
  <2> DEFINE r == CHOOSE p \in into : p[1] = n
             out == ts[n]
             in == ts[r[2]]
             given == Apply(positions, out)
             moved == TakeOldest(positions[out.account].lots, out.qty).moved
             to == IF HasQty(out) THEN Arrive(given[in.account], in, moved) ELSE given[in.account]
  <2>1. Step(positions, ts, into, n) = [given EXCEPT ![in.account] = to]
    BY <1>3 DEF Step, Transfer
  <2>2. given \in [accounts -> Position]
    BY <1>1, ApplyType
  <2>3. in.account \in accounts
    <3>1. r \in into /\ r[1] = n
      BY <1>3
    <3> HIDE DEF r
    <3> QED BY <3>1 DEF Pairing, Matches
  <2> HIDE DEF given, moved, in
  <2>4. given[in.account] \in Position
    BY <2>2, <2>3
  <2>5. to.sales = given[in.account].sales
    BY <2>4, ArriveSales
  <2> HIDE DEF to
  <2>6. SoldBefore(Step(positions, ts, into, n)[a], d) = SoldBefore(given[a], d)
    BY <2>1, <2>2, <2>3, <2>5 DEF SoldBefore
  <2> QED BY <1>2, <2>6 DEF given
<1>4. CASE ~\E p \in into : p[1] = n
  BY <1>2, <1>4 DEF Step
<1> QED BY <1>3, <1>4

LEMMA ScaleSales ==
    ASSUME NEW accounts, NEW positions \in [accounts -> Position], NEW from, NEW to, NEW d, NEW a \in accounts
    PROVE  SoldBefore(Scale(positions, from, to)[a], d) = SoldBefore(positions[a], d)
<1> DEFINE lots == Scaled(positions[a].lots, Factor(Due(from, to)))
<1>1. Scale(positions, from, to)[a] = [positions[a] EXCEPT !.lots = lots]
  BY DEF Scale
<1> HIDE DEF lots
<1>2. Scale(positions, from, to)[a].sales = positions[a].sales
  BY <1>1 DEF Position
<1> QED BY <1>2 DEF SoldBefore

(* At two places of the walk accounts have the same sales before a day.    *)
SoldSame(at, m, n, accounts, d) ==
    \A a \in accounts : SoldBefore(at[m].positions[a], d) = SoldBefore(at[n].positions[a], d)

LEMMA WalkLater ==
    ASSUME NEW ts, AreTrades(ts), NEW into, Pairing(ts, into), NEW A, A = {ts[k].account : k \in DOMAIN ts},
           NEW at, Walks(at, ts, into, A), NEW d \in Int, NEW K, Before(ts, K, d)
    PROVE  SoldSame(at, Len(ts), K, A, d)
<1> SUFFICES ASSUME NEW a \in A
             PROVE  SoldBefore(at[Len(ts)].positions[a], d) = SoldBefore(at[K].positions[a], d)
  BY DEF SoldSame
<1> DEFINE N == Len(ts)
           Right(k) == k >= K => SoldBefore(at[k].positions[a], d) = SoldBefore(at[K].positions[a], d)
           G == {k \in 0..N : Right(k)}
<1>1. N \in Nat /\ DOMAIN ts = 1..N /\ K \in 0..N /\ K \in Nat /\ \A k \in DOMAIN ts : k > K => ts[k].day >= d
  <2>1. N \in Nat /\ DOMAIN ts = 1..N /\ \A k \in DOMAIN ts : ts[k].day \in Int
    BY DEF AreTrades, IsTrade
  <2> QED BY <2>1 DEF Before
<1>2. 0 \in G
  <2>1. 0 >= K => K = 0
    BY <1>1
  <2> QED BY <1>1, <2>1
<1>3. ASSUME NEW k \in 1..N, k - 1 \in G PROVE k \in G
  <2>1. k \in 0..N /\ k \in Nat /\ k - 1 \in 0..N /\ k \in DOMAIN ts
    BY <1>1
  <2> SUFFICES ASSUME k >= K PROVE SoldBefore(at[k].positions[a], d) = SoldBefore(at[K].positions[a], d)
    BY <2>1
  <2>2. CASE k = K
    BY <2>2
  <2>3. CASE k # K
    <3>1. k - 1 >= K /\ k > K
      BY <1>1, <2>1, <2>3
    <3>2. SoldBefore(at[k - 1].positions[a], d) = SoldBefore(at[K].positions[a], d)
      BY <1>3, <3>1
    <3>3. at[k] = Pass(at[k - 1], ts, into, k) /\ at[k - 1].positions \in [A -> Position]
      BY <2>1 DEF Walks
    <3> DEFINE scaled == Scale(at[k - 1].positions, at[k - 1].day, ts[k].day)
    <3>4. at[k] = at[k - 1] \/ at[k].positions = Step(scaled, ts, into, k)
      BY <3>3 DEF Pass
    <3>5. scaled \in [A -> Position] /\ SoldBefore(scaled[a], d) = SoldBefore(at[k - 1].positions[a], d)
      <4> DEFINE positions == at[k - 1].positions
      <4>1. positions \in [A -> Position]
        BY <3>3
      <4> HIDE DEF positions
      <4>2. \A from, to : /\ Scale(positions, from, to) \in [A -> Position]
                          /\ SoldBefore(Scale(positions, from, to)[a], d) = SoldBefore(positions[a], d)
        BY <4>1, ScaleType, ScaleSales
      <4> QED BY <4>2 DEF positions
    <3> HIDE DEF scaled
    <3>6. ts[k].day >= d /\ \A j \in DOMAIN ts : ts[j].account \in A
      BY <1>1, <2>1, <3>1
    <3>7. SoldBefore(Step(scaled, ts, into, k)[a], d) = SoldBefore(scaled[a], d)
      <4> HIDE DEF N, Right, G
      <4>1. k \in DOMAIN ts /\ scaled \in [A -> Position]
        BY <2>1, <3>5
      <4> QED BY <3>6, <4>1, StepLater
    <3> QED BY <3>2, <3>4, <3>5, <3>7
  <2> QED BY <2>2, <2>3
<1>4. N \in G
  <2>1. N \in 0..N
    BY <1>1
  <2> HIDE DEF G
  <2> QED BY <1>1, <1>2, <1>3, <2>1, CountUp
<1> QED BY <1>1, <1>4

LEMMA PlacesBefore ==
    ASSUME NEW ts, InRow(ts), NEW d \in Int
    PROVE  \E K : Before(ts, K, d)
<1> DEFINE N == Len(ts)
           S == {n \in 1..(N + 1) : n = N + 1 \/ ts[n].day >= d}
<1>1. N \in Nat /\ DOMAIN ts = 1..N /\ \A k \in DOMAIN ts : ts[k].day \in Int
  BY DEF InRow, AreTrades, IsTrade
<1>2. PICK n \in S : \A m \in S : n <= m
  <2>1. S \in SUBSET Nat /\ N + 1 \in S
    BY <1>1
  <2> HIDE DEF S
  <2> QED BY <2>1, LeastNat
<1>3. n - 1 \in 0..N /\ n \in Nat
  BY <1>1
<1>4. ASSUME NEW k \in DOMAIN ts PROVE ts[k].day < d <=> k <= n - 1
  <2>1. k \in 1..N /\ k \in 1..(N + 1) /\ k # N + 1
    BY <1>1
  <2>2. ASSUME k <= n - 1 PROVE ts[k].day < d
    <3>1. k \notin S
      BY <1>2, <1>3, <2>1, <2>2
    <3> QED BY <1>1, <2>1, <3>1
  <2>3. ASSUME ~(k <= n - 1) PROVE ~(ts[k].day < d)
    <3>1. n <= k /\ n \in DOMAIN ts
      BY <1>1, <1>3, <2>1, <2>3
    <3>2. ts[n].day >= d
      BY <1>1, <3>1
    <3>3. ts[n].day <= ts[k].day
      <4>1. n = k \/ n < k
        BY <1>3, <2>1, <3>1
      <4> QED BY <1>1, <3>1, <4>1 DEF InRow
    <3> QED BY <1>1, <3>1, <3>2, <3>3
  <2> QED BY <2>2, <2>3
<1> QED BY <1>3, <1>4 DEF Before

(* Two trades tables that have the same within reach of a day have the     *)
(* same sales before it.                                                   *)
LEMMA LedgersAgree ==
    ASSUME NEW T, IsTable(T), NEW U, IsTable(U), NEW until \in Int, NEW d \in Int, InReach(T, d) = InReach(U, d),
           NEW a \in (DOMAIN Ledger(T, until)) \cap (DOMAIN Ledger(U, until))
    PROVE  SoldBefore(Ledger(T, until)[a], d) = SoldBefore(Ledger(U, until)[a], d)
<1> DEFINE S == {t \in T : t.day <= until}
           R == {t \in U : t.day <= until}
           ts == InOrder(S, Earlier)
           us == InOrder(R, Earlier)
           A == {ts[k].account : k \in DOMAIN ts}
           B == {us[k].account : k \in DOMAIN us}
           into == PairTransfers(ts)
           onto == PairTransfers(us)
           e == d + 2 * TransferWindow
<1>1. InRow(ts) /\ Listed(ts, DOMAIN ts) = S /\ InRow(us) /\ Listed(us, DOMAIN us) = R
  BY TradesListed
<1>2. /\ Ledger(T, until) = Scale(Walk(ts, into).positions, Walk(ts, into).day, until)
      /\ Ledger(U, until) = Scale(Walk(us, onto).positions, Walk(us, onto).day, until)
  BY DEF Ledger, LedgerOf, Until
<1>3. e \in Int /\ (\A t \in S : t.day < e => t \in R) /\ \A t \in R : t.day < e => t \in S
  BY WindowsAssumption DEF InReach
<1> HIDE DEF S, R, ts, us, e
<1>4. AreTrades(ts) /\ AreTrades(us) /\ Len(ts) \in 0..Len(ts) /\ Len(us) \in 0..Len(us)
  BY <1>1 DEF InRow, AreTrades
<1>5. Agrees(ts, us, e) /\ Agrees(us, ts, e)
  <2>1. \A k \in DOMAIN ts : ts[k].day < e => \E i \in DOMAIN us : us[i] = ts[k]
    BY <1>1, <1>3 DEF Listed
  <2>2. \A i \in DOMAIN us : us[i].day < e => \E k \in DOMAIN ts : ts[k] = us[i]
    BY <1>1, <1>3 DEF Listed
  <2>3. Agrees(ts, us, e)
    BY <1>1, <1>3, <2>1, <2>2, ListsAgree
  <2>4. Agrees(us, ts, e)
    BY <1>1, <1>3, <2>1, <2>2, ListsAgree
  <2> QED BY <2>3, <2>4
<1>6. Pairing(ts, into) /\ Pairing(us, onto)
  BY <1>4, PairTransfersIs
<1> HIDE DEF into, onto
<1>7. PICK at : Walks(at, ts, into, A)
  BY <1>4, <1>6, WalkIs DEF Pairing
<1>8. PICK bt : Walks(bt, us, onto, B)
  BY <1>4, <1>6, WalkIs DEF Pairing
<1>9. PICK K : Before(ts, K, d)
  BY <1>1, PlacesBefore
<1>10. Before(us, K, d)
  <2>1. /\ DOMAIN ts = 1..Len(ts) /\ DOMAIN us = 1..Len(us) /\ Len(ts) \in Nat /\ Len(us) \in Nat
        /\ \A k \in DOMAIN us : us[k].day \in Int
    BY <1>4 DEF AreTrades, IsTrade
  <2>2. \A x \in Int : x < d => x < e
    BY WindowsAssumption DEF e
  <2>3. \A k \in DOMAIN us : us[k].day < d => k <= K
    BY <1>5, <1>9, <2>1, <2>2 DEF Agrees, Before
  <2>4. \A k \in 1..K : k \in DOMAIN us /\ us[k].day < d
    <3>1. \A k \in 1..K : k \in DOMAIN ts /\ ts[k].day < d
      BY <1>9, <2>1 DEF Before
    <3> QED BY <1>4, <1>5, <2>2, <3>1 DEF Agrees, AreTrades, IsTrade
  <2>5. K \in 0..Len(us)
    <3>1. K \in Nat /\ (K # 0 => K \in 1..K)
      BY <1>9, <2>1 DEF Before
    <3> QED BY <2>1, <2>4, <3>1
  <2>6. \A k \in DOMAIN us : k <= K => k \in 1..K
    BY <2>1, <2>5
  <2> QED BY <2>3, <2>4, <2>5, <2>6 DEF Before
<1>11. /\ Walk(ts, into) = at[Len(ts)] /\ at[Len(ts)].positions \in [A -> Position]
       /\ at[K].positions \in [A -> Position]
       /\ Walk(us, onto) = bt[Len(us)] /\ bt[Len(us)].positions \in [B -> Position]
       /\ bt[K].positions \in [B -> Position]
  BY <1>4, <1>7, <1>8, <1>9, <1>10 DEF Walks, Before
<1>12. a \in A /\ a \in B
  <2>1. DOMAIN Ledger(T, until) = A /\ DOMAIN Ledger(U, until) = B
    BY <1>2, <1>11 DEF Scale
  <2> QED BY <2>1
<1>13. A = {ts[k].account : k \in DOMAIN ts} /\ B = {us[k].account : k \in DOMAIN us}
  OBVIOUS
<1> HIDE DEF A, B
<1>14. Same(at[K].positions, bt[K].positions, A \cap B)
  BY <1>1, <1>5, <1>7, <1>8, <1>9, <1>13, WalksAgree DEF e, into, onto
<1>15. SoldSame(at, Len(ts), K, A, d)
  BY <1>4, <1>6, <1>7, <1>9, <1>12, <1>13, WalkLater
<1>16. SoldSame(bt, Len(us), K, B, d)
  BY <1>4, <1>6, <1>8, <1>10, <1>12, <1>13, WalkLater
<1>17. /\ SoldBefore(Ledger(T, until)[a], d) = SoldBefore(at[Len(ts)].positions[a], d)
       /\ SoldBefore(Ledger(U, until)[a], d) = SoldBefore(bt[Len(us)].positions[a], d)
  <2> DEFINE p == at[Len(ts)].positions
             q == bt[Len(us)].positions
             from == at[Len(ts)].day
             since == bt[Len(us)].day
  <2>1. Ledger(T, until) = Scale(p, from, until) /\ Ledger(U, until) = Scale(q, since, until)
    BY <1>2, <1>11
  <2>2. p \in [A -> Position] /\ q \in [B -> Position]
    BY <1>11
  <2> HIDE DEF p, q, from, since
  <2>3. SoldBefore(Scale(p, from, until)[a], d) = SoldBefore(p[a], d)
    BY <1>12, <2>2, ScaleSales
  <2>4. SoldBefore(Scale(q, since, until)[a], d) = SoldBefore(q[a], d)
    BY <1>12, <2>2, ScaleSales
  <2> QED BY <2>1, <2>3, <2>4 DEF p, q
<1>18. at[K].positions[a] = bt[K].positions[a]
  BY <1>12, <1>14 DEF Same
<1>19. /\ SoldBefore(at[Len(ts)].positions[a], d) = SoldBefore(at[K].positions[a], d)
       /\ SoldBefore(bt[Len(us)].positions[a], d) = SoldBefore(bt[K].positions[a], d)
  BY <1>12, <1>15, <1>16 DEF SoldSame
<1> QED BY <1>17, <1>18, <1>19

(* What a sale realized stays, whatever documents come in, unless the      *)
(* trades within reach of it change.                                       *)
THEOREM PastStaysAlways == Spec => PastStays
<1>1. IInv /\ IInv' => SalesStay(Ledger(trades, MaxDay), Ledger(trades', MaxDay))
  <2> SUFFICES ASSUME IInv, IInv', NEW d \in 1..MaxDay, InReach(trades, d) = InReach(trades', d),
                      NEW a \in (DOMAIN Ledger(trades, MaxDay)) \cap (DOMAIN Ledger(trades', MaxDay))
               PROVE  SoldBefore(Ledger(trades, MaxDay)[a], d) = SoldBefore(Ledger(trades', MaxDay)[a], d)
    BY DEF SalesStay
  <2>1. IsTable(trades) /\ IsTable(trades') /\ MaxDay \in Int /\ d \in Int
    BY BookAssumption DEF IInv
  <2> QED BY <2>1, LedgersAgree
<1>2. QED
  BY <1>1, InitIInv, NextIInv, PTL DEF Spec, PastStays
=============================================================================
