------------------------------ MODULE Decimals ------------------------------
(***************************************************************************)
(* The decimals of memory/finance/dec.go: an amount, or None where it is   *)
(* not known. Amounts are whole numbers of a unit small enough for every   *)
(* division here to be exact, as the code's rationals are. With them, what *)
(* the modules that use them need of sums and of sorting.                  *)
(***************************************************************************)
EXTENDS Integers, FiniteSets, Sequences

CONSTANT None

ASSUME NoneAssumption == None \notin Int

Decimal == Int \cup {None}

Abs(n) == IF n < 0 THEN -n ELSE n

(* For what is none where it is absent, such as fees.                      *)
OrZero(a) == IF a = None THEN 0 ELSE a

Add(a, b) == IF a = None /\ b = None THEN None ELSE OrZero(a) + OrZero(b)

(* For what cannot be known without both, such as a cost.                  *)
SumOf(a, b) == IF None \in {a, b} THEN None ELSE a + b

Diff(a, b) == IF None \in {a, b} THEN None ELSE a - b

Mul(a, b) == IF None \in {a, b} THEN None ELSE a * b

(* The share p of q of an amount: div, then mul.                           *)
Share(a, p, q) == IF a = None \/ q = 0 THEN None ELSE (a * p) \div q

Eq(a, b) == a # None /\ a = b

(* Within 0.1% of b.                                                       *)
Near(a, b) == None \notin {a, b} /\ Abs(a - b) * 1000 <= Abs(b)

(* The sum of what F gives for the members of S, SumOf by SumOf.           *)
SumOver(f) ==
    LET over[R \in SUBSET DOMAIN f] ==
            IF R = {} THEN 0 ELSE LET x == CHOOSE y \in R : TRUE IN SumOf(f[x], over[R \ {x}])
    IN over[DOMAIN f]

Total(F(_), S) == SumOver([x \in S |-> F(x)])

(* The same along a sequence.                                              *)
SumTo(f, n) ==
    LET over[k \in 0..n] == IF k = 0 THEN 0 ELSE SumOf(over[k - 1], f[k])
    IN over[n]

TotalSeq(F(_), s) == SumTo([k \in 1..Len(s) |-> F(s[k])], Len(s))

(* The sum of those that are known, Add by Add.                            *)
SumKnown(f) ==
    LET known == {x \in DOMAIN f : f[x] # None}
    IN IF known = {} THEN None ELSE SumOver([x \in known |-> f[x]])

AddUp(F(_), S) == SumKnown([x \in S |-> F(x)])

(* A set in a strict total order, given as its pairs: the community        *)
(* modules' SetToSortSeq goes through every sequence of its members.       *)
Sorted(S, pairs) ==
    LET from[R \in SUBSET S] ==
            IF R = {} THEN <<>>
            ELSE LET x == CHOOSE y \in R : \A z \in R \ {y} : <<y, z>> \in pairs
                 IN <<x>> \o from[R \ {x}]
    IN from[S]

InOrder(S, Before(_, _)) == Sorted(S, {p \in S \X S : Before(p[1], p[2])})
=============================================================================
