---------------------------- MODULE DigestPick -----------------------------
(***************************************************************************)
(* Which of the judged items make a news digest: pickItems of              *)
(* worker/workflows/news_digest.go. A judgement is a record of its item,   *)
(* whether the rubric includes it, its mean score, its category and its    *)
(* story; NoName is an empty category or story.                            *)
(***************************************************************************)
EXTENDS Integers, FiniteSets, Sequences

CONSTANTS
    InterestOf,      \* the interest each item was fetched for
    NoName,
    MinScore, MaxItems, MaxPerInterest, MaxPerCategory

ASSUME CapsAssumption == {MaxItems, MaxPerInterest, MaxPerCategory} \subseteq Nat

Clamp(n) == IF n > 2 THEN 2 ELSE IF n < -2 THEN -2 ELSE n

(* In half points: feedback moves an item by half a point per net like, by *)
(* a point at most; likes is the net likes of each interest.               *)
Score(j, likes) == 2 * j.mean + Clamp(likes[InterestOf[j.item]])

(* Faulty variant: the stories are not looked at.                          *)
EligibleAgain(judged, stories) == {j \in judged : j.include /\ j.mean >= MinScore}

(* The judgements that may be picked: included, good enough, and not of a  *)
(* story sent lately.                                                      *)
Eligible(judged, stories) ==
    {j \in judged : j.include /\ j.mean >= MinScore /\ j.story \notin stories}

(* Faulty variant: not sorted.                                             *)
OrdersUnsorted(E, likes) ==
    {s \in [1..Cardinality(E) -> E] : \A a, b \in DOMAIN s : a < b => s[a] # s[b]}

(* The orders in which they are looked at: best first; equal scores in the *)
(* order the rankings of the interests happened to end in.                 *)
Orders(E, likes) ==
    {s \in [1..Cardinality(E) -> E] :
        \A a, b \in DOMAIN s :
            a < b => s[a] # s[b] /\ Score(s[a], likes) >= Score(s[b], likes)}

SameInterest(S, j) == {k \in S : InterestOf[k.item] = InterestOf[j.item]}

SameCategory(S, j) == {k \in SameInterest(S, j) : k.category = j.category}

(* Whether the picks so far leave no place for j.                          *)
Blocked(S, j) ==
    \/ Cardinality(S) = MaxItems
    \/ j.story # NoName /\ \E k \in S : k.story = j.story
    \/ Cardinality(SameInterest(S, j)) = MaxPerInterest
    \/ j.category # NoName /\ Cardinality(SameCategory(S, j)) = MaxPerCategory

(* The items of a digest, taken one by one in the order s.                 *)
Pick(s) ==
    LET taken[n \in 0..Len(s)] ==
            IF n = 0 THEN {}
            ELSE IF Blocked(taken[n - 1], s[n]) THEN taken[n - 1]
                 ELSE taken[n - 1] \cup {s[n]}
    IN  taken[Len(s)]
=============================================================================
