------------------------- MODULE NewsDigestProofs --------------------------
(***************************************************************************)
(* What NewsDigest keeps for every set of feeds, users' interests, slots,  *)
(* runs and events, and what the picking of a digest comes to for any      *)
(* number of items.                                                        *)
(***************************************************************************)
EXTENDS NewsDigest, SequenceTheorems, FiniteSetTheorems, WellFoundedInduction, TLAPS

-----------------------------------------------------------------------------
(* What Pick takes. The library's induction theorems have an operator as a *)
(* parameter; that each set of naturals has a least element has not, and   *)
(* is all that is needed.                                                  *)

(* A set of naturals that is not empty has a least element.                *)
LEMMA LeastElement ==
    ASSUME NEW S \in SUBSET Nat, S # {}
    PROVE  \E n \in S : \A m \in S : n <= m
<1>1. IsWellFoundedOn(OpToRel(<, Nat), Nat)
  BY NatLessThanWellFounded
<1>2. PICK n \in S : \A m \in S : <<m, n>> \notin OpToRel(<, Nat)
  BY <1>1, WFMin
<1>3. \A m \in S : ~(m < n)
  BY <1>2 DEF OpToRel
<1> QED BY <1>3

(* A set that has 0 and with each number below n the next has all up to n. *)
LEMMA UpTo ==
    ASSUME NEW n \in Nat, NEW S, 0 \in S, \A k \in 1..n : k - 1 \in S => k \in S
    PROVE  0..n \subseteq S
<1> SUFFICES ASSUME (0..n) \ S # {} PROVE FALSE
  OBVIOUS
<1>1. PICK k \in (0..n) \ S : \A m \in (0..n) \ S : k <= m
  <2>1. (0..n) \ S \in SUBSET Nat
    OBVIOUS
  <2> QED BY <2>1, LeastElement
<1>2. k # 0 /\ k - 1 \in S
  BY <1>1
<1> QED BY <1>1, <1>2

(* What looking at the judgement s[k] makes of the picks so far.           *)
Take(S, j) == IF Blocked(S, j) THEN S ELSE S \cup {j}

Taking(s, n, taken) == taken = [k \in 0..n |-> IF k = 0 THEN {} ELSE Take(taken[k - 1], s[k])]

(* The picks after each judgement are defined.                             *)
LEMMA TakingExists ==
    ASSUME NEW s, NEW n \in Nat
    PROVE  \E taken : Taking(s, n, taken)
<1> DEFINE S == {k \in 0..n : \E taken : Taking(s, k, taken)}
<1>1. 0 \in S
  <2>1. Taking(s, 0, [k \in 0..0 |-> {}])
    BY DEF Taking
  <2> QED BY <2>1
<1>2. ASSUME NEW k \in 1..n, k - 1 \in S PROVE k \in S
  <2>1. PICK t : Taking(s, k - 1, t)
    BY <1>2
  <2> DEFINE u == [i \in 0..k |-> IF i = k THEN Take(t[k - 1], s[k]) ELSE t[i]]
  <2>2. t = [i \in 0..(k - 1) |-> IF i = 0 THEN {} ELSE Take(t[i - 1], s[i])]
    BY <2>1 DEF Taking
  <2>3. ASSUME NEW i \in 0..k PROVE u[i] = IF i = 0 THEN {} ELSE Take(u[i - 1], s[i])
    <3>1. CASE i = k
      BY <3>1
    <3>2. CASE i # k
      <4>1. i \in 0..(k - 1) /\ u[i] = t[i] /\ (i # 0 => u[i - 1] = t[i - 1])
        BY <3>2
      <4> HIDE DEF u
      <4> QED BY <2>2, <4>1
    <3> QED BY <3>1, <3>2
  <2>4. Taking(s, k, u)
    <3>1. u = [i \in 0..k |-> u[i]]
      OBVIOUS
    <3> HIDE DEF u
    <3> QED BY <2>3, <3>1 DEF Taking
  <2> QED BY <2>4
<1>3. 0..n \subseteq S
  <2> HIDE DEF S
  <2> QED BY <1>1, <1>2, UpTo
<1> QED BY <1>3

(* Each of the picks comes from those before it.                           *)
LEMMA TakingSteps ==
    ASSUME NEW s, NEW n \in Nat, NEW taken, Taking(s, n, taken)
    PROVE  taken[0] = {} /\ \A k \in 1..n : taken[k] = Take(taken[k - 1], s[k])
<1> DEFINE f == [k \in 0..n |-> IF k = 0 THEN {} ELSE Take(taken[k - 1], s[k])]
<1>1. taken = f
  BY DEF Taking
<1>2. f[0] = {} /\ \A k \in 1..n : f[k] = Take(taken[k - 1], s[k])
  OBVIOUS
<1> HIDE DEF f
<1> QED BY <1>1, <1>2

(* Pick takes the judgements one by one.                                   *)
LEMMA PickTakes ==
    ASSUME NEW n \in Nat, NEW E, NEW s \in [1..n -> E]
    PROVE  \E taken : Taking(s, n, taken) /\ Pick(s) = taken[n]
<1>1. Len(s) = n
  <2>1. s \in Seq(E)
    BY SeqDef
  <2> QED BY <2>1, LenProperties
<1> DEFINE taken == CHOOSE t : Taking(s, n, t)
<1>2. Taking(s, n, taken)
  BY TakingExists
<1>3. Pick(s) = taken[n]
  BY <1>1 DEF Pick, Taking, Take
<1> QED BY <1>2, <1>3

(* What the picks keep to at any time: the caps, and one item of a story.  *)
KeepsCaps(S) ==
    /\ IsFiniteSet(S) /\ Cardinality(S) <= MaxItems
    /\ \A j : /\ Cardinality(SameInterest(S, j)) <= MaxPerInterest
              /\ j.category # NoName => Cardinality(SameCategory(S, j)) <= MaxPerCategory
    /\ \A j, k \in S : j.story = k.story /\ j.story # NoName => j = k

(* Adding an element to a set that has not as many as it may.              *)
LEMMA RoomForOne ==
    ASSUME NEW S, IsFiniteSet(S), NEW j, NEW max \in Nat, Cardinality(S) <= max, Cardinality(S) # max
    PROVE  Cardinality(S \cup {j}) <= max
<1>1. Cardinality(S) \in Nat
  BY FS_CardinalityType
<1>2. Cardinality(S \cup {j}) \in {Cardinality(S), Cardinality(S) + 1}
  BY FS_AddElement
<1> QED BY <1>1, <1>2

(* A judgement that is not blocked is taken within the caps.               *)
LEMMA TakeKeepsCaps ==
    ASSUME NEW S, KeepsCaps(S), NEW x
    PROVE  KeepsCaps(Take(S, x))
<1>0. {MaxItems, MaxPerInterest, MaxPerCategory} \subseteq Nat /\ IsFiniteSet(S)
  BY CapsAssumption DEF KeepsCaps
<1> SUFFICES ASSUME ~Blocked(S, x) PROVE KeepsCaps(S \cup {x})
  BY DEF Take
<1> DEFINE T == S \cup {x}
<1>1. IsFiniteSet(T) /\ Cardinality(T) <= MaxItems
  BY <1>0, RoomForOne, FS_AddElement DEF KeepsCaps, Blocked
<1>2. ASSUME NEW j PROVE Cardinality(SameInterest(T, j)) <= MaxPerInterest
  <2>1. CASE InterestOf[x.item] # InterestOf[j.item]
    <3>1. SameInterest(T, j) = SameInterest(S, j)
      BY <2>1 DEF SameInterest
    <3> QED BY <3>1 DEF KeepsCaps
  <2>2. CASE InterestOf[x.item] = InterestOf[j.item]
    <3>1. SameInterest(T, j) = SameInterest(S, x) \cup {x}
      BY <2>2 DEF SameInterest
    <3>2. IsFiniteSet(SameInterest(S, x))
      BY <1>0, FS_Subset DEF SameInterest
    <3>3. Cardinality(SameInterest(S, x)) <= MaxPerInterest
      BY DEF KeepsCaps
    <3>4. Cardinality(SameInterest(S, x)) # MaxPerInterest
      BY DEF Blocked
    <3> QED BY <1>0, <3>1, <3>2, <3>3, <3>4, RoomForOne
  <2> QED BY <2>1, <2>2
<1>3. ASSUME NEW j, j.category # NoName PROVE Cardinality(SameCategory(T, j)) <= MaxPerCategory
  <2>1. CASE InterestOf[x.item] # InterestOf[j.item] \/ x.category # j.category
    <3>1. SameCategory(T, j) = SameCategory(S, j)
      BY <2>1 DEF SameCategory, SameInterest
    <3> QED BY <1>3, <3>1 DEF KeepsCaps
  <2>2. CASE InterestOf[x.item] = InterestOf[j.item] /\ x.category = j.category
    <3>1. SameCategory(T, j) = SameCategory(S, x) \cup {x}
      BY <2>2 DEF SameCategory, SameInterest
    <3>2. IsFiniteSet(SameCategory(S, x))
      BY <1>0, FS_Subset DEF SameCategory, SameInterest
    <3>3. Cardinality(SameCategory(S, x)) <= MaxPerCategory
      BY <1>3, <2>2 DEF KeepsCaps
    <3>4. Cardinality(SameCategory(S, x)) # MaxPerCategory
      BY <1>3, <2>2 DEF Blocked
    <3> QED BY <1>0, <3>1, <3>2, <3>3, <3>4, RoomForOne
  <2> QED BY <2>1, <2>2
<1>4. \A j, k \in T : j.story = k.story /\ j.story # NoName => j = k
  BY DEF KeepsCaps, Blocked
<1> QED BY <1>1, <1>2, <1>3, <1>4 DEF KeepsCaps

(* More picks, as long as they keep the caps, block what fewer blocked.    *)
LEMMA BlockedByMore ==
    ASSUME NEW P, KeepsCaps(P), NEW A \in SUBSET P, NEW S \in SUBSET A, NEW j, Blocked(S, j)
    PROVE  Blocked(A, j)
<1>0. {MaxItems, MaxPerInterest, MaxPerCategory} \subseteq Nat /\ IsFiniteSet(P)
  BY CapsAssumption DEF KeepsCaps
<1>1. ASSUME NEW U, IsFiniteSet(U), NEW V \in SUBSET U, NEW W \in SUBSET V, NEW max \in Nat,
             Cardinality(U) <= max, Cardinality(W) = max
      PROVE  Cardinality(V) = max
  <2>1. IsFiniteSet(V) /\ Cardinality(V) <= Cardinality(U)
    BY <1>1, FS_Subset
  <2>2. Cardinality(W) <= Cardinality(V)
    BY <2>1, FS_Subset
  <2>3. Cardinality(U) \in Nat /\ Cardinality(V) \in Nat
    BY <1>1, <2>1, FS_CardinalityType
  <2> QED BY <1>1, <2>1, <2>2, <2>3
<1>2. CASE Cardinality(S) = MaxItems
  <2>1. Cardinality(A) = MaxItems
    BY <1>0, <1>1, <1>2 DEF KeepsCaps
  <2> QED BY <2>1 DEF Blocked
<1>3. CASE j.story # NoName /\ \E k \in S : k.story = j.story
  BY <1>3 DEF Blocked
<1>4. CASE Cardinality(SameInterest(S, j)) = MaxPerInterest
  <2>1. /\ SameInterest(S, j) \in SUBSET SameInterest(A, j)
        /\ SameInterest(A, j) \in SUBSET SameInterest(P, j)
    BY DEF SameInterest
  <2>2. IsFiniteSet(SameInterest(P, j)) /\ Cardinality(SameInterest(P, j)) <= MaxPerInterest
    BY <1>0, FS_Subset DEF KeepsCaps, SameInterest
  <2>3. Cardinality(SameInterest(A, j)) = MaxPerInterest
    BY <1>0, <1>1, <1>4, <2>1, <2>2
  <2> QED BY <2>3 DEF Blocked
<1>5. CASE j.category # NoName /\ Cardinality(SameCategory(S, j)) = MaxPerCategory
  <2>1. /\ SameCategory(S, j) \in SUBSET SameCategory(A, j)
        /\ SameCategory(A, j) \in SUBSET SameCategory(P, j)
    BY DEF SameCategory, SameInterest
  <2>2. IsFiniteSet(SameCategory(P, j)) /\ Cardinality(SameCategory(P, j)) <= MaxPerCategory
    BY <1>0, <1>5, FS_Subset DEF KeepsCaps, SameCategory, SameInterest
  <2>3. Cardinality(SameCategory(A, j)) = MaxPerCategory
    BY <1>0, <1>1, <1>5, <2>1, <2>2
  <2> QED BY <1>5, <2>3 DEF Blocked
<1> QED BY <1>2, <1>3, <1>4, <1>5 DEF Blocked

(* The picks keep the caps, and whatever was not taken is blocked by picks *)
(* of those that were looked at before it.                                 *)
LEMMA PickIsGood ==
    ASSUME NEW n \in Nat, NEW E, NEW s \in [1..n -> E]
    PROVE  /\ Pick(s) \subseteq {s[i] : i \in 1..n}
           /\ KeepsCaps(Pick(s))
           /\ \A i \in 1..n : s[i] \notin Pick(s) =>
                  \E S \in SUBSET Pick(s) : S \subseteq {s[a] : a \in 1..(i - 1)} /\ Blocked(S, s[i])
<1>1. PICK taken : Taking(s, n, taken) /\ Pick(s) = taken[n]
  BY PickTakes
<1>2. taken[0] = {} /\ \A k \in 1..n : taken[k] = Take(taken[k - 1], s[k])
  BY <1>1, TakingSteps
<1> DEFINE Good(k) == /\ taken[k] \subseteq {s[i] : i \in 1..k}
                      /\ KeepsCaps(taken[k])
                      /\ \A i \in 1..k : s[i] \notin taken[k] =>
                           \E S \in SUBSET taken[k] : S \subseteq {s[a] : a \in 1..(i - 1)} /\ Blocked(S, s[i])
           G == {k \in 0..n : Good(k)}
<1>3. 0 \in G
  <2>1. KeepsCaps({})
    <3>1. \A j : SameInterest({}, j) = {} /\ SameCategory({}, j) = {}
      BY DEF SameInterest, SameCategory
    <3> QED BY SMTT(30), <3>1, FS_EmptySet, CapsAssumption DEF KeepsCaps
  <2>2. Good(0)
    BY <1>2, <2>1
  <2> QED BY <2>2
<1>4. ASSUME NEW k \in 1..n, k - 1 \in G PROVE k \in G
  <2> DEFINE T == taken[k - 1]
  <2>1. Good(k - 1) /\ taken[k] = Take(T, s[k])
    BY <1>2, <1>4
  <2>2. T \subseteq taken[k] /\ taken[k] \subseteq T \cup {s[k]}
    BY <2>1 DEF Take
  <2>3. taken[k] \subseteq {s[i] : i \in 1..k}
    BY <2>1, <2>2
  <2>4. KeepsCaps(taken[k])
    BY <2>1, TakeKeepsCaps
  <2>5. ASSUME NEW i \in 1..k, s[i] \notin taken[k]
        PROVE  \E S \in SUBSET taken[k] : S \subseteq {s[a] : a \in 1..(i - 1)} /\ Blocked(S, s[i])
    <3>1. CASE i = k
      <4>1. Blocked(T, s[k])
        BY <2>1, <2>5, <3>1 DEF Take
      <4>2. T \subseteq {s[a] : a \in 1..(k - 1)}
        BY <2>1
      <4> QED BY <2>2, <3>1, <4>1, <4>2
    <3>2. CASE i # k
      <4>1. i \in 1..(k - 1) /\ s[i] \notin T
        BY <2>2, <2>5, <3>2
      <4>2. PICK S \in SUBSET T : S \subseteq {s[a] : a \in 1..(i - 1)} /\ Blocked(S, s[i])
        BY <2>1, <4>1
      <4> QED BY <2>2, <4>2
    <3> QED BY <3>1, <3>2
  <2>6. Good(k)
    BY <2>3, <2>4, <2>5
  <2> HIDE DEF Good
  <2> QED BY <2>6
<1>5. n \in G
  <2> HIDE DEF G
  <2>1. 0..n \subseteq G
    BY <1>3, <1>4, UpTo
  <2> QED BY <2>1
<1> QED BY <1>1, <1>5

(* Every judgement that may be picked is looked at.                        *)
LEMMA OrdersAreAll ==
    ASSUME NEW E, IsFiniteSet(E), NEW likes, NEW s \in Orders(E, likes)
    PROVE  /\ Cardinality(E) \in Nat /\ s \in [1..Cardinality(E) -> E]
           /\ \A j \in E : \E i \in 1..Cardinality(E) : s[i] = j
<1> DEFINE n == Cardinality(E)
<1>1. n \in Nat
  BY FS_CardinalityType
<1>2. s \in [1..n -> E]
  BY DEF Orders
<1>3. s \in Injection(1..n, E)
  <2>1. \A a, b \in 1..n : a < b => s[a] # s[b]
    BY <1>2 DEF Orders
  <2>2. \A a, b \in 1..n : s[a] = s[b] => a = b
    BY <1>1, <2>1
  <2> QED BY <1>2, <2>2 DEF Injection, IsInjective
<1>4. Cardinality(1..n) = n
  BY <1>1, FS_Interval
<1>5. s \in Surjection(1..n, E)
  BY <1>3, <1>4, FS_Injection
<1> QED BY <1>1, <1>2, <1>5 DEF Surjection

-----------------------------------------------------------------------------
(* Types, and that a run judges finitely many items.                       *)
TInv == TypeOK /\ IsFiniteSet(run.judged)

RunType == [at : {"idle", "check", "gather", "rank", "pick", "reserve", "slack", "release", "complete"},
            slot : Slots, items : SUBSET Items, judged : SUBSET Judgements, since : Slots,
            ts : 0..Len(slack)]

Message == [slot : Slots, lost : BOOLEAN]

(* The initial state has the shape.                                        *)
LEMMA InitTInv == Init => TInv
<1> SUFFICES ASSUME Init PROVE TInv
  OBVIOUS
<1>1. 0 \in Slots /\ MaxRuns \in Nat
  BY BoundsAssumption DEF Slots
<1>2. Len(slack) = 0 /\ slack = <<>>
  BY DEF Init
<1>3. run \in RunType
  BY <1>1, <1>2 DEF Init, RunType, Idle
<1>4. digest \in [Slots -> [ts : 0..Len(slack), items : SUBSET Judgements, at : Slots]]
  BY <1>1, <1>2 DEF Init, NoDigest
<1>5. task \in [Deliveries -> [at : {"none", "due", "fresh", "ended"}, ts : 0..Len(slack)]]
  BY <1>2 DEF Init
<1>6. IsFiniteSet(run.judged)
  BY FS_EmptySet DEF Init, Idle
<1>7. queue \in Seq(Slots) /\ slack \in Seq(Message) /\ signal \in [Events -> Seq(Slots)]
  BY DEF Init
<1>8. follow \in [Interests -> {"absent", "none", "active", "muted"}] /\ sentStory \in [Stories -> Slots \cup {-1}]
  BY DEF Init
<1> QED BY <1>1, <1>3, <1>4, <1>5, <1>6, <1>7, <1>8 DEF Init, TInv, TypeOK, RunType, Message

(* What the judgements of a ranking are.                                   *)
LEMMA RankedAre ==
    ASSUME NEW I \in SUBSET Items, NEW f \in [I -> Judged]
    PROVE  LET J == {Judgement(i, f[i]) : i \in I}
           IN  /\ J \subseteq Judgements /\ IsFiniteSet(J)
               /\ \A j \in J : j.item \in I
<1> DEFINE J == {Judgement(i, f[i]) : i \in I}
           g == [i \in I |-> Judgement(i, f[i])]
<1>1. g \in Surjection(I, J)
  BY DEF Surjection
<1>2. IsFiniteSet(I)
  BY ItemsAssumption, FS_Subset
<1>3. IsFiniteSet(J)
  <2> HIDE DEF g, J
  <2> QED BY <1>1, <1>2, FS_Surjection
<1>4. J \subseteq Judgements /\ \A j \in J : j.item \in I
  BY DEF Judgements, Judgement
<1> QED BY <1>3, <1>4

(* What PickItems may come to: finitely many of the judgements that are    *)
(* eligible.                                                               *)
LEMMA PicksAre ==
    ASSUME IsFiniteSet(run.judged), NEW s \in Orders(Eligible(run.judged, RecentStories), Likes)
    PROVE  /\ IsFiniteSet(Pick(s))
           /\ Pick(s) \subseteq Eligible(run.judged, RecentStories)
           /\ Pick(s) \subseteq run.judged
<1> DEFINE E == Eligible(run.judged, RecentStories)
<1>1. E \in SUBSET run.judged
  BY DEF Eligible
<1>2. IsFiniteSet(E)
  BY <1>1, FS_Subset
<1> HIDE DEF E
<1>3. Cardinality(E) \in Nat /\ s \in [1..Cardinality(E) -> E]
  BY <1>2, OrdersAreAll DEF E
<1>4. IsFiniteSet(Pick(s)) /\ Pick(s) \subseteq {s[i] : i \in 1..Cardinality(E)}
  BY <1>3, PickIsGood DEF KeepsCaps
<1> QED BY <1>1, <1>3, <1>4 DEF E

(* A message more leaves those before it where they are.                   *)
LEMMA WrittenIs ==
    ASSUME TypeOK, NEW lost \in BOOLEAN
    PROVE  /\ Written(lost) \in Seq(Message) /\ Len(Written(lost)) = Len(slack) + 1
           /\ Len(slack) \in Nat /\ DOMAIN slack = 1..Len(slack)
           /\ DOMAIN Written(lost) = 1..(Len(slack) + 1)
           /\ \A ts \in 1..Len(slack) : Written(lost)[ts] = slack[ts]
           /\ Written(lost)[Len(slack) + 1] = [slot |-> run.slot, lost |-> lost]
<1>1. slack \in Seq(Message) /\ [slot |-> run.slot, lost |-> lost] \in Message
  BY DEF TypeOK, Message
<1> QED BY <1>1, LenProperties, AppendProperties DEF Written

(* The steps of a run move only the run and what a digest leaves ...       *)
LEMMA RunFrame ==
    ASSUME RunSteps
    PROVE  UNCHANGED <<now, follow, started, kind, task, events, signal>>
BY DEF RunSteps, RunStarts, CheckSkip, Gather, Rank, PickItems, ReserveDigest, PostDigest, PostFails,
       PostStops, ReleaseDigest, CompleteDigest, RunFails, RunMoves, interestVars, feedbackVars

(* ... and those of the others move only theirs.                           *)
LEMMA OthersFrame ==
    ASSUME Next, ~RunSteps
    PROVE  UNCHANGED <<run, mark, digest, sentUrl, sentStory, slack>>
BY DEF Next, Tick, NewsShorts, InterestSteps, AddInterest, FollowInterest, SetInterestStatus,
       FollowDefault, FeedbackSteps, Deliver, TakeReaction, TakeReply, SaveSignal, TaskFails,
       TaskMoves, interestVars, runVars, digestVars, feedbackVars

(* A run's steps keep the run's shape and what it judges finite.           *)
LEMMA RunStepsKeepRun ==
    ASSUME TInv, RunSteps
    PROVE  /\ run' \in RunType' /\ IsFiniteSet(run'.judged)
           /\ queue' \in Seq(Slots) /\ slack' \in Seq(Message) /\ Len(slack) <= Len(slack')
<1>0. /\ run \in RunType /\ IsFiniteSet(run.judged) /\ Len(slack) \in Nat /\ 0 \in Slots /\ now \in Slots
      /\ slack \in Seq(Message) /\ queue \in Seq(Slots)
  <2>1. run \in RunType /\ IsFiniteSet(run.judged) /\ now \in Slots
    BY DEF TInv, TypeOK, RunType
  <2>2. slack \in Seq(Message) /\ queue \in Seq(Slots)
    BY DEF TInv, TypeOK, Message
  <2>3. 0 \in Slots
    BY BoundsAssumption DEF Slots
  <2> QED BY <2>1, <2>2, <2>3, LenProperties
<1>1. /\ \A q \in Slots : [Idle EXCEPT !.at = "check", !.slot = q] \in RunType
      /\ \A q \in Slots : [Idle EXCEPT !.at = "check", !.slot = q].judged = {}
      /\ Idle \in RunType /\ Idle.judged = {}
  <2>1. Idle \in RunType /\ Idle.judged = {}
    BY <1>0 DEF RunType, Idle
  <2>2. ASSUME NEW q \in Slots
        PROVE  /\ [Idle EXCEPT !.at = "check", !.slot = q] \in RunType
               /\ [Idle EXCEPT !.at = "check", !.slot = q].judged = Idle.judged
    BY <2>1 DEF RunType
  <2> QED BY <2>1, <2>2
<1>e. IsFiniteSet({})
  BY FS_EmptySet
<1> DEFINE Goal == /\ run' \in RunType' /\ IsFiniteSet(run'.judged)
                   /\ queue' \in Seq(Slots) /\ slack' \in Seq(Message) /\ Len(slack) <= Len(slack')
<1>2. ASSUME run' \in RunType, IsFiniteSet(run'.judged), queue' \in Seq(Slots), UNCHANGED slack
      PROVE  Goal
  BY <1>0, <1>2 DEF RunType
<1> SUFFICES Goal
  OBVIOUS
<1> HIDE DEF Goal
<1>3. CASE RunStarts
  <2>1. Head(queue) \in Slots /\ Tail(queue) \in Seq(Slots)
    BY <1>0, <1>3, HeadTailProperties DEF RunStarts
  <2>2. run' = [Idle EXCEPT !.at = "check", !.slot = Head(queue)]
    BY <1>3 DEF RunStarts
  <2>3. run' \in RunType /\ run'.judged = {}
    BY <1>1, <2>1, <2>2
  <2>4. queue' = Tail(queue) /\ UNCHANGED slack
    BY <1>3 DEF RunStarts, digestVars
  <2> QED BY <1>1, <1>e, <1>2, <2>1, <2>3, <2>4
<1>4. CASE CheckSkip \/ ReserveDigest \/ ReleaseDigest \/ CompleteDigest \/ RunFails
  <2>1. /\ \A at \in {"gather", "slack"} : [run EXCEPT !.at = at] \in RunType
                                         /\ [run EXCEPT !.at = at].judged = run.judged
    BY <1>0 DEF RunType
  <2>2. run' \in {Idle, [run EXCEPT !.at = "gather"], [run EXCEPT !.at = "slack"]} /\ UNCHANGED <<queue, slack>>
    BY <1>4 DEF CheckSkip, ReserveDigest, ReleaseDigest, CompleteDigest, RunFails, RunMoves, digestVars
  <2> QED BY <1>0, <1>1, <1>e, <1>2, <2>1, <2>2
<1>5. CASE Gather
  <2>1. PICK read \in FeedsRead : run' = [run EXCEPT !.at = "rank", !.items = Unsent(read)]
    BY <1>5 DEF Gather, RunMoves
  <2>2. Unsent(read) \in SUBSET Items
    BY DEF Unsent
  <2>3. run' \in RunType /\ run'.judged = run.judged
    BY <1>0, <2>1, <2>2 DEF RunType
  <2> QED BY <1>0, <1>2, <1>5, <2>3 DEF Gather, RunMoves
<1>6. CASE Rank
  <2>1. \E I \in SUBSET Items : \E f \in [I -> Judged] :
            run' = [run EXCEPT !.at = "pick", !.items = {}, !.judged = {Judgement(i, f[i]) : i \in I}]
    <3>1. PICK ranked \in SUBSET {InterestOf[i] : i \in run.items} :
             \E f \in [{i \in run.items : InterestOf[i] \in ranked} -> Judged] :
               run' = [run EXCEPT !.at = "pick", !.items = {},
                          !.judged = {Judgement(i, f[i]) : i \in {k \in run.items : InterestOf[k] \in ranked}}]
      BY <1>6 DEF Rank, RunMoves
    <3> DEFINE I == {i \in run.items : InterestOf[i] \in ranked}
    <3>2. I \in SUBSET Items
      BY <1>0 DEF RunType
    <3> QED BY <3>1, <3>2
  <2> PICK I \in SUBSET Items : \E f \in [I -> Judged] :
            run' = [run EXCEPT !.at = "pick", !.items = {}, !.judged = {Judgement(i, f[i]) : i \in I}]
    BY <2>1
  <2> PICK f \in [I -> Judged] :
            run' = [run EXCEPT !.at = "pick", !.items = {}, !.judged = {Judgement(i, f[i]) : i \in I}]
    OBVIOUS
  <2> DEFINE J == {Judgement(i, f[i]) : i \in I}
  <2>2. J \in SUBSET Judgements /\ IsFiniteSet(J)
    BY RankedAre
  <2> HIDE DEF J
  <2>3. run' \in RunType /\ run'.judged = J
    BY <1>0, <2>1, <2>2 DEF RunType, J
  <2> QED BY <1>0, <1>2, <1>6, <2>2, <2>3 DEF Rank, RunMoves
<1>7. CASE PickItems
  <2>1. PICK s \in Orders(Eligible(run.judged, RecentStories), Likes) :
            run' = IF Pick(s) = {} THEN Idle
                   ELSE [run EXCEPT !.at = "reserve", !.judged = Pick(s), !.since = now]
    BY <1>7 DEF PickItems, RunMoves
  <2>2. IsFiniteSet(Pick(s)) /\ Pick(s) \in SUBSET run.judged
    BY <1>0, PicksAre
  <2>3. CASE run' = Idle
    BY <1>0, <1>1, <1>e, <1>2, <1>7, <2>3 DEF PickItems, RunMoves
  <2>4. CASE run' = [run EXCEPT !.at = "reserve", !.judged = Pick(s), !.since = now]
    <3>1. Pick(s) \in SUBSET Judgements
      BY <1>0, <2>2 DEF RunType
    <3>2. run' \in RunType /\ run'.judged = Pick(s)
      BY <1>0, <2>4, <3>1 DEF RunType
    <3> QED BY <1>0, <1>2, <1>7, <2>2, <3>2 DEF PickItems, RunMoves
  <2> QED BY <2>1, <2>3, <2>4
<1>8. CASE PostDigest \/ PostFails \/ PostStops
  <2>1. \A lost \in BOOLEAN : Written(lost) \in Seq(Message) /\ Len(Written(lost)) = Len(slack) + 1
    BY WrittenIs DEF TInv
  <2>2. /\ slack' \in {slack, Written(FALSE), Written(TRUE)} /\ UNCHANGED queue
        /\ \/ run' \in {Idle, [run EXCEPT !.at = "release"]}
           \/ slack' = Written(FALSE) /\ run' = [run EXCEPT !.at = "complete", !.ts = Len(slack) + 1]
    BY <1>8 DEF PostDigest, PostFails, PostStops, RunMoves
  <2>3. Len(slack') \in {Len(slack), Len(slack) + 1} /\ slack' \in Seq(Message)
    BY <1>0, <2>1, <2>2
  <2>4. run' \in RunType' /\ run'.judged \in {run.judged, {}}
    <3>0. ASSUME NEW r \in RunType PROVE r \in RunType'
      <4>1. Len(slack') \in Nat /\ Len(slack) <= Len(slack')
        BY <1>0, <2>3
      <4>2. 0..Len(slack) \subseteq 0..Len(slack')
        BY <1>0, <4>1
      <4> QED BY <4>2 DEF RunType
    <3>1. CASE run' = Idle
      BY <1>1, <3>0, <3>1
    <3>2. CASE run' = [run EXCEPT !.at = "release"]
      <4>1. [run EXCEPT !.at = "release"] \in RunType /\ run'.judged = run.judged
        BY <1>0, <3>2 DEF RunType
      <4> QED BY <3>0, <3>2, <4>1
    <3>3. CASE slack' = Written(FALSE) /\ run' = [run EXCEPT !.at = "complete", !.ts = Len(slack) + 1]
      <4>1. Len(slack') = Len(slack) + 1
        BY <2>1, <3>3
      <4>2. run \in RunType' /\ Len(slack) + 1 \in 0..Len(slack')
        BY <1>0, <3>0, <4>1
      <4> QED BY <1>0, <3>3, <4>2 DEF RunType
    <3> QED BY <2>2, <3>1, <3>2, <3>3
  <2>5. IsFiniteSet(run'.judged)
    BY <1>0, <1>e, <2>4
  <2> QED BY <1>0, <2>2, <2>3, <2>4, <2>5 DEF Goal
<1> QED BY <1>3, <1>4, <1>5, <1>6, <1>7, <1>8 DEF RunSteps

DigestType(n) == [Slots -> [ts : 0..n, items : SUBSET Judgements, at : Slots]]

TaskType(n) == [Deliveries -> [at : {"none", "due", "fresh", "ended"}, ts : 0..n]]

(* What was sent and tasked stays within a longer channel.                 *)
LEMMA LongerChannel ==
    ASSUME NEW n \in Nat, NEW m \in Nat, n <= m
    PROVE  DigestType(n) \subseteq DigestType(m) /\ TaskType(n) \subseteq TaskType(m)
<1>1. 0..n \subseteq 0..m
  OBVIOUS
<1> QED BY <1>1 DEF DigestType, TaskType

(* What a digest leaves keeps its shape.                                   *)
LEMMA RunStepsKeepDigests ==
    ASSUME TInv, RunSteps
    PROVE  /\ mark' \in [Slots -> {"free", "reserved", "posted"}]
           /\ digest' \in DigestType(Len(slack'))
           /\ sentUrl' \subseteq Items /\ sentStory' \in [Stories -> Slots \cup {-1}]
<1>0. /\ run \in RunType /\ now \in Slots /\ mark \in [Slots -> {"free", "reserved", "posted"}]
      /\ sentUrl \subseteq Items /\ sentStory \in [Stories -> Slots \cup {-1}]
      /\ digest \in DigestType(Len(slack))
  BY DEF TInv, TypeOK, RunType, DigestType
<1>1. /\ Len(slack) \in Nat /\ Len(slack') \in Nat /\ Len(slack) <= Len(slack')
  <2>1. slack \in Seq(Message) /\ slack' \in Seq(Message) /\ Len(slack) <= Len(slack')
    BY RunStepsKeepRun DEF TInv, TypeOK, Message
  <2> QED BY <2>1, LenProperties
<1>2. digest \in DigestType(Len(slack'))
  BY <1>0, <1>1, LongerChannel
<1>3. CASE UNCHANGED digestVars
  BY <1>0, <1>2, <1>3 DEF digestVars
<1>4. CASE ReserveDigest \/ ReleaseDigest
  <2>1. UNCHANGED <<digest, sentUrl, sentStory>>
    BY <1>4 DEF ReserveDigest, ReleaseDigest, RunMoves, digestVars
  <2>2. mark' \in [Slots -> {"free", "reserved", "posted"}]
    BY <1>0, <1>4 DEF ReserveDigest, ReleaseDigest
  <2> QED BY <1>0, <1>2, <2>1, <2>2
<1>5. CASE CompleteDigest
  <2>1. UNCHANGED slack /\ run.ts \in 0..Len(slack) /\ run.judged \in SUBSET Judgements /\ run.since \in Slots
    BY <1>0, <1>5 DEF CompleteDigest, RunType
  <2>2. mark' \in [Slots -> {"free", "reserved", "posted"}]
    BY <1>0, <1>5 DEF CompleteDigest
  <2>3. digest' \in DigestType(Len(slack))
    BY <1>0, <1>5, <2>1 DEF CompleteDigest, DigestType
  <2>4. {j.item : j \in run.judged} \subseteq Items
    BY <2>1 DEF Judgements, Judgement
  <2>5. sentStory' \in [Stories -> Slots \cup {-1}]
    BY <1>0, <1>5 DEF CompleteDigest
  <2> QED BY <1>0, <1>5, <2>1, <2>2, <2>3, <2>4, <2>5 DEF CompleteDigest
<1>6. \/ UNCHANGED digestVars \/ ReserveDigest \/ ReleaseDigest \/ CompleteDigest
  BY DEF RunSteps, RunStarts, CheckSkip, Gather, Rank, PickItems, PostDigest, PostFails, PostStops, RunFails
<1> QED BY <1>3, <1>4, <1>5, <1>6

(* A feedback task's steps keep the shape of what they move.               *)
LEMMA FeedbackKeepsType ==
    ASSUME TypeOK, NEW d \in Deliveries,
           Deliver(d) \/ TakeReaction(d) \/ TakeReply(d) \/ SaveSignal(d) \/ TaskFails(d)
    PROVE  /\ task' \in TaskType(Len(slack)) /\ events' \subseteq Events
           /\ signal' \in [Events -> Seq(Slots)]
           /\ UNCHANGED <<now, follow, queue, started, run, mark, digest, sentUrl, sentStory, slack, kind>>
<1>0. /\ task \in TaskType(Len(slack)) /\ events \subseteq Events /\ signal \in [Events -> Seq(Slots)]
      /\ EventOf[d] \in Events /\ DOMAIN slack = 1..Len(slack) /\ Len(slack) \in Nat
  <2>1. slack \in Seq(Message)
    BY DEF TypeOK, Message
  <2> QED BY <2>1, LenProperties, EventsAssumption DEF TypeOK, TaskType, Events
<1>1. UNCHANGED <<now, follow, queue, started, run, mark, digest, sentUrl, sentStory, slack, kind>>
  BY DEF Deliver, TakeReaction, TakeReply, SaveSignal, TaskFails, TaskMoves, interestVars, runVars, digestVars
<1>2. \A at \in {"none", "due", "fresh", "ended"} : [task EXCEPT ![d].at = at] \in TaskType(Len(slack))
  BY <1>0 DEF TaskType
<1>3. CASE Deliver(d)
  <2>1. PICK ts \in DOMAIN slack : task' = [task EXCEPT ![d] = [at |-> "due", ts |-> ts]]
    BY <1>3 DEF Deliver
  <2>2. ts \in 0..Len(slack)
    BY <1>0
  <2>3. task' \in TaskType(Len(slack))
    BY <1>0, <2>1, <2>2 DEF TaskType
  <2> QED BY <1>0, <1>1, <1>3, <2>3 DEF Deliver
<1>4. CASE TakeReaction(d) \/ TakeReply(d) \/ TaskFails(d)
  BY <1>0, <1>1, <1>2, <1>4 DEF TakeReaction, TakeReply, TaskFails, TaskMoves
<1>5. CASE SaveSignal(d)
  <2>1. task' \in TaskType(Len(slack)) /\ UNCHANGED events
    BY <1>2, <1>5 DEF SaveSignal, TaskMoves
  <2>2. DigestsByTS(task[d].ts) # {} => (CHOOSE s \in DigestsByTS(task[d].ts) : TRUE) \in Slots
    BY DEF DigestsByTS
  <2>3. \A s \in Slots : Append(signal[EventOf[d]], s) \in Seq(Slots)
    BY <1>0, AppendProperties
  <2>4. signal' \in [Events -> Seq(Slots)]
    BY <1>0, <1>5, <2>2, <2>3 DEF SaveSignal
  <2> QED BY <1>0, <1>1, <2>1, <2>4
<1> QED BY <1>3, <1>4, <1>5

(* Every step keeps the shape.                                             *)
LEMMA NextTInv ==
    ASSUME TInv, [Next]_vars
    PROVE  TInv'
<1>0. TypeOK
  BY DEF TInv
<1>1. CASE RunSteps
  <2>1. /\ task \in TaskType(Len(slack'))
    <3>1. slack \in Seq(Message) /\ slack' \in Seq(Message) /\ Len(slack) <= Len(slack')
      BY <1>1, RunStepsKeepRun DEF TInv, TypeOK, Message
    <3> QED BY <1>0, <3>1, LenProperties, LongerChannel DEF TypeOK, TaskType
  <2> QED BY <1>0, <1>1, <2>1, RunStepsKeepRun, RunStepsKeepDigests, RunFrame
           DEF TInv, TypeOK, RunType, Message, DigestType, TaskType
<1>2. ASSUME NEW d \in Deliveries,
             Deliver(d) \/ TakeReaction(d) \/ TakeReply(d) \/ SaveSignal(d) \/ TaskFails(d)
      PROVE  TInv'
  BY <1>0, <1>2, FeedbackKeepsType DEF TInv, TypeOK, TaskType
<1>3. CASE Tick
  <2>1. now' \in Slots
    BY <1>0, <1>3, BoundsAssumption DEF Tick, TypeOK, Slots
  <2> QED BY <1>0, <1>3, <2>1 DEF Tick, TInv, TypeOK, interestVars, runVars, digestVars, feedbackVars
<1>4. CASE NewsShorts
  <2>1. started' \in 0..MaxRuns
    BY <1>0, <1>4, BoundsAssumption DEF NewsShorts, TypeOK
  <2>2. queue' \in Seq(Slots)
    BY <1>0, <1>4, AppendProperties DEF NewsShorts, TypeOK
  <2> QED BY <1>0, <1>4, <2>1, <2>2 DEF NewsShorts, TInv, TypeOK, interestVars, digestVars, feedbackVars
<1>5. CASE InterestSteps
  <2>1. follow' \in [Interests -> {"absent", "none", "active", "muted"}]
    <3>1. \E i \in Interests, status \in {"none", "active", "muted"} : follow' = [follow EXCEPT ![i] = status]
      BY <1>5 DEF InterestSteps, AddInterest, FollowInterest, FollowDefault, SetInterestStatus
    <3>2. follow \in [Interests -> {"absent", "none", "active", "muted"}]
      BY <1>0 DEF TypeOK
    <3> QED BY <3>1, <3>2
  <2>2. UNCHANGED <<now, runVars, digestVars, slack, feedbackVars>>
    BY <1>5 DEF InterestSteps, AddInterest, FollowInterest, FollowDefault, SetInterestStatus
  <2> QED BY <1>0, <2>1, <2>2 DEF TInv, TypeOK, runVars, digestVars, feedbackVars
<1>6. CASE UNCHANGED vars
  BY <1>0, <1>6 DEF vars, TInv, TypeOK
<1> QED BY <1>1, <1>2, <1>3, <1>4, <1>5, <1>6 DEF Next, FeedbackSteps

(* Every variable keeps its shape, for any items, slots, runs and events:  *)
(* what is judged, picked and posted is of items that were in the feeds.   *)
THEOREM TypeCorrect == Spec => []TypeOK
<1>1. TInv => TypeOK
  BY DEF TInv
<1> QED BY <1>1, InitTInv, NextTInv, PTL DEF Spec

-----------------------------------------------------------------------------
(* A slot's messages. A run about to write has its slot reserved and no    *)
(* message of it; one that wrote it knows where. What PostOnce says, that  *)
(* a slot's row tells its messages, is not enough for that.                *)
Sent == [s \in Slots |-> SentOf(s)]

RunHasSlot ==
    /\ run.at \in {"slack", "release"} => mark[run.slot] = "reserved" /\ Sent[run.slot] = 0
    /\ run.at = "complete" =>
          /\ mark[run.slot] = "reserved" /\ Sent[run.slot] = 1
          /\ run.ts \in 1..Len(slack) /\ slack[run.ts] = [slot |-> run.slot, lost |-> FALSE]

FreeIsUnsent == \A s \in Slots : mark[s] = "free" => Sent[s] = 0

PostedIsThere ==
    \A s \in Slots : mark[s] = "posted" =>
        /\ digest[s].ts \in 1..Len(slack)
        /\ slack[digest[s].ts] = [slot |-> s, lost |-> FALSE]

BInv == RunHasSlot /\ FreeIsUnsent /\ PostedIsThere

(* A message more counts for its slot unless it is lost.                   *)
LEMMA WrittenCounts ==
    ASSUME TypeOK, NEW lost \in BOOLEAN, slack' = Written(lost)
    PROVE  Sent' = IF lost THEN Sent ELSE [Sent EXCEPT ![run.slot] = @ + 1]
<1>1. ASSUME NEW s \in Slots
      PROVE  SentOf(s)' = IF s = run.slot /\ ~lost THEN SentOf(s) + 1 ELSE SentOf(s)
  <2> DEFINE n == Len(slack)
             T == {ts \in 1..n : slack[ts].slot = s /\ ~slack[ts].lost}
             U == {ts \in 1..(n + 1) : Written(lost)[ts].slot = s /\ ~Written(lost)[ts].lost}
  <2>1. /\ n \in Nat /\ DOMAIN slack = 1..n /\ DOMAIN Written(lost) = 1..(n + 1)
        /\ \A ts \in 1..n : Written(lost)[ts] = slack[ts]
        /\ Written(lost)[n + 1] = [slot |-> run.slot, lost |-> lost]
    BY WrittenIs
  <2>2. SentOf(s) = Cardinality(T) /\ SentOf(s)' = Cardinality(U)
    BY <2>1 DEF SentOf
  <2>3. U = IF s = run.slot /\ ~lost THEN T \cup {n + 1} ELSE T
    <3>1. \A ts \in 1..(n + 1) : ts \in U <=> (ts \in T \/ (ts = n + 1 /\ s = run.slot /\ ~lost))
      BY <2>1
    <3> QED BY <2>1, <3>1
  <2>4. IsFiniteSet(T) /\ n + 1 \notin T
    <3>1. IsFiniteSet(1..n)
      BY <2>1, FS_Interval
    <3> QED BY <2>1, <3>1, FS_Subset
  <2> HIDE DEF T, U
  <2> QED BY <2>2, <2>3, <2>4, FS_AddElement
<1>2. run.slot \in Slots
  BY DEF TypeOK
<1> QED BY <1>1, <1>2 DEF Sent

(* Nothing is sent at first, nothing is in hand.                           *)
LEMMA InitBInv == Init => BInv /\ Once!Init
<1> SUFFICES ASSUME Init PROVE BInv /\ Once!Init
  OBVIOUS
<1>1. ASSUME NEW s \in Slots PROVE SentOf(s) = 0
  <2>1. {ts \in DOMAIN slack : slack[ts].slot = s /\ ~slack[ts].lost} = {}
    BY DEF Init
  <2> QED BY <2>1, FS_EmptySet DEF SentOf
<1> QED BY <1>1 DEF Init, Sent, BInv, RunHasSlot, FreeIsUnsent, PostedIsThere, Idle, Once!Init

(* When neither the marks nor the channel change, the run keeps its slot.  *)
LEMMA SameSlots ==
    ASSUME BInv, UNCHANGED <<mark, digest, slack>>,
           run' = run \/ run'.at \notin {"slack", "release", "complete"}
    PROVE  BInv' /\ UNCHANGED Once!vars
<1>1. Sent' = Sent
  BY DEF Sent, SentOf
<1>2. UNCHANGED Once!vars
  BY <1>1 DEF Once!vars, Sent
<1> QED BY <1>1, <1>2 DEF BInv, RunHasSlot, FreeIsUnsent, PostedIsThere

(* The steps of PostOnce, of the messages there are.                       *)
LEMMA OnceSteps ==
    ASSUME NEW q \in Slots,
           \/ mark[q] = "free" /\ Sent[q] = 0 /\ mark' = [mark EXCEPT ![q] = "reserved"] /\ Sent' = Sent
           \/ mark[q] = "reserved" /\ Sent[q] = 0 /\ Sent' = [Sent EXCEPT ![q] = 1] /\ mark' = mark
           \/ mark[q] = "reserved" /\ Sent[q] = 0 /\ mark' = [mark EXCEPT ![q] = "free"] /\ Sent' = Sent
           \/ mark[q] = "reserved" /\ Sent[q] = 1 /\ mark' = [mark EXCEPT ![q] = "posted"] /\ Sent' = Sent
    PROVE  Once!Next
<1>1. Once!Reserve(q) \/ Once!Post(q) \/ Once!Release(q) \/ Once!Complete(q)
  BY DEF Sent, Once!Reserve, Once!Post, Once!Release, Once!Complete
<1> QED BY <1>1 DEF Once!Next

(* Every step keeps it, and is a step of PostOnce or changes none of its   *)
(* variables.                                                              *)
LEMMA NextBInv ==
    ASSUME TInv, BInv, [Next]_vars
    PROVE  BInv' /\ [Once!Next]_(Once!vars)
<1>0. /\ TypeOK /\ run \in RunType /\ mark \in [Slots -> {"free", "reserved", "posted"}]
      /\ Len(slack) \in Nat /\ slack \in Seq(Message) /\ digest \in DigestType(Len(slack))
  <2>1. slack \in Seq(Message)
    BY DEF TInv, TypeOK, Message
  <2> QED BY <2>1, LenProperties DEF TInv, TypeOK, RunType, DigestType
<1> DEFINE q == run.slot
<1>q. q \in Slots /\ Sent = [s \in Slots |-> Sent[s]]
  BY <1>0 DEF RunType, Sent
<1>1. CASE ~RunSteps
  <2>1. UNCHANGED <<run, mark, digest, slack>>
    BY <1>1, OthersFrame DEF vars
  <2> QED BY <2>1, SameSlots
<1>2. CASE RunStarts \/ CheckSkip \/ Gather \/ Rank \/ PickItems \/ RunFails
  <2>1. UNCHANGED <<mark, digest, slack>>
    BY <1>2 DEF RunStarts, CheckSkip, Gather, Rank, PickItems, RunFails, digestVars
  <2>2. run'.at \in {"idle", "check", "gather", "rank", "pick", "reserve"}
    <3>1. CASE RunStarts
      BY <3>1 DEF RunStarts, Idle
    <3>2. CASE CheckSkip
      BY <1>0, <3>2 DEF CheckSkip, RunMoves, Idle, RunType
    <3>3. CASE Gather
      <4>1. \E I : run' = [run EXCEPT !.at = "rank", !.items = I]
        BY <3>3 DEF Gather, RunMoves
      <4> QED BY <1>0, <4>1 DEF RunType
    <3>4. CASE Rank
      <4>1. \E J : run' = [run EXCEPT !.at = "pick", !.items = {}, !.judged = J]
        BY <3>4 DEF Rank, RunMoves
      <4> QED BY <1>0, <4>1 DEF RunType
    <3>5. CASE PickItems
      <4>1. PICK P : run' = Idle \/ run' = [run EXCEPT !.at = "reserve", !.judged = P, !.since = now]
        BY <3>5 DEF PickItems, RunMoves
      <4>2. CASE run' = [run EXCEPT !.at = "reserve", !.judged = P, !.since = now]
        BY <1>0, <4>2 DEF RunType
      <4> QED BY <4>1, <4>2 DEF Idle
    <3>6. CASE RunFails
      BY <3>6 DEF RunFails, RunMoves, Idle
    <3> QED BY <1>2, <3>1, <3>2, <3>3, <3>4, <3>5, <3>6
  <2> QED BY <2>1, <2>2, SameSlots
<1>3. CASE ReserveDigest
  <2>1. UNCHANGED <<digest, slack>> /\ Sent' = Sent
    BY <1>3 DEF ReserveDigest, Sent, SentOf
  <2>2. CASE mark[q] = "free"
    <3>1. mark' = [mark EXCEPT ![q] = "reserved"] /\ run' = [run EXCEPT !.at = "slack"]
      BY <1>3, <2>2 DEF ReserveDigest, RunMoves
    <3>2. Sent[q] = 0
      BY <1>q, <2>2 DEF BInv, FreeIsUnsent
    <3>3. run'.slot = q /\ run'.at = "slack"
      BY <1>0, <3>1 DEF RunType
    <3>4. BInv'
      BY <1>0, <1>q, <2>1, <3>1, <3>2, <3>3 DEF BInv, RunHasSlot, FreeIsUnsent, PostedIsThere
    <3> QED BY <1>q, <2>1, <2>2, <3>1, <3>2, <3>4, OnceSteps
  <2>3. CASE mark[q] # "free"
    BY <1>3, <2>1, <2>3, SameSlots DEF ReserveDigest, RunMoves, Idle
  <2> QED BY <2>2, <2>3
<1>4. CASE PostDigest \/ PostStops
  <2>1. /\ slack' = Written(FALSE) /\ UNCHANGED <<mark, digest>>
        /\ run' = Idle \/ run' = [run EXCEPT !.at = "complete", !.ts = Len(slack) + 1]
    BY <1>4 DEF PostDigest, PostStops, RunMoves, digestVars
  <2>2. mark[q] = "reserved" /\ Sent[q] = 0
    BY <1>4 DEF PostDigest, PostStops, BInv, RunHasSlot
  <2>3. Sent' = [Sent EXCEPT ![q] = 1]
    <3>1. FALSE \in BOOLEAN
      OBVIOUS
    <3>2. Sent' = [Sent EXCEPT ![q] = @ + 1]
      BY <1>0, <2>1, <3>1, WrittenCounts
    <3> QED BY <1>q, <2>2, <3>2
  <2>4. /\ Len(slack') = Len(slack) + 1 /\ slack'[Len(slack) + 1] = [slot |-> q, lost |-> FALSE]
        /\ \A ts \in 1..Len(slack) : slack'[ts] = slack[ts]
    <3>1. FALSE \in BOOLEAN
      OBVIOUS
    <3> QED BY <1>0, <2>1, <3>1, WrittenIs
  <2>5. RunHasSlot'
    <3>1. CASE run' = Idle
      BY <3>1 DEF RunHasSlot, Idle
    <3>2. CASE run' = [run EXCEPT !.at = "complete", !.ts = Len(slack) + 1]
      <4>1. run'.at = "complete" /\ run'.ts = Len(slack) + 1 /\ run'.slot = q
        BY <1>0, <3>2 DEF RunType
      <4>2. Sent'[q] = 1 /\ mark'[q] = "reserved"
        BY <1>q, <2>1, <2>2, <2>3
      <4> QED BY <1>0, <2>4, <4>1, <4>2 DEF RunHasSlot
    <3> QED BY <2>1, <3>1, <3>2
  <2>6. FreeIsUnsent'
    BY <1>0, <1>q, <2>1, <2>2, <2>3 DEF BInv, FreeIsUnsent
  <2>7. PostedIsThere'
    <3>1. Len(slack') \in Nat /\ \A ts \in 1..Len(slack) : slack'[ts] = slack[ts] /\ ts \in 1..Len(slack')
      BY <1>0, <2>4
    <3> QED BY <2>1, <3>1 DEF BInv, PostedIsThere
  <2> QED BY <1>q, <2>1, <2>2, <2>3, <2>5, <2>6, <2>7, OnceSteps DEF BInv
<1>5. CASE PostFails
  <2>1. /\ slack' = slack \/ slack' = Written(TRUE)
        /\ UNCHANGED <<mark, digest>>
        /\ run' = [run EXCEPT !.at = "release"]
    BY <1>5 DEF PostFails, RunMoves, digestVars
  <2>2. mark[q] = "reserved" /\ Sent[q] = 0 /\ run'.at = "release" /\ run'.slot = q
    BY <1>0, <1>5, <2>1 DEF PostFails, BInv, RunHasSlot, RunType
  <2>3. TRUE \in BOOLEAN
    OBVIOUS
  <2>4. Sent' = Sent
    <3>1. CASE slack' = slack
      BY <3>1 DEF Sent, SentOf
    <3>2. CASE slack' = Written(TRUE)
      BY <1>0, <2>3, <3>2, WrittenCounts
    <3> QED BY <2>1, <3>1, <3>2
  <2>5. \A ts \in 1..Len(slack) : slack'[ts] = slack[ts] /\ ts \in 1..Len(slack')
    <3>1. CASE slack' = slack
      BY <3>1
    <3>2. CASE slack' = Written(TRUE)
      <4>1. Len(slack') = Len(slack) + 1 /\ \A ts \in 1..Len(slack) : slack'[ts] = slack[ts]
        BY <1>0, <2>3, <3>2, WrittenIs
      <4> QED BY <1>0, <4>1
    <3> QED BY <2>1, <3>1, <3>2
  <2>6. PostedIsThere'
    BY <2>1, <2>5 DEF BInv, PostedIsThere
  <2>7. RunHasSlot' /\ FreeIsUnsent'
    BY <2>1, <2>2, <2>4 DEF BInv, RunHasSlot, FreeIsUnsent
  <2>8. UNCHANGED Once!vars
    BY <2>1, <2>4 DEF Once!vars, Sent
  <2> QED BY <2>6, <2>7, <2>8 DEF BInv
<1>6. CASE ReleaseDigest \/ CompleteDigest
  <2>1. UNCHANGED slack /\ run' = Idle /\ mark[q] = "reserved"
    BY <1>6 DEF ReleaseDigest, CompleteDigest, RunMoves, BInv, RunHasSlot
  <2>2. Sent' = Sent /\ RunHasSlot'
    BY <2>1 DEF Sent, SentOf, RunHasSlot, Idle
  <2>3. CASE ReleaseDigest
    <3>1. mark' = [mark EXCEPT ![q] = "free"] /\ UNCHANGED digest /\ Sent[q] = 0
      BY <1>0, <2>1, <2>3 DEF ReleaseDigest, BInv, RunHasSlot
    <3>2. FreeIsUnsent' /\ PostedIsThere'
      BY <1>0, <2>1, <2>2, <3>1 DEF BInv, FreeIsUnsent, PostedIsThere
    <3> QED BY <1>q, <2>1, <2>2, <3>1, <3>2, OnceSteps DEF BInv
  <2>4. CASE CompleteDigest
    <3>1. /\ mark' = [mark EXCEPT ![q] = "posted"] /\ Sent[q] = 1
          /\ run.ts \in 1..Len(slack) /\ slack[run.ts] = [slot |-> q, lost |-> FALSE]
          /\ digest' = [digest EXCEPT ![q] = [ts |-> run.ts, items |-> run.judged, at |-> run.since]]
      BY <2>4 DEF CompleteDigest, BInv, RunHasSlot
    <3>2. \A s \in Slots : digest'[s].ts = IF s = q THEN run.ts ELSE digest[s].ts
      BY <1>0, <3>1 DEF DigestType
    <3>3. \A s \in Slots : mark'[s] = IF s = q THEN "posted" ELSE mark[s]
      BY <1>0, <3>1
    <3>4. PostedIsThere'
      <4>1. ASSUME NEW s \in Slots, mark'[s] = "posted"
            PROVE  digest'[s].ts \in 1..Len(slack) /\ slack[digest'[s].ts] = [slot |-> s, lost |-> FALSE]
        <5>1. CASE s = q
          BY <3>1, <3>2, <5>1
        <5>2. CASE s # q
          BY <3>2, <3>3, <4>1, <5>2 DEF BInv, PostedIsThere
        <5> QED BY <5>1, <5>2
      <4> QED BY <2>1, <4>1 DEF PostedIsThere
    <3>5. FreeIsUnsent'
      BY <2>2, <3>3 DEF BInv, FreeIsUnsent
    <3> QED BY <1>q, <2>1, <2>2, <3>1, <3>4, <3>5, OnceSteps DEF BInv
  <2> QED BY <1>6, <2>3, <2>4
<1> QED BY <1>1, <1>2, <1>3, <1>4, <1>5, <1>6 DEF RunSteps

(* NewsDigest implements PostOnce: for any slots, runs started twice, lost *)
(* answers of Slack and workers that stop at any point, a slot's digest is *)
(* written at most once, and never for a row given back.                   *)
THEOREM PostsOnceAlways == Spec => PostsOnce
BY InitTInv, NextTInv, InitBInv, NextBInv, PTL DEF Spec, PostsOnce, Once!Spec

-----------------------------------------------------------------------------
(* The links. What a run has in hand was not sent, as no other run of the  *)
(* user's writes meanwhile; what a digest has was.                         *)
Links(J) == {j.item : j \in J}

LInv ==
    /\ run.items \cap sentUrl = {} /\ Links(run.judged) \cap sentUrl = {}
    /\ \A s \in Slots : Links(digest[s].items) \subseteq sentUrl
    /\ LinkOnce

(* Nothing is sent at first.                                               *)
LEMMA InitLInv == Init => LInv
BY DEF Init, Idle, NoDigest, LInv, Links, LinkOnce

(* While nothing is sent it is enough to see what the run takes up.        *)
LEMMA SameLinks ==
    ASSUME LInv, UNCHANGED <<digest, sentUrl>>,
           run'.items \cap sentUrl = {}, Links(run'.judged) \cap sentUrl = {}
    PROVE  LInv'
BY DEF LInv, Links, LinkOnce

(* Every step keeps the links apart.                                       *)
LEMMA NextLInv ==
    ASSUME TInv, LInv, [Next]_vars
    PROVE  LInv'
<1>0. /\ run \in RunType /\ IsFiniteSet(run.judged) /\ digest \in DigestType(Len(slack))
      /\ run.items \cap sentUrl = {} /\ Links(run.judged) \cap sentUrl = {}
      /\ Links({}) = {}
  BY DEF TInv, TypeOK, RunType, DigestType, LInv, Links
<1>1. CASE ~RunSteps
  <2>1. UNCHANGED <<run, digest, sentUrl>>
    BY <1>1, OthersFrame DEF vars
  <2> QED BY <1>0, <2>1, SameLinks
<1>2. CASE RunStarts \/ CheckSkip \/ ReserveDigest \/ PostDigest \/ PostFails \/ PostStops
             \/ ReleaseDigest \/ RunFails
  <2>1. UNCHANGED <<digest, sentUrl>>
    BY <1>2 DEF RunStarts, CheckSkip, ReserveDigest, PostDigest, PostFails, PostStops, ReleaseDigest,
                RunFails, digestVars
  <2>2. run'.items \in {run.items, {}} /\ run'.judged \in {run.judged, {}}
    <3>1. \/ run' = Idle \/ run' = [Idle EXCEPT !.at = "check", !.slot = Head(queue)]
          \/ run' = [run EXCEPT !.at = "gather"] \/ run' = [run EXCEPT !.at = "slack"]
          \/ run' = [run EXCEPT !.at = "complete", !.ts = Len(slack) + 1]
          \/ run' = [run EXCEPT !.at = "release"]
      BY <1>2 DEF RunStarts, CheckSkip, ReserveDigest, PostDigest, PostFails, PostStops, ReleaseDigest,
                  RunFails, RunMoves
    <3>2. CASE run' = Idle
      BY <3>2 DEF Idle
    <3>5. CASE run' = [Idle EXCEPT !.at = "check", !.slot = Head(queue)]
      BY <3>5 DEF Idle
    <3>3. ASSUME NEW at, run' = [run EXCEPT !.at = at] PROVE run'.items = run.items /\ run'.judged = run.judged
      BY <1>0, <3>3 DEF RunType
    <3>4. CASE run' = [run EXCEPT !.at = "complete", !.ts = Len(slack) + 1]
      BY <1>0, <3>4 DEF RunType
    <3> QED BY <3>1, <3>2, <3>3, <3>4, <3>5
  <2> QED BY <1>0, <2>1, <2>2, SameLinks
<1>3. CASE Gather
  <2>1. PICK read \in FeedsRead : run' = [run EXCEPT !.at = "rank", !.items = Unsent(read)]
    BY <1>3 DEF Gather, RunMoves
  <2>2. run'.items = Unsent(read) /\ run'.judged = run.judged
    BY <1>0, <2>1 DEF RunType
  <2>3. Unsent(read) \cap sentUrl = {}
    BY DEF Unsent
  <2> QED BY <1>0, <1>3, <2>2, <2>3, SameLinks DEF Gather, digestVars
<1>4. CASE Rank
  <2>1. \E I \in SUBSET run.items : \E f \in [I -> Judged] :
            run' = [run EXCEPT !.at = "pick", !.items = {}, !.judged = {Judgement(i, f[i]) : i \in I}]
    <3>1. PICK ranked \in SUBSET {InterestOf[i] : i \in run.items} :
             \E f \in [{i \in run.items : InterestOf[i] \in ranked} -> Judged] :
               run' = [run EXCEPT !.at = "pick", !.items = {},
                          !.judged = {Judgement(i, f[i]) : i \in {k \in run.items : InterestOf[k] \in ranked}}]
      BY <1>4 DEF Rank, RunMoves
    <3> DEFINE I == {i \in run.items : InterestOf[i] \in ranked}
    <3>2. I \in SUBSET run.items
      OBVIOUS
    <3> QED BY <3>1, <3>2
  <2> PICK I \in SUBSET run.items : \E f \in [I -> Judged] :
            run' = [run EXCEPT !.at = "pick", !.items = {}, !.judged = {Judgement(i, f[i]) : i \in I}]
    BY <2>1
  <2> PICK f \in [I -> Judged] :
            run' = [run EXCEPT !.at = "pick", !.items = {}, !.judged = {Judgement(i, f[i]) : i \in I}]
    OBVIOUS
  <2> DEFINE J == {Judgement(i, f[i]) : i \in I}
  <2>2. Links(J) \subseteq I
    BY DEF Links, Judgement
  <2> HIDE DEF J
  <2>3. run'.items = {} /\ run'.judged = J
    BY <1>0 DEF RunType, J
  <2> QED BY <1>0, <1>4, <2>2, <2>3, SameLinks DEF Rank, digestVars
<1>5. CASE PickItems
  <2>1. PICK s \in Orders(Eligible(run.judged, RecentStories), Likes) :
            run' = IF Pick(s) = {} THEN Idle
                   ELSE [run EXCEPT !.at = "reserve", !.judged = Pick(s), !.since = now]
    BY <1>5 DEF PickItems, RunMoves
  <2> DEFINE P == Pick(s)
  <2>2. P \subseteq run.judged
    BY <1>0, PicksAre
  <2>3. run'.items \in {run.items, {}} /\ run'.judged \in {P, {}}
    <3> HIDE DEF P
    <3>1. run' = Idle \/ run' = [run EXCEPT !.at = "reserve", !.judged = P, !.since = now]
      BY <2>1 DEF P
    <3>2. CASE run' = [run EXCEPT !.at = "reserve", !.judged = P, !.since = now]
      BY <1>0, <3>2 DEF RunType
    <3> QED BY <3>1, <3>2 DEF Idle
  <2>4. Links(P) \subseteq Links(run.judged)
    BY <2>2 DEF Links
  <2> HIDE DEF P
  <2> QED BY <1>0, <1>5, <2>3, <2>4, SameLinks DEF PickItems, digestVars
<1>6. CASE CompleteDigest
  <2> DEFINE q == run.slot
  <2>1. /\ sentUrl' = sentUrl \cup Links(run.judged) /\ run' = Idle
        /\ digest' = [digest EXCEPT ![q] = [ts |-> run.ts, items |-> run.judged, at |-> run.since]]
    BY <1>6 DEF CompleteDigest, RunMoves, Links
  <2>2. \A s \in Slots : digest'[s].items = IF s = q THEN run.judged ELSE digest[s].items
    BY <1>0, <2>1 DEF DigestType
  <2>3. \A s \in Slots : Links(digest'[s].items) = IF s = q THEN Links(run.judged) ELSE Links(digest[s].items)
    BY <2>2
  <2>4. \A s \in Slots : Links(digest[s].items) \cap Links(run.judged) = {}
    BY <1>0 DEF LInv
  <2>5. \A s \in Slots : Links(digest'[s].items) \subseteq sentUrl'
    BY <2>1, <2>3 DEF LInv
  <2>6. \A s, t \in Slots : s # t => Links(digest[s].items) \cap Links(digest[t].items) = {}
    BY DEF LInv, LinkOnce, Links
  <2>7. \A s, t \in Slots : s # t => Links(digest'[s].items) \cap Links(digest'[t].items) = {}
    BY <2>3, <2>4, <2>6
  <2>8. LinkOnce'
    BY <2>7 DEF LinkOnce, Links
  <2>9. run'.items = {} /\ Links(run'.judged) = {}
    BY <1>0, <2>1 DEF Idle
  <2> QED BY <2>5, <2>8, <2>9 DEF LInv
<1> QED BY <1>1, <1>2, <1>3, <1>4, <1>5, <1>6 DEF RunSteps

(* No link is ever in two digests, for any feeds and however many runs a   *)
(* slot has, fail or stop.                                                 *)
THEOREM LinkOnceAlways == Spec => []LinkOnce
<1>1. LInv => LinkOnce
  BY DEF LInv
<1> QED BY <1>1, InitTInv, NextTInv, InitLInv, NextLInv, PTL DEF Spec

-----------------------------------------------------------------------------
(* The stories. What is picked was not sent within the window before the   *)
(* time it was picked at, and a story's last sending is no earlier than    *)
(* any digest that has it.                                                 *)
Before(t, at) == sentStory[t] = -1 \/ sentStory[t] < at - StoryWindow

PickedAfresh ==
    run.at \in {"reserve", "slack", "release", "complete"} =>
        /\ run.since <= now
        /\ \A j \in run.judged : j.story # NoName => Before(j.story, run.since)

SentSince ==
    \A s \in Slots : \A j \in digest[s].items : j.story # NoName => digest[s].at <= sentStory[j.story]

SInv == PickedAfresh /\ SentSince /\ StoryOnce

(* Nothing is sent at first.                                               *)
LEMMA InitSInv == Init => SInv
BY DEF Init, Idle, NoDigest, SInv, PickedAfresh, SentSince, StoryOnce

(* A judgement's story is a story.                                         *)
LEMMA StoriesAre == \A j \in Judgements : j.story # NoName => j.story \in Stories
BY DEF Judgements, Judgement, Stories

(* While nothing is posted it is enough to see what is picked.             *)
LEMMA SameStories ==
    ASSUME SInv, UNCHANGED <<digest, sentStory>>, \A s \in Slots : mark'[s] = "posted" => mark[s] = "posted",
           PickedAfresh'
    PROVE  SInv'
BY DEF SInv, SentSince, StoryOnce

(* Every step keeps a story's digests apart.                               *)
LEMMA NextSInv ==
    ASSUME TInv, SInv, [Next]_vars
    PROVE  SInv'
<1>0. /\ run \in RunType /\ IsFiniteSet(run.judged) /\ digest \in DigestType(Len(slack))
      /\ mark \in [Slots -> {"free", "reserved", "posted"}] /\ sentStory \in [Stories -> Slots \cup {-1}]
      /\ now \in Nat /\ StoryWindow \in Nat /\ Slots \subseteq Nat
  <2>1. Slots \subseteq Nat /\ StoryWindow \in Nat
    BY BoundsAssumption DEF Slots
  <2> QED BY <2>1 DEF TInv, TypeOK, RunType, DigestType
<1>p. SInv => PickedAfresh
  BY DEF SInv
<1>1. CASE ~RunSteps
  <2>1. UNCHANGED <<run, mark, digest, sentStory>>
    BY <1>1, OthersFrame DEF vars
  <2>2. now <= now'
    BY <1>0, <1>1 DEF Next, Tick, NewsShorts, InterestSteps, AddInterest, FollowInterest, SetInterestStatus,
       FollowDefault, FeedbackSteps, Deliver, TakeReaction, TakeReply, SaveSignal, TaskFails, TaskMoves, vars
  <2>3. run.since \in Nat /\ now' \in Nat
    <3>1. now' \in Slots
      BY NextTInv DEF TInv, TypeOK
    <3> QED BY <1>0, <3>1 DEF RunType
  <2>4. PickedAfresh'
    BY <1>0, <1>p, <2>1, <2>2, <2>3 DEF PickedAfresh, Before
  <2> QED BY <2>1, <2>4, SameStories
<1>2. CASE RunStarts \/ CheckSkip \/ Gather \/ Rank \/ RunFails
  <2>1. UNCHANGED <<mark, digest, sentStory>>
    BY <1>2 DEF RunStarts, CheckSkip, Gather, Rank, RunFails, digestVars
  <2>2. run'.at \in {"idle", "check", "gather", "rank", "pick"}
    <3>1. CASE RunStarts
      BY <3>1 DEF RunStarts, Idle
    <3>2. CASE CheckSkip
      BY <1>0, <3>2 DEF CheckSkip, RunMoves, Idle, RunType
    <3>3. CASE Gather
      <4>1. \E I : run' = [run EXCEPT !.at = "rank", !.items = I]
        BY <3>3 DEF Gather, RunMoves
      <4> QED BY <1>0, <4>1 DEF RunType
    <3>4. CASE Rank
      <4>1. \E J : run' = [run EXCEPT !.at = "pick", !.items = {}, !.judged = J]
        BY <3>4 DEF Rank, RunMoves
      <4> QED BY <1>0, <4>1 DEF RunType
    <3>5. CASE RunFails
      BY <3>5 DEF RunFails, RunMoves, Idle
    <3> QED BY <1>2, <3>1, <3>2, <3>3, <3>4, <3>5
  <2>3. PickedAfresh'
    BY <2>2 DEF PickedAfresh
  <2> QED BY <2>1, <2>3, SameStories
<1>3. CASE PickItems
  <2>1. PICK s \in Orders(Eligible(run.judged, RecentStories), Likes) :
            run' = IF Pick(s) = {} THEN Idle
                   ELSE [run EXCEPT !.at = "reserve", !.judged = Pick(s), !.since = now]
    BY <1>3 DEF PickItems, RunMoves
  <2> DEFINE P == Pick(s)
  <2>2. P \subseteq Eligible(run.judged, RecentStories) /\ P \subseteq run.judged
    BY <1>0, PicksAre
  <2>3. UNCHANGED <<now, mark, digest, sentStory>>
    BY <1>3 DEF PickItems, RunMoves, digestVars
  <2>4. ASSUME NEW j \in P, j.story # NoName PROVE Before(j.story, now)
    <3>1. j.story \in Stories /\ j.story \notin RecentStories
      <4>1. j \in Judgements
        BY <1>0, <2>2 DEF RunType
      <4> QED BY <2>2, <2>4, <4>1, StoriesAre DEF Eligible
    <3>2. sentStory[j.story] \in Nat \cup {-1}
      BY <1>0, <3>1
    <3> QED BY <1>0, <3>1, <3>2 DEF RecentStories, Before
  <2>5. PickedAfresh'
    <3> HIDE DEF P
    <3>1. CASE run' = Idle
      BY <3>1 DEF PickedAfresh, Idle
    <3>2. CASE run' = [run EXCEPT !.at = "reserve", !.judged = P, !.since = now]
      <4>1. run'.judged = P /\ run'.since = now
        BY <1>0, <3>2 DEF RunType
      <4> QED BY <1>0, <2>3, <2>4, <4>1 DEF PickedAfresh, Before
    <3> QED BY <2>1, <3>1, <3>2 DEF P
  <2> QED BY <2>3, <2>5, SameStories
<1>4. CASE ReserveDigest \/ PostDigest \/ PostFails \/ PostStops \/ ReleaseDigest
  <2>1. UNCHANGED <<now, digest, sentStory>>
    BY <1>4 DEF ReserveDigest, PostDigest, PostFails, PostStops, ReleaseDigest, RunMoves, digestVars
  <2>2. \A s \in Slots : mark'[s] = "posted" => mark[s] = "posted"
    BY <1>0, <1>4 DEF ReserveDigest, PostDigest, PostFails, PostStops, ReleaseDigest, digestVars
  <2>3. /\ run.at \in {"reserve", "slack", "release", "complete"}
        /\ \/ run' = Idle \/ run' = [run EXCEPT !.at = "slack"] \/ run' = [run EXCEPT !.at = "release"]
           \/ run' = [run EXCEPT !.at = "complete", !.ts = Len(slack) + 1]
    BY <1>4 DEF ReserveDigest, PostDigest, PostFails, PostStops, ReleaseDigest, RunMoves
  <2>4. PickedAfresh'
    <3>1. CASE run' = Idle
      BY <3>1 DEF PickedAfresh, Idle
    <3>2. ASSUME NEW at, run' = [run EXCEPT !.at = at] PROVE run'.judged = run.judged /\ run'.since = run.since
      BY <1>0, <3>2 DEF RunType
    <3>3. CASE run' = [run EXCEPT !.at = "complete", !.ts = Len(slack) + 1]
      <4>1. run'.judged = run.judged /\ run'.since = run.since
        BY <1>0, <3>3 DEF RunType
      <4> QED BY <1>p, <2>1, <2>3, <4>1 DEF PickedAfresh, Before
    <3>4. CASE run' = [run EXCEPT !.at = "slack"] \/ run' = [run EXCEPT !.at = "release"]
      BY <1>p, <2>1, <2>3, <3>2, <3>4 DEF PickedAfresh, Before
    <3> QED BY <2>3, <3>1, <3>3, <3>4
  <2> QED BY <2>1, <2>2, <2>4, SameStories
<1>5. CASE CompleteDigest
  <2> DEFINE q == run.slot
             J == run.judged
  <2>1. /\ q \in Slots /\ J \subseteq Judgements /\ run.since \in Nat /\ run.since <= now /\ run' = Idle
        /\ mark' = [mark EXCEPT ![q] = "posted"]
        /\ digest' = [digest EXCEPT ![q] = [ts |-> run.ts, items |-> J, at |-> run.since]]
        /\ sentStory' = [t \in Stories |-> IF \E j \in J : j.story = t THEN now ELSE sentStory[t]]
        /\ \A j \in J : j.story # NoName => Before(j.story, run.since)
    BY <1>0, <1>5, <1>p DEF CompleteDigest, RunMoves, RunType, PickedAfresh
  <2>2. ASSUME NEW s \in Slots
        PROVE  /\ digest'[s].items = IF s = q THEN J ELSE digest[s].items
               /\ digest'[s].at = IF s = q THEN run.since ELSE digest[s].at
               /\ mark'[s] = IF s = q THEN "posted" ELSE mark[s]
               /\ digest[s].items \subseteq Judgements /\ digest[s].at \in Nat
    BY <1>0, <2>1 DEF DigestType
  <2>3. ASSUME NEW s \in Slots, s # q, NEW j \in digest[s].items, j.story # NoName, NEW k \in J, j.story = k.story
        PROVE  digest[s].at < run.since - StoryWindow
    <3>1. digest[s].at <= sentStory[j.story]
      BY <2>3 DEF SInv, SentSince
    <3>2. Before(j.story, run.since)
      BY <2>1, <2>3
    <3>3. j.story \in Stories
      BY <2>2, <2>3, StoriesAre
    <3>4. sentStory[j.story] \in Nat \cup {-1} /\ digest[s].at \in Nat
      BY <1>0, <2>2, <3>3
    <3> QED BY <1>0, <2>1, <3>1, <3>2, <3>4 DEF Before
  <2>4. ASSUME NEW s \in Slots, NEW j \in digest'[s].items, j.story # NoName
        PROVE  digest'[s].at <= sentStory'[j.story]
    <3>1. j.story \in Stories
      BY <2>1, <2>2, <2>4, StoriesAre
    <3>2. CASE s = q
      BY <1>0, <2>1, <2>2, <2>4, <3>1, <3>2
    <3>3. CASE s # q /\ \E k \in J : k.story = j.story
      BY <1>0, <2>1, <2>2, <2>3, <2>4, <3>1, <3>3
    <3>4. CASE s # q /\ ~\E k \in J : k.story = j.story
      BY <2>1, <2>2, <2>4, <3>1, <3>4 DEF SInv, SentSince
    <3> QED BY <3>2, <3>3, <3>4
  <2>5. ASSUME NEW s \in Slots, NEW t \in Slots, s # t, mark'[s] = "posted", mark'[t] = "posted",
               NEW j \in digest'[s].items, NEW k \in digest'[t].items, j.story = k.story, j.story # NoName
        PROVE  digest'[s].at - digest'[t].at \notin (-StoryWindow)..StoryWindow
    <3>1. CASE s # q /\ t # q
      BY <2>2, <2>5, <3>1 DEF SInv, StoryOnce
    <3>2. CASE s = q
      <4>1. digest[t].at < run.since - StoryWindow
        BY <2>2, <2>3, <2>5, <3>2
      <4> QED BY <1>0, <2>1, <2>2, <2>5, <3>2, <4>1
    <3>3. CASE t = q
      <4>1. digest[s].at < run.since - StoryWindow
        BY <2>2, <2>3, <2>5, <3>3
      <4> QED BY <1>0, <2>1, <2>2, <2>5, <3>3, <4>1
    <3> QED BY <3>1, <3>2, <3>3
  <2>6. PickedAfresh'
    BY <2>1 DEF PickedAfresh, Idle
  <2> QED BY <2>4, <2>5, <2>6 DEF SInv, SentSince, StoryOnce
<1> QED BY <1>1, <1>2, <1>3, <1>4, <1>5 DEF RunSteps

(* Two digests with one story were picked more than the window apart, for  *)
(* any window, any rankings and whatever time a run takes to post.         *)
THEOREM StoryOnceAlways == Spec => []StoryOnce
<1>1. SInv => StoryOnce
  BY DEF SInv
<1> QED BY <1>1, InitTInv, NextTInv, InitSInv, NextSInv, PTL DEF Spec

-----------------------------------------------------------------------------
(* The feedback. Deliveries of one event are on one message of the channel;*)
(* an event is marked before its row is made, by the one task that goes on *)
(* with it.                                                                *)
Delivered(d) == task[d].at # "none"

OneMessage ==
    /\ \A d \in Deliveries : Delivered(d) => task[d].ts \in 1..Len(slack)
    /\ \A c, d \in Deliveries :
          EventOf[c] = EventOf[d] /\ Delivered(c) /\ Delivered(d) => task[c].ts = task[d].ts

MarkedFirst ==
    /\ \A e \in events : \E d \in Deliveries : EventOf[d] = e /\ Delivered(d)
    /\ \A e \in Events : signal[e] # <<>> => e \in events
    /\ \A d \in Deliveries : task[d].at = "fresh" => EventOf[d] \in events /\ signal[EventOf[d]] = <<>>

OneGoesOn ==
    \A c, d \in Deliveries :
        EventOf[c] = EventOf[d] /\ task[c].at = "fresh" /\ task[d].at = "fresh" => c = d

(* Every delivery of the event is on the message of the slot's digest.     *)
SeenOn(e, s) ==
    \A d \in Deliveries : EventOf[d] = e /\ Delivered(d) => slack[task[d].ts] = [slot |-> s, lost |-> FALSE]

RowIsOfMessage ==
    \A e \in Events :
        signal[e] = <<>> \/ \E s \in Slots : signal[e] = <<s>> /\ SeenOn(e, s)

RInv == OneMessage /\ MarkedFirst /\ OneGoesOn /\ RowIsOfMessage

(* Nothing is delivered at first.                                          *)
LEMMA InitRInv == Init => RInv
BY EventsAssumption DEF Init, Events, RInv, OneMessage, MarkedFirst, OneGoesOn, RowIsOfMessage, Delivered

(* It says of every delivery what ReactionOnce asks.                       *)
LEMMA RInvCounts == RInv => ReactionOnce
<1> SUFFICES ASSUME RInv, NEW d \in Deliveries
             PROVE  /\ Len(signal[EventOf[d]]) <= 1
                    /\ signal[EventOf[d]] # <<>> /\ task[d].at # "none" =>
                         slack[task[d].ts].slot = signal[EventOf[d]][1] /\ ~slack[task[d].ts].lost
  BY DEF ReactionOnce
<1>1. EventOf[d] \in Events
  BY DEF Events
<1>2. CASE signal[EventOf[d]] = <<>>
  BY <1>2
<1>3. CASE signal[EventOf[d]] # <<>>
  <2>1. PICK s \in Slots : signal[EventOf[d]] = <<s>> /\ SeenOn(EventOf[d], s)
    BY <1>1, <1>3 DEF RInv, RowIsOfMessage
  <2>2. task[d].at # "none" => slack[task[d].ts] = [slot |-> s, lost |-> FALSE]
    BY <2>1 DEF SeenOn, Delivered
  <2> QED BY <2>1, <2>2
<1> QED BY <1>2, <1>3

(* The channel may grow.                                                   *)
LEMMA MoreMessages ==
    ASSUME RInv, UNCHANGED <<task, events, signal>>, Len(slack) \in Nat, Len(slack') \in Nat,
           Len(slack) <= Len(slack'), \A ts \in 1..Len(slack) : slack'[ts] = slack[ts]
    PROVE  RInv'
<1>1. OneMessage' /\ MarkedFirst' /\ OneGoesOn'
  BY DEF RInv, OneMessage, MarkedFirst, OneGoesOn, Delivered
<1>2. RowIsOfMessage'
  <2>1. \A d \in Deliveries : Delivered(d) => slack'[task[d].ts] = slack[task[d].ts]
    BY DEF RInv, OneMessage
  <2>2. \A e \in Events, s \in Slots : SeenOn(e, s) => SeenOn(e, s)'
    BY <2>1 DEF SeenOn, Delivered
  <2> QED BY <2>2 DEF RInv, RowIsOfMessage
<1> QED BY <1>1, <1>2 DEF RInv

(* A run's step leaves the messages there are.                             *)
LEMMA RunKeepsMessages ==
    ASSUME TInv, RunSteps
    PROVE  /\ Len(slack) \in Nat /\ Len(slack') \in Nat /\ Len(slack) <= Len(slack')
           /\ \A ts \in 1..Len(slack) : slack'[ts] = slack[ts]
<1>1. slack \in Seq(Message) /\ slack' \in Seq(Message) /\ Len(slack) <= Len(slack')
  BY RunStepsKeepRun DEF TInv, TypeOK, Message
<1>2. slack' = slack \/ slack' = Written(FALSE) \/ slack' = Written(TRUE)
  BY DEF RunSteps, RunStarts, CheckSkip, Gather, Rank, PickItems, ReserveDigest, PostDigest, PostFails,
         PostStops, ReleaseDigest, CompleteDigest, RunFails, digestVars
<1>3. \A lost \in BOOLEAN : \A ts \in 1..Len(slack) : Written(lost)[ts] = slack[ts]
  BY WrittenIs DEF TInv
<1> QED BY <1>1, <1>2, <1>3, LenProperties

(* The task that goes on makes the event's only row, of the digest whose   *)
(* message it is on.                                                       *)
LEMMA SaveKeepsRows ==
    ASSUME TInv, RInv, PostedIsThere, NEW d \in Deliveries, SaveSignal(d)
    PROVE  RInv'
<1> DEFINE e == EventOf[d]
<1>0. /\ task \in TaskType(Len(slack)) /\ signal \in [Events -> Seq(Slots)] /\ e \in Events
      /\ UNCHANGED <<slack, events>> /\ task[d].at = "fresh" /\ signal[e] = <<>> /\ e \in events
  BY EventsAssumption DEF TInv, TypeOK, TaskType, Events, SaveSignal, TaskMoves, RInv, MarkedFirst
<1>1. task' = [task EXCEPT ![d].at = "ended"]
  BY DEF SaveSignal, TaskMoves
<1>2. \A c \in Deliveries : /\ task'[c].ts = task[c].ts
                            /\ task'[c].at = IF c = d THEN "ended" ELSE task[c].at
  BY <1>0, <1>1 DEF TaskType
<1>3. \A c \in Deliveries : Delivered(c)' <=> Delivered(c)
  BY <1>0, <1>2 DEF Delivered
<1>4. /\ \A x \in Events : x # e => signal'[x] = signal[x]
      /\ \/ signal'[e] = <<>>
         \/ \E s \in DigestsByTS(task[d].ts) : signal'[e] = <<s>>
  <2>1. CASE DigestsByTS(task[d].ts) = {}
    BY <1>0, <2>1 DEF SaveSignal
  <2>2. CASE DigestsByTS(task[d].ts) # {}
    <3>1. PICK s \in DigestsByTS(task[d].ts) : signal' = [signal EXCEPT ![e] = Append(@, s)]
      BY <2>2 DEF SaveSignal
    <3>2. Append(signal[e], s) = <<s>>
      BY <1>0
    <3> QED BY <1>0, <3>1, <3>2
  <2> QED BY <2>1, <2>2
<1>5. OneMessage'
  BY <1>0, <1>2, <1>3 DEF RInv, OneMessage
<1>6. OneGoesOn'
  BY <1>2 DEF RInv, OneGoesOn
<1>7. MarkedFirst'
  <2>1. ASSUME NEW c \in Deliveries, task'[c].at = "fresh"
        PROVE  EventOf[c] \in events /\ signal'[EventOf[c]] = <<>>
    <3>1. c # d /\ task[c].at = "fresh"
      BY <1>2, <2>1
    <3>2. EventOf[c] # e
      BY <1>0, <3>1 DEF RInv, OneGoesOn
    <3>3. EventOf[c] \in Events
      BY DEF Events
    <3> QED BY <1>4, <3>1, <3>2, <3>3 DEF RInv, MarkedFirst
  <2>2. \A x \in Events : signal'[x] # <<>> => x \in events
    BY <1>0, <1>4 DEF RInv, MarkedFirst
  <2> QED BY <1>0, <1>3, <2>1, <2>2 DEF RInv, MarkedFirst
<1>8. RowIsOfMessage'
  <2>1. \A x \in Events, s \in Slots : SeenOn(x, s) => SeenOn(x, s)'
    BY <1>0, <1>2, <1>3 DEF SeenOn
  <2>2. ASSUME NEW x \in Events, x # e
        PROVE  signal'[x] = <<>> \/ \E s \in Slots : signal'[x] = <<s>> /\ SeenOn(x, s)'
    BY <1>4, <2>1, <2>2 DEF RInv, RowIsOfMessage
  <2>3. ASSUME NEW s \in DigestsByTS(task[d].ts) PROVE s \in Slots /\ SeenOn(e, s)'
    <3>1. s \in Slots /\ slack[task[d].ts] = [slot |-> s, lost |-> FALSE]
      BY DEF DigestsByTS, PostedIsThere
    <3>2. \A c \in Deliveries : EventOf[c] = e /\ Delivered(c) => task[c].ts = task[d].ts
      BY <1>0 DEF RInv, OneMessage, Delivered
    <3>3. SeenOn(e, s)
      BY <3>1, <3>2 DEF SeenOn
    <3> QED BY <1>0, <2>1, <3>1, <3>3
  <2>4. signal'[e] = <<>> \/ \E s \in Slots : signal'[e] = <<s>> /\ SeenOn(e, s)'
    BY <1>4, <2>3
  <2> QED BY <2>2, <2>4 DEF RowIsOfMessage
<1> QED BY <1>5, <1>6, <1>7, <1>8 DEF RInv

(* Each of the other steps of a delivery keeps it.                         *)
LEMMA TasksKeepRows ==
    ASSUME TInv, RInv, NEW d \in Deliveries, Deliver(d) \/ TakeReaction(d) \/ TakeReply(d) \/ TaskFails(d)
    PROVE  RInv'
<1> DEFINE e == EventOf[d]
<1>0. /\ task \in TaskType(Len(slack)) /\ signal \in [Events -> Seq(Slots)] /\ e \in Events
      /\ UNCHANGED <<slack, signal>> /\ events \subseteq Events
      /\ DOMAIN slack = 1..Len(slack) /\ Len(slack) \in Nat
  <2>1. slack \in Seq(Message)
    BY DEF TInv, TypeOK, Message
  <2> QED BY <2>1, LenProperties, EventsAssumption
          DEF TInv, TypeOK, TaskType, Events, Deliver, TakeReaction, TakeReply, TaskFails, TaskMoves
<1>1. CASE Deliver(d)
  <2>1. PICK ts \in 1..Len(slack) :
            /\ \A c \in Deliveries : EventOf[c] = EventOf[d] /\ task[c].at # "none" => task[c].ts = ts
            /\ task' = [task EXCEPT ![d] = [at |-> "due", ts |-> ts]]
    BY <1>0, <1>1 DEF Deliver
  <2>2. task[d].at = "none" /\ UNCHANGED events
    BY <1>1 DEF Deliver
  <2>3. \A c \in Deliveries : task'[c] = IF c = d THEN [at |-> "due", ts |-> ts] ELSE task[c]
    BY <1>0, <2>1 DEF TaskType
  <2>4. OneMessage'
    BY <1>0, <2>1, <2>3 DEF RInv, OneMessage, Delivered
  <2>5. MarkedFirst'
    <3>1. \A c \in Deliveries : Delivered(c) => Delivered(c)'
      BY <2>3 DEF Delivered
    <3>2. \A c \in Deliveries : task'[c].at = "fresh" => task[c].at = "fresh"
      BY <2>3
    <3> QED BY <1>0, <2>2, <3>1, <3>2 DEF RInv, MarkedFirst
  <2>8. OneGoesOn'
    BY <2>3 DEF RInv, OneGoesOn
  <2>6. ASSUME NEW x \in Events, signal[x] # <<>>, NEW s \in Slots, SeenOn(x, s)
        PROVE  SeenOn(x, s)'
    <3>1. PICK b \in Deliveries : EventOf[b] = x /\ Delivered(b)
      BY <2>6 DEF RInv, MarkedFirst
    <3>2. slack[task[b].ts] = [slot |-> s, lost |-> FALSE]
      BY <2>6, <3>1 DEF SeenOn
    <3>3. EventOf[d] = x => ts = task[b].ts
      BY <2>1, <3>1 DEF Delivered
    <3>4. ASSUME NEW c \in Deliveries, EventOf[c] = x, task'[c].at # "none"
          PROVE  slack[task'[c].ts] = [slot |-> s, lost |-> FALSE]
      <4>1. CASE c = d
        BY <2>3, <3>2, <3>3, <3>4, <4>1
      <4>2. CASE c # d
        BY <2>3, <2>6, <3>4, <4>2 DEF SeenOn, Delivered
      <4> QED BY <4>1, <4>2
    <3> QED BY <1>0, <3>4 DEF SeenOn, Delivered
  <2>7. RowIsOfMessage'
    BY <1>0, <2>6 DEF RInv, RowIsOfMessage
  <2> QED BY <2>4, <2>5, <2>7, <2>8 DEF RInv
<1>2. CASE TakeReaction(d) \/ TakeReply(d) \/ TaskFails(d)
  <2>1. PICK at \in {"due", "fresh", "ended"} :
            /\ task' = [task EXCEPT ![d].at = at] /\ task[d].at \in {"due", "fresh"}
            /\ IF at = "fresh" THEN e \notin events /\ events' = events \cup {e} ELSE UNCHANGED events
    BY <1>2 DEF TakeReaction, TakeReply, TaskFails, TaskMoves
  <2>2. \A c \in Deliveries : task'[c].ts = task[c].ts /\ task'[c].at = IF c = d THEN at ELSE task[c].at
    BY <1>0, <2>1 DEF TaskType
  <2>3. \A c \in Deliveries : Delivered(c)' <=> Delivered(c)
    BY <2>1, <2>2 DEF Delivered
  <2>4. OneMessage'
    BY <1>0, <2>2, <2>3 DEF RInv, OneMessage
  <2>5. MarkedFirst'
    <3>1. \A x \in events' : \E c \in Deliveries : EventOf[c] = x /\ Delivered(c)'
      BY <2>1, <2>3 DEF RInv, MarkedFirst, Delivered
    <3>2. \A x \in Events : signal'[x] # <<>> => x \in events'
      BY <1>0, <2>1 DEF RInv, MarkedFirst
    <3>3. \A c \in Deliveries : task'[c].at = "fresh" => EventOf[c] \in events' /\ signal'[EventOf[c]] = <<>>
      BY <1>0, <2>1, <2>2 DEF RInv, MarkedFirst
    <3> QED BY <3>1, <3>2, <3>3 DEF MarkedFirst
  <2>6. OneGoesOn'
    BY <1>0, <2>1, <2>2 DEF RInv, OneGoesOn, MarkedFirst
  <2>7. RowIsOfMessage'
    <3>1. \A x \in Events, s \in Slots : SeenOn(x, s) => SeenOn(x, s)'
      BY <1>0, <2>2, <2>3 DEF SeenOn
    <3> QED BY <1>0, <3>1 DEF RInv, RowIsOfMessage
  <2> QED BY <2>4, <2>5, <2>6, <2>7 DEF RInv
<1> QED BY <1>1, <1>2

(* Every step keeps it.                                                    *)
LEMMA NextRInv ==
    ASSUME TInv, BInv, RInv, [Next]_vars
    PROVE  RInv'
<1>1. CASE RunSteps
  BY <1>1, RunKeepsMessages, RunFrame, MoreMessages
<1>2. CASE FeedbackSteps
  BY <1>2, SaveKeepsRows, TasksKeepRows DEF FeedbackSteps, BInv
<1>3. CASE Tick \/ NewsShorts \/ InterestSteps \/ UNCHANGED vars
  <2>1. UNCHANGED <<slack, task, events, signal>>
    BY <1>3 DEF Tick, NewsShorts, InterestSteps, AddInterest, FollowInterest, SetInterestStatus,
                FollowDefault, feedbackVars, vars
  <2>2. Len(slack) \in Nat
    <3>1. slack \in Seq(Message)
      BY DEF TInv, TypeOK, Message
    <3> QED BY <3>1, LenProperties
  <2> QED BY <2>1, <2>2, MoreMessages
<1> QED BY <1>1, <1>2, <1>3 DEF Next

(* However often an event is delivered and its task retried, it makes one  *)
(* row at most, of the digest whose message the user saw, for any users'   *)
(* events and any emoji.                                                   *)
THEOREM ReactionOnceAlways == Spec => []ReactionOnce
BY InitTInv, NextTInv, InitBInv, NextBInv, InitRInv, NextRInv, RInvCounts, PTL DEF Spec

-----------------------------------------------------------------------------
(* What a run picks is the best there is: only PickItems takes a run from  *)
(* ranking to reserving.                                                   *)
LEMMA PickedBestStep ==
    ASSUME TInv, [Next]_vars, run.at = "pick", run'.at = "reserve"
    PROVE  LET E == Eligible(run.judged, RecentStories)
               P == run'.judged
               Above(j) == {k \in P : Score(k, Likes) >= Score(j, Likes)}
           IN  /\ P \subseteq E /\ Cardinality(P) <= MaxItems
               /\ \A j \in P :
                    /\ Cardinality(SameInterest(P, j)) <= MaxPerInterest
                    /\ j.category # NoName => Cardinality(SameCategory(P, j)) <= MaxPerCategory
                    /\ \A k \in P : j.story = k.story /\ j.story # NoName => j = k
               /\ \A j \in E \ P : Blocked(Above(j), j)
<1> DEFINE E == Eligible(run.judged, RecentStories)
<1>0. run \in RunType /\ IsFiniteSet(run.judged) /\ IsFiniteSet(E)
  <2>1. IsFiniteSet(run.judged) /\ run \in RunType /\ E \in SUBSET run.judged
    BY DEF TInv, TypeOK, RunType, Eligible
  <2> HIDE DEF E
  <2> QED BY <2>1, FS_Subset
<1>1. PickItems
  <2>1. RunSteps
    BY OthersFrame DEF vars
  <2> QED BY <2>1 DEF RunSteps, RunStarts, CheckSkip, Gather, Rank, ReserveDigest, PostDigest, PostFails,
                      PostStops, ReleaseDigest, CompleteDigest, RunFails, RunMoves, Idle
<1>2. PICK s \in Orders(E, Likes) :
          run' = IF Pick(s) = {} THEN Idle
                 ELSE [run EXCEPT !.at = "reserve", !.judged = Pick(s), !.since = now]
  BY <1>1 DEF PickItems, RunMoves
<1> DEFINE P == Pick(s)
           Above(j) == {k \in P : Score(k, Likes) >= Score(j, Likes)}
           n == Cardinality(E)
<1>3. run'.judged = P
  <2> HIDE DEF P
  <2>1. run' = Idle \/ run' = [run EXCEPT !.at = "reserve", !.judged = P, !.since = now]
    BY <1>2 DEF P
  <2>2. run' # Idle
    BY DEF Idle
  <2> QED BY <1>0, <2>1, <2>2 DEF RunType
<1>4. P \subseteq E
  BY <1>0, PicksAre
<1> HIDE DEF E
<1>5. n \in Nat /\ s \in [1..n -> E] /\ \A j \in E : \E i \in 1..n : s[i] = j
  BY <1>0, OrdersAreAll
<1>6. /\ KeepsCaps(P)
      /\ \A i \in 1..n : s[i] \notin P =>
            \E S \in SUBSET P : S \subseteq {s[a] : a \in 1..(i - 1)} /\ Blocked(S, s[i])
  BY <1>5, PickIsGood
<1>7. ASSUME NEW j \in E \ P PROVE Blocked(Above(j), j)
  <2>1. PICK i \in 1..n : s[i] = j
    BY <1>5
  <2>2. PICK S \in SUBSET P : S \subseteq {s[a] : a \in 1..(i - 1)} /\ Blocked(S, j)
    BY <1>6, <2>1
  <2>3. \A a \in 1..(i - 1) : Score(s[a], Likes) >= Score(j, Likes)
    BY <1>5, <2>1 DEF Orders
  <2>4. S \in SUBSET Above(j)
    BY <2>2, <2>3
  <2>5. Above(j) \in SUBSET P
    OBVIOUS
  <2> HIDE DEF P, Above
  <2> QED BY <1>6, <2>2, <2>4, <2>5, BlockedByMore
<1> HIDE DEF P
<1> QED BY <1>3, <1>4, <1>6, <1>7 DEF E, KeepsCaps

(* Whatever the feeds, the rankings, the caps and the feedback are, a      *)
(* digest keeps the caps and one item of a story, and what was eligible    *)
(* and left out is blocked by items that score no less.                    *)
THEOREM PickedBestAlways == Spec => PickedBest
<1>1. TInv /\ [Next]_vars =>
        [run.at = "pick" /\ run'.at = "reserve" =>
          LET E == Eligible(run.judged, RecentStories)
              P == run'.judged
              Above(j) == {k \in P : Score(k, Likes) >= Score(j, Likes)}
          IN  /\ P \subseteq E /\ Cardinality(P) <= MaxItems
              /\ \A j \in P :
                   /\ Cardinality(SameInterest(P, j)) <= MaxPerInterest
                   /\ j.category # NoName => Cardinality(SameCategory(P, j)) <= MaxPerCategory
                   /\ \A k \in P : j.story = k.story /\ j.story # NoName => j = k
              /\ \A j \in E \ P : Blocked(Above(j), j) ]_vars
  BY PickedBestStep
<1> QED BY <1>1, InitTInv, NextTInv, PTL DEF Spec, PickedBest
=============================================================================
