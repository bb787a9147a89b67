------------------------- MODULE UserChannelsProofs -------------------------
(***************************************************************************)
(* Theorems about UserChannels, for any users and goals and any number of  *)
(* channels and runs.                                                      *)
(*                                                                         *)
(* They rest on one fact: every channel is opened by one lane only, a      *)
(* goal's by goal-channels and every other by the task of its name, so     *)
(* what a lane holds in hand no other lane records, introduces or loses.   *)
(***************************************************************************)
EXTENDS UserChannels, SequenceTheorems, TLAPS

(* Where a lane opens a channel, and where it has one in hand.             *)
Opening == {"find", "create", "save", "invite", "intro", "seed"}
Holding == {"save", "invite", "intro"}

(* A lane opens channels of its own purpose, goal-channels those of goals. *)
Own(u, l) ==
    LET r == run[u][l] IN
    /\ r.pc \in Opening => IF l = "goals" THEN r.for \in Goals ELSE r.for = l
    /\ r.pc \in {"sync", "next"} => l = "goals"
    /\ r.pc = "seed" => l = "news"
    /\ r.pc \in {"find", "create"} => ~r.new

(* What a lane has in hand between making a channel and introducing it.    *)
InHand(u, l) ==
    LET r == run[u][l] IN
    /\ r.pc = "save" =>
          /\ r.id \in Ids /\ r.new
          /\ slack[r.id].user = u /\ slack[r.id].for = r.for
    /\ r.pc \in {"create", "save"} => recorded[u][r.for] = 0
    /\ r.pc \in {"invite", "intro"} => r.id # 0 /\ r.id = recorded[u][r.for]
    /\ r.pc \in Holding /\ r.new => slack[r.id].intros = 0
    /\ r.pc = "intro" => r.new

(* Once invited, the user stays in the channel.                            *)
Joined(u, l) ==
    l # "goals" /\ run[u][l].pc \in {"intro", "seed", "done"} =>
        recorded[u][l] # 0 /\ slack[recorded[u][l]].member

LaneOK(u, l) == Own(u, l) /\ InHand(u, l) /\ Joined(u, l)

(* A recorded channel is in Slack, made for that user and purpose: so no   *)
(* two rows name one channel.                                              *)
RecordedIsTheirs ==
    \A u \in Users, p \in Purposes :
        recorded[u][p] # 0 =>
            recorded[u][p] \in Ids /\ slack[recorded[u][p]].user = u /\ slack[recorded[u][p]].for = p

(* user-setup starts the tasks of the channels once those it started       *)
(* before have ended.                                                      *)
LanesOfSetup ==
    \A u \in Users : setup[u] # "lanes" => \A l \in SetupLanes : run[u][l].pc \in Idle

IInv ==
    /\ TypeOK /\ RecordedIsTheirs /\ LanesOfSetup
    /\ \A u \in Users, l \in Lanes : LaneOK(u, l)
    /\ UnrecordedIsLost /\ IntroducedOnce

-----------------------------------------------------------------------------
(* The facts of the types the steps use.                                   *)
LEMMA Names ==
    /\ \A l \in Lanes : l # "goals" => l \in Purposes /\ l \notin Goals
    /\ Goals \subseteq Purposes /\ SetupLanes \subseteq Lanes /\ QueuedLanes \subseteq Lanes
    /\ "goals" \notin SetupLanes /\ SetupLanes \cap QueuedLanes = {} /\ "none" \notin Goals
BY ConstantsAssumption DEF Lanes, Purposes

LEMMA Types ==
    ASSUME TypeOK
    PROVE  /\ \A u \in Users, l \in Lanes :
                /\ run[u][l] \in RunType /\ run[u][l].id \in 0 .. MaxChannels
                /\ run[u][l].for \in Purposes \cup {"none"} /\ run[u][l].todo \subseteq Goals
                /\ run[u][l].new \in BOOLEAN
                /\ run[u][l].pc \in Idle \cup {"sync", "next", "find", "create", "save", "invite", "intro", "seed"}
           /\ \A u \in Users, p \in Purposes : recorded[u][p] \in 0 .. MaxChannels
           /\ \A i \in Ids : /\ slack[i] \in SlackType /\ slack[i].user \in Users /\ slack[i].for \in Purposes
                             /\ slack[i].member \in BOOLEAN /\ slack[i].intros \in Nat
           /\ Len(slack) \in 0 .. MaxChannels /\ MaxChannels \in Nat /\ MaxRuns \in Nat
<1>1. \A u \in Users, l \in Lanes : run[u][l] \in RunType
  BY DEF TypeOK
<1>2. \A i \in Ids : slack[i] \in SlackType
  BY ElementOfSeq DEF TypeOK, Ids
<1>3. Len(slack) \in Nat
  BY LenProperties DEF TypeOK
<1>4. MaxChannels \in Nat /\ MaxRuns \in Nat
  BY ConstantsAssumption
<1>5. Len(slack) \in 0 .. MaxChannels
  BY <1>3, <1>4 DEF TypeOK
<1>6. \A u \in Users, p \in Purposes : recorded[u][p] \in 0 .. MaxChannels
  BY DEF TypeOK
<1>7. \A i \in Ids : /\ slack[i].user \in Users /\ slack[i].for \in Purposes
                     /\ slack[i].member \in BOOLEAN /\ slack[i].intros \in Nat
  BY <1>2 DEF SlackType
<1>8. \A u \in Users, l \in Lanes :
        /\ run[u][l].id \in 0 .. MaxChannels
        /\ run[u][l].for \in Purposes \cup {"none"} /\ run[u][l].todo \subseteq Goals
        /\ run[u][l].new \in BOOLEAN
        /\ run[u][l].pc \in Idle \cup {"sync", "next", "find", "create", "save", "invite", "intro", "seed"}
  BY <1>1 DEF RunType
<1> QED BY <1>1, <1>2, <1>4, <1>5, <1>6, <1>7, <1>8

(* Two lanes never have the same channel in hand, nor open the same one.   *)
LEMMA Apart ==
    ASSUME IInv, NEW u \in Users, NEW l \in Lanes, NEW v \in Users, NEW m \in Lanes,
           u # v \/ l # m, run[u][l].pc \in Opening, run[v][m].pc \in Opening
    PROVE  /\ u # v \/ run[u][l].for # run[v][m].for
           /\ run[u][l].pc \in Holding /\ run[v][m].pc \in Holding => run[u][l].id # run[v][m].id
<1>1. LaneOK(u, l) /\ LaneOK(v, m)
  BY DEF IInv
<1>2. u # v \/ run[u][l].for # run[v][m].for
  BY <1>1, Names DEF LaneOK, Own
<1>3. run[u][l].for \in Purposes /\ run[v][m].for \in Purposes
  BY <1>1, Names DEF LaneOK, Own
<1>4. run[u][l].pc \in Holding => slack[run[u][l].id].user = u /\ slack[run[u][l].id].for = run[u][l].for
  BY SMTT(30), <1>1, <1>3 DEF LaneOK, InHand, IInv, RecordedIsTheirs, Holding
<1>5. run[v][m].pc \in Holding => slack[run[v][m].id].user = v /\ slack[run[v][m].id].for = run[v][m].for
  BY SMTT(30), <1>1, <1>3 DEF LaneOK, InHand, IInv, RecordedIsTheirs, Holding
<1> QED BY <1>2, <1>4, <1>5

(* What a lane holds is a channel in Slack, of its user and purpose.       *)
LEMMA Held ==
    ASSUME IInv, NEW u \in Users, NEW l \in Lanes, run[u][l].pc \in Holding
    PROVE  /\ run[u][l].id \in Ids /\ run[u][l].for \in Purposes
           /\ slack[run[u][l].id].user = u /\ slack[run[u][l].id].for = run[u][l].for
<1>1. LaneOK(u, l)
  BY DEF IInv
<1>2. run[u][l].for \in Purposes
  BY <1>1, Names DEF LaneOK, Own, Opening, Holding
<1> QED BY <1>1, <1>2 DEF LaneOK, InHand, IInv, RecordedIsTheirs, Holding
-----------------------------------------------------------------------------
(* One lane moves.                                                         *)
Moves(u, l) ==
    /\ run' \in [Users -> [Lanes -> RunType]]
    /\ \A v \in Users, m \in Lanes : v # u \/ m # l => run'[v][m] = run[v][m]

LEMMA RunMoves ==
    ASSUME TypeOK, NEW u \in Users, NEW l \in Lanes, NEW r \in RunType,
           run' = [run EXCEPT ![u][l] = r]
    PROVE  Moves(u, l) /\ run'[u][l] = r
BY DEF TypeOK, Moves

LEMMA GoesTo ==
    ASSUME TypeOK, NEW u \in Users, NEW l \in Lanes,
           NEW pc \in Idle \cup {"sync", "next", "find", "create", "save", "invite", "intro", "seed"},
           Goes(u, l, pc)
    PROVE  /\ Moves(u, l) /\ run'[u][l] \in RunType /\ run'[u][l].pc = pc /\ run'[u][l].for = run[u][l].for
           /\ run'[u][l].id = run[u][l].id /\ run'[u][l].new = run[u][l].new
<1> DEFINE r == [run[u][l] EXCEPT !.pc = pc]
<1>0. run[u][l] \in RunType
  BY Types
<1>1. r \in RunType /\ r.pc = pc /\ r.for = run[u][l].for /\ r.id = run[u][l].id /\ r.new = run[u][l].new
  BY <1>0 DEF RunType
<1>2. run' = [run EXCEPT ![u][l] = r]
  BY DEF Goes
<1> HIDE DEF r
<1> QED BY <1>1, <1>2, RunMoves

(* Channels are not lost, handed over or left.                             *)
Kept ==
    /\ Len(slack') \in Nat /\ Len(slack) <= Len(slack')
    /\ \A i \in Ids : /\ slack'[i].user = slack[i].user /\ slack'[i].for = slack[i].for
                      /\ slack[i].member => slack'[i].member
    /\ \A v \in Users, p \in Purposes : recorded[v][p] # 0 => recorded'[v][p] = recorded[v][p]

(* The channel another lane opens stays as it is.                          *)
LEMMA OtherLanes ==
    ASSUME IInv, NEW u \in Users, NEW l \in Lanes, Moves(u, l), Kept,
           \A v \in Users, m \in Lanes : (v # u \/ m # l) =>
              /\ run[v][m].pc \in {"create", "save"} => recorded'[v][run[v][m].for] = recorded[v][run[v][m].for]
              /\ run[v][m].pc \in Holding => slack'[run[v][m].id].intros = slack[run[v][m].id].intros
    PROVE  \A v \in Users, m \in Lanes : (v # u \/ m # l) => LaneOK(v, m)'
<1> SUFFICES ASSUME NEW v \in Users, NEW m \in Lanes, v # u \/ m # l PROVE LaneOK(v, m)'
  OBVIOUS
<1>1. LaneOK(v, m) /\ run'[v][m] = run[v][m]
  BY DEF IInv, Moves
<1>2. Own(v, m)'
  BY <1>1 DEF LaneOK, Own
<1>3. InHand(v, m)'
  <2>1. run[v][m].pc \in Holding => run[v][m].id \in Ids /\ run[v][m].for \in Purposes
    BY Held
  <2>2. \A i \in Ids : i \in Ids'
    BY Types DEF Kept, Ids, IInv
  <2>3. run[v][m].pc \in {"invite", "intro"} =>
           recorded'[v][run[v][m].for] = recorded[v][run[v][m].for] 
    BY <1>1, <2>1 DEF LaneOK, InHand, Kept, Holding
  <2> QED BY SMTT(30), <1>1, <2>1, <2>2, <2>3 DEF LaneOK, InHand, Kept, Holding
<1>4. Joined(v, m)'
  <2>1. m # "goals" => m \in Purposes
    BY Names
  <2> QED BY <1>1, <2>1 DEF LaneOK, Joined, Kept, IInv, RecordedIsTheirs
<1> QED BY <1>2, <1>3, <1>4 DEF LaneOK

-----------------------------------------------------------------------------
(* A step of a lane that changes neither Slack nor what is recorded keeps  *)
(* the invariant, when what the lane made is not forgotten.                *)
LEMMA Quiet ==
    ASSUME IInv, NEW u \in Users, NEW l \in Lanes, Moves(u, l), LaneOK(u, l)',
           UNCHANGED <<memory, setup, active, recorded, slack>>,
           follows' \subseteq Users, lost \subseteq lost', lost' \subseteq Ids,
           waiting' \in [Users -> [QueuedLanes -> 0 .. MaxRuns]],
           run[u][l].pc \notin Idle \/ l \notin SetupLanes,
           run[u][l].pc = "save" => run[u][l].id \in lost'
    PROVE  IInv'
<1>1. TypeOK'
  BY DEF IInv, TypeOK, Moves, Ids
<1>2. Kept
  BY Types DEF Kept, IInv
<1>3. \A v \in Users, m \in Lanes : LaneOK(v, m)'
  BY <1>2, OtherLanes
<1>4. RecordedIsTheirs' /\ IntroducedOnce'
  BY DEF IInv, RecordedIsTheirs, IntroducedOnce, Ids
<1>5. LanesOfSetup'
  BY Names DEF IInv, LanesOfSetup, Moves
<1>6. UnrecordedIsLost'
  <2> SUFFICES ASSUME NEW i \in Ids
               PROVE  \/ recorded[slack[i].user][slack[i].for] = i \/ i \in lost'
                      \/ \E m \in Lanes : run'[slack[i].user][m].pc = "save" /\ run'[slack[i].user][m].id = i
    BY DEF UnrecordedIsLost, Ids
  <2>1. CASE recorded[slack[i].user][slack[i].for] = i \/ i \in lost
    BY <2>1
  <2>2. CASE \E m \in Lanes : run[slack[i].user][m].pc = "save" /\ run[slack[i].user][m].id = i
    <3>1. PICK m \in Lanes : run[slack[i].user][m].pc = "save" /\ run[slack[i].user][m].id = i
      BY <2>2
    <3>2. slack[i].user \in Users
      BY Types DEF IInv
    <3> QED BY <3>1, <3>2 DEF Moves
  <2> QED BY <2>1, <2>2 DEF IInv, UnrecordedIsLost
<1> QED BY <1>1, <1>3, <1>4, <1>5, <1>6 DEF IInv

(* A lane that has no channel in hand has nothing to answer for.           *)
LEMMA EmptyHand ==
    ASSUME NEW u \in Users, NEW l \in Lanes, run[u][l].pc \in {"idle", "failed", "sync", "next", "find"},
           Own(u, l)
    PROVE  LaneOK(u, l)
BY DEF LaneOK, InHand, Joined, Holding

LEMMA BeginFact ==
    ASSUME NEW l \in Lanes
    PROVE  /\ Begin(l) \in RunType /\ Begin(l).pc \in {"sync", "find"} /\ ~Begin(l).new
           /\ Begin(l).pc = "find" => l # "goals" /\ Begin(l).for = l
           /\ Begin(l).pc = "sync" => l = "goals"
<1>1. 0 \in 0 .. MaxChannels
  BY ConstantsAssumption
<1> QED BY <1>1, Names DEF Begin, At, RunType

-----------------------------------------------------------------------------
(* The steps one by one.                                                   *)
LEMMA StartKeeps ==
    ASSUME IInv, NEW u \in Users, NEW l \in Lanes, Start(u, l) PROVE IInv'
<1>1. Moves(u, l) /\ run'[u][l] = Begin(l)
  BY BeginFact, RunMoves DEF Start, IInv
<1>2. LaneOK(u, l)'
  BY <1>1, BeginFact, EmptyHand DEF Own, LaneOK, InHand, Joined, Opening, Holding
<1>3. waiting' \in [Users -> [QueuedLanes -> 0 .. MaxRuns]]
  BY ConstantsAssumption DEF Start, IInv, TypeOK
<1>4. run[u][l].pc # "save" /\ l \notin SetupLanes
  BY Names DEF Start, Idle
<1> QED BY <1>1, <1>2, <1>3, <1>4, Quiet DEF Start, IInv, TypeOK, Ids

LEMMA FailsKeeps ==
    ASSUME IInv, NEW u \in Users, NEW l \in Lanes, Fails(u, l) PROVE IInv'
<1>0. At("failed", "none", {}) \in RunType /\ At("failed", "none", {}).pc = "failed"
  BY ConstantsAssumption DEF At, RunType, Idle
<1>1. PICK r \in RunType : run' = [run EXCEPT ![u][l] = r] /\ r \in {Begin(l), At("failed", "none", {})}
  BY <1>0, BeginFact DEF Fails
<1>2. Moves(u, l) /\ run'[u][l] = r
  BY <1>1, RunMoves DEF IInv
<1>3. LaneOK(u, l)'
  BY <1>0, <1>1, <1>2, BeginFact DEF Own, LaneOK, InHand, Joined, Opening, Holding
<1>4. run[u][l].pc = "save" => Opens(u, l) = 0 /\ run[u][l].id \in Ids
  BY Held DEF IInv, LaneOK, InHand, Opens, Holding
<1> QED BY <1>2, <1>3, <1>4, Quiet DEF Fails, IInv, TypeOK

LEMMA SyncKeeps ==
    ASSUME IInv, NEW u \in Users, NEW l \in Lanes, Sync(u, l) PROVE IInv'
<1> DEFINE r == [run[u][l] EXCEPT !.pc = "next", !.todo = Missing(u)]
<1>1. run[u][l] \in RunType /\ Missing(u) \subseteq Goals
  BY Types DEF IInv, Missing, TypeOK
<1>2. r \in RunType /\ r.pc = "next"
  BY <1>1 DEF RunType
<1>3. run' = [run EXCEPT ![u][l] = r]
  BY DEF Sync
<1> HIDE DEF r
<1>4. Moves(u, l) /\ run'[u][l] = r
  BY <1>2, <1>3, RunMoves DEF IInv
<1>5. LaneOK(u, l)'
  BY <1>2, <1>4 DEF Own, LaneOK, InHand, Joined, Opening, Holding, IInv, Sync
<1> QED BY <1>4, <1>5, Quiet DEF Sync, IInv, TypeOK, Idle

LEMMA SyncNextKeeps ==
    ASSUME IInv, NEW u \in Users, NEW l \in Lanes, SyncNext(u, l) PROVE IInv'
<1>1. l = "goals" /\ run[u][l] \in RunType /\ run[u][l].todo \subseteq Goals
  BY Types DEF IInv, LaneOK, Own, SyncNext
<1>2. CASE run' = [run EXCEPT ![u][l] = At("done", "none", {})]
  <2>1. At("done", "none", {}) \in RunType /\ At("done", "none", {}).pc = "done"
    BY ConstantsAssumption DEF At, RunType, Idle
  <2>4. TypeOK
    BY DEF IInv
  <2>5. Moves(u, l) /\ run'[u][l] = At("done", "none", {})
    BY <1>2, <2>1, <2>4, RunMoves
  <2>2. Moves(u, l) /\ run'[u][l].pc = "done"
    BY <2>1, <2>5
  <2>3. LaneOK(u, l)'
    BY <1>1, <2>2 DEF Own, LaneOK, InHand, Joined, Opening, Holding
  <2> QED BY <2>2, <2>3, Quiet DEF SyncNext, IInv, TypeOK, Idle
<1>3. CASE \E g \in run[u][l].todo :
             run' = [run EXCEPT ![u][l] = At("find", g, run[u][l].todo \ {g})]
  <2>1. PICK g \in run[u][l].todo :
             run' = [run EXCEPT ![u][l] = At("find", g, run[u][l].todo \ {g})]
    BY <1>3
  <2> DEFINE r == At("find", g, run[u][l].todo \ {g})
  <2>2. g \in Goals /\ g \in Purposes
    BY <1>1, Names
  <2>3. r = [pc |-> "find", todo |-> run[u][l].todo \ {g}, for |-> g, id |-> 0, new |-> FALSE]
    BY DEF At
  <2>6. run' = [run EXCEPT ![u][l] = r]
    BY <2>1
  <2> HIDE DEF r
  <2>7. 0 \in 0 .. MaxChannels /\ run[u][l].todo \ {g} \in SUBSET Goals
    BY <1>1, ConstantsAssumption
  <2>8. r \in RunType /\ r.pc = "find" /\ r.for = g /\ ~r.new
    BY <2>2, <2>3, <2>7 DEF RunType
  <2>4. Moves(u, l) /\ run'[u][l] = r
    BY <2>6, <2>8, RunMoves DEF IInv
  <2>5. LaneOK(u, l)'
    BY <1>1, <2>2, <2>8, <2>4 DEF Own, LaneOK, InHand, Joined, Opening, Holding
  <2> QED BY <2>4, <2>5, Quiet DEF SyncNext, IInv, TypeOK, Idle
<1> QED BY <1>2, <1>3 DEF SyncNext

LEMMA FindChannelKeeps ==
    ASSUME IInv, NEW u \in Users, NEW l \in Lanes, FindChannel(u, l) PROVE IInv'
<1> DEFINE r == [run[u][l] EXCEPT !.pc = IF Opens(u, l) = 0 THEN "create" ELSE "invite",
                                  !.id = Opens(u, l)]
<1>1. run[u][l] \in RunType /\ LaneOK(u, l) /\ run[u][l].pc = "find"
  BY Types DEF IInv, FindChannel
<1>2. run[u][l].for \in Purposes
  BY <1>1, Names DEF LaneOK, Own, Opening
<1>3. Opens(u, l) \in 0 .. MaxChannels
  BY <1>2, Types DEF IInv, Opens
<1>4. /\ r \in RunType /\ r.for = run[u][l].for /\ r.new = run[u][l].new /\ r.id = Opens(u, l)
      /\ r.pc = IF Opens(u, l) = 0 THEN "create" ELSE "invite"
  BY <1>1, <1>3 DEF RunType
<1>5. run' = [run EXCEPT ![u][l] = r]
  BY DEF FindChannel
<1> HIDE DEF r
<1>6. Moves(u, l) /\ run'[u][l] = r
  BY <1>4, <1>5, RunMoves DEF IInv
<1>8. recorded' = recorded /\ slack' = slack
  BY DEF FindChannel
<1>9. ~run[u][l].new /\ (IF l = "goals" THEN run[u][l].for \in Goals ELSE run[u][l].for = l)
  BY <1>1 DEF LaneOK, Own, Opening
<1>10. ASSUME Opens(u, l) = 0 PROVE LaneOK(u, l)'
  BY <1>4, <1>6, <1>8, <1>9, <1>10 DEF LaneOK, Own, InHand, Joined, Opening, Holding, Opens
<1>11. ASSUME Opens(u, l) # 0 PROVE LaneOK(u, l)'
  BY <1>4, <1>6, <1>8, <1>9, <1>11 DEF LaneOK, Own, InHand, Joined, Opening, Holding, Opens
<1>7. LaneOK(u, l)'
  BY <1>10, <1>11
<1> QED BY <1>6, <1>7, Quiet DEF FindChannel, IInv, TypeOK, Idle

LEMMA FollowDefaultsKeeps ==
    ASSUME IInv, NEW u \in Users, NEW l \in Lanes, FollowDefaults(u, l) PROVE IInv'
<1>1. LaneOK(u, l) /\ run[u][l].pc = "seed"
  BY DEF IInv, FollowDefaults
<1>2. Moves(u, l) /\ run'[u][l].pc = "done"
  BY GoesTo DEF FollowDefaults, IInv, Idle
<1>3. LaneOK(u, l)'
  BY <1>1, <1>2 DEF Own, LaneOK, InHand, Joined, Opening, Holding, FollowDefaults
<1> QED BY <1>1, <1>2, <1>3, Quiet DEF FollowDefaults, IInv, TypeOK, Idle

LEMMA CreateChannelKeeps ==
    ASSUME IInv, NEW u \in Users, NEW l \in Lanes, CreateChannel(u, l) PROVE IInv'
<1> DEFINE r == [run[u][l] EXCEPT !.pc = "save", !.id = Len(slack) + 1, !.new = TRUE]
           c == [user |-> u, for |-> run[u][l].for, member |-> FALSE, intros |-> 0]
<1>1. /\ run[u][l] \in RunType /\ run[u][l].pc = "create" /\ LaneOK(u, l)
      /\ Len(slack) \in 0 .. MaxChannels /\ MaxChannels \in Nat /\ Len(slack) < MaxChannels
  BY Types DEF IInv, CreateChannel, Make
<1>2. run[u][l].for \in Purposes
  BY <1>1, Names DEF LaneOK, Own, Opening
<1>3. c \in SlackType /\ c.user = u /\ c.for = run[u][l].for /\ c.intros = 0
  BY <1>2 DEF SlackType
<1>4. /\ r \in RunType /\ r.pc = "save" /\ r.for = run[u][l].for /\ r.new
      /\ r.id = Len(slack) + 1
  <2>1. Len(slack) + 1 \in 0 .. MaxChannels
    BY <1>1
  <2> QED BY <1>1, <2>1 DEF RunType
<1>5. run' = [run EXCEPT ![u][l] = r] /\ slack' = Append(slack, c) /\ recorded' = recorded /\ lost' = lost
  BY DEF CreateChannel, Make
<1> HIDE DEF r, c
<1>6. Moves(u, l) /\ run'[u][l] = r
  BY <1>4, <1>5, RunMoves DEF IInv
<1>7. /\ slack' \in Seq(SlackType) /\ Len(slack') = Len(slack) + 1
      /\ \A i \in Ids : slack'[i] = slack[i]
      /\ slack'[Len(slack) + 1] = c
  BY <1>3, <1>5, AppendProperties DEF IInv, TypeOK, Ids
<1>8. Ids' = Ids \cup {Len(slack) + 1} /\ Len(slack) + 1 \in Ids'
  BY <1>1, <1>7 DEF Ids
<1>9. Kept
  <2>1. Len(slack') \in Nat /\ Len(slack) <= Len(slack')
    BY <1>1, <1>7
  <2> QED BY <1>5, <1>7, <2>1 DEF Kept
<1>10. TypeOK'
  <2>1. lost' \subseteq Ids' /\ Len(slack') <= MaxChannels
    BY <1>1, <1>5, <1>7, <1>8 DEF IInv, TypeOK
  <2> QED BY <1>5, <1>6, <1>7, <2>1 DEF IInv, TypeOK, Moves, CreateChannel, Make
<1>11. LaneOK(u, l)'
  <2>1. Own(u, l)'
    BY <1>1, <1>4, <1>6 DEF LaneOK, Own, Opening
  <2>2. InHand(u, l)'
    BY <1>1, <1>3, <1>4, <1>5, <1>6, <1>7, <1>8 DEF LaneOK, InHand, Holding
  <2>3. Joined(u, l)'
    BY <1>4, <1>6 DEF Joined
  <2> QED BY <2>1, <2>2, <2>3 DEF LaneOK
<1>12. \A v \in Users, m \in Lanes : LaneOK(v, m)'
  <2>1. \A v \in Users, m \in Lanes : run[v][m].pc \in Holding => run[v][m].id \in Ids
    BY Held
  <2>2. \A v \in Users, m \in Lanes : (v # u \/ m # l) => LaneOK(v, m)'
    <3> SUFFICES ASSUME NEW v \in Users, NEW m \in Lanes, v # u \/ m # l
                 PROVE  /\ run[v][m].pc \in {"create", "save"} =>
                              recorded'[v][run[v][m].for] = recorded[v][run[v][m].for]
                        /\ run[v][m].pc \in Holding =>
                              slack'[run[v][m].id].intros = slack[run[v][m].id].intros
      BY <1>6, <1>9, OtherLanes
    <3> QED BY <1>5, <1>7, <2>1
  <2> QED BY <1>11, <2>2
<1>13. RecordedIsTheirs'
  <2> SUFFICES ASSUME NEW v \in Users, NEW p \in Purposes, recorded[v][p] # 0
               PROVE  /\ recorded[v][p] \in Ids' /\ slack'[recorded[v][p]].user = v
                      /\ slack'[recorded[v][p]].for = p
    BY <1>5 DEF RecordedIsTheirs
  <2>1. recorded[v][p] \in Ids /\ slack[recorded[v][p]].user = v /\ slack[recorded[v][p]].for = p
    BY DEF IInv, RecordedIsTheirs
  <2> QED BY <1>7, <1>8, <2>1
<1>14. IntroducedOnce'
  BY <1>3, <1>7, <1>8 DEF IInv, IntroducedOnce
<1>15. UnrecordedIsLost'
  <2> SUFFICES ASSUME NEW i \in Ids'
               PROVE  \/ recorded'[slack'[i].user][slack'[i].for] = i \/ i \in lost'
                      \/ \E m \in Lanes : run'[slack'[i].user][m].pc = "save" /\ run'[slack'[i].user][m].id = i
    BY DEF UnrecordedIsLost
  <2>1. CASE i = Len(slack) + 1
    BY <1>3, <1>4, <1>6, <1>7, <2>1
  <2>2. CASE i \in Ids
    <3>1. slack'[i] = slack[i] /\ slack[i].user \in Users
      BY <1>7, <2>2, Types DEF IInv
    <3>2. CASE recorded[slack[i].user][slack[i].for] = i \/ i \in lost
      BY <1>5, <3>1, <3>2
    <3>3. CASE \E m \in Lanes : run[slack[i].user][m].pc = "save" /\ run[slack[i].user][m].id = i
      BY <1>1, <1>6, <3>1, <3>3 DEF Moves
    <3> QED BY <2>2, <3>2, <3>3 DEF IInv, UnrecordedIsLost
  <2> QED BY <1>8, <2>1, <2>2
<1>16. LanesOfSetup'
  BY <1>1, <1>6, Names DEF IInv, LanesOfSetup, Moves, Idle, CreateChannel, Make
<1> QED BY <1>10, <1>12, <1>13, <1>14, <1>15, <1>16 DEF IInv

LEMMA SaveChannelKeeps ==
    ASSUME IInv, NEW u \in Users, NEW l \in Lanes, SaveChannel(u, l) PROVE IInv'
<1> DEFINE p == run[u][l].for
           n == run[u][l].id
<1>1. /\ run[u][l].pc = "save" /\ LaneOK(u, l) /\ p \in Purposes /\ n \in Ids
      /\ slack[n].user = u /\ slack[n].for = p
  BY Held DEF IInv, SaveChannel, Holding
<1>2. n \in 0 .. MaxChannels /\ n # 0
  BY <1>1, Types DEF IInv, Ids
<1>3. /\ Moves(u, l) /\ run'[u][l].pc = "invite" /\ run'[u][l].for = p /\ run'[u][l].id = n
      /\ run'[u][l].new = run[u][l].new
  BY GoesTo DEF SaveChannel, IInv, Idle
<1>4. /\ recorded' \in [Users -> [Purposes -> 0 .. MaxChannels]] /\ recorded[u][p] = 0
      /\ recorded'[u][p] = n
      /\ \A v \in Users, q \in Purposes : v # u \/ q # p => recorded'[v][q] = recorded[v][q]
  BY <1>1, <1>2 DEF SaveChannel, IInv, TypeOK, Opens
<1>5. slack' = slack /\ lost' = lost /\ Ids' = Ids
  BY DEF SaveChannel, Ids
<1> HIDE DEF p, n
<1>6. TypeOK'
  BY <1>3, <1>4, <1>5 DEF IInv, TypeOK, Moves, SaveChannel
<1>7. Kept
  BY <1>4, <1>5, Types DEF Kept, IInv
<1>8. LaneOK(u, l)'
  <2>1. Own(u, l)'
    BY <1>1, <1>3 DEF LaneOK, Own, Opening, p
  <2>2. InHand(u, l)'
    BY <1>1, <1>2, <1>3, <1>4, <1>5 DEF LaneOK, InHand, Holding, p, n
  <2>3. Joined(u, l)'
    BY <1>3 DEF Joined
  <2> QED BY <2>1, <2>2, <2>3 DEF LaneOK
<1>9. \A v \in Users, m \in Lanes : LaneOK(v, m)'
  <2> SUFFICES ASSUME NEW v \in Users, NEW m \in Lanes, v # u \/ m # l,
                      run[v][m].pc \in {"create", "save"}
               PROVE  recorded'[v][run[v][m].for] = recorded[v][run[v][m].for]
    BY <1>3, <1>5, <1>7, <1>8, OtherLanes
  <2>1. v # u \/ run[v][m].for # p
    BY <1>1, Apart DEF Opening, p
  <2>2. run[v][m].for \in Purposes
    BY Names DEF IInv, LaneOK, Own, Opening
  <2> QED BY <1>4, <2>1, <2>2
<1>10. RecordedIsTheirs'
  BY <1>1, <1>4, <1>5 DEF IInv, RecordedIsTheirs
<1>11. IntroducedOnce'
  BY <1>5 DEF IInv, IntroducedOnce
<1>12. UnrecordedIsLost'
  <2> SUFFICES ASSUME NEW i \in Ids
               PROVE  \/ recorded'[slack[i].user][slack[i].for] = i \/ i \in lost
                      \/ \E m \in Lanes : run'[slack[i].user][m].pc = "save" /\ run'[slack[i].user][m].id = i
    BY <1>5 DEF UnrecordedIsLost
  <2>1. slack[i].user \in Users /\ slack[i].for \in Purposes /\ i # 0
    BY Types DEF IInv, Ids
  <2>2. CASE recorded[slack[i].user][slack[i].for] = i
    BY <1>4, <2>1, <2>2
  <2>3. CASE i \in lost
    BY <2>3
  <2>4. CASE \E m \in Lanes : run[slack[i].user][m].pc = "save" /\ run[slack[i].user][m].id = i
    <3>1. PICK m \in Lanes : run[slack[i].user][m].pc = "save" /\ run[slack[i].user][m].id = i
      BY <2>4
    <3>2. CASE slack[i].user = u /\ m = l
      BY <1>1, <1>4, <3>1, <3>2 DEF n
    <3>3. CASE slack[i].user # u \/ m # l
      BY <1>3, <2>1, <3>1, <3>3 DEF Moves
    <3> QED BY <3>2, <3>3
  <2> QED BY <2>2, <2>3, <2>4 DEF IInv, UnrecordedIsLost
<1>13. LanesOfSetup'
  BY <1>1, <1>3, Names DEF IInv, LanesOfSetup, Moves, Idle, SaveChannel
<1> QED BY <1>6, <1>9, <1>10, <1>11, <1>12, <1>13 DEF IInv

(* A step that writes to the channel a lane holds touches no other lane's. *)
LEMMA Touch ==
    ASSUME IInv, NEW u \in Users, NEW l \in Lanes, run[u][l].pc \in {"invite", "intro"}, NEW d \in SlackType,
           slack' = [slack EXCEPT ![run[u][l].id] = d],
           d.user = slack[run[u][l].id].user, d.for = slack[run[u][l].id].for,
           slack[run[u][l].id].member => d.member, d.intros <= 1,
           Moves(u, l), UNCHANGED <<memory, setup, active, recorded, lost, waiting, follows>>,
           Own(u, l)', InHand(u, l)', Joined(u, l)'
    PROVE  IInv'
<1> DEFINE n == run[u][l].id
<1>1. n \in Ids
  BY Held DEF Holding
<1>2. /\ slack' \in Seq(SlackType) /\ Len(slack') = Len(slack) /\ Ids' = Ids
      /\ \A i \in Ids : slack'[i] = IF i = n THEN d ELSE slack[i]
  BY <1>1, ExceptSeq DEF IInv, TypeOK, Ids
<1> HIDE DEF n
<1>3. \A i \in Ids : /\ slack'[i].user = slack[i].user /\ slack'[i].for = slack[i].for
                     /\ slack[i].member => slack'[i].member
                     /\ i # n => slack'[i].intros = slack[i].intros
                     /\ i = n => slack'[i].intros = d.intros
  BY <1>2 DEF n
<1>4. TypeOK'
  BY <1>2 DEF IInv, TypeOK, Moves
<1>5. Kept
  <2>1. Len(slack') \in Nat /\ Len(slack) <= Len(slack')
    BY <1>2, Types DEF IInv
  <2>2. recorded' = recorded
    OBVIOUS
  <2> QED BY <1>3, <2>1, <2>2 DEF Kept
<1>6. \A v \in Users, m \in Lanes : LaneOK(v, m)'
  <2>1. ASSUME NEW v \in Users, NEW m \in Lanes, v # u \/ m # l, run[v][m].pc \in Holding
        PROVE  slack'[run[v][m].id].intros = slack[run[v][m].id].intros
    <3>1. run[v][m].id \in Ids /\ run[v][m].id # n
      BY <2>1, Held, Apart DEF Holding, Opening, n
    <3> QED BY <1>3, <3>1
  <2>2. recorded' = recorded
    OBVIOUS
  <2>3. \A v \in Users, m \in Lanes : (v # u \/ m # l) => LaneOK(v, m)'
    BY <1>5, <2>1, <2>2, OtherLanes
  <2>4. LaneOK(u, l)'
    BY DEF LaneOK
  <2> QED BY <2>3, <2>4
<1>7. RecordedIsTheirs'
  BY <1>2, <1>3 DEF IInv, RecordedIsTheirs
<1>8. IntroducedOnce'
  BY <1>2, <1>3 DEF IInv, IntroducedOnce
<1>9. UnrecordedIsLost'
  <2> SUFFICES ASSUME NEW i \in Ids'
               PROVE  \/ recorded'[slack'[i].user][slack'[i].for] = i \/ i \in lost'
                      \/ \E m \in Lanes : run'[slack'[i].user][m].pc = "save" /\ run'[slack'[i].user][m].id = i
    BY DEF UnrecordedIsLost
  <2>1. /\ i \in Ids /\ slack'[i].user = slack[i].user /\ slack'[i].for = slack[i].for
        /\ slack[i].user \in Users
    BY <1>2, <1>3, Types DEF IInv
  <2>2. CASE recorded[slack[i].user][slack[i].for] = i \/ i \in lost
    BY <2>1, <2>2
  <2>3. CASE \E m \in Lanes : run[slack[i].user][m].pc = "save" /\ run[slack[i].user][m].id = i
    <3>1. PICK m \in Lanes : run[slack[i].user][m].pc = "save" /\ run[slack[i].user][m].id = i
      BY <2>3
    <3>2. run'[slack[i].user][m] = run[slack[i].user][m]
      BY <2>1, <3>1 DEF Moves
    <3> QED BY <2>1, <3>1, <3>2
  <2> QED BY <2>1, <2>2, <2>3 DEF IInv, UnrecordedIsLost
<1>10. LanesOfSetup'
  BY Names DEF IInv, LanesOfSetup, Moves, Idle
<1> QED BY <1>4, <1>6, <1>7, <1>8, <1>9, <1>10 DEF IInv

LEMMA AfterFact ==
    ASSUME NEW l \in Lanes
    PROVE  /\ After(l) \in Idle \cup {"sync", "next", "find", "create", "save", "invite", "intro", "seed"}
           /\ l = "goals" => After(l) = "next"
           /\ l = "news" => After(l) = "seed"
           /\ After(l) \in {"next", "seed", "done"}
           /\ After(l) = "next" => l = "goals"
           /\ After(l) = "seed" => l = "news"
BY DEF After, Idle

LEMMA InviteKeeps ==
    ASSUME IInv, NEW u \in Users, NEW l \in Lanes, Invite(u, l) PROVE IInv'
<1> DEFINE n == run[u][l].id
           d == [slack[n] EXCEPT !.member = TRUE]
           pc == IF run[u][l].new THEN "intro" ELSE After(l)
<1>0. TypeOK /\ run[u][l].pc = "invite" /\ Own(u, l) /\ InHand(u, l)
  BY DEF IInv, LaneOK, Invite
<1>a. n \in Ids /\ run[u][l].for \in Purposes
  BY <1>0, Held DEF Holding
<1>1. /\ run[u][l].pc = "invite" /\ Own(u, l) /\ InHand(u, l) /\ run[u][l].for \in Purposes
      /\ n \in Ids /\ n # 0 /\ n = recorded[u][run[u][l].for] /\ run[u][l].new \in BOOLEAN
  BY <1>0, <1>a, Types DEF InHand
<1>2. slack[n] \in SlackType /\ slack[n].intros <= 1
  BY <1>1, Types DEF IInv, IntroducedOnce
<1>3. /\ d \in SlackType /\ d.user = slack[n].user /\ d.for = slack[n].for /\ d.member
      /\ d.intros = slack[n].intros
  BY <1>2 DEF SlackType
<1>4. slack' = [slack EXCEPT ![n] = d]
  BY DEF Invite
<1> HIDE DEF d
<1>5. slack'[n] = d /\ Ids' = Ids
  <2>1. slack \in Seq(SlackType) /\ n \in 1 .. Len(slack)
    BY <1>1 DEF IInv, TypeOK, Ids
  <2>2. /\ Len([slack EXCEPT ![n] = d]) = Len(slack)
        /\ [slack EXCEPT ![n] = d][n] = d
    BY <1>3, <2>1, ExceptSeq
  <2> QED BY <1>4, <2>2 DEF Ids
<1>6. pc \in Idle \cup {"sync", "next", "find", "create", "save", "invite", "intro", "seed"} /\ Goes(u, l, pc)
  BY <1>1, AfterFact DEF Invite
<1>7. (pc = "intro" /\ run[u][l].new) \/ (pc = After(l) /\ ~run[u][l].new)
  BY <1>1
<1> HIDE DEF pc
<1>8. /\ Moves(u, l) /\ run'[u][l].pc = pc /\ run'[u][l].for = run[u][l].for
      /\ run'[u][l].id = n /\ run'[u][l].new = run[u][l].new
  BY <1>6, GoesTo DEF IInv
<1>9. recorded' = recorded
  BY DEF Invite
<1>10. Own(u, l)'
  BY <1>1, <1>7, <1>8, AfterFact DEF Own, Opening
<1>11. InHand(u, l)'
  <2>1. CASE pc = "intro" /\ run[u][l].new
    <3>1. d.intros = 0
      BY <1>1, <1>3, <2>1 DEF InHand, Holding
    <3> QED BY <1>1, <1>5, <1>8, <1>9, <2>1, <3>1 DEF InHand, Holding
  <2>2. CASE pc = After(l) /\ ~run[u][l].new
    BY <1>8, <2>2, AfterFact DEF InHand, Holding
  <2> QED BY <1>7, <2>1, <2>2
<1>12. Joined(u, l)'
  <2>1. l # "goals" => run[u][l].for = l
    BY <1>1 DEF Own, Opening
  <2> QED BY <1>1, <1>3, <1>5, <1>9, <2>1 DEF Joined
<1> QED BY <1>1, <1>2, <1>3, <1>4, <1>8, <1>10, <1>11, <1>12, Touch DEF Invite

LEMMA PostIntroKeeps ==
    ASSUME IInv, NEW u \in Users, NEW l \in Lanes, PostIntro(u, l) PROVE IInv'
<1> DEFINE n == run[u][l].id
           d == [slack[n] EXCEPT !.intros = @ + 1]
<1>0. run[u][l].pc = "intro" /\ Own(u, l) /\ InHand(u, l) /\ Joined(u, l)
  BY DEF IInv, LaneOK, PostIntro
<1>a. n \in Ids /\ run[u][l].for \in Purposes
  BY <1>0, Held DEF Holding
<1>1. /\ run[u][l].pc = "intro" /\ Own(u, l) /\ InHand(u, l) /\ Joined(u, l)
      /\ run[u][l].for \in Purposes /\ n \in Ids /\ n = recorded[u][run[u][l].for]
  BY <1>0, <1>a DEF InHand
<1>2. slack[n] \in SlackType /\ slack[n].intros = 0
  BY <1>1, Types DEF IInv, InHand, Holding
<1>3. /\ d \in SlackType /\ d.user = slack[n].user /\ d.for = slack[n].for
      /\ d.member = slack[n].member /\ d.intros = 1 /\ d.intros <= 1
  BY <1>2 DEF SlackType
<1>4. slack' = [slack EXCEPT ![n] = d]
  BY DEF PostIntro
<1> HIDE DEF d
<1>5. slack'[n] = d /\ Ids' = Ids
  <2>1. slack \in Seq(SlackType) /\ n \in 1 .. Len(slack)
    BY <1>1 DEF IInv, TypeOK, Ids
  <2>2. /\ Len([slack EXCEPT ![n] = d]) = Len(slack)
        /\ [slack EXCEPT ![n] = d][n] = d
    BY <1>3, <2>1, ExceptSeq
  <2> QED BY <1>4, <2>2 DEF Ids
<1>6. /\ Moves(u, l) /\ run'[u][l].pc = After(l) /\ run'[u][l].for = run[u][l].for
  BY GoesTo, AfterFact DEF PostIntro, IInv
<1>7. recorded' = recorded
  BY DEF PostIntro
<1>8. Own(u, l)'
  BY <1>1, <1>6, AfterFact DEF Own, Opening
<1>9. InHand(u, l)'
  BY <1>6, AfterFact DEF InHand, Holding
<1>10. Joined(u, l)'
  <2>1. l # "goals" => run[u][l].for = l
    BY <1>1 DEF Own, Opening
  <2> QED BY <1>1, <1>3, <1>5, <1>7, <2>1 DEF Joined
<1> QED BY <1>1, <1>3, <1>4, <1>6, <1>8, <1>9, <1>10, Touch DEF PostIntro

-----------------------------------------------------------------------------
(* What is not a step of a lane.                                           *)
LEMMA SetUpMemoryKeeps ==
    ASSUME IInv, NEW u \in Users, SetUpMemory(u) PROVE IInv'
<1>1. run' \in [Users -> [Lanes -> RunType]]
  BY BeginFact DEF SetUpMemory, IInv, TypeOK
<1>2. \A v \in Users, m \in Lanes :
        run'[v][m] = IF v = u /\ m \in SetupLanes THEN Begin(m) ELSE run[v][m]
  BY DEF SetUpMemory, IInv, TypeOK
<1>3. \A m \in SetupLanes : run[u][m].pc # "save"
  BY DEF SetUpMemory, IInv, LanesOfSetup, Idle
<1>4. recorded' = recorded /\ slack' = slack /\ lost' = lost /\ Ids' = Ids
  BY DEF SetUpMemory, Ids
<1>5. setup' \in [Users -> {"idle", "memory", "lanes"}]
      /\ setup'[u] = "lanes" /\ \A v \in Users : v # u => setup'[v] = setup[v]
  BY DEF SetUpMemory, IInv, TypeOK
<1>6. TypeOK'
  BY <1>1, <1>4, <1>5 DEF IInv, TypeOK, SetUpMemory
<1>7. \A v \in Users, m \in Lanes : LaneOK(v, m)'
  <2> SUFFICES ASSUME NEW v \in Users, NEW m \in Lanes PROVE LaneOK(v, m)'
    OBVIOUS
  <2>1. CASE v = u /\ m \in SetupLanes
    <3>1. run'[v][m] = Begin(m)
      BY <1>2, <2>1
    <3> QED BY <3>1, BeginFact DEF LaneOK, Own, InHand, Joined, Opening, Holding
  <2>2. CASE ~(v = u /\ m \in SetupLanes)
    <3>1. run'[v][m] = run[v][m] /\ LaneOK(v, m)
      BY <1>2, <2>2 DEF IInv
    <3> QED BY <1>4, <3>1 DEF LaneOK, Own, InHand, Joined
  <2> QED BY <2>1, <2>2
<1>8. RecordedIsTheirs' /\ IntroducedOnce'
  BY <1>4 DEF IInv, RecordedIsTheirs, IntroducedOnce
<1>9. LanesOfSetup'
  BY <1>2, <1>5, Names DEF IInv, LanesOfSetup
<1>10. UnrecordedIsLost'
  <2> SUFFICES ASSUME NEW i \in Ids
               PROVE  \/ recorded[slack[i].user][slack[i].for] = i \/ i \in lost
                      \/ \E m \in Lanes : run'[slack[i].user][m].pc = "save" /\ run'[slack[i].user][m].id = i
    BY <1>4 DEF UnrecordedIsLost
  <2>1. CASE recorded[slack[i].user][slack[i].for] = i \/ i \in lost
    BY <2>1
  <2>2. CASE \E m \in Lanes : run[slack[i].user][m].pc = "save" /\ run[slack[i].user][m].id = i
    <3>1. PICK m \in Lanes : run[slack[i].user][m].pc = "save" /\ run[slack[i].user][m].id = i
      BY <2>2
    <3>2. slack[i].user \in Users
      BY Types DEF IInv
    <3>3. run'[slack[i].user][m] = run[slack[i].user][m]
      BY <1>2, <1>3, <3>1, <3>2
    <3> QED BY <3>1, <3>3
  <2> QED BY <2>1, <2>2 DEF IInv, UnrecordedIsLost
<1> QED BY <1>6, <1>7, <1>8, <1>9, <1>10 DEF IInv

LEMMA Unmoved ==
    ASSUME IInv, TypeOK', UNCHANGED <<run, slack, recorded, lost>>, LanesOfSetup'
    PROVE  IInv'
BY DEF IInv, RecordedIsTheirs, IntroducedOnce, UnrecordedIsLost, Ids, LaneOK, Own, InHand, Joined

LEMMA SetUpKeeps ==
    ASSUME IInv, NEW u \in Users, SetUp(u) \/ MemoryFails(u) \/ SetUpEnds(u) PROVE IInv'
<1>1. setup' \in [Users -> {"idle", "memory", "lanes"}]
      /\ (\A v \in Users : v # u => setup'[v] = setup[v])
      /\ UNCHANGED <<memory, active, recorded, follows, slack, lost, waiting, run>>
  BY DEF IInv, TypeOK, SetUp, MemoryFails, SetUpEnds
<1>2. \A l \in SetupLanes : run[u][l].pc \in Idle
  BY DEF IInv, LanesOfSetup, SetUp, MemoryFails, SetUpEnds
<1>3. LanesOfSetup'
  BY <1>1, <1>2 DEF IInv, LanesOfSetup
<1>4. TypeOK'
  BY <1>1 DEF IInv, TypeOK, Ids
<1> QED BY <1>1, <1>3, <1>4, Unmoved

LEMMA WriteGoalKeeps ==
    ASSUME IInv, NEW u \in Users, NEW g \in Goals, WriteGoal(u, g) PROVE IInv'
<1>1. active' \in [Users -> SUBSET Goals]
  <2>1. active \in [Users -> SUBSET Goals]
    BY DEF IInv, TypeOK
  <2>2. active[u] \cup {g} \in SUBSET Goals /\ active[u] \ {g} \in SUBSET Goals
    BY <2>1
  <2>3. \E s \in SUBSET Goals : active' = [active EXCEPT ![u] = s]
    BY <2>2 DEF WriteGoal
  <2> QED BY <2>1, <2>3
<1>2. TypeOK' /\ LanesOfSetup'
  BY <1>1 DEF IInv, TypeOK, WriteGoal, LanesOfSetup, Ids
<1> QED BY <1>2, Unmoved DEF WriteGoal

LEMMA TriggerKeeps ==
    ASSUME IInv, NEW u \in Users, NEW l \in Lanes, Trigger(u, l) PROVE IInv'
<1>1. waiting' \in [Users -> [QueuedLanes -> 0 .. MaxRuns]]
  BY ConstantsAssumption DEF IInv, TypeOK, Trigger
<1>2. TypeOK' /\ LanesOfSetup'
  BY <1>1 DEF IInv, TypeOK, Trigger, LanesOfSetup, Ids
<1> QED BY <1>2, Unmoved DEF Trigger

-----------------------------------------------------------------------------
LEMMA InitHolds == Init => IInv
<1> SUFFICES ASSUME Init PROVE IInv
  OBVIOUS
<1>1. At("idle", "none", {}) \in RunType /\ At("idle", "none", {}).pc = "idle"
  BY ConstantsAssumption DEF At, RunType, Idle
<1>2. slack = << >> /\ Len(slack) = 0 /\ Ids = {} /\ slack \in Seq(SlackType)
  BY EmptySeq DEF Init, Ids
<1>3. TypeOK
  BY <1>1, <1>2, ConstantsAssumption DEF Init, TypeOK
<1>4. \A u \in Users, l \in Lanes : run[u][l].pc = "idle"
  BY <1>1 DEF Init
<1>5. \A u \in Users, l \in Lanes : LaneOK(u, l)
  BY <1>4 DEF LaneOK, Own, InHand, Joined, Opening, Holding
<1>6. RecordedIsTheirs /\ UnrecordedIsLost /\ IntroducedOnce
  BY <1>2 DEF Init, RecordedIsTheirs, UnrecordedIsLost, IntroducedOnce
<1>7. LanesOfSetup
  BY <1>4, Names DEF LanesOfSetup, Idle
<1> QED BY <1>3, <1>5, <1>6, <1>7 DEF IInv

LEMMA NextKeeps == IInv /\ [Next]_vars => IInv'
<1> SUFFICES ASSUME IInv, [Next]_vars PROVE IInv'
  OBVIOUS
<1>1. ASSUME NEW u \in Users, SetUp(u) \/ MemoryFails(u) \/ SetUpEnds(u) PROVE IInv'
  BY <1>1, SetUpKeeps
<1>2. ASSUME NEW u \in Users, SetUpMemory(u) PROVE IInv'
  BY <1>2, SetUpMemoryKeeps
<1>3. ASSUME NEW u \in Users, NEW l \in Lanes, Open(u, l) PROVE IInv'
  BY <1>3, TriggerKeeps, StartKeeps, SyncKeeps, SyncNextKeeps, FindChannelKeeps, CreateChannelKeeps,
     SaveChannelKeeps, InviteKeeps, PostIntroKeeps, FollowDefaultsKeeps, FailsKeeps DEF Open
<1>4. ASSUME NEW u \in Users, NEW g \in Goals, WriteGoal(u, g) PROVE IInv'
  BY <1>4, WriteGoalKeeps
<1>5. ASSUME UNCHANGED vars PROVE IInv'
  <2>1. TypeOK' /\ LanesOfSetup'
    BY <1>5 DEF vars, IInv, TypeOK, LanesOfSetup, Ids
  <2> QED BY <1>5, <2>1, Unmoved DEF vars
<1> QED BY <1>1, <1>2, <1>3, <1>4, <1>5 DEF Next

(* The strengthened invariant holds of every reachable state.              *)
THEOREM Invariance == Spec => []IInv
BY InitHolds, NextKeeps, PTL DEF Spec

(* Every variable keeps its shape, whatever setup, triggers and failures   *)
(* interleave.                                                             *)
THEOREM TypeCorrect == Spec => []TypeOK
BY Invariance, PTL DEF IInv

(* A channel of Slack that no row names is in its maker's hand, or was     *)
(* lost between its creation and SaveChannel.                              *)
THEOREM UnrecordedIsLostAlways == Spec => []UnrecordedIsLost
BY Invariance, PTL DEF IInv

(* However openChannel is retried, it posts a channel's introduction once  *)
(* at most.                                                                *)
THEOREM IntroducedOnceAlways == Spec => []IntroducedOnce
BY Invariance, PTL DEF IInv

LEMMA InvitedWhenDone == IInv => DoneIsInvited
<1> SUFFICES ASSUME IInv, NEW u \in Users, NEW l \in Lanes \ {"goals"}, run[u][l].pc = "done"
             PROVE  \E i \in Ids : recorded[u][l] = i /\ slack[i].user = u /\ slack[i].for = l /\ slack[i].member
  BY DEF DoneIsInvited
<1>1. recorded[u][l] # 0 /\ slack[recorded[u][l]].member
  BY DEF IInv, LaneOK, Joined
<1>2. l \in Purposes
  BY Names
<1> QED BY <1>1, <1>2 DEF IInv, RecordedIsTheirs

(* openChannel's task ends well only with its user in the channel made for *)
(* them: the invitation is retried with it.                                *)
THEOREM DoneIsInvitedAlways == Spec => []DoneIsInvited
BY Invariance, InvitedWhenDone, PTL
=============================================================================
