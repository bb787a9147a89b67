---------------------------- MODULE UserChannels ----------------------------
(***************************************************************************)
(* How a Slack user gets the private channels made for them: news and      *)
(* inbox (user-setup, once they have memory), one per active goal          *)
(* (goal-channels), finance (finance-channel).  SQLite records a channel   *)
(* per user and purpose; Slack holds the channels; a task that fails is    *)
(* tried again from its first line, or fails for good.                     *)
(*                                                                         *)
(* A channel's name is data: the first of base, base-2, ... that is free.  *)
(***************************************************************************)
EXTENDS Naturals, Sequences, FiniteSets

CONSTANTS
    Users,
    Goals,        \* goal notes a user may have
    SetupLanes,   \* the channels user-setup opens: news, inbox
    QueuedLanes,  \* the tasks that wait for their turn: finance, goals
    MaxChannels,  \* bound: channels made in Slack
    MaxRuns       \* bound: runs of a task waiting for their turn

Lanes == SetupLanes \cup QueuedLanes
Purposes == (Lanes \ {"goals"}) \cup Goals

ASSUME ConstantsAssumption ==
    /\ SetupLanes \subseteq {"news", "inbox"} /\ QueuedLanes \subseteq {"finance", "goals"}
    /\ Goals \cap {"news", "inbox", "finance", "goals", "none"} = {}
    /\ MaxChannels \in Nat /\ MaxRuns \in Nat

VARIABLES
    memory,    \* the users with a memory project
    setup,     \* each user's run of user-setup
    active,    \* each user's active goals
    recorded,  \* channels: of each user and purpose a Slack channel, 0 for none
    follows,   \* the users who follow the default interests
    slack,     \* the channels in Slack, in the order they were made
    lost,      \* those whose maker stopped before it recorded them (history)
    waiting,   \* runs of goal-channels and finance-channel waiting
    run        \* of each user and lane: its openChannel calls

vars == <<memory, setup, active, recorded, follows, slack, lost, waiting, run>>

Ids == 1 .. Len(slack)
Idle == {"idle", "done", "failed"}

RunType ==
    [pc : Idle \cup {"sync", "next", "find", "create", "save", "invite", "intro", "seed"},
     todo : SUBSET Goals, for : Purposes \cup {"none"}, id : 0 .. MaxChannels, new : BOOLEAN]
SlackType == [user : Users, for : Purposes, member : BOOLEAN, intros : Nat]

At(pc, for, todo) == [pc |-> pc, todo |-> todo, for |-> for, id |-> 0, new |-> FALSE]

(* Where a task begins, each time it is tried.                             *)
Begin(l) == IF l = "goals" THEN At("sync", "none", {}) ELSE At("find", l, {})

Init ==
    /\ memory = {} /\ setup = [u \in Users |-> "idle"]
    /\ active = [u \in Users |-> {}]
    /\ recorded = [u \in Users |-> [p \in Purposes |-> 0]]
    /\ follows = {} /\ slack = << >> /\ lost = {}
    /\ waiting = [u \in Users |-> [l \in QueuedLanes |-> 0]]
    /\ run = [u \in Users |-> [l \in Lanes |-> At("idle", "none", {})]]

-----------------------------------------------------------------------------
(* user-setup.                                                             *)

(* setUp: a turn of a user who is not fully set up starts user-setup, and  *)
(* so do the digests' crons for one without the channel.  Of a user's runs,*)
(* one started while another is in flight is cancelled.                    *)
SetUp(u) ==
    /\ setup[u] = "idle"
    /\ ~(u \in memory /\ \A p \in SetupLanes : recorded[u][p] # 0)
    /\ setup' = [setup EXCEPT ![u] = "memory"]
    /\ UNCHANGED <<memory, active, recorded, follows, slack, lost, waiting, run>>

(* memory-project and bm-setup, then the tasks of the channels, at once.   *)
SetUpMemory(u) ==
    /\ setup[u] = "memory"
    /\ memory' = memory \cup {u}
    /\ setup' = [setup EXCEPT ![u] = "lanes"]
    /\ run' = [run EXCEPT ![u] = [l \in Lanes |-> IF l \in SetupLanes THEN Begin(l) ELSE @[l]]]
    /\ UNCHANGED <<active, recorded, follows, slack, lost, waiting>>

MemoryFails(u) ==
    /\ setup[u] = "memory"
    /\ setup' = [setup EXCEPT ![u] = "idle"]
    /\ UNCHANGED <<memory, active, recorded, follows, slack, lost, waiting, run>>

(* The run ends when its channels' tasks have.                             *)
SetUpEnds(u) ==
    /\ setup[u] = "lanes" /\ \A l \in SetupLanes : run[u][l].pc \in Idle
    /\ setup' = [setup EXCEPT ![u] = "idle"]
    /\ UNCHANGED <<memory, active, recorded, follows, slack, lost, waiting, run>>

-----------------------------------------------------------------------------
(* goal-channels and finance-channel.                                      *)

(* The agent writes goal notes: one becomes active, or is one no longer.   *)
WriteGoal(u, g) ==
    /\ u \in memory
    /\ \/ active' = [active EXCEPT ![u] = @ \cup {g}]
       \/ active' = [active EXCEPT ![u] = @ \ {g}]
    /\ UNCHANGED <<memory, setup, recorded, follows, slack, lost, waiting, run>>

(* Missing: the user's active goals that have no channel.                  *)
Missing(u) == IF u \notin memory THEN {} ELSE {g \in active[u] : recorded[u][g] = 0}

(* goalChannelsTrigger, after a turn; financeTrigger, after a turn of a    *)
(* user who has an account.                                                *)
Trigger(u, l) ==
    /\ l \in QueuedLanes /\ waiting[u][l] < MaxRuns
    /\ IF l = "goals" THEN Missing(u) # {} ELSE recorded[u][l] = 0
    /\ waiting' = [waiting EXCEPT ![u][l] = @ + 1]
    /\ UNCHANGED <<memory, setup, active, recorded, follows, slack, lost, run>>

(* Runs are serialized per user.                                           *)
Start(u, l) ==
    /\ l \in QueuedLanes /\ waiting[u][l] > 0 /\ run[u][l].pc \in Idle
    /\ waiting' = [waiting EXCEPT ![u][l] = @ - 1]
    /\ run' = [run EXCEPT ![u][l] = Begin(l)]
    /\ UNCHANGED <<memory, setup, active, recorded, follows, slack, lost>>

(* Sync opens a channel for each goal that lacked one when it began.       *)
Sync(u, l) ==
    /\ run[u][l].pc = "sync"
    /\ run' = [run EXCEPT ![u][l].pc = "next", ![u][l].todo = Missing(u)]
    /\ UNCHANGED <<memory, setup, active, recorded, follows, slack, lost, waiting>>

SyncNext(u, l) ==
    /\ run[u][l].pc = "next"
    /\ LET todo == run[u][l].todo IN
       \/ todo = {} /\ run' = [run EXCEPT ![u][l] = At("done", "none", {})]
       \/ \E g \in todo : run' = [run EXCEPT ![u][l] = At("find", g, todo \ {g})]
    /\ UNCHANGED <<memory, setup, active, recorded, follows, slack, lost, waiting>>

-----------------------------------------------------------------------------
(* openChannel.                                                            *)

Goes(u, l, pc) == run' = [run EXCEPT ![u][l].pc = pc]
Opens(u, l) == recorded[u][run[u][l].for]

(* Faulty variant: a channel that exists is taken for a new one.           *)
FindAsNew(u, l) ==
    /\ run[u][l].pc = "find"
    /\ run' = [run EXCEPT ![u][l].pc = IF Opens(u, l) = 0 THEN "create" ELSE "invite",
                          ![u][l].id = Opens(u, l), ![u][l].new = TRUE]
    /\ UNCHANGED <<memory, setup, active, recorded, follows, slack, lost, waiting>>

FindChannel(u, l) ==
    /\ run[u][l].pc = "find"
    /\ run' = [run EXCEPT ![u][l].pc = IF Opens(u, l) = 0 THEN "create" ELSE "invite",
                          ![u][l].id = Opens(u, l)]
    /\ UNCHANGED <<memory, setup, active, recorded, follows, slack, lost, waiting>>

(* Slack makes the channel; then, unless its answer was lost, it is in the *)
(* hand of the task.                                                       *)
Make(u, l) ==
    /\ run[u][l].pc = "create" /\ Len(slack) < MaxChannels
    /\ slack' = Append(slack, [user |-> u, for |-> run[u][l].for, member |-> FALSE, intros |-> 0])
    /\ UNCHANGED <<memory, setup, active, recorded, follows, lost, waiting>>

(* Faulty variant: the channel is recorded once its user is invited.       *)
CreateThenInvite(u, l) ==
    /\ Make(u, l)
    /\ run' = [run EXCEPT ![u][l].pc = "invite", ![u][l].id = Len(slack) + 1, ![u][l].new = TRUE]

CreateChannel(u, l) ==
    /\ Make(u, l)
    /\ run' = [run EXCEPT ![u][l].pc = "save", ![u][l].id = Len(slack) + 1, ![u][l].new = TRUE]

SaveChannel(u, l) ==
    /\ run[u][l].pc = "save" /\ Opens(u, l) = 0
    /\ recorded' = [recorded EXCEPT ![u][run[u][l].for] = run[u][l].id]
    /\ Goes(u, l, "invite")
    /\ UNCHANGED <<memory, setup, active, follows, slack, lost, waiting>>

After(l) == IF l = "goals" THEN "next" ELSE IF l = "news" THEN "seed" ELSE "done"

(* Faulty variant: only the user of a new channel is invited.              *)
InviteToNew(u, l) ==
    /\ run[u][l].pc = "invite"
    /\ slack' = [slack EXCEPT ![run[u][l].id].member = @ \/ run[u][l].new]
    /\ Goes(u, l, IF run[u][l].new THEN "intro" ELSE After(l))
    /\ UNCHANGED <<memory, setup, active, recorded, follows, lost, waiting>>

(* The user is invited either way, the channel introduced when it is new.  *)
Invite(u, l) ==
    /\ run[u][l].pc = "invite"
    /\ slack' = [slack EXCEPT ![run[u][l].id].member = TRUE]
    /\ Goes(u, l, IF run[u][l].new THEN "intro" ELSE After(l))
    /\ UNCHANGED <<memory, setup, active, recorded, follows, lost, waiting>>

PostIntro(u, l) ==
    /\ run[u][l].pc = "intro"
    /\ slack' = [slack EXCEPT ![run[u][l].id].intros = @ + 1]
    /\ Goes(u, l, After(l))
    /\ UNCHANGED <<memory, setup, active, recorded, follows, lost, waiting>>

FollowDefaults(u, l) ==
    /\ run[u][l].pc = "seed"
    /\ follows' = follows \cup {u}
    /\ Goes(u, l, "done")
    /\ UNCHANGED <<memory, setup, active, recorded, slack, lost, waiting>>

(* A call fails: the task is tried again from its first line, or fails for *)
(* good.  A call whose answer is lost has had its effect, and the failure  *)
(* comes at the next step.                                                 *)
Fails(u, l) ==
    /\ run[u][l].pc \notin Idle
    /\ \/ run' = [run EXCEPT ![u][l] = Begin(l)]
       \/ run' = [run EXCEPT ![u][l] = At("failed", "none", {})]
    /\ lost' = IF run[u][l].pc = "save" /\ Opens(u, l) = 0 THEN lost \cup {run[u][l].id} ELSE lost
    /\ UNCHANGED <<memory, setup, active, recorded, follows, slack, waiting>>

-----------------------------------------------------------------------------
Open(u, l) ==
    \/ Trigger(u, l) \/ Start(u, l) \/ Sync(u, l) \/ SyncNext(u, l)
    \/ FindChannel(u, l) \/ CreateChannel(u, l) \/ SaveChannel(u, l)
    \/ Invite(u, l) \/ PostIntro(u, l) \/ FollowDefaults(u, l) \/ Fails(u, l)

Next ==
    \E u \in Users :
        \/ SetUp(u) \/ SetUpMemory(u) \/ MemoryFails(u) \/ SetUpEnds(u)
        \/ \E l \in Lanes : Open(u, l)
        \/ \E g \in Goals : WriteGoal(u, g)

Spec == Init /\ [][Next]_vars

(* Users go on writing, so setUp is called again and again; what user-setup*)
(* has begun goes on.                                                      *)
Fairness ==
    \A u \in Users :
        /\ WF_vars(SetUp(u)) /\ WF_vars(SetUpEnds(u))
        /\ WF_vars(SetUpMemory(u))
        /\ \A l \in SetupLanes :
              /\ WF_vars(FindChannel(u, l)) /\ WF_vars(SaveChannel(u, l)) /\ WF_vars(Invite(u, l))
              /\ WF_vars(PostIntro(u, l)) /\ WF_vars(FollowDefaults(u, l))

FairSpec == Spec /\ Fairness
-----------------------------------------------------------------------------
(* Every variable keeps its shape.                                         *)
TypeOK ==
    /\ memory \subseteq Users /\ setup \in [Users -> {"idle", "memory", "lanes"}]
    /\ active \in [Users -> SUBSET Goals]
    /\ recorded \in [Users -> [Purposes -> 0 .. MaxChannels]]
    /\ follows \subseteq Users
    /\ slack \in Seq(SlackType) /\ Len(slack) <= MaxChannels /\ lost \subseteq Ids
    /\ waiting \in [Users -> [QueuedLanes -> 0 .. MaxRuns]]
    /\ run \in [Users -> [Lanes -> RunType]]

(* A channel stands in Slack unrecorded only in the hand of its maker, or  *)
(* when that one stopped right between making and recording it: nothing    *)
(* else that fails or is retried makes a second channel.                   *)
UnrecordedIsLost ==
    \A i \in Ids :
        LET u == slack[i].user
            p == slack[i].for
        IN  \/ recorded[u][p] = i
            \/ i \in lost
            \/ \E l \in Lanes : run[u][l].pc = "save" /\ run[u][l].id = i

(* A channel is introduced once at most, however its task is retried.      *)
IntroducedOnce == \A i \in Ids : slack[i].intros <= 1

(* A news, inbox or finance channel's task that ended well has its user in *)
(* the channel made for them and that purpose, whatever earlier tries did. *)
DoneIsInvited ==
    \A u \in Users : \A l \in Lanes \ {"goals"} :
        run[u][l].pc = "done" =>
            \E i \in Ids : recorded[u][l] = i /\ slack[i].user = u /\ slack[i].for = l /\ slack[i].member

-----------------------------------------------------------------------------
(* What comments and documents say and the code does not do.               *)

(* channels.go: "The user is invited either way, so a retry makes up a     *)
(* failed invite": when goal-channels ends well, its user is in the        *)
(* channels of their goals.                                                *)
SyncInvites ==
    \A u \in Users : \A g \in Goals :
        run[u]["goals"].pc = "done" /\ recorded[u][g] # 0 => slack[recorded[u][g]].member

(* channels.go: "recorded before anything else, so a retry never creates a *)
(* second one".                                                            *)
NeverSecond ==
    \A i, j \in Ids : slack[i].user = slack[j].user /\ slack[i].for = slack[j].for => i = j

(* docs/architecture.md: "a user whose channel failed gets it at their     *)
(* next turn".                                                             *)
FailedComes ==
    \A u \in Users : recorded[u]["news"] # 0 ~> recorded[u]["news"] # 0 /\ slack[recorded[u]["news"]].member
=============================================================================
