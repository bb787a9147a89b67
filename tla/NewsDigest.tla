---------------------------- MODULE NewsDigest -----------------------------
(***************************************************************************)
(* The news shorts of one user: the cron that starts a digest per slot     *)
(* (news_shorts.go), the digest's run, one at a time per user              *)
(* (news_digest.go), the reactions and replies it gets (news_feedback.go,  *)
(* chat_turn.go), the interests the user follows (interests.go), and the   *)
(* tables they share (memory/store/news.go, interests.go).                 *)
(*                                                                         *)
(* A slot is the time its cron fired at; now counts time in the same unit. *)
(* The run is cut at every call another run, task or tool may see: the     *)
(* worker may stop, and a call fail, at each of them. A message of Slack   *)
(* whose answer was an error may still have been written.                  *)
(***************************************************************************)
EXTENDS DigestPick

CONSTANTS
    Items,           \* the links in the feeds
    Judged,          \* what a ranking may say of an item
    Defaults,        \* the interests every user starts with
    Own,             \* interests only the user's agent may add
    Deliveries,      \* the tasks Slack events start: an event may come twice
    EventOf,         \* the event of each delivery
    EmojiOf,         \* what each event's emoji is worth, as a reaction: 1, 0 or -1
    StoryWindow,     \* storyWindow
    MaxNow,          \* bound: how long the instance runs
    MaxRuns          \* bound: how many digest runs are started

ASSUME ItemsAssumption == DOMAIN InterestOf = Items /\ IsFiniteSet(Items)
ASSUME EventsAssumption == DOMAIN EventOf = Deliveries
ASSUME BoundsAssumption == MaxNow \in Nat /\ MaxRuns \in Nat /\ StoryWindow \in Nat

Interests == {InterestOf[i] : i \in Items}
Slots == 0..MaxNow
Events == {EventOf[d] : d \in Deliveries}
Stories == {j.story : j \in Judged} \ {NoName}

VARIABLES
    now,
    follow,    \* interests and user_interests: what the user has of each
    queue,     \* the slots of the runs started and not yet running
    started,   \* how many runs were started
    run,       \* the run that has the user's turn
    mark,      \* digests: "free", "reserved" or "posted", per slot
    digest,    \* digests, digest_items: message, items and time of a posted slot
    sentUrl,   \* sent_urls
    sentStory, \* sent_stories: when each story was last sent; -1 never
    slack,     \* the messages of the news channel
    kind,      \* of each event: "reaction" or "reply"
    task,      \* where each delivery's task or turn is, and its message
    events,    \* inbound_events
    signal     \* digest_signals: the slots of the rows each event made

interestVars == <<follow>>
runVars == <<queue, started, run>>
digestVars == <<mark, digest, sentUrl, sentStory>>
feedbackVars == <<kind, task, events, signal>>
vars == <<now, follow, queue, started, run, mark, digest, sentUrl, sentStory, slack,
          kind, task, events, signal>>

Judgement(i, j) ==
    [item |-> i, include |-> j.include, mean |-> j.mean, story |-> j.story, category |-> j.category]

Judgements == {Judgement(i, j) : i \in Items, j \in Judged}

Idle == [at |-> "idle", slot |-> 0, items |-> {}, judged |-> {}, since |-> 0, ts |-> 0]

NoDigest == [ts |-> 0, items |-> {}, at |-> 0]

Init ==
    /\ now = 0
    /\ follow = [i \in Interests |-> IF i \in Own THEN "absent" ELSE "none"]
    /\ queue = <<>> /\ started = 0 /\ run = Idle
    /\ mark = [s \in Slots |-> "free"]
    /\ digest = [s \in Slots |-> NoDigest]
    /\ sentUrl = {}
    /\ sentStory = [t \in Stories |-> -1]
    /\ slack = <<>>
    /\ kind \in [Events -> {"reaction", "reply"}]
    /\ task = [d \in Deliveries |-> [at |-> "none", ts |-> 0]]
    /\ events = {}
    /\ signal = [e \in Events |-> <<>>]

Tick ==
    /\ now < MaxNow
    /\ now' = now + 1
    /\ UNCHANGED <<interestVars, runVars, digestVars, slack, feedbackVars>>

-----------------------------------------------------------------------------
(* Interests: the agent's tools and user-setup.                            *)

InCatalog(i) == follow[i] # "absent"

(* add_interest adds one of the user's own to the catalog; it follows it   *)
(* with the next call, which may fail.                                     *)
AddInterest(i) ==
    /\ ~InCatalog(i)
    /\ follow' = [follow EXCEPT ![i] = "none"]
    /\ UNCHANGED <<now, runVars, digestVars, slack, feedbackVars>>

(* follow_interest follows an interest of the catalog, or resumes it.      *)
FollowInterest(i) ==
    /\ InCatalog(i)
    /\ follow' = [follow EXCEPT ![i] = "active"]
    /\ UNCHANGED <<now, runVars, digestVars, slack, feedbackVars>>

(* set_interest_status mutes or resumes one the user follows.              *)
SetInterestStatus(i, status) ==
    /\ follow[i] \in {"active", "muted"}
    /\ follow' = [follow EXCEPT ![i] = status]
    /\ UNCHANGED <<now, runVars, digestVars, slack, feedbackVars>>

(* user-setup, started by the cron and chat turns, has the user follow the *)
(* defaults they have no row of, one statement each.                       *)
FollowDefault(i) ==
    /\ i \in Defaults /\ follow[i] = "none"
    /\ follow' = [follow EXCEPT ![i] = "active"]
    /\ UNCHANGED <<now, runVars, digestVars, slack, feedbackVars>>

Active == {i \in Interests : follow[i] = "active"}

-----------------------------------------------------------------------------
(* The digest's run.                                                       *)

(* The cron starts the run of the slot that is due. The cron's task may be *)
(* retried and a run started again by hand, so a slot may have several.    *)
NewsShorts ==
    /\ started < MaxRuns
    /\ queue' = Append(queue, now)
    /\ started' = started + 1
    /\ UNCHANGED <<now, interestVars, run, digestVars, slack, feedbackVars>>

(* Runs are serialized per user.                                           *)
RunStarts ==
    /\ run.at = "idle" /\ queue # <<>>
    /\ run' = [Idle EXCEPT !.at = "check", !.slot = Head(queue)]
    /\ queue' = Tail(queue)
    /\ UNCHANGED <<now, interestVars, started, digestVars, slack, feedbackVars>>

RunMoves(next) ==
    /\ run' = next
    /\ UNCHANGED <<now, interestVars, queue, started, feedbackVars>>

(* A reserved slot counts as posted.                                       *)
CheckSkip ==
    /\ run.at = "check"
    /\ RunMoves(IF mark[run.slot] # "free" \/ Active = {} THEN Idle
                ELSE [run EXCEPT !.at = "gather"])
    /\ UNCHANGED <<digestVars, slack>>

(* Feeds fail one by one; an interest none of whose feeds is read has no   *)
(* items.                                                                  *)
FeedsRead == SUBSET Active

(* Faulty variant: sent_urls is not looked at.                             *)
ItemsOf(read) == {i \in Items : InterestOf[i] \in read}

Unsent(read) == {i \in Items \ sentUrl : InterestOf[i] \in read}

(* The items not sent before, of the interests whose feeds could be read.  *)
Gather ==
    /\ run.at = "gather"
    /\ \E read \in FeedsRead : RunMoves([run EXCEPT !.at = "rank", !.items = Unsent(read)])
    /\ UNCHANGED <<digestVars, slack>>

(* One turn per interest; the items of those whose turn fails are left out.*)
Rank ==
    /\ run.at = "rank"
    /\ \E ranked \in SUBSET {InterestOf[i] : i \in run.items} :
         LET I == {i \in run.items : InterestOf[i] \in ranked}
         IN  \E f \in [I -> Judged] :
               RunMoves([run EXCEPT !.at = "pick", !.items = {},
                             !.judged = {Judgement(i, f[i]) : i \in I}])
    /\ UNCHANGED <<digestVars, slack>>

(* SentStoriesSince storyWindow ago.                                       *)
RecentStories == {t \in Stories : sentStory[t] >= 0 /\ sentStory[t] >= now - StoryWindow}

(* A reply counts as a like.                                               *)
ValueOf(e) == IF kind[e] = "reply" THEN 1 ELSE EmojiOf[e]

(* One for each item of the interest in the digest of each row.            *)
Counted(i, value) ==
    {c \in Events \X (1..Cardinality(Deliveries)) \X Items :
        LET e == c[1]
            n == c[2]
        IN  /\ n <= Len(signal[e]) /\ ValueOf(e) = value /\ InterestOf[c[3]] = i
            /\ \E j \in digest[signal[e][n]].items : j.item = c[3]}

(* InterestSignals: the likes less the dislikes of an interest, within     *)
(* feedbackWindow, which the instance is no longer than.                   *)
Likes == [i \in Interests |-> Cardinality(Counted(i, 1)) - Cardinality(Counted(i, -1))]

(* The post task, which is never retried, reads what was sent and how it   *)
(* was taken, and picks.                                                   *)
PickItems ==
    /\ run.at = "pick"
    /\ \E s \in Orders(Eligible(run.judged, RecentStories), Likes) :
         RunMoves(IF Pick(s) = {} THEN Idle
                  ELSE [run EXCEPT !.at = "reserve", !.judged = Pick(s), !.since = now])
    /\ UNCHANGED <<digestVars, slack>>

(* Faulty variant: nothing is written before the post.                     *)
PostUnreserved ==
    /\ run.at = "reserve"
    /\ RunMoves(IF mark[run.slot] = "free" THEN [run EXCEPT !.at = "slack"] ELSE Idle)
    /\ UNCHANGED <<digestVars, slack>>

(* ReserveDigest: an INSERT that does nothing when the slot has a row.     *)
ReserveDigest ==
    /\ run.at = "reserve"
    /\ IF mark[run.slot] = "free"
       THEN /\ mark' = [mark EXCEPT ![run.slot] = "reserved"]
            /\ RunMoves([run EXCEPT !.at = "slack"])
       ELSE /\ RunMoves(Idle)
            /\ UNCHANGED mark
    /\ UNCHANGED <<digest, sentUrl, sentStory, slack>>

Written(lost) == Append(slack, [slot |-> run.slot, lost |-> lost])

(* Slack writes the digest and says so.                                    *)
PostDigest ==
    /\ run.at = "slack"
    /\ slack' = Written(FALSE)
    /\ RunMoves([run EXCEPT !.at = "complete", !.ts = Len(slack) + 1])
    /\ UNCHANGED digestVars

(* The call fails, though Slack may have written the message.              *)
PostFails ==
    /\ run.at = "slack"
    /\ slack' \in {slack, Written(TRUE)}
    /\ RunMoves([run EXCEPT !.at = "release"])
    /\ UNCHANGED digestVars

(* The worker stops while Slack writes.                                    *)
PostStops ==
    /\ run.at = "slack"
    /\ slack' = Written(FALSE)
    /\ RunMoves(Idle)
    /\ UNCHANGED digestVars

(* ReleaseDigest, with a context of its own; the run has failed.           *)
ReleaseDigest ==
    /\ run.at = "release"
    /\ mark' = [mark EXCEPT ![run.slot] = IF @ = "reserved" THEN "free" ELSE @]
    /\ RunMoves(Idle)
    /\ UNCHANGED <<digest, sentUrl, sentStory, slack>>

(* CompleteDigest, in one transaction: the row, its items, and their links *)
(* and stories as sent.                                                    *)
CompleteDigest ==
    /\ run.at = "complete"
    /\ mark' = [mark EXCEPT ![run.slot] = "posted"]
    /\ digest' = [digest EXCEPT ![run.slot] = [ts |-> run.ts, items |-> run.judged, at |-> run.since]]
    /\ sentUrl' = sentUrl \cup {j.item : j \in run.judged}
    /\ sentStory' = [t \in Stories |-> IF \E j \in run.judged : j.story = t THEN now
                                       ELSE sentStory[t]]
    /\ RunMoves(Idle)
    /\ UNCHANGED slack

(* A task fails for good, or the worker stops, at any other point.         *)
RunFails ==
    /\ run.at # "idle"
    /\ RunMoves(Idle)
    /\ UNCHANGED <<digestVars, slack>>

-----------------------------------------------------------------------------
(* Feedback.                                                               *)

TaskMoves(d, at) ==
    /\ task' = [task EXCEPT ![d].at = at]
    /\ UNCHANGED <<now, interestVars, runVars, digestVars, slack, kind>>

(* Slack delivers an event on a message, every delivery of it the same.    *)
Deliver(d) ==
    /\ task[d].at = "none"
    /\ \E ts \in DOMAIN slack :
         /\ \A c \in Deliveries : EventOf[c] = EventOf[d] /\ task[c].at # "none" => task[c].ts = ts
         /\ task' = [task EXCEPT ![d] = [at |-> "due", ts |-> ts]]
    /\ UNCHANGED <<now, interestVars, runVars, digestVars, slack, kind, events, signal>>

(* DigestByTS: the slots whose recorded message is ts, one at most.        *)
DigestsByTS(ts) == {s \in Slots : mark[s] = "posted" /\ digest[s].ts = ts}

(* Faulty variant: the event is not marked.                                *)
TakeUnmarked(d) ==
    /\ task[d].at = "due" /\ kind[EventOf[d]] = "reaction"
    /\ TaskMoves(d, IF DigestsByTS(task[d].ts) = {} THEN "ended" ELSE "fresh")
    /\ UNCHANGED <<events, signal>>

(* news-reaction marks the event of a reaction to a digest ...             *)
TakeReaction(d) ==
    /\ task[d].at = "due" /\ kind[EventOf[d]] = "reaction"
    /\ IF DigestsByTS(task[d].ts) = {} \/ EventOf[d] \in events
       THEN TaskMoves(d, "ended") /\ UNCHANGED events
       ELSE TaskMoves(d, "fresh") /\ events' = events \cup {EventOf[d]}
    /\ UNCHANGED signal

(* ... and chat-turn that of any reply, before it looks for the digest.    *)
TakeReply(d) ==
    /\ task[d].at = "due" /\ kind[EventOf[d]] = "reply"
    /\ IF EventOf[d] \in events
       THEN TaskMoves(d, "ended") /\ UNCHANGED events
       ELSE TaskMoves(d, "fresh") /\ events' = events \cup {EventOf[d]}
    /\ UNCHANGED signal

(* Faulty variant: a message that is no digest's gets a row of its own.    *)
SaveUnowned(d) ==
    /\ task[d].at = "fresh"
    /\ signal' = [signal EXCEPT ![EventOf[d]] =
                    Append(@, IF DigestsByTS(task[d].ts) = {} THEN -1
                              ELSE CHOOSE s \in DigestsByTS(task[d].ts) : TRUE)]
    /\ TaskMoves(d, "ended")
    /\ UNCHANGED events

SaveSignal(d) ==
    /\ task[d].at = "fresh"
    /\ signal' = [signal EXCEPT ![EventOf[d]] =
                    IF DigestsByTS(task[d].ts) = {} THEN @
                    ELSE Append(@, CHOOSE s \in DigestsByTS(task[d].ts) : TRUE)]
    /\ TaskMoves(d, "ended")
    /\ UNCHANGED events

(* A reaction's task is retried from its start; a reply's turn is not.     *)
TaskFails(d) ==
    /\ task[d].at \in {"due", "fresh"}
    /\ \/ kind[EventOf[d]] = "reaction" /\ TaskMoves(d, "due")
       \/ TaskMoves(d, "ended")
    /\ UNCHANGED <<events, signal>>

-----------------------------------------------------------------------------
RunSteps ==
    \/ RunStarts \/ CheckSkip \/ Gather \/ Rank \/ PickItems \/ ReserveDigest
    \/ PostDigest \/ PostFails \/ PostStops \/ ReleaseDigest \/ CompleteDigest \/ RunFails

InterestSteps ==
    \E i \in Interests :
        \/ AddInterest(i) \/ FollowInterest(i) \/ FollowDefault(i)
        \/ \E status \in {"active", "muted"} : SetInterestStatus(i, status)

FeedbackSteps ==
    \E d \in Deliveries :
        Deliver(d) \/ TakeReaction(d) \/ TakeReply(d) \/ SaveSignal(d) \/ TaskFails(d)

Next == Tick \/ NewsShorts \/ RunSteps \/ InterestSteps \/ FeedbackSteps

Spec == Init /\ [][Next]_vars
-----------------------------------------------------------------------------
TypeOK ==
    /\ now \in Slots /\ started \in 0..MaxRuns
    /\ follow \in [Interests -> {"absent", "none", "active", "muted"}]
    /\ queue \in Seq(Slots)
    /\ run \in [at : {"idle", "check", "gather", "rank", "pick", "reserve", "slack", "release", "complete"},
               slot : Slots, items : SUBSET Items, judged : SUBSET Judgements, since : Slots,
               ts : 0..Len(slack)]
    /\ mark \in [Slots -> {"free", "reserved", "posted"}]
    /\ digest \in [Slots -> [ts : 0..Len(slack), items : SUBSET Judgements, at : Slots]]
    /\ sentUrl \subseteq Items
    /\ sentStory \in [Stories -> Slots \cup {-1}]
    /\ slack \in Seq([slot : Slots, lost : BOOLEAN])
    /\ kind \in [Events -> {"reaction", "reply"}]
    /\ task \in [Deliveries -> [at : {"none", "due", "fresh", "ended"}, ts : 0..Len(slack)]]
    /\ events \subseteq Events
    /\ signal \in [Events -> Seq(Slots)]

(* The digest is the best there is (pickItems): it keeps the caps, no two  *)
(* of its items are of one story, and whatever was eligible and left out   *)
(* is blocked by items that score no less.                                 *)
PickedBest ==
    [][ run.at = "pick" /\ run'.at = "reserve" =>
          LET E == Eligible(run.judged, RecentStories)
              P == run'.judged
              Above(j) == {k \in P : Score(k, Likes) >= Score(j, Likes)}
          IN  /\ P \subseteq E /\ Cardinality(P) <= MaxItems
              /\ \A j \in P :
                   /\ Cardinality(SameInterest(P, j)) <= MaxPerInterest
                   /\ j.category # NoName => Cardinality(SameCategory(P, j)) <= MaxPerCategory
                   /\ \A k \in P : j.story = k.story /\ j.story # NoName => j = k
              /\ \A j \in E \ P : Blocked(Above(j), j) ]_vars

(* A story is not sent again within storyWindow of the last digest that    *)
(* had it, whichever slots the two are of and whenever they were posted.   *)
StoryOnce ==
    \A s, t \in Slots :
        s # t /\ mark[s] = "posted" /\ mark[t] = "posted"
          => \A j \in digest[s].items, k \in digest[t].items :
               j.story = k.story /\ j.story # NoName
                 => digest[s].at - digest[t].at \notin (-StoryWindow)..StoryWindow

(* No link is in two digests the store knows of.                           *)
LinkOnce ==
    \A s, t \in Slots :
        s # t => {j.item : j \in digest[s].items} \cap {j.item : j \in digest[t].items} = {}

(* docs/architecture.md:181, "each net like over the last 30 days moves an *)
(* interest's items up half a point": the points given to an interest are  *)
(* those of the likes and dislikes of the digests it was in.               *)
HalfPointPerLike ==
    \A i \in Interests :
        LET Of(value) ==
                {c \in Events \X (1..Cardinality(Deliveries)) :
                    /\ c[2] <= Len(signal[c[1]]) /\ ValueOf(c[1]) = value
                    /\ \E j \in digest[signal[c[1]][c[2]]].items : InterestOf[j.item] = i}
        IN  Clamp(Likes[i]) = Clamp(Cardinality(Of(1)) - Cardinality(Of(-1)))

(* However often Slack delivers an event and its task is retried, it       *)
(* counts once, and for the digest the user saw it on.                     *)
ReactionOnce ==
    \A d \in Deliveries :
        LET rows == signal[EventOf[d]]
        IN  /\ Len(rows) <= 1
            /\ rows # <<>> /\ task[d].at # "none" =>
                 slack[task[d].ts].slot = rows[1] /\ ~slack[task[d].ts].lost

(* How many messages of a slot Slack wrote and did not answer with an      *)
(* error.                                                                  *)
SentOf(s) == Cardinality({ts \in DOMAIN slack : slack[ts].slot = s /\ ~slack[ts].lost})

Once == INSTANCE PostOnce WITH sent <- [s \in Slots |-> SentOf(s)]

(* A slot's digest is posted at most once, whatever is retried or stops    *)
(* (news_digest.go: "a run that dies after posting is never replayed into  *)
(* a second post").                                                        *)
PostsOnce == Once!Spec
=============================================================================
