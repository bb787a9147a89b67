--------------------------- MODULE Conversations ---------------------------
(***************************************************************************)
(* Users' messages in Slack and the chat-turn runs that answer them        *)
(* (chat_turn.go). Slack sends a private channel's message as an event,    *)
(* and again as a mention when it names the agent, each of them more than  *)
(* once at times (slack/event.go); Hatchet runs the turns of a thread one  *)
(* at a time. A turn resumes the thread's claude session (store/threads.go)*)
(* and submits the job links it was asked to (job_links.go).               *)
(*                                                                         *)
(* There are two channels: "goal", the Owner's, which may be shared with   *)
(* other users, for goals of theirs, and "inbox", the Owner's own. The     *)
(* Owner's learning goal and inbox digests post there too                  *)
(* (LearningExercise, InboxDigest). A message is named by its ts, its      *)
(* place in posts. News and finance turns differ in what the agent is told.*)
(***************************************************************************)
EXTENDS Naturals, Sequences, FiniteSets

CONSTANTS
    Users, Owner,
    None,           \* no session, no exercise
    Sayings,        \* what users may write: where, with a mention or a job link
    MaxDay,         \* bound: the last day
    MaxSaid,        \* bound: how many messages users send
    MaxAgain        \* bound: how many deliveries Slack repeats

ASSUME OwnerAssumption == Owner \in Users
ASSUME DaysAssumption == MaxDay \in Nat
ASSUME BoundsAssumption == MaxSaid \in Nat /\ MaxAgain \in Nat
ASSUME SayingsAssumption ==
    Sayings \subseteq [user : Users, channel : {"goal", "inbox"}, mention : BOOLEAN, link : BOOLEAN]

Days == 0..MaxDay
Channels == {"goal", "inbox"}
Copies == {"message", "mention"}

VARIABLES
    today,
    members,   \* the users with a goal recorded in the goal channel
    ready,     \* the users whose memory is set up
    posts,     \* what users and the agent's workflows wrote, by ts; own is a history:
               \* whether the user had the channel when they wrote
    said,      \* how many of them users did
    again,     \* how many deliveries were repeated
    events,    \* the events whose run waits for its turn
    marked,    \* inbound_events
    turns,     \* the runs under way
    threads,   \* the user and session of each root ts
    asked,     \* job_link_requests: user and link, named by its message
    exercises, \* the Owner's exercises, oldest first
    handled    \* history: how often a turn was started for each message

talkVars == <<today, members, ready, posts, said, again, events, marked, turns, threads, asked,
              exercises, handled>>

NoThread == [user |-> None, session |-> None]

(* A session, named by its first user and the message it was started for.  *)
Session(user, from) == [user |-> user, from |-> from]

TalkInit ==
    /\ today = 0 /\ members = {Owner} /\ ready = {Owner}
    /\ posts = <<>> /\ said = 0 /\ again = 0
    /\ events = {} /\ marked = {} /\ turns = {}
    /\ threads = <<>> /\ asked = {} /\ exercises = <<>>
    /\ handled = <<>>

Root(ts) == posts[ts].root

(* ChannelOf: in a channel of their own users need not mention the agent.  *)
HasChannel(user, channel) == IF channel = "goal" THEN user \in members ELSE user = Owner

(* A new message in Slack, the agent's as None's.                          *)
Written(what, root) ==
    /\ posts' = Append(posts, [user |-> what.user, channel |-> what.channel, mention |-> what.mention,
                               link |-> what.link, root |-> IF root = 0 THEN Len(posts) + 1 ELSE root,
                               own |-> HasChannel(what.user, what.channel)])
    /\ threads' = Append(threads, NoThread)
    /\ handled' = Append(handled, 0)

Posted(channel) == Written([user |-> None, channel |-> channel, mention |-> FALSE, link |-> FALSE], 0)

NextDay ==
    /\ today < MaxDay
    /\ today' = today + 1
    /\ UNCHANGED <<members, ready, posts, said, again, events, marked, turns, threads, asked,
                   exercises, handled>>

(* A user starts a thread, or replies in one.                              *)
Say(what, root) ==
    /\ said < MaxSaid /\ said' = said + 1
    /\ root # 0 => posts[root].channel = what.channel /\ Root(root) = root
    /\ Written(what, root)
    /\ events' = events \cup
         [ts : {Len(posts) + 1}, copy : IF what.mention THEN Copies ELSE {"message"}, n : {0}]
    /\ UNCHANGED <<today, members, ready, again, marked, turns, asked, exercises>>

(* Slack repeats a delivery it has no answer to in time.                   *)
Redeliver(ts, copy) ==
    /\ again < MaxAgain /\ again' = again + 1
    /\ posts[ts].user \in Users /\ (copy = "mention" => posts[ts].mention)
    /\ events' = events \cup {[ts |-> ts, copy |-> copy, n |-> again + 1]}
    /\ UNCHANGED <<today, members, ready, posts, said, marked, turns, threads, asked, exercises, handled>>

(* The operator points the row of a user's goal at the channel, which the  *)
(* user may be in already (docs/architecture.md:138); user-setup ends.     *)
ShareChannel(user) ==
    /\ user \notin members
    /\ members' = members \cup {user}
    /\ UNCHANGED <<today, ready, posts, said, again, events, marked, turns, threads, asked, exercises, handled>>

MemoryReady(user) ==
    /\ user \notin ready
    /\ ready' = ready \cup {user}
    /\ UNCHANGED <<today, members, posts, said, again, events, marked, turns, threads, asked, exercises, handled>>

-----------------------------------------------------------------------------
(* Faulty variant: a mention always starts a turn.                         *)
AnyMention(user, channel, copy) == copy = "mention" \/ HasChannel(user, channel)

(* route: which of the copies of a message starts a turn.                  *)
Routed(user, channel, copy) == (copy = "message") <=> HasChannel(user, channel)

(* Faulty variant: the runs of one message are serialized.                 *)
MessageFree(e) == \A t \in turns : t.ts # e.ts

(* ChatTurnConcurrency: one run at a time for a root.                      *)
ThreadFree(e) == \A t \in turns : Root(t.ts) # Root(e.ts)

(* Faulty variant: a reply is taken for a thread of its own.               *)
TurnOfTS(e, at) ==
    [ts |-> e.ts, copy |-> e.copy, user |-> posts[e.ts].user, root |-> e.ts,
     at |-> at, goal |-> FALSE, session |-> None, exercise |-> None, asks |-> FALSE]

(* Process begins: the thread is RootTS.                                   *)
Turn(e, at) ==
    [ts |-> e.ts, copy |-> e.copy, user |-> posts[e.ts].user, root |-> Root(e.ts),
     at |-> at, goal |-> FALSE, session |-> None, exercise |-> None, asks |-> FALSE]

(* MarkEvent: an event delivered again is done with.                       *)
MarkEvent(e) ==
    /\ ThreadFree(e)
    /\ events' = events \ {e}
    /\ IF [ts |-> e.ts, copy |-> e.copy] \in marked THEN UNCHANGED <<marked, turns>>
       ELSE /\ marked' = marked \cup {[ts |-> e.ts, copy |-> e.copy]}
            /\ turns' = turns \cup {Turn(e, "route")}
    /\ UNCHANGED <<today, members, ready, posts, said, again, threads, asked, exercises, handled>>

TurnMoves(t, next) == turns' = (turns \ {t}) \cup next

(* From route to GetThread: a user who is not set up yet, or whose thread  *)
(* it isn't, gets a reply instead of a turn.                               *)
Resolve(t) ==
    /\ t.at = "route"
    /\ LET thread == threads[t.root]
           turn == /\ Routed(t.user, posts[t.ts].channel, t.copy)
                   /\ t.user \in ready
                   /\ thread.user \in {None, t.user}
           goal == posts[t.ts].channel = "goal" /\ t.user \in members
       IN  TurnMoves(t, IF turn THEN {[t EXCEPT !.at = "answer", !.goal = goal, !.session = thread.session]}
                        ELSE {})
    /\ UNCHANGED <<today, members, ready, posts, said, again, events, marked, threads, asked, exercises, handled>>

(* A reply in the thread of an exercise answers it.                        *)
MarkAnswered(root) ==
    exercises' = [i \in DOMAIN exercises |->
                    IF exercises[i].ts = root THEN [exercises[i] EXCEPT !.answered = TRUE]
                    ELSE exercises[i]]

(* Up to RunTurn: in a goal channel, MarkExerciseAnswered and its note.    *)
Answer(t) ==
    /\ t.at = "answer"
    /\ LET here == {i \in DOMAIN exercises : exercises[i].ts = t.root}
       IN  IF t.goal /\ t.root # t.ts
           THEN /\ MarkAnswered(t.root)
                /\ TurnMoves(t, {[t EXCEPT !.at = "talk",
                                           !.exercise = IF here = {} THEN None ELSE t.root]})
           ELSE /\ TurnMoves(t, {[t EXCEPT !.at = "talk"]})
                /\ UNCHANGED exercises
    /\ handled' = [handled EXCEPT ![t.ts] = @ + 1]
    /\ UNCHANGED <<today, members, ready, posts, said, again, events, marked, threads, asked>>

(* submit_job_links, in the turn, with the link of the message.            *)
SubmitLinks(t) ==
    /\ t.at = "talk" /\ posts[t.ts].link /\ ~t.asks
    /\ asked' = asked \cup {[user |-> t.user, link |-> t.ts]}
    /\ TurnMoves(t, {[t EXCEPT !.asks = TRUE]})
    /\ UNCHANGED <<today, members, ready, posts, said, again, events, marked, threads, exercises, handled>>

(* SaveThread keeps the user a thread has.                                 *)
SaveThread(root, user, session) ==
    threads' = [threads EXCEPT ![root] = [user |-> IF @.user = None THEN user ELSE @.user,
                                          session |-> session]]

(* The turn ends, with the session resumed, a new one when it was lost, or *)
(* an error and none; the session is saved, or saving it fails.            *)
EndTurn(t) ==
    /\ t.at = "talk"
    /\ \/ \E s \in {t.session, Session(t.user, t.ts)} \ {None} : SaveThread(t.root, t.user, s)
       \/ UNCHANGED threads
    /\ TurnMoves(t, {[t EXCEPT !.at = "after"]})
    /\ UNCHANGED <<today, members, ready, posts, said, again, events, marked, asked, exercises, handled>>

(* startSlackLinks takes what the user's turns asked for, and starts       *)
(* job-links with the links of this turn's message only.                   *)
AfterTurn(t) ==
    /\ t.at = "after"
    /\ asked' = {r \in asked : r.user # t.user}
    /\ TurnMoves(t, {})
    /\ UNCHANGED <<today, members, ready, posts, said, again, events, marked, threads, exercises, handled>>

(* A call fails or the worker stops; the run is never tried again.         *)
TurnStops(t) ==
    /\ TurnMoves(t, {})
    /\ UNCHANGED <<today, members, ready, posts, said, again, events, marked, threads, asked, exercises, handled>>

TalkNext ==
    \/ NextDay
    \/ \E what \in Sayings, root \in {0} \cup DOMAIN posts : Say(what, root)
    \/ \E ts \in DOMAIN posts, copy \in Copies : Redeliver(ts, copy)
    \/ \E u \in Users : ShareChannel(u) \/ MemoryReady(u)
    \/ \E e \in events : MarkEvent(e)
    \/ \E t \in turns : Resolve(t) \/ Answer(t) \/ SubmitLinks(t) \/ EndTurn(t) \/ AfterTurn(t) \/ TurnStops(t)

-----------------------------------------------------------------------------
Sessions == [user : Users, from : DOMAIN posts] \cup {None}

TalkTypeOK ==
    /\ today \in Days /\ ready \subseteq Users /\ members \subseteq Users
    /\ \A ts \in DOMAIN posts : posts[ts].channel \in Channels /\ Root(ts) <= ts /\ Root(Root(ts)) = Root(ts)
    /\ said <= MaxSaid /\ again <= MaxAgain
    /\ \A e \in events : e.ts \in DOMAIN posts /\ posts[e.ts].user \in Users
    /\ \A t \in turns :
         /\ [ts |-> t.ts, copy |-> t.copy] \in marked
         /\ t.at \in {"route", "answer", "talk", "after"}
         /\ t.user = posts[t.ts].user /\ t.root = Root(t.ts) /\ t.session \in Sessions
         /\ t.exercise \in {None, t.root}
    /\ Len(threads) = Len(posts) /\ Len(handled) = Len(posts)
    /\ \A ts \in DOMAIN threads : threads[ts].user # None => Root(ts) = ts /\ threads[ts].session \in Sessions
    /\ \A r \in asked : r.user = posts[r.link].user

(* A message starts at most one turn, though its events come twice and     *)
(* again (chat_turn.go:227, route: "their @mentions there arrive twice, so *)
(* the mention copy is skipped"), unless the channel was shared with its   *)
(* user after they wrote it.                                               *)
TurnOnce ==
    \A ts \in DOMAIN handled :
        handled[ts] <= 1 \/ posts[ts].own # HasChannel(posts[ts].user, posts[ts].channel)

(* ChatTurnConcurrency: "turns never resume the same claude session        *)
(* concurrently", also a session that was drafted by a workflow.           *)
SessionsSerial ==
    \A t, o \in turns : t # o /\ t.at = "talk" /\ o.at = "talk" =>
        t.session = None \/ t.session # o.session

(* chat_turn.go:108, "the session (and, later, memory) is theirs": of      *)
(* whoever the conversation belongs to.                                    *)
SessionTheirs ==
    \A ts \in DOMAIN threads : threads[ts].session # None => threads[ts].session.user = threads[ts].user

(* docs/web.md:79, "After the turn, the worker adds those that appear in   *)
(* the message": the request for a link of a turn's own message is there   *)
(* when the turn ends.                                                     *)
AskedStays == \A t \in turns : t.asks => [user |-> t.user, link |-> t.ts] \in asked
=============================================================================
