----------------------------- MODULE TalkProofs -----------------------------
(***************************************************************************)
(* Theorems about Talk, for any users, sayings, days and numbers of        *)
(* messages, deliveries, exercises and digests: a day's digest is posted   *)
(* once, one exercise is open, no exercise loses its note, and a session   *)
(* has one turn at a time. Each rests on an invariant of its own.          *)
(***************************************************************************)
EXTENDS Talk, SequenceTheorems, TLAPS

(* What conversations leave to the others, and to the days.                *)
LEMMA TalkKeeps ==
    ASSUME TalkNext
    PROVE  today' = today \/ (today < MaxDay /\ today' = today + 1)
<1>1. CASE NextDay
  BY <1>1 DEF NextDay
<1>2. CASE \E what \in Sayings, root \in {0} \cup DOMAIN posts : Say(what, root)
  BY <1>2 DEF Say
<1>3. CASE \E ts \in DOMAIN posts, copy \in Copies : Redeliver(ts, copy)
  BY <1>3 DEF Redeliver
<1>4. CASE \E u \in Users : ShareChannel(u) \/ MemoryReady(u)
  BY <1>4 DEF ShareChannel, MemoryReady
<1>5. CASE \E e \in events : MarkEvent(e)
  BY <1>5 DEF MarkEvent
<1>6. CASE \E t \in turns : \/ Resolve(t) \/ Answer(t) \/ SubmitLinks(t)
                            \/ EndTurn(t) \/ AfterTurn(t) \/ TurnStops(t)
  BY <1>6 DEF Resolve, Answer, SubmitLinks, EndTurn, AfterTurn, TurnStops
<1> QED BY <1>1, <1>2, <1>3, <1>4, <1>5, <1>6 DEF TalkNext

LEMMA ExercisesKeepToday == ASSUME ExerciseNext PROVE today' = today
BY DEF ExerciseNext, LearningExercises, ExerciseStarts, CheckSkip, DraftExercise, PostExercise,
       SaveExerciseThread, SaveExercise, WriteNote, ExerciseFails, talkVars

LEMMA InboxKeepsToday == ASSUME InboxNext PROVE today' = today
BY DEF InboxNext, InboxDigests, DigestStarts, CheckInbox, DraftInbox, ReserveInbox, PostInbox, PostFails,
       PostStops, ReleaseInbox, CompleteInbox, SaveInboxThread, DigestFails, InboxMessage, talkVars

-----------------------------------------------------------------------------
(* A day's digest is posted once: the run about to post has the day        *)
(* reserved and not posted, whatever other runs and stops left.            *)
DInv ==
    /\ today \in Days /\ due \in Seq(Days)
    /\ digest = [at |-> digest.at, day |-> digest.day, ts |-> digest.ts]
    /\ digest.day \in Days
    /\ day \in [Days -> {"free", "reserved", "posted"}] /\ sent \in [Days -> Nat]
    /\ \A d \in Days : day[d] = "free" => sent[d] = 0
    /\ digest.at \in {"slack", "release"} => day[digest.day] = "reserved" /\ sent[digest.day] = 0
    /\ digest.at = "complete" => day[digest.day] = "reserved" /\ sent[digest.day] = 1

LEMMA InitDInv == Init => DInv /\ Once!Init
BY DaysAssumption DEF Init, TalkInit, InboxInit, DInv, NoDigest, Days, Once!Init

LEMMA NextDInv ==
    ASSUME DInv, [Next]_vars
    PROVE  DInv' /\ [Once!Next]_(Once!vars)
<1> USE DEF DInv
<1>1. CASE UNCHANGED vars
  BY <1>1 DEF vars, inboxVars, talkVars, Once!vars
<1>2. CASE TalkNext /\ UNCHANGED <<exerciseVars, inboxVars>>
  <2>1. today' \in Days
    BY <1>2, TalkKeeps, DaysAssumption DEF Days
  <2> QED BY <1>2, <2>1 DEF inboxVars, Once!vars
<1>3. CASE ExerciseNext /\ UNCHANGED inboxVars
  BY <1>3, ExercisesKeepToday DEF inboxVars, Once!vars
<1>4. CASE InboxNext /\ UNCHANGED exerciseVars
  <2>0. today' = today
    BY <1>4, InboxKeepsToday
  <2>. /\ NoDigest.at = "idle" /\ NoDigest.day \in Days
       /\ NoDigest = [at |-> NoDigest.at, day |-> NoDigest.day, ts |-> NoDigest.ts]
    BY DaysAssumption DEF NoDigest, Days
  <2>1. CASE InboxDigests
    BY <2>0, <2>1 DEF InboxDigests, Once!vars
  <2>2. CASE DigestStarts
    <3>1. Head(due) \in Days /\ due' \in Seq(Days)
      BY <2>2 DEF DigestStarts
    <3> QED BY <2>0, <2>2, <3>1 DEF DigestStarts, NoDigest, Once!vars
  <2>3. CASE CheckInbox
    BY <2>0, <2>3 DEF CheckInbox, DigestMoves, Once!vars
  <2>4. CASE DraftInbox
    BY <2>0, <2>4 DEF DraftInbox, DigestMoves, Once!vars
  <2>5. CASE ReserveInbox
    BY <2>0, <2>5 DEF ReserveInbox, DigestMoves, Once!vars, Once!Next, Once!Reserve
  <2>6. CASE PostInbox \/ PostStops
    <3>1. /\ day[digest.day] = "reserved" /\ sent[digest.day] = 0
          /\ sent' = [sent EXCEPT ![digest.day] = 1] /\ day' = day
      BY <2>6 DEF PostInbox, PostStops
    <3>2. Once!Post(digest.day)
      BY <3>1 DEF Once!Post
    <3>3. CASE PostInbox
      <4>1. /\ digest' = [at |-> "complete", day |-> digest.day, ts |-> Len(posts) + 1]
            /\ due' = due
        BY <3>3 DEF PostInbox, DigestMoves
      <4>2. DInv'
        BY <2>0, <3>1, <4>1
      <4> QED BY <3>2, <4>2 DEF Once!Next
    <3>4. CASE PostStops
      BY <2>0, <3>1, <3>2, <3>4 DEF PostStops, DigestMoves, Once!Next
    <3> QED BY <2>6, <3>3, <3>4
  <2>7. CASE PostFails
    BY <2>0, <2>7 DEF PostFails, DigestMoves, Once!vars
  <2>8. CASE ReleaseInbox
    BY <2>0, <2>8 DEF ReleaseInbox, DigestMoves, Once!vars, Once!Next, Once!Release
  <2>9. CASE CompleteInbox
    BY <2>0, <2>9 DEF CompleteInbox, DigestMoves, Once!vars, Once!Next, Once!Complete
  <2>10. CASE SaveInboxThread
    BY <2>0, <2>10 DEF SaveInboxThread, DigestMoves, Once!vars
  <2>11. CASE DigestFails
    BY <2>0, <2>11 DEF DigestFails, DigestMoves, Once!vars
  <2> QED BY <1>4, <2>1, <2>2, <2>3, <2>4, <2>5, <2>6, <2>7, <2>8, <2>9, <2>10, <2>11 DEF InboxNext
<1> QED BY <1>1, <1>2, <1>3, <1>4 DEF Next

(* A day's digest is posted at most once, whatever is started again, fails *)
(* or stops: Talk implements PostOnce.                                     *)
THEOREM PostsOnceAlways == Spec => PostsOnce
<1>1. Spec => []DInv
  BY InitDInv, NextDInv, PTL DEF Spec
<1> QED BY <1>1, InitDInv, NextDInv, PTL DEF Spec, PostsOnce, Once!Spec

-----------------------------------------------------------------------------
(* A session has one turn at a time: it is of one thread, and a thread has *)
(* one turn at a time.                                                     *)
PostType ==
    [user : Users \cup {None}, channel : Channels, mention : BOOLEAN, link : BOOLEAN,
     root : Nat \ {0}, own : BOOLEAN]

SessionType == [user : Users \cup {None}, from : Nat \ {0}] \cup {None}

ThreadType == [user : Users \cup {None}, session : SessionType]

(* A session of the thread at root.                                        *)
SessionOf(session, root) ==
    /\ session \in SessionType
    /\ session # None => session.from \in DOMAIN posts /\ Root(session.from) = root

TurnType ==
    [ts : Nat \ {0}, copy : Copies, user : Users \cup {None}, root : Nat \ {0},
     at : {"route", "answer", "talk", "after"}, goal : BOOLEAN, session : SessionType,
     exercise : Nat \cup {None}, asks : BOOLEAN]

TurnOK(t) ==
    /\ t \in TurnType /\ t.ts \in DOMAIN posts /\ t.root = Root(t.ts)
    /\ SessionOf(t.session, t.root)

IsRoot(ts) == ts \in DOMAIN posts /\ Root(ts) = ts

PostsOK ==
    /\ posts \in Seq(PostType) /\ threads \in Seq(ThreadType) /\ Len(threads) = Len(posts)
    /\ \A ts \in DOMAIN posts : IsRoot(Root(ts))

ThreadsOK == \A r \in DOMAIN threads : SessionOf(threads[r].session, r)

EventsOK == \A e \in events : e.ts \in DOMAIN posts /\ e.copy \in Copies

TurnsOK ==
    /\ \A t \in turns : TurnOK(t)
    /\ \A t, o \in turns : t # o => t.root # o.root

WorkOK ==
    /\ draft = [at |-> draft.at, stamp |-> draft.stamp, ts |-> draft.ts]
    /\ draft.at \in {"thread", "record", "note"} => IsRoot(draft.ts)
    /\ digest = [at |-> digest.at, day |-> digest.day, ts |-> digest.ts]
    /\ digest.at \in {"complete", "thread"} => IsRoot(digest.ts)

SInv == PostsOK /\ ThreadsOK /\ EventsOK /\ TurnsOK /\ WorkOK

LEMMA InitSInv == Init => SInv
<1> SUFFICES ASSUME Init PROVE SInv
  OBVIOUS
<1>1. posts = <<>> /\ threads = <<>> /\ events = {} /\ turns = {}
  BY DEF Init, TalkInit
<1>2. draft = [at |-> "idle", stamp |-> None, ts |-> 0] /\ digest = [at |-> "idle", day |-> 0, ts |-> 0]
  BY DEF Init, ExerciseInit, InboxInit, NoDraft, NoDigest
<1> QED BY <1>1, <1>2 DEF SInv, PostsOK, ThreadsOK, EventsOK, TurnsOK, WorkOK

(* What is there stays when a message is written.                          *)
LEMMA WrittenKeeps ==
    ASSUME SInv, NEW what, what.user \in Users \cup {None}, what.channel \in Channels,
           what.mention \in BOOLEAN, what.link \in BOOLEAN,
           NEW root, root = 0 \/ IsRoot(root), Written(what, root)
    PROVE  /\ PostsOK' /\ ThreadsOK'
           /\ Len(posts') = Len(posts) + 1 /\ DOMAIN posts \subseteq DOMAIN posts'
           /\ \A ts \in DOMAIN posts : posts'[ts] = posts[ts]
           /\ Len(posts) + 1 \in DOMAIN posts'
           /\ posts'[Len(posts) + 1].root = IF root = 0 THEN Len(posts) + 1 ELSE root
<1> DEFINE new == [user |-> what.user, channel |-> what.channel, mention |-> what.mention,
                   link |-> what.link, root |-> IF root = 0 THEN Len(posts) + 1 ELSE root,
                   own |-> HasChannel(what.user, what.channel)]
<1>1. new \in PostType
  <2>1. HasChannel(what.user, what.channel) \in BOOLEAN
    <3>1. HasChannel(what.user, what.channel) \in {what.user \in members, what.user = Owner}
      BY DEF HasChannel
    <3>2. (what.user \in members) \in BOOLEAN /\ (what.user = Owner) \in BOOLEAN
      OBVIOUS
    <3> QED BY <3>1, <3>2
  <2> QED BY <2>1 DEF PostType, SInv, PostsOK, IsRoot
<1>2. NoThread \in ThreadType
  BY DEF NoThread, ThreadType, SessionType
<1>3. posts' = Append(posts, new) /\ threads' = Append(threads, NoThread)
  BY DEF Written
<1> HIDE DEF new
<1>4. /\ posts' \in Seq(PostType) /\ threads' \in Seq(ThreadType)
      /\ Len(posts') = Len(posts) + 1 /\ Len(threads') = Len(posts')
      /\ \A ts \in DOMAIN posts : posts'[ts] = posts[ts] /\ threads'[ts] = threads[ts]
      /\ posts'[Len(posts) + 1] = new /\ threads'[Len(posts) + 1] = NoThread
      /\ DOMAIN posts' = DOMAIN posts \cup {Len(posts) + 1}
      /\ DOMAIN threads' = DOMAIN posts'
      /\ Len(posts) + 1 \notin DOMAIN posts /\ DOMAIN threads = DOMAIN posts
  BY <1>1, <1>2, <1>3 DEF SInv, PostsOK
<1>5. new.root = IF root = 0 THEN Len(posts) + 1 ELSE root
  BY DEF new
<1>6. PostsOK'
  BY <1>4, <1>5 DEF SInv, PostsOK, IsRoot, Root
<1>7. ThreadsOK'
  BY <1>2, <1>4 DEF SInv, ThreadsOK, SessionOf, Root, NoThread, ThreadType
<1> QED BY <1>4, <1>5, <1>6, <1>7

(* What holds of a message, a session or a turn does as posts are added.   *)
LEMMA PostsStay ==
    ASSUME SInv, PostsOK',
           \A ts \in DOMAIN posts : ts \in DOMAIN posts' /\ posts'[ts] = posts[ts]
    PROVE  /\ \A s, r : SessionOf(s, r) => SessionOf(s, r)'
           /\ \A t : TurnOK(t) => TurnOK(t)'
           /\ \A ts : IsRoot(ts) => IsRoot(ts)'
           /\ events' = events => EventsOK'
           /\ turns' = turns => TurnsOK'
           /\ draft' = draft /\ digest' = digest => WorkOK'
<1>1. \A s, r : SessionOf(s, r) => SessionOf(s, r)'
  BY DEF SessionOf, Root
<1>2. \A t : TurnOK(t) => TurnOK(t)'
  BY <1>1 DEF TurnOK, Root
<1>3. \A ts : IsRoot(ts) => IsRoot(ts)'
  BY DEF IsRoot, Root
<1>4. events' = events => EventsOK'
  BY DEF SInv, EventsOK
<1>5. turns' = turns => TurnsOK'
  BY <1>2 DEF SInv, TurnsOK
<1>6. draft' = draft /\ digest' = digest => WorkOK'
  BY <1>3 DEF SInv, WorkOK
<1> QED BY <1>1, <1>2, <1>3, <1>4, <1>5, <1>6

LEMMA SaveThreadKeeps ==
    ASSUME SInv, posts' = posts, NEW root, IsRoot(root), NEW user \in Users \cup {None},
           NEW session, SessionOf(session, root), SaveThread(root, user, session)
    PROVE  PostsOK' /\ ThreadsOK'
<1> DEFINE row == [user |-> IF threads[root].user = None THEN user ELSE threads[root].user,
                   session |-> session]
<1>1. row \in ThreadType
  <2>1. root \in DOMAIN threads /\ threads[root] \in ThreadType
    BY DEF SInv, PostsOK, IsRoot
  <2> QED BY <2>1 DEF ThreadType, SessionOf
<1>2. threads' = [threads EXCEPT ![root] = row]
  BY DEF SaveThread
<1>3. row.session = session
  OBVIOUS
<1>0. threads \in Seq(ThreadType) /\ root \in 1..Len(threads)
  BY DEF SInv, PostsOK, IsRoot
<1> HIDE DEF row
<1>4. /\ threads' \in Seq(ThreadType) /\ Len(threads') = Len(threads)
      /\ \A r \in DOMAIN threads : threads'[r] = IF r = root THEN row ELSE threads[r]
      /\ DOMAIN threads' = DOMAIN threads
  BY <1>0, <1>1, <1>2, ExceptSeq
<1>5. PostsOK'
  BY <1>4 DEF SInv, PostsOK, IsRoot, Root
<1>6. ThreadsOK'
  BY <1>3, <1>4 DEF SInv, ThreadsOK, SessionOf, Root
<1> QED BY <1>5, <1>6

(* A turn ends, or it moves on and stays of its thread.                    *)
LEMMA TurnGone ==
    ASSUME SInv, posts' = posts, NEW t \in turns, TurnMoves(t, {})
    PROVE  TurnsOK'
<1>1. turns' \subseteq turns
  BY DEF TurnMoves
<1> QED BY <1>1 DEF SInv, TurnsOK, TurnOK, SessionOf, Root

LEMMA TurnGoesOn ==
    ASSUME SInv, posts' = posts, NEW t \in turns, NEW n, TurnMoves(t, {n}),
           TurnOK(n), n.root = t.root
    PROVE  TurnsOK'
<1>1. turns' = (turns \ {t}) \cup {n}
  BY DEF TurnMoves
<1>2. \A m \in turns' : TurnOK(m)'
  BY <1>1 DEF SInv, TurnsOK, TurnOK, SessionOf, Root
<1>3. \A m, o \in turns' : m # o => m.root # o.root
  BY <1>1 DEF SInv, TurnsOK
<1> QED BY <1>2, <1>3 DEF TurnsOK

LEMMA Unwritten ==
    ASSUME SInv, posts' = posts, threads' = threads
    PROVE  /\ PostsOK' /\ ThreadsOK'
           /\ \A ts \in DOMAIN posts : ts \in DOMAIN posts' /\ posts'[ts] = posts[ts]
<1>1. PostsOK'
  BY DEF SInv, PostsOK, IsRoot, Root
<1>2. ThreadsOK'
  BY DEF SInv, ThreadsOK, SessionOf, Root
<1> QED BY <1>1, <1>2

LEMMA TalkSInv ==
    ASSUME SInv, TalkNext, draft' = draft, digest' = digest
    PROVE  SInv'
<1>1. CASE NextDay \/ \E u \in Users : ShareChannel(u) \/ MemoryReady(u)
  <2>1. UNCHANGED <<posts, threads, events, turns>>
    BY <1>1 DEF NextDay, ShareChannel, MemoryReady
  <2> QED BY <2>1, Unwritten, PostsStay DEF SInv
<1>2. ASSUME NEW what \in Sayings, NEW root \in {0} \cup DOMAIN posts, Say(what, root)
      PROVE  SInv'
  <2>1. /\ what.user \in Users \cup {None} /\ what.channel \in Channels
        /\ what.mention \in BOOLEAN /\ what.link \in BOOLEAN
    BY SayingsAssumption DEF Channels
  <2>2. Written(what, root) /\ turns' = turns /\ (root = 0 \/ IsRoot(root))
    BY <1>2 DEF Say, IsRoot
  <2>3. PostsOK' /\ ThreadsOK' /\ TurnsOK' /\ WorkOK'
    BY <2>1, <2>2, WrittenKeeps, PostsStay
  <2>4. EventsOK'
    <3>1. Len(posts) + 1 \in DOMAIN posts' /\ DOMAIN posts \subseteq DOMAIN posts'
      BY <2>1, <2>2, WrittenKeeps
    <3>2. \A e \in events' : e \in events \/ (e.ts = Len(posts) + 1 /\ e.copy \in Copies)
      BY <1>2 DEF Say, Copies
    <3> QED BY <3>1, <3>2 DEF SInv, EventsOK
  <2> QED BY <2>3, <2>4 DEF SInv
<1>3. ASSUME NEW ts \in DOMAIN posts, NEW copy \in Copies, Redeliver(ts, copy)
      PROVE  SInv'
  <2>1. UNCHANGED <<posts, threads, turns>>
        /\ events' = events \cup {[ts |-> ts, copy |-> copy, n |-> again + 1]}
    BY <1>3 DEF Redeliver
  <2>2. EventsOK'
    BY <2>1 DEF SInv, EventsOK
  <2> QED BY <2>1, <2>2, Unwritten, PostsStay DEF SInv
<1>4. ASSUME NEW e \in events, MarkEvent(e)
      PROVE  SInv'
  <2>1. UNCHANGED <<posts, threads>> /\ events' = events \ {e}
        /\ e.ts \in DOMAIN posts /\ e.copy \in Copies
    BY <1>4 DEF MarkEvent, SInv, EventsOK
  <2>2. turns' = turns \/ turns' = turns \cup {Turn(e, "route")}
    BY <1>4 DEF MarkEvent
  <2>3. TurnOK(Turn(e, "route")) /\ Turn(e, "route").root = Root(e.ts)
    <3>1. /\ e.ts \in Nat \ {0} /\ Root(e.ts) \in Nat \ {0} /\ posts[e.ts].user \in Users \cup {None}
      <4>1. posts \in Seq(PostType) /\ DOMAIN posts = 1..Len(posts) /\ posts[e.ts] \in PostType
        BY <2>1 DEF SInv, PostsOK
      <4> QED BY <2>1, <4>1 DEF PostType, Root
    <3>2. Turn(e, "route") \in TurnType
      BY <2>1, <3>1 DEF Turn, TurnType, SessionType
    <3> QED BY <2>1, <3>2 DEF Turn, TurnOK, SessionOf, SessionType
  <2>4. \A t \in turns : t.root # Root(e.ts)
    BY <1>4 DEF MarkEvent, ThreadFree, SInv, TurnsOK, TurnOK
  <2>5. EventsOK'
    BY <2>1 DEF SInv, EventsOK
  <2>6. TurnsOK'
    <3> HIDE DEF Turn
    <3>1. \A t \in turns' : TurnOK(t)'
      BY <2>1, <2>2, <2>3, Unwritten, PostsStay DEF SInv, TurnsOK
    <3>2. \A t, o \in turns' : t # o => t.root # o.root
      BY <2>2, <2>3, <2>4 DEF SInv, TurnsOK
    <3> QED BY <3>1, <3>2 DEF TurnsOK
  <2> QED BY <1>4, <2>1, <2>5, <2>6, Unwritten, PostsStay DEF SInv
<1>5. ASSUME NEW t \in turns,
             Resolve(t) \/ Answer(t) \/ SubmitLinks(t) \/ EndTurn(t) \/ AfterTurn(t) \/ TurnStops(t)
      PROVE  SInv'
  <2>0. TurnOK(t) /\ t \in TurnType /\ IsRoot(t.root)
    BY DEF SInv, PostsOK, TurnsOK, TurnOK
  <2>1. posts' = posts /\ events' = events
    BY <1>5 DEF Resolve, Answer, SubmitLinks, EndTurn, AfterTurn, TurnStops
  <2>2. CASE Resolve(t)
    <3>1. SessionOf(threads[t.root].session, t.root)
      BY <2>0 DEF SInv, PostsOK, ThreadsOK, IsRoot
    <3>2. PICK goal \in BOOLEAN :
             \/ TurnMoves(t, {})
             \/ TurnMoves(t, {[t EXCEPT !.at = "answer", !.goal = goal, !.session = threads[t.root].session]})
      <4>1. (posts[t.ts].channel = "goal" /\ t.user \in members) \in BOOLEAN
        OBVIOUS
      <4> QED BY <2>2, <4>1, Zenon DEF Resolve
    <3> DEFINE n == [t EXCEPT !.at = "answer", !.goal = goal, !.session = threads[t.root].session]
    <3>3. TurnOK(n) /\ n.root = t.root
      BY <2>0, <3>1 DEF TurnOK, TurnType, SessionOf
    <3>6. TurnMoves(t, {}) \/ TurnMoves(t, {n})
      BY <3>2
    <3>4. TurnsOK'
      <4> HIDE DEF n
      <4> QED BY <2>1, <3>3, <3>6, TurnGone, TurnGoesOn
    <3>5. threads' = threads
      BY <2>2 DEF Resolve
    <3> QED BY <2>1, <3>4, <3>5, Unwritten, PostsStay DEF SInv
  <2>3. CASE Answer(t)
    <3>1. PICK exercise \in {None, t.root, t.exercise} :
             TurnMoves(t, {[t EXCEPT !.at = "talk", !.exercise = exercise]})
      <4>1. /\ t.exercise \in Nat \cup {None}
            /\ [t EXCEPT !.at = "talk"] = [t EXCEPT !.at = "talk", !.exercise = t.exercise]
        BY <2>0 DEF TurnType
      <4> QED BY <2>3, <4>1 DEF Answer
    <3> DEFINE n == [t EXCEPT !.at = "talk", !.exercise = exercise]
    <3>2. TurnOK(n) /\ n.root = t.root
      BY <2>0, <3>1 DEF TurnOK, TurnType, SessionOf
    <3>3. TurnsOK'
      BY <2>1, <3>1, <3>2, TurnGone, TurnGoesOn
    <3>4. threads' = threads
      BY <2>3 DEF Answer
    <3> QED BY <2>1, <3>3, <3>4, Unwritten, PostsStay DEF SInv
  <2>5. CASE SubmitLinks(t)
    <3>1. TurnMoves(t, {[t EXCEPT !.asks = TRUE]}) /\ threads' = threads
      BY <2>5 DEF SubmitLinks
    <3> DEFINE n == [t EXCEPT !.asks = TRUE]
    <3>2. TurnOK(n) /\ n.root = t.root
      BY <2>0 DEF TurnOK, TurnType, SessionOf
    <3>3. TurnsOK'
      BY <2>1, <3>1, <3>2, TurnGone, TurnGoesOn
    <3> QED BY <2>1, <3>1, <3>3, Unwritten, PostsStay DEF SInv
  <2>6. CASE AfterTurn(t) \/ TurnStops(t)
    <3>1. TurnMoves(t, {}) /\ threads' = threads
      BY <2>6 DEF AfterTurn, TurnStops
    <3>2. TurnsOK'
      BY <2>1, <3>1, TurnGone, TurnGoesOn
    <3> QED BY <2>1, <3>1, <3>2, Unwritten, PostsStay DEF SInv
  <2>4. CASE EndTurn(t)
    <3>1. TurnMoves(t, {[t EXCEPT !.at = "after"]})
      BY <2>4 DEF EndTurn
    <3>2. TurnsOK'
      <4>1. TurnOK([t EXCEPT !.at = "after"]) /\ [t EXCEPT !.at = "after"].root = t.root
        BY <2>0 DEF TurnOK, TurnType, SessionOf
      <4> QED BY <2>1, <3>1, <4>1, TurnGone, TurnGoesOn
    <3>3. PostsOK' /\ ThreadsOK'
      <4>1. CASE threads' = threads
        BY <2>1, <4>1, Unwritten
      <4>2. ASSUME NEW s \in {t.session, Session(t.user, t.ts)} \ {None}, SaveThread(t.root, t.user, s)
            PROVE  PostsOK' /\ ThreadsOK'
        <5>1. SessionOf(Session(t.user, t.ts), t.root)
          BY <2>0 DEF SessionOf, Session, TurnOK, TurnType, SessionType
        <5>2. SessionOf(s, t.root) /\ t.user \in Users \cup {None}
          BY <2>0, <4>2, <5>1 DEF TurnOK, TurnType
        <5> QED BY <2>0, <2>1, <4>2, <5>2, SaveThreadKeeps
      <4> QED BY <2>4, <4>1, <4>2 DEF EndTurn
    <3>4. \A ts \in DOMAIN posts : ts \in DOMAIN posts' /\ posts'[ts] = posts[ts]
      BY <2>1
    <3> QED BY <2>1, <3>2, <3>3, <3>4, PostsStay DEF SInv
  <2> QED BY <1>5, <2>2, <2>3, <2>4, <2>5, <2>6
<1> QED BY <1>1, <1>2, <1>3, <1>4, <1>5 DEF TalkNext

(* The agent's workflows write a root message and record their thread.     *)
LEMMA PostedKeeps ==
    ASSUME SInv, NEW channel \in Channels, Posted(channel)
    PROVE  /\ PostsOK' /\ ThreadsOK'
           /\ \A ts \in DOMAIN posts : ts \in DOMAIN posts' /\ posts'[ts] = posts[ts]
           /\ \A ts : ts = Len(posts) + 1 => IsRoot(ts)'
<1> DEFINE what == [user |-> None, channel |-> channel, mention |-> FALSE, link |-> FALSE]
<1>1. Written(what, 0)
  BY DEF Posted
<1>2. /\ what.user \in Users \cup {None} /\ what.channel \in Channels
      /\ what.mention \in BOOLEAN /\ what.link \in BOOLEAN
  OBVIOUS
<1> HIDE DEF what
<1> QED BY <1>1, <1>2, WrittenKeeps DEF IsRoot, Root

LEMMA ThreadRecorded ==
    ASSUME SInv, posts' = posts, NEW ts, IsRoot(ts), SaveThread(ts, Owner, Session(Owner, ts))
    PROVE  PostsOK' /\ ThreadsOK'
<1>1. ts \in Nat \ {0}
  BY DEF SInv, PostsOK, IsRoot
<1>2. SessionOf(Session(Owner, ts), ts) /\ Owner \in Users \cup {None}
  BY <1>1, OwnerAssumption DEF SessionOf, Session, SessionType, IsRoot
<1> QED BY <1>2, SaveThreadKeeps

LEMMA ExerciseSInv ==
    ASSUME SInv, ExerciseNext, UNCHANGED inboxVars
    PROVE  SInv'
<1>0. digest' = digest
  BY DEF inboxVars
<1>1. CASE PostExercise
  <2>1. Posted("goal") /\ UNCHANGED <<events, turns>> 
        /\ draft' = [at |-> "thread", stamp |-> draft.stamp, ts |-> Len(posts) + 1]
    BY <1>1 DEF PostExercise, ExerciseMoves, SInv, WorkOK
  <2>2. WorkOK'
    BY <1>0, <2>1, PostedKeeps, PostsStay DEF SInv, WorkOK, Channels
  <2> QED BY <2>1, <2>2, PostedKeeps, PostsStay DEF SInv, Channels
<1>2. CASE SaveExerciseThread
  <2>1. /\ SaveThread(draft.ts, Owner, Session(Owner, draft.ts)) /\ UNCHANGED <<posts, events, turns>>
        /\ IsRoot(draft.ts) /\ draft' = [at |-> "record", stamp |-> draft.stamp, ts |-> draft.ts]
    BY <1>2 DEF SaveExerciseThread, ExerciseMoves, SInv, WorkOK
  <2>2. WorkOK'
    BY <1>0, <2>1 DEF SInv, WorkOK, IsRoot, Root
  <2> QED BY <2>1, <2>2, ThreadRecorded, PostsStay DEF SInv
<1>3. CASE \/ LearningExercises \/ ExerciseStarts \/ CheckSkip \/ DraftExercise
           \/ SaveExercise \/ WriteNote \/ ExerciseFails
  <2>1. UNCHANGED <<posts, threads, events, turns>>
    BY <1>3 DEF LearningExercises, ExerciseStarts, CheckSkip, DraftExercise, SaveExercise, WriteNote,
                ExerciseFails, talkVars
  <2>2. \/ draft' = draft \/ draft' = NoDraft
        \/ \E at, stamp : /\ draft' = [at |-> at, stamp |-> stamp, ts |-> draft.ts]
                          /\ at \in {"check", "draft", "post"} \/ (draft.at = "record" /\ at = "note")
    BY <1>3 DEF LearningExercises, ExerciseStarts, CheckSkip, DraftExercise, SaveExercise, WriteNote,
                ExerciseFails, ExerciseMoves, SInv, WorkOK
  <2>3. WorkOK'
    BY <1>0, <2>1, <2>2 DEF NoDraft, SInv, WorkOK, IsRoot, Root
  <2> QED BY <2>1, <2>3, Unwritten, PostsStay DEF SInv
<1> QED BY <1>1, <1>2, <1>3 DEF ExerciseNext

LEMMA InboxSInv ==
    ASSUME SInv, InboxNext, UNCHANGED exerciseVars
    PROVE  SInv'
<1>0. draft' = draft
  BY DEF exerciseVars
<1>1. CASE PostInbox \/ PostStops \/ (PostFails /\ InboxMessage)
  <2>1. /\ Posted("inbox") /\ UNCHANGED <<events, turns>>
        /\ \/ digest' = [at |-> "complete", day |-> digest.day, ts |-> Len(posts) + 1]
           \/ digest' = NoDigest
           \/ digest' = [at |-> "release", day |-> digest.day, ts |-> digest.ts]
    BY <1>1 DEF PostInbox, PostStops, PostFails, InboxMessage, DigestMoves, SInv, WorkOK
  <2>2. WorkOK'
    BY <1>0, <2>1, PostedKeeps, PostsStay DEF SInv, WorkOK, Channels, NoDigest
  <2> QED BY <2>1, <2>2, PostedKeeps, PostsStay DEF SInv, Channels
<1>2. CASE SaveInboxThread
  <2>1. /\ SaveThread(digest.ts, Owner, Session(Owner, digest.ts)) /\ UNCHANGED <<posts, events, turns>>
        /\ IsRoot(digest.ts) /\ digest' = NoDigest
    BY <1>2 DEF SaveInboxThread, DigestMoves, SInv, WorkOK
  <2>2. WorkOK'
    BY <1>0, <2>1 DEF SInv, WorkOK, IsRoot, Root, NoDigest
  <2> QED BY <2>1, <2>2, ThreadRecorded, PostsStay DEF SInv
<1>3. CASE \/ InboxDigests \/ DigestStarts \/ CheckInbox \/ DraftInbox \/ ReserveInbox
           \/ (PostFails /\ UNCHANGED talkVars) \/ ReleaseInbox \/ CompleteInbox \/ DigestFails
  <2>1. UNCHANGED <<posts, threads, events, turns>>
    BY <1>3 DEF InboxDigests, DigestStarts, CheckInbox, DraftInbox, ReserveInbox, ReleaseInbox, CompleteInbox,
                DigestFails, talkVars
  <2>2. \/ digest' = digest \/ digest' = NoDigest
        \/ \E at, d : /\ \/ digest' = [at |-> at, day |-> d, ts |-> digest.ts]
                         \/ digest' = [at |-> at, day |-> d, ts |-> 0]
                      /\ \/ at \in {"check", "draft", "reserve", "slack", "release"}
                         \/ digest.at = "complete" /\ at = "thread" /\ digest'.ts = digest.ts
    <3>1. CASE InboxDigests \/ CheckInbox \/ DraftInbox
      BY <3>1 DEF InboxDigests, CheckInbox, DraftInbox, DigestMoves, SInv, WorkOK
    <3>2. CASE DigestStarts
      BY <3>2 DEF DigestStarts, NoDigest
    <3>3. CASE ReserveInbox
      BY <3>3 DEF ReserveInbox, DigestMoves, SInv, WorkOK
    <3>4. CASE PostFails
      BY <3>4 DEF PostFails, DigestMoves, SInv, WorkOK
    <3>5. CASE CompleteInbox
      BY <3>5 DEF CompleteInbox, DigestMoves, SInv, WorkOK
    <3> QED BY <1>3, <3>1, <3>2, <3>3, <3>4, <3>5 DEF ReleaseInbox, DigestFails, DigestMoves
  <2>3. WorkOK'
    BY <1>0, <2>1, <2>2 DEF NoDigest, SInv, WorkOK, IsRoot, Root
  <2> QED BY <2>1, <2>3, Unwritten, PostsStay DEF SInv
<1> QED BY <1>1, <1>2, <1>3 DEF InboxNext, PostFails

LEMMA NextSInv == ASSUME SInv, [Next]_vars PROVE SInv'
<1>1. CASE UNCHANGED vars
  BY <1>1, Unwritten, PostsStay DEF vars, talkVars, exerciseVars, inboxVars, SInv
<1>2. CASE TalkNext /\ UNCHANGED <<exerciseVars, inboxVars>>
  BY <1>2, TalkSInv DEF exerciseVars, inboxVars
<1> QED BY <1>1, <1>2, ExerciseSInv, InboxSInv DEF Next

LEMMA SInvSerial == SInv => SessionsSerial
BY DEF SInv, TurnsOK, TurnOK, SessionOf, SessionsSerial

(* Two turns never resume one session at a time, whoever writes where, and *)
(* whichever drafted it.                                                   *)
THEOREM SessionsSerialAlways == Spec => []SessionsSerial
BY InitSInv, NextSInv, SInvSerial, PTL DEF Spec

-----------------------------------------------------------------------------
(* Only the last exercise may be open, and while a run is past its check   *)
(* none is. A note is named after its day and, unless it is the day's      *)
(* first, its place; days only grow, also past the run that chose a name.  *)
ExerciseType == [ts : Nat, day : Nat, note : Nat \X Nat, answered : BOOLEAN]

LastOpen ==
    /\ \A i \in DOMAIN exercises : i # Len(exercises) => exercises[i].answered
    /\ draft.at \in {"draft", "post", "thread", "record"} => \A i \in DOMAIN exercises : exercises[i].answered

DaysGrow ==
    /\ \A i, j \in DOMAIN exercises : i < j => exercises[i].day <= exercises[j].day
    /\ \A i \in DOMAIN exercises : exercises[i].day <= today

(* The name on day d of the exercise at place n.                           *)
NameAt(d, n) == IF n > 1 /\ exercises[n - 1].day = d THEN <<d, n - 1>> ELSE <<d, 0>>

Named == \A i \in DOMAIN exercises : exercises[i].note = NameAt(exercises[i].day, i)

StampNext ==
    draft.at \in {"post", "thread", "record"} =>
        \E d \in Nat :
            /\ d <= today /\ draft.stamp = NameAt(d, Len(exercises) + 1)
            /\ \A i \in DOMAIN exercises : exercises[i].day <= d

EInv ==
    /\ today \in Nat /\ exercises \in Seq(ExerciseType)
    /\ LastOpen /\ DaysGrow /\ Named /\ StampNext

LEMMA InitEInv == Init => EInv
BY DEF Init, TalkInit, ExerciseInit, NoDraft, EInv, LastOpen, DaysGrow, Named, StampNext

(* Answering an exercise changes nothing else of it.                       *)
LEMMA AnsweredKeeps ==
    ASSUME EInv, draft' = draft, today' \in Nat, today <= today', NEW root,
           exercises' = exercises \/ MarkAnswered(root)
    PROVE  EInv'
<1>1. /\ exercises' \in Seq(ExerciseType) /\ Len(exercises') = Len(exercises)
      /\ DOMAIN exercises' = 1..Len(exercises) /\ DOMAIN exercises = 1..Len(exercises)
      /\ \A i \in DOMAIN exercises :
           /\ exercises'[i].day = exercises[i].day /\ exercises'[i].note = exercises[i].note
           /\ exercises[i].answered => exercises'[i].answered
  <2>1. CASE exercises' = exercises
    BY <2>1 DEF EInv
  <2>2. CASE MarkAnswered(root)
    <3>1. \A i \in DOMAIN exercises : exercises[i] \in ExerciseType
      BY DEF EInv
    <3>2. \A i \in DOMAIN exercises : exercises'[i] \in ExerciseType
      BY <2>2, <3>1 DEF MarkAnswered, ExerciseType
    <3>3. exercises' = [i \in 1..Len(exercises) |-> exercises'[i]]
      BY <2>2 DEF MarkAnswered, EInv
    <3>4. Len(exercises) \in Nat /\ DOMAIN exercises = 1..Len(exercises)
      BY DEF EInv
    <3>5. exercises' \in Seq(ExerciseType) /\ Len(exercises') = Len(exercises)
      BY <3>2, <3>3, <3>4
    <3> QED BY <2>2, <3>1, <3>4, <3>5 DEF MarkAnswered, ExerciseType
  <2> QED BY <2>1, <2>2
<1>2. LastOpen'
  BY <1>1 DEF EInv, LastOpen
<1>3. DaysGrow'
  <2>1. \A i \in DOMAIN exercises : exercises[i].day \in Nat
    <3>1. \A i \in DOMAIN exercises : exercises[i] \in ExerciseType
      BY DEF EInv
    <3> QED BY <3>1 DEF ExerciseType
  <2>2. \A i \in DOMAIN exercises : exercises'[i].day <= today'
    BY <1>1, <2>1 DEF EInv, DaysGrow
  <2>3. \A i, j \in DOMAIN exercises : i < j => exercises'[i].day <= exercises'[j].day
    BY <1>1 DEF EInv, DaysGrow
  <2> QED BY <1>1, <2>2, <2>3 DEF DaysGrow
<1>4. \A d, n : n \in 1..(Len(exercises) + 1) => NameAt(d, n)' = NameAt(d, n)
  <2> SUFFICES ASSUME NEW d, NEW n \in 1..(Len(exercises) + 1), n > 1
               PROVE  exercises'[n - 1].day = exercises[n - 1].day
    BY DEF NameAt
  <2> QED BY <1>1 DEF EInv
<1>5. Named'
  BY <1>1, <1>4 DEF EInv, Named
<1>6. StampNext'
  BY <1>1, <1>4 DEF EInv, StampNext
<1> QED BY <1>1, <1>2, <1>3, <1>5, <1>6 DEF EInv

LEMMA SaveExerciseEInv ==
    ASSUME SInv, EInv, SaveExercise
    PROVE  EInv'
<1> DEFINE n == Len(exercises) + 1
<1>1. PICK d \in Nat : /\ d <= today /\ draft.stamp = NameAt(d, n)
                       /\ \A i \in DOMAIN exercises : exercises[i].day <= d
  BY DEF EInv, StampNext, SaveExercise
<1>2. NameAt(d, n) \in Nat \X Nat /\ NameAt(d, n)[1] = d
  BY DEF NameAt, EInv
<1>3. draft.ts \in Nat
  BY DEF SaveExercise, SInv, WorkOK, IsRoot, PostsOK
<1> DEFINE row == [ts |-> draft.ts, day |-> d, note |-> NameAt(d, n), answered |-> FALSE]
<1>4. row \in ExerciseType /\ row.day = d /\ row.note = NameAt(d, n) /\ exercises' = Append(exercises, row)
  BY <1>1, <1>2, <1>3 DEF ExerciseType, SaveExercise
<1> HIDE DEF row
<1>5. /\ exercises' \in Seq(ExerciseType) /\ Len(exercises') = n /\ DOMAIN exercises = 1..Len(exercises)
      /\ Len(exercises) \in Nat /\ DOMAIN exercises' = 1..n /\ exercises'[n] = row
      /\ \A i \in DOMAIN exercises : exercises'[i] = exercises[i]
  BY <1>4 DEF EInv
<1>6. draft' = [draft EXCEPT !.at = "note"] /\ today' = today
  BY DEF SaveExercise, ExerciseMoves
<1>7. draft'.at = "note"
  BY <1>6 DEF SInv, WorkOK
<1>8. LastOpen'
  <2>1. \A i \in DOMAIN exercises : exercises[i].answered
    BY DEF EInv, LastOpen, SaveExercise
  <2> QED BY <1>5, <1>7, <2>1 DEF LastOpen
<1>9. DaysGrow'
  <2>1. ASSUME NEW i \in 1..n, NEW j \in 1..n, i < j
        PROVE  exercises'[i].day <= exercises'[j].day
    <3>1. i \in DOMAIN exercises
      BY <1>5, <2>1
    <3>2. CASE j = n
      BY <1>1, <1>4, <1>5, <3>1, <3>2
    <3>3. CASE j # n
      <4>1. j \in DOMAIN exercises
        BY <1>5, <3>3
      <4> QED BY <1>5, <2>1, <3>1, <4>1 DEF EInv, DaysGrow
    <3> QED BY <3>2, <3>3
  <2>2. ASSUME NEW i \in 1..n PROVE exercises'[i].day <= today'
    <3>1. CASE i = n
      BY <1>1, <1>4, <1>5, <1>6, <3>1
    <3>2. CASE i # n
      BY <1>5, <1>6, <3>2 DEF EInv, DaysGrow
    <3> QED BY <3>1, <3>2
  <2> QED BY <1>5, <2>1, <2>2 DEF DaysGrow
<1>10. Named'
  <2>1. ASSUME NEW i \in 1..n, NEW e PROVE NameAt(e, i)' = NameAt(e, i)
    <3>1. i > 1 => i - 1 \in DOMAIN exercises
      BY <1>5
    <3> QED BY <1>5, <3>1 DEF NameAt
  <2> QED BY <1>4, <1>5, <2>1 DEF Named, EInv
<1> QED BY <1>5, <1>6, <1>7, <1>8, <1>9, <1>10 DEF EInv, StampNext

LEMMA ExerciseEInv ==
    ASSUME SInv, EInv, ExerciseNext
    PROVE  EInv'
<1>1. CASE SaveExercise
  BY <1>1, SaveExerciseEInv
<1>2. CASE DraftExercise
  <2>1. exercises' = exercises /\ today' = today
    BY <1>2 DEF DraftExercise, talkVars
  <2>2. draft.at = "draft" /\ draft' = [at |-> "post", stamp |-> Stamp, ts |-> draft.ts]
    BY <1>2 DEF DraftExercise, ExerciseMoves, SInv, WorkOK
  <2>3. /\ Stamp = NameAt(today, Len(exercises) + 1)
    <3>1. Len(exercises) \in Nat /\ (exercises # <<>> <=> Len(exercises) > 0)
      BY DEF EInv
    <3> QED BY <3>1 DEF Stamp, NameAt, Last
  <2>4. LastOpen'
    BY <2>1, <2>2 DEF EInv, LastOpen
  <2>5. StampNext'
    <3>1. draft'.stamp = NameAt(today, Len(exercises) + 1)' /\ today' \in Nat /\ today' <= today'
      BY <2>1, <2>2, <2>3 DEF EInv, NameAt
    <3>2. \A i \in DOMAIN exercises' : exercises'[i].day <= today'
      BY <2>1 DEF EInv, DaysGrow
    <3> QED BY <2>1, <3>1, <3>2 DEF StampNext
  <2> QED BY <2>1, <2>4, <2>5 DEF EInv, DaysGrow, Named, NameAt
<1>3. CASE CheckSkip
  <2>1. exercises' = exercises /\ today' = today
    BY <1>3 DEF CheckSkip, talkVars
  <2>2. /\ draft'.at \in {"idle", "draft"}
        /\ draft'.at = "draft" => ~Unanswered
    BY <1>3 DEF CheckSkip, ExerciseMoves, NoDraft, SInv, WorkOK
  <2>3. LastOpen'
    BY <2>1, <2>2 DEF EInv, LastOpen, Unanswered, Last
  <2> QED BY <2>1, <2>2, <2>3 DEF EInv, DaysGrow, Named, NameAt, StampNext
<1>4. CASE \/ LearningExercises \/ ExerciseStarts \/ PostExercise
           \/ SaveExerciseThread \/ WriteNote \/ ExerciseFails
  <2>1. exercises' = exercises /\ today' = today
    BY <1>4 DEF LearningExercises, ExerciseStarts, PostExercise, SaveExerciseThread, WriteNote,
           ExerciseFails, talkVars
  <2>2. \/ draft'.at \in {"idle", "check"}
        \/ draft' = draft
        \/ draft.at \in {"post", "thread"} /\ draft'.stamp = draft.stamp
    <3>1. CASE LearningExercises
      BY <3>1 DEF LearningExercises
    <3>2. CASE ExerciseStarts
      BY <3>2 DEF ExerciseStarts, SInv, WorkOK
    <3>3. CASE PostExercise \/ SaveExerciseThread
      BY <3>3 DEF PostExercise, SaveExerciseThread, ExerciseMoves, SInv, WorkOK
    <3>4. CASE WriteNote \/ ExerciseFails
      BY <3>4 DEF WriteNote, ExerciseFails, ExerciseMoves, NoDraft
    <3> QED BY <1>4, <3>1, <3>2, <3>3, <3>4
  <2>3. LastOpen'
    BY <2>1, <2>2 DEF EInv, LastOpen
  <2>4. StampNext'
    BY <2>1, <2>2 DEF EInv, StampNext, NameAt
  <2> QED BY <2>1, <2>3, <2>4 DEF EInv, DaysGrow, Named, NameAt
<1> QED BY <1>1, <1>2, <1>3, <1>4 DEF ExerciseNext

LEMMA TalkEInv ==
    ASSUME EInv, TalkNext, draft' = draft
    PROVE  EInv'
<1>1. today' \in Nat /\ today <= today'
  BY TalkKeeps, DaysAssumption DEF EInv
<1>2. CASE \E t \in turns : Answer(t)
  BY <1>1, <1>2, AnsweredKeeps DEF Answer
<1>3. CASE exercises' = exercises
  BY <1>1, <1>3, AnsweredKeeps
<1>4. (\E t \in turns : Answer(t)) \/ exercises' = exercises
  BY DEF TalkNext, NextDay, Say, Redeliver, ShareChannel, MemoryReady, MarkEvent, Resolve, SubmitLinks,
         EndTurn, AfterTurn, TurnStops
<1> QED BY <1>2, <1>3, <1>4

LEMMA NextEInv == ASSUME SInv, EInv, [Next]_vars PROVE EInv'
<1>0. EInv => today <= today /\ today \in Nat
  BY DEF EInv
<1>1. CASE UNCHANGED vars
  BY <1>0, <1>1, AnsweredKeeps DEF vars, talkVars, exerciseVars
<1>2. CASE TalkNext /\ UNCHANGED <<exerciseVars, inboxVars>>
  BY <1>2, TalkEInv DEF exerciseVars
<1>3. CASE ExerciseNext
  BY <1>3, ExerciseEInv
<1>4. CASE InboxNext /\ UNCHANGED exerciseVars
  <2>1. draft' = draft /\ exercises' = exercises
    BY <1>4 DEF exerciseVars, InboxNext, InboxDigests, DigestStarts, CheckInbox, DraftInbox, ReserveInbox,
                PostInbox, PostFails, PostStops, ReleaseInbox, CompleteInbox, SaveInboxThread, DigestFails,
                InboxMessage, talkVars
  <2> QED BY <1>0, <1>4, <2>1, AnsweredKeeps, InboxKeepsToday
<1> QED BY <1>1, <1>2, <1>3, <1>4 DEF Next

LEMMA EInvProperties == EInv => OneUnanswered /\ NotesKept
<1> SUFFICES ASSUME EInv PROVE OneUnanswered /\ NotesKept
  OBVIOUS
<1>1. OneUnanswered
  BY DEF EInv, LastOpen, OneUnanswered
<1>2. ASSUME NEW i \in DOMAIN exercises, NEW j \in DOMAIN exercises, i < j
      PROVE  exercises[i].note # exercises[j].note
  <2>0. /\ DOMAIN exercises = 1..Len(exercises) /\ Len(exercises) \in Nat
        /\ \A k \in DOMAIN exercises : exercises[k].day \in Nat
    <3>1. \A k \in DOMAIN exercises : exercises[k] \in ExerciseType
      BY DEF EInv
    <3>2. DOMAIN exercises = 1..Len(exercises) /\ Len(exercises) \in Nat
      BY DEF EInv
    <3> QED BY <3>1, <3>2 DEF ExerciseType
  <2>1. /\ exercises[i].note = NameAt(exercises[i].day, i)
        /\ exercises[j].note = NameAt(exercises[j].day, j)
    BY DEF EInv, Named
  <2>2. NameAt(exercises[i].day, i)[1] = exercises[i].day /\ NameAt(exercises[j].day, j)[1] = exercises[j].day
    BY DEF NameAt
  <2>3. CASE exercises[i].day # exercises[j].day
    BY <2>1, <2>2, <2>3
  <2>4. CASE exercises[i].day = exercises[j].day
    <3>1. j - 1 \in DOMAIN exercises /\ i <= j - 1
      BY <1>2, <2>0
    <3>2. exercises[i].day <= exercises[j - 1].day /\ exercises[j - 1].day <= exercises[j].day
      BY <2>0, <3>1 DEF EInv, DaysGrow
    <3>3. exercises[j - 1].day = exercises[j].day
      BY <2>0, <2>4, <3>1, <3>2
    <3>4. NameAt(exercises[j].day, j)[2] = j - 1 /\ j > 1
      BY <1>2, <2>0, <3>3 DEF NameAt
    <3>5. NameAt(exercises[i].day, i)[2] \in {0, i - 1}
      BY DEF NameAt
    <3> QED BY <1>2, <2>0, <2>1, <3>4, <3>5
  <2> QED BY <2>3, <2>4
<1>3. NotesKept
  BY <1>2 DEF NotesKept, EInv
<1> QED BY <1>1, <1>3

LEMMA EInvAlways == Spec => [](SInv /\ EInv)
<1>1. Init => SInv /\ EInv
  BY InitSInv, InitEInv
<1>2. SInv /\ EInv /\ [Next]_vars => SInv' /\ EInv'
  BY NextSInv, NextEInv
<1> QED BY <1>1, <1>2, PTL DEF Spec

(* Two exercises are never open at once, whatever the cron retries and     *)
(* whichever runs stop on the way.                                         *)
THEOREM OneUnansweredAlways == Spec => []OneUnanswered
BY EInvAlways, EInvProperties, PTL

(* No exercise's note replaces another's.                                  *)
THEOREM NotesKeptAlways == Spec => []NotesKept
BY EInvAlways, EInvProperties, PTL

-----------------------------------------------------------------------------
(* A message starts one turn. Its user may be given the channel, and never *)
(* loses it: then the other of its copies is the one that starts a turn.   *)
Has(ts) == HasChannel(posts[ts].user, posts[ts].channel)

(* Whether its user has the channel is as it was when they wrote.          *)
Settled(ts) == posts[ts].own = Has(ts)

(* The one of its copies that starts a turn.                               *)
TheCopy(ts) == IF Has(ts) THEN "message" ELSE "mention"

HadChannel == \A ts \in DOMAIN posts : posts[ts].own => Has(ts)

(* A turn is of a delivery that is marked, and past its route of the copy  *)
(* that starts one.                                                        *)
TurnsMarked ==
    \A t \in turns :
        /\ [ts |-> t.ts, copy |-> t.copy] \in marked
        /\ t.user = posts[t.ts].user
        /\ t.at # "route" /\ Settled(t.ts) => t.copy = TheCopy(t.ts)

(* Once a message was handled, its copy is marked and starts none again.   *)
HandledOnce ==
    \A ts \in DOMAIN posts : Settled(ts) /\ handled[ts] # 0 =>
        /\ handled[ts] = 1
        /\ [ts |-> ts, copy |-> TheCopy(ts)] \in marked
        /\ \A t \in turns : t.ts = ts /\ t.copy = TheCopy(ts) => t.at \in {"talk", "after"}

MInv ==
    /\ handled \in Seq(Nat) /\ Len(handled) = Len(posts)
    /\ HadChannel /\ TurnsMarked /\ HandledOnce

LEMMA InitMInv == Init => MInv
<1> SUFFICES ASSUME Init PROVE MInv
  OBVIOUS
<1>1. posts = <<>> /\ handled = <<>> /\ turns = {}
  BY DEF Init, TalkInit
<1> QED BY <1>1 DEF MInv, HadChannel, TurnsMarked, HandledOnce

(* Channels are only shared, so what is settled was before.                *)
LEMMA SettledBefore ==
    ASSUME SInv, MInv, members \subseteq members', NEW ts \in DOMAIN posts, posts'[ts] = posts[ts]
    PROVE  /\ Has(ts) => Has(ts)'
           /\ Settled(ts)' => Settled(ts) /\ TheCopy(ts)' = TheCopy(ts)
<1>1. Has(ts) => Has(ts)'
  BY DEF Has, HasChannel
<1>2. posts[ts].own => Has(ts)
  BY DEF MInv, HadChannel
<1>3. posts[ts].own \in BOOLEAN
  <2>1. posts[ts] \in PostType
    BY DEF SInv, PostsOK
  <2> QED BY <2>1 DEF PostType
<1>4. Has(ts) \in BOOLEAN /\ Has(ts)' \in BOOLEAN
  <2>1. Has(ts) \in {posts[ts].user \in members, posts[ts].user = Owner}
    BY DEF Has, HasChannel
  <2>2. Has(ts)' \in {posts'[ts].user \in members', posts'[ts].user = Owner}
    BY DEF Has, HasChannel
  <2>3. /\ (posts[ts].user \in members) \in BOOLEAN /\ (posts[ts].user = Owner) \in BOOLEAN
        /\ (posts'[ts].user \in members') \in BOOLEAN /\ (posts'[ts].user = Owner) \in BOOLEAN
    OBVIOUS
  <2> QED BY <2>1, <2>2, <2>3
<1>5. Settled(ts)' => (Has(ts) <=> Has(ts)') /\ Settled(ts)
  BY <1>1, <1>2, <1>3, <1>4 DEF Settled
<1>6. (Has(ts) <=> Has(ts)') => TheCopy(ts)' = TheCopy(ts)
  BY DEF TheCopy
<1> QED BY <1>1, <1>5, <1>6

(* The copy that starts a turn is the one route lets pass.                 *)
LEMMA RoutedIsTheCopy ==
    ASSUME NEW ts, NEW copy \in Copies, Routed(posts[ts].user, posts[ts].channel, copy)
    PROVE  copy = TheCopy(ts)
BY DEF Copies, Routed, TheCopy, Has

(* A step that adds no message, starts no turn and lets none answer.       *)
LEMMA MKeeps ==
    ASSUME SInv, MInv, posts' = posts, handled' = handled, members \subseteq members', marked' = marked,
           \A t \in turns' : \E o \in turns :
              /\ t.ts = o.ts /\ t.copy = o.copy /\ t.user = o.user
              /\ t.at = o.at \/ (o.at = "talk" /\ t.at = "after")
    PROVE  MInv'
<1>1. ASSUME NEW ts \in DOMAIN posts
      PROVE  /\ Has(ts) => Has(ts)'
             /\ Settled(ts)' => Settled(ts) /\ TheCopy(ts)' = TheCopy(ts)
  BY SettledBefore
<1>2. HadChannel'
  BY <1>1 DEF MInv, HadChannel
<1>3. TurnsMarked'
  <2> SUFFICES ASSUME NEW t \in turns'
               PROVE  /\ [ts |-> t.ts, copy |-> t.copy] \in marked
                      /\ t.user = posts[t.ts].user
                      /\ t.at # "route" /\ Settled(t.ts)' => t.copy = TheCopy(t.ts)'
    BY DEF TurnsMarked
  <2>1. PICK o \in turns : /\ t.ts = o.ts /\ t.copy = o.copy /\ t.user = o.user
                           /\ t.at = o.at \/ (o.at = "talk" /\ t.at = "after")
    OBVIOUS
  <2>2. o.ts \in DOMAIN posts
    BY DEF SInv, TurnsOK, TurnOK
  <2> QED BY <1>1, <2>1, <2>2 DEF MInv, TurnsMarked
<1>4. HandledOnce'
  <2> SUFFICES ASSUME NEW ts \in DOMAIN posts, Settled(ts)', handled[ts] # 0
               PROVE  /\ handled[ts] = 1
                      /\ [ts |-> ts, copy |-> TheCopy(ts)'] \in marked
                      /\ \A t \in turns' : t.ts = ts /\ t.copy = TheCopy(ts)' => t.at \in {"talk", "after"}
    BY DEF HandledOnce
  <2>1. Settled(ts) /\ TheCopy(ts)' = TheCopy(ts)
    BY <1>1
  <2> QED BY <2>1 DEF MInv, HandledOnce
<1> QED BY <1>2, <1>3, <1>4 DEF MInv

(* A new message is settled, and was not handled.                          *)
LEMMA WrittenMInv ==
    ASSUME SInv, MInv, NEW what, what.user \in Users \cup {None}, what.channel \in Channels,
           what.mention \in BOOLEAN, what.link \in BOOLEAN,
           NEW root, root = 0 \/ IsRoot(root), Written(what, root),
           members' = members, marked' = marked, turns' = turns
    PROVE  MInv'
<1> DEFINE new == Len(posts) + 1
<1>1. /\ \A ts \in DOMAIN posts : ts \in DOMAIN posts' /\ posts'[ts] = posts[ts]
      /\ Len(posts') = new /\ posts' \in Seq(PostType) /\ DOMAIN posts = 1..Len(posts)
      /\ Len(posts) \in Nat
  BY WrittenKeeps DEF PostsOK, SInv
<1>2. DOMAIN posts' = DOMAIN posts \cup {new} /\ new \notin DOMAIN posts
  BY <1>1
<1>3. /\ posts'[new].own = HasChannel(what.user, what.channel)
      /\ posts'[new].user = what.user /\ posts'[new].channel = what.channel
  BY <1>1 DEF Written, SInv, PostsOK
<1>4. /\ handled' \in Seq(Nat) /\ Len(handled') = Len(posts') /\ handled'[new] = 0
      /\ \A ts \in DOMAIN posts : handled'[ts] = handled[ts]
  BY <1>1 DEF Written, MInv
<1>5. ASSUME NEW ts \in DOMAIN posts
      PROVE  /\ Has(ts) => Has(ts)'
             /\ Settled(ts)' => Settled(ts) /\ TheCopy(ts)' = TheCopy(ts)
  BY <1>1, SettledBefore
<1>6. HadChannel'
  <2>1. ASSUME NEW ts \in DOMAIN posts', posts'[ts].own PROVE Has(ts)'
    <3>1. CASE ts = new
      BY <1>3, <2>1, <3>1 DEF Has, HasChannel
    <3>2. CASE ts \in DOMAIN posts
      BY <1>1, <1>5, <2>1, <3>2 DEF MInv, HadChannel
    <3> QED BY <1>2, <3>1, <3>2
  <2> QED BY <2>1 DEF HadChannel
<1>7. TurnsMarked'
  <2>1. \A t \in turns : t.ts \in DOMAIN posts
    BY DEF SInv, TurnsOK, TurnOK
  <2> QED BY <1>1, <1>5, <2>1 DEF MInv, TurnsMarked
<1>8. HandledOnce'
  <2> SUFFICES ASSUME NEW ts \in DOMAIN posts', Settled(ts)', handled'[ts] # 0
               PROVE  /\ handled'[ts] = 1
                      /\ [ts |-> ts, copy |-> TheCopy(ts)'] \in marked
                      /\ \A t \in turns : t.ts = ts /\ t.copy = TheCopy(ts)' => t.at \in {"talk", "after"}
    BY DEF HandledOnce
  <2>1. ts \in DOMAIN posts
    BY <1>2, <1>4
  <2>2. Settled(ts) /\ TheCopy(ts)' = TheCopy(ts) /\ handled[ts] = handled'[ts]
    BY <1>4, <1>5, <2>1
  <2> QED BY <2>1, <2>2 DEF MInv, HandledOnce
<1> QED BY <1>4, <1>6, <1>7, <1>8 DEF MInv

(* A turn's step to another place of its way, of the same copy.            *)
LEMMA SameMessage ==
    ASSUME SInv, MInv, NEW t \in turns
    PROVE  /\ t \in TurnType /\ t.ts \in DOMAIN posts
           /\ \A o \in turns : o.ts = t.ts => o = t
BY DEF SInv, TurnsOK, TurnOK

LEMMA MarkEventMInv ==
    ASSUME SInv, MInv, NEW e \in events, MarkEvent(e)
    PROVE  MInv'
<1>0. e.ts \in DOMAIN posts /\ e.copy \in Copies
  BY DEF SInv, EventsOK
<1>1. /\ posts' = posts /\ handled' = handled /\ members' = members
      /\ \/ UNCHANGED <<marked, turns>>
         \/ /\ [ts |-> e.ts, copy |-> e.copy] \notin marked
            /\ marked' = marked \cup {[ts |-> e.ts, copy |-> e.copy]}
            /\ turns' = turns \cup {Turn(e, "route")}
  BY DEF MarkEvent
<1>2. CASE UNCHANGED <<marked, turns>>
  BY <1>1, <1>2, MKeeps
<1>3. CASE /\ [ts |-> e.ts, copy |-> e.copy] \notin marked
           /\ marked' = marked \cup {[ts |-> e.ts, copy |-> e.copy]}
           /\ turns' = turns \cup {Turn(e, "route")}
  <2>1. ASSUME NEW ts
        PROVE  Has(ts)' = Has(ts) /\ Settled(ts)' = Settled(ts) /\ TheCopy(ts)' = TheCopy(ts)
    BY <1>1 DEF Has, HasChannel, Settled, TheCopy
  <2>2. /\ Turn(e, "route").ts = e.ts /\ Turn(e, "route").copy = e.copy
        /\ Turn(e, "route").user = posts[e.ts].user /\ Turn(e, "route").at = "route"
    BY DEF Turn
  <2> HIDE DEF Turn
  <2>3. HadChannel'
    BY <1>1, <2>1 DEF MInv, HadChannel
  <2>4. TurnsMarked'
    BY <1>1, <1>3, <2>1, <2>2 DEF MInv, TurnsMarked
  <2>5. HandledOnce'
    BY <1>1, <1>3, <2>1, <2>2 DEF MInv, HandledOnce
  <2> QED BY <1>1, <2>3, <2>4, <2>5 DEF MInv
<1> QED BY <1>1, <1>2, <1>3

LEMMA ResolveMInv ==
    ASSUME SInv, MInv, NEW t \in turns, Resolve(t)
    PROVE  MInv'
<1>0. /\ t \in TurnType /\ t.ts \in DOMAIN posts /\ \A o \in turns : o.ts = t.ts => o = t
      /\ t.user = posts[t.ts].user
  BY SameMessage DEF MInv, TurnsMarked
<1>1. /\ posts' = posts /\ handled' = handled /\ members' = members /\ marked' = marked
      /\ t.at = "route"
  BY DEF Resolve
<1>2. CASE TurnMoves(t, {})
  BY <1>1, <1>2, MKeeps DEF TurnMoves
<1>3. ASSUME NEW n, TurnMoves(t, {n}), n.ts = t.ts, n.copy = t.copy, n.user = t.user, n.at = "answer",
             Routed(t.user, posts[t.ts].channel, t.copy)
      PROVE  MInv'
  <2>1. ASSUME NEW ts
        PROVE  Has(ts)' = Has(ts) /\ Settled(ts)' = Settled(ts) /\ TheCopy(ts)' = TheCopy(ts)
    BY <1>1 DEF Has, HasChannel, Settled, TheCopy
  <2>2. t.copy = TheCopy(t.ts)
    BY <1>0, <1>3, RoutedIsTheCopy DEF TurnType
  <2>3. HadChannel'
    BY <1>1, <2>1 DEF MInv, HadChannel
  <2>4. TurnsMarked'
    BY <1>0, <1>1, <1>3, <2>1, <2>2 DEF MInv, TurnsMarked, TurnMoves
  <2>5. HandledOnce'
    BY <1>0, <1>1, <1>3, <2>1, <2>2 DEF MInv, HandledOnce, TurnMoves
  <2> QED BY <1>1, <2>3, <2>4, <2>5 DEF MInv
<1>4. PICK goal \in BOOLEAN :
         \/ TurnMoves(t, {})
         \/ /\ Routed(t.user, posts[t.ts].channel, t.copy)
            /\ TurnMoves(t, {[t EXCEPT !.at = "answer", !.goal = goal, !.session = threads[t.root].session]})
  <2>1. (posts[t.ts].channel = "goal" /\ t.user \in members) \in BOOLEAN
    OBVIOUS
  <2> QED BY <2>1, Zenon DEF Resolve
<1> DEFINE n == [t EXCEPT !.at = "answer", !.goal = goal, !.session = threads[t.root].session]
<1>5. n.ts = t.ts /\ n.copy = t.copy /\ n.user = t.user /\ n.at = "answer"
  BY <1>0 DEF TurnType
<1> HIDE DEF n
<1>6. TurnMoves(t, {}) \/ (Routed(t.user, posts[t.ts].channel, t.copy) /\ TurnMoves(t, {n}))
  BY <1>4 DEF n
<1> QED BY <1>2, <1>3, <1>5, <1>6

LEMMA AnswerMInv ==
    ASSUME SInv, MInv, NEW t \in turns, Answer(t)
    PROVE  MInv'
<1>0. /\ t \in TurnType /\ t.ts \in DOMAIN posts /\ \A o \in turns : o.ts = t.ts => o = t
      /\ t.user = posts[t.ts].user
  BY SameMessage DEF MInv, TurnsMarked
<1>1. /\ posts' = posts /\ members' = members /\ marked' = marked /\ t.at = "answer"
      /\ handled' = [handled EXCEPT ![t.ts] = @ + 1]
  BY DEF Answer
<1>2. PICK exercise : TurnMoves(t, {[t EXCEPT !.at = "talk", !.exercise = exercise]})
  <2>1. [t EXCEPT !.at = "talk"] = [t EXCEPT !.at = "talk", !.exercise = t.exercise]
    BY <1>0 DEF TurnType
  <2> QED BY <2>1 DEF Answer
<1> DEFINE n == [t EXCEPT !.at = "talk", !.exercise = exercise]
<1>3. n.ts = t.ts /\ n.copy = t.copy /\ n.user = t.user /\ n.at = "talk"
  BY <1>0 DEF TurnType
<1>4. turns' = (turns \ {t}) \cup {n}
  BY <1>2 DEF TurnMoves
<1> HIDE DEF n
<1>5. ASSUME NEW ts
      PROVE  Has(ts)' = Has(ts) /\ Settled(ts)' = Settled(ts) /\ TheCopy(ts)' = TheCopy(ts)
  BY <1>1 DEF Has, HasChannel, Settled, TheCopy
<1>6. Settled(t.ts) => t.copy = TheCopy(t.ts)
  BY <1>1 DEF MInv, TurnsMarked
<1>7. [ts |-> t.ts, copy |-> t.copy] \in marked
  BY DEF MInv, TurnsMarked
<1>8. Settled(t.ts) => handled[t.ts] = 0
  BY <1>0, <1>1, <1>6 DEF MInv, HandledOnce
<1>9. /\ handled' \in Seq(Nat) /\ Len(handled') = Len(posts')
      /\ \A ts \in DOMAIN posts : handled'[ts] = IF ts = t.ts THEN handled[ts] + 1 ELSE handled[ts]
  <2>1. /\ handled \in Seq(Nat) /\ Len(handled) = Len(posts) /\ t.ts \in 1..Len(handled)
        /\ posts \in Seq(PostType)
    BY <1>0 DEF MInv, SInv, PostsOK
  <2>2. handled[t.ts] + 1 \in Nat
    BY <2>1
  <2> QED BY <1>1, <2>1, <2>2
<1>10. HadChannel'
  BY <1>1, <1>5 DEF MInv, HadChannel
<1>11. TurnsMarked'
  BY <1>0, <1>1, <1>3, <1>4, <1>5, <1>6, <1>7 DEF MInv, TurnsMarked
<1>12. HandledOnce'
  <2> SUFFICES ASSUME NEW ts \in DOMAIN posts, Settled(ts), handled'[ts] # 0
               PROVE  /\ handled'[ts] = 1
                      /\ [ts |-> ts, copy |-> TheCopy(ts)] \in marked
                      /\ \A o \in turns' : o.ts = ts /\ o.copy = TheCopy(ts) => o.at \in {"talk", "after"}
    BY <1>1, <1>5 DEF HandledOnce
  <2>1. CASE ts = t.ts
    BY <1>0, <1>3, <1>4, <1>6, <1>7, <1>8, <1>9, <2>1
  <2>2. CASE ts # t.ts
    BY <1>3, <1>4, <1>9, <2>2 DEF MInv, HandledOnce
  <2> QED BY <2>1, <2>2
<1> QED BY <1>9, <1>10, <1>11, <1>12 DEF MInv

LEMMA TalkMInv ==
    ASSUME SInv, MInv, TalkNext
    PROVE  MInv'
<1>1. CASE \/ NextDay \/ \E u \in Users : ShareChannel(u) \/ MemoryReady(u)
           \/ \E ts \in DOMAIN posts, copy \in Copies : Redeliver(ts, copy)
  <2>1. posts' = posts /\ handled' = handled /\ members \subseteq members' /\ marked' = marked /\ turns' = turns
    BY <1>1 DEF NextDay, ShareChannel, MemoryReady, Redeliver
  <2> QED BY <2>1, MKeeps
<1>2. ASSUME NEW what \in Sayings, NEW root \in {0} \cup DOMAIN posts, Say(what, root)
      PROVE  MInv'
  <2>1. /\ what.user \in Users \cup {None} /\ what.channel \in Channels
        /\ what.mention \in BOOLEAN /\ what.link \in BOOLEAN
    BY SayingsAssumption DEF Channels
  <2>2. /\ Written(what, root) /\ turns' = turns /\ (root = 0 \/ IsRoot(root))
        /\ members' = members /\ marked' = marked
    BY <1>2 DEF Say, IsRoot
  <2> QED BY <2>1, <2>2, WrittenMInv
<1>3. ASSUME NEW t \in turns, SubmitLinks(t) \/ EndTurn(t) \/ AfterTurn(t) \/ TurnStops(t)
      PROVE  MInv'
  <2>1. posts' = posts /\ handled' = handled /\ members' = members /\ marked' = marked
    BY <1>3 DEF SubmitLinks, EndTurn, AfterTurn, TurnStops
  <2>2. t \in TurnType
    BY SameMessage
  <2>3. CASE SubmitLinks(t)
    <3>1. turns' = (turns \ {t}) \cup {[t EXCEPT !.asks = TRUE]}
      BY <2>3 DEF SubmitLinks, TurnMoves
    <3> QED BY <2>1, <2>2, <3>1, MKeeps DEF TurnType
  <2>4. CASE EndTurn(t)
    <3>1. t.at = "talk" /\ turns' = (turns \ {t}) \cup {[t EXCEPT !.at = "after"]}
      BY <2>4 DEF EndTurn, TurnMoves
    <3> QED BY <2>1, <2>2, <3>1, MKeeps DEF TurnType
  <2>5. CASE AfterTurn(t) \/ TurnStops(t)
    <3>1. turns' \subseteq turns
      BY <2>5 DEF AfterTurn, TurnStops, TurnMoves
    <3> QED BY <2>1, <3>1, MKeeps
  <2> QED BY <1>3, <2>3, <2>4, <2>5
<1> QED BY <1>1, <1>2, <1>3, MarkEventMInv, ResolveMInv, AnswerMInv DEF TalkNext

LEMMA PostedMInv ==
    ASSUME SInv, MInv, NEW channel \in Channels, Posted(channel),
           members' = members, marked' = marked, turns' = turns
    PROVE  MInv'
<1> DEFINE what == [user |-> None, channel |-> channel, mention |-> FALSE, link |-> FALSE]
<1>1. Written(what, 0)
  BY DEF Posted
<1>2. /\ what.user \in Users \cup {None} /\ what.channel \in Channels
      /\ what.mention \in BOOLEAN /\ what.link \in BOOLEAN
  OBVIOUS
<1> HIDE DEF what
<1> QED BY <1>1, <1>2, WrittenMInv

LEMMA NextMInv == ASSUME SInv, MInv, [Next]_vars PROVE MInv'
<1>1. CASE posts' = posts /\ handled' = handled /\ members' = members /\ marked' = marked /\ turns' = turns
  BY <1>1, MKeeps
<1>2. CASE UNCHANGED vars
  BY <1>1, <1>2 DEF vars, talkVars
<1>3. CASE TalkNext
  BY <1>3, TalkMInv
<1>4. CASE ExerciseNext
  <2>1. CASE PostExercise
    BY <2>1, PostedMInv DEF PostExercise, Channels
  <2> QED BY <1>1, <1>4, <2>1 DEF ExerciseNext, LearningExercises, ExerciseStarts, CheckSkip, DraftExercise,
             SaveExerciseThread, SaveExercise, WriteNote, ExerciseFails, talkVars
<1>5. CASE InboxNext
  <2>1. CASE InboxMessage
    BY <2>1, PostedMInv DEF InboxMessage, Channels
  <2> QED BY <1>1, <1>5, <2>1 DEF InboxNext, InboxDigests, DigestStarts, CheckInbox, DraftInbox, ReserveInbox,
             PostInbox, PostFails, PostStops, ReleaseInbox, CompleteInbox, SaveInboxThread, DigestFails, talkVars
<1> QED BY <1>2, <1>3, <1>4, <1>5 DEF Next

LEMMA MInvOnce == SInv /\ MInv => TurnOnce
<1> SUFFICES ASSUME SInv, MInv, NEW ts \in DOMAIN handled, Settled(ts)
             PROVE  handled[ts] <= 1
  BY DEF TurnOnce, Settled, Has
<1>1. ts \in DOMAIN posts /\ handled[ts] \in Nat
  BY DEF SInv, PostsOK, MInv
<1>2. handled[ts] # 0 => handled[ts] = 1
  BY <1>1 DEF MInv, HandledOnce
<1> QED BY <1>1, <1>2

(* A message starts one turn, however often and in whichever copies and    *)
(* order Slack delivers it, as long as no channel is shared with its user. *)
THEOREM TurnOnceAlways == Spec => []TurnOnce
<1>1. Init => SInv /\ MInv
  BY InitSInv, InitMInv
<1>2. SInv /\ MInv /\ [Next]_vars => SInv' /\ MInv'
  BY NextSInv, NextMInv
<1> QED BY <1>1, <1>2, MInvOnce, PTL DEF Spec
-----------------------------------------------------------------------------
(* What the variables hold. Sessions are users'; what is waited for, asked *)
(* and answered is a message that was written, by whom it should be.       *)
ByUser(session) == session # None => session.user \in Users

OfAgent(ts) == ts \in DOMAIN posts /\ posts[ts].user = None

BoundsOK ==
    /\ members \subseteq Users /\ ready \subseteq Users
    /\ said \in 0..MaxSaid /\ again \in 0..MaxAgain

RootsDown == \A ts \in DOMAIN posts : Root(ts) <= ts

EventsByUsers == \A e \in events : posts[e.ts].user \in Users

AskedOK == \A r \in asked : r.link \in DOMAIN posts /\ r.user = posts[r.link].user

TurnsByUsers == \A t \in turns : t.user \in Users /\ ByUser(t.session) /\ t.exercise \in {None, t.root}

ThreadsByUsers ==
    \A ts \in DOMAIN threads : ByUser(threads[ts].session) /\ (threads[ts].user # None => Root(ts) = ts)

ExercisesOK ==
    \A i \in DOMAIN exercises :
        /\ exercises[i].note \in Days \X Nat
        /\ OfAgent(exercises[i].ts) /\ IsRoot(exercises[i].ts)

DraftOK ==
    /\ runs \in 0..MaxRuns /\ waiting \in 0..runs
    /\ draft.at \in {"idle", "check", "draft", "post", "thread", "record", "note"}
    /\ draft.at \in {"post", "thread", "record"} => draft.stamp \in Days \X Nat
    /\ draft.at \in {"thread", "record", "note"} => OfAgent(draft.ts)

DigestOK ==
    /\ digests \in 0..MaxDigests
    /\ digest.at \in {"idle", "check", "draft", "reserve", "slack", "release", "complete", "thread"}
    /\ digest.at \in {"complete", "thread"} => digest.ts \in DOMAIN posts /\ posts[digest.ts].channel = "inbox"
    /\ digest.at = "thread" => day[digest.day] = "posted"

OInv ==
    /\ BoundsOK /\ RootsDown /\ EventsByUsers /\ AskedOK /\ TurnsByUsers /\ ThreadsByUsers
    /\ ExercisesOK /\ DraftOK /\ DigestOK

LEMMA InitOInv == Init => OInv
<1> SUFFICES ASSUME Init PROVE OInv
  OBVIOUS
<1>1. BoundsOK /\ RootsDown /\ EventsByUsers /\ AskedOK /\ TurnsByUsers /\ ThreadsByUsers
  BY OwnerAssumption, BoundsAssumption
  DEF Init, TalkInit, BoundsOK, RootsDown, EventsByUsers, AskedOK, TurnsByUsers, ThreadsByUsers
<1>2. ExercisesOK /\ DraftOK
  BY RunsAssumption DEF Init, TalkInit, ExerciseInit, NoDraft, ExercisesOK, DraftOK
<1>3. DigestOK
  BY DigestsAssumption DEF Init, InboxInit, NoDigest, DigestOK
<1> QED BY <1>1, <1>2, <1>3 DEF OInv

(* What is said of the messages that are there stays true of them.         *)
LEMMA PlacesStay ==
    ASSUME SInv, OInv, \A ts \in DOMAIN posts : ts \in DOMAIN posts' /\ posts'[ts] = posts[ts]
    PROVE  /\ \A ts : OfAgent(ts) => OfAgent(ts)'
           /\ \A ts : IsRoot(ts) => IsRoot(ts)'
           /\ events' = events => EventsByUsers'
           /\ asked' = asked => AskedOK'
           /\ turns' = turns => TurnsByUsers'
           /\ exercises' = exercises => ExercisesOK'
           /\ UNCHANGED exerciseVars => DraftOK'
           /\ UNCHANGED inboxVars => DigestOK'
<1> USE DEF OInv
<1>1. \A ts : OfAgent(ts) => OfAgent(ts)'
  BY DEF OfAgent
<1>2. \A ts : IsRoot(ts) => IsRoot(ts)'
  BY DEF IsRoot, Root
<1>3. events' = events => EventsByUsers'
  BY DEF EventsByUsers, SInv, EventsOK
<1>4. asked' = asked => AskedOK'
  BY DEF AskedOK
<1>5. turns' = turns => TurnsByUsers'
  BY DEF TurnsByUsers
<1>6. exercises' = exercises => ExercisesOK'
  BY <1>1, <1>2 DEF ExercisesOK
<1>7. UNCHANGED exerciseVars => DraftOK'
  BY <1>1 DEF DraftOK, exerciseVars
<1>8. UNCHANGED inboxVars => DigestOK'
  BY DEF DigestOK, inboxVars
<1> QED BY <1>1, <1>2, <1>3, <1>4, <1>5, <1>6, <1>7, <1>8

LEMMA NothingWritten ==
    ASSUME SInv, OInv, posts' = posts
    PROVE  /\ RootsDown' /\ (threads' = threads => ThreadsByUsers')
           /\ \A ts \in DOMAIN posts : ts \in DOMAIN posts' /\ posts'[ts] = posts[ts]
BY DEF OInv, RootsDown, ThreadsByUsers, Root

LEMMA WrittenOInv ==
    ASSUME SInv, OInv, NEW what, what.user \in Users \cup {None}, what.channel \in Channels,
           what.mention \in BOOLEAN, what.link \in BOOLEAN,
           NEW root, root = 0 \/ IsRoot(root), Written(what, root)
    PROVE  /\ RootsDown' /\ ThreadsByUsers'
           /\ \A ts \in DOMAIN posts : ts \in DOMAIN posts' /\ posts'[ts] = posts[ts]
           /\ Len(posts) + 1 \in DOMAIN posts'
           /\ posts'[Len(posts) + 1].user = what.user /\ posts'[Len(posts) + 1].channel = what.channel
<1> DEFINE new == Len(posts) + 1
<1>1. /\ \A ts \in DOMAIN posts : ts \in DOMAIN posts' /\ posts'[ts] = posts[ts]
      /\ Len(posts') = new /\ posts' \in Seq(PostType) /\ DOMAIN posts = 1..Len(posts)
      /\ Len(posts) \in Nat /\ posts'[new].root = IF root = 0 THEN new ELSE root
  BY WrittenKeeps DEF PostsOK, SInv
<1>2. DOMAIN posts' = DOMAIN posts \cup {new} /\ new \notin DOMAIN posts
  BY <1>1
<1>3. posts'[new].user = what.user /\ posts'[new].channel = what.channel
  BY <1>1 DEF Written, SInv, PostsOK
<1>4. RootsDown'
  <2>1. root # 0 => root <= Len(posts)
    BY <1>1 DEF IsRoot
  <2>2. posts'[new].root <= new
    BY <1>1, <2>1 DEF IsRoot
  <2> QED BY <1>1, <1>2, <2>2 DEF OInv, RootsDown, Root
<1>5. ThreadsByUsers'
  <2>1. /\ threads \in Seq(ThreadType) /\ Len(threads) = Len(posts) /\ threads' = Append(threads, NoThread)
    BY DEF Written, SInv, PostsOK
  <2>2. NoThread \in ThreadType /\ NoThread.user = None /\ NoThread.session = None
    BY DEF NoThread, ThreadType, SessionType
  <2>3. /\ DOMAIN threads' = DOMAIN threads \cup {new} /\ DOMAIN threads = DOMAIN posts
        /\ threads'[new] = NoThread /\ \A ts \in DOMAIN threads : threads'[ts] = threads[ts]
    BY <1>1, <2>1, <2>2
  <2> QED BY <1>1, <2>2, <2>3 DEF OInv, ThreadsByUsers, ByUser, Root
<1> QED BY <1>1, <1>2, <1>3, <1>4, <1>5

LEMMA PostedOInv ==
    ASSUME SInv, OInv, NEW channel \in Channels, Posted(channel)
    PROVE  /\ RootsDown' /\ ThreadsByUsers' /\ \A ts : ts = Len(posts) + 1 => OfAgent(ts)'
           /\ \A ts \in DOMAIN posts : ts \in DOMAIN posts' /\ posts'[ts] = posts[ts]
           /\ Len(posts) + 1 \in DOMAIN posts' /\ posts'[Len(posts) + 1].channel = channel
<1> DEFINE what == [user |-> None, channel |-> channel, mention |-> FALSE, link |-> FALSE]
<1>1. Written(what, 0)
  BY DEF Posted
<1>2. /\ what.user \in Users \cup {None} /\ what.channel \in Channels
      /\ what.mention \in BOOLEAN /\ what.link \in BOOLEAN /\ what.user = None /\ what.channel = channel
  OBVIOUS
<1> HIDE DEF what
<1>3. /\ RootsDown' /\ ThreadsByUsers'
      /\ \A ts \in DOMAIN posts : ts \in DOMAIN posts' /\ posts'[ts] = posts[ts]
      /\ Len(posts) + 1 \in DOMAIN posts' /\ posts'[Len(posts) + 1].channel = channel
      /\ posts'[Len(posts) + 1].user = None
  BY <1>1, <1>2, WrittenOInv
<1>4. ASSUME NEW ts, ts = Len(posts) + 1 PROVE OfAgent(ts)'
  BY <1>3, <1>4 DEF OfAgent
<1> QED BY <1>3, <1>4

LEMMA SaveThreadOInv ==
    ASSUME SInv, OInv, posts' = posts, NEW root, IsRoot(root), NEW user, NEW session, ByUser(session),
           SaveThread(root, user, session)
    PROVE  ThreadsByUsers'
<1> DEFINE row == [user |-> IF threads[root].user = None THEN user ELSE threads[root].user,
                   session |-> session]
<1>1. threads' = [threads EXCEPT ![root] = row] /\ row.session = session
  BY DEF SaveThread
<1> HIDE DEF row
<1>2. ASSUME NEW ts \in DOMAIN threads PROVE threads'[ts] = IF ts = root THEN row ELSE threads[ts]
  BY <1>1
<1>3. DOMAIN threads' = DOMAIN threads
  BY <1>1
<1> QED BY <1>1, <1>2, <1>3 DEF OInv, ThreadsByUsers, IsRoot, Root

LEMMA TalkOInv ==
    ASSUME SInv, MInv, EInv, OInv, TalkNext, UNCHANGED <<exerciseVars, inboxVars>>
    PROVE  OInv'
<1> USE DEF OInv
<1>1. CASE NextDay \/ \E u \in Users : ShareChannel(u) \/ MemoryReady(u)
  <2>1. UNCHANGED <<posts, said, again, events, turns, threads, asked, exercises>>
        /\ members' \subseteq Users /\ ready' \subseteq Users
    BY <1>1 DEF NextDay, ShareChannel, MemoryReady, BoundsOK
  <2>2. BoundsOK'
    BY <2>1 DEF BoundsOK
  <2> QED BY <2>1, <2>2, NothingWritten, PlacesStay
<1>2. ASSUME NEW what \in Sayings, NEW root \in {0} \cup DOMAIN posts, Say(what, root)
      PROVE  OInv'
  <2>1. /\ what.user \in Users \cup {None} /\ what.channel \in Channels
        /\ what.mention \in BOOLEAN /\ what.link \in BOOLEAN /\ what.user \in Users
    BY SayingsAssumption DEF Channels
  <2>2. /\ Written(what, root) /\ (root = 0 \/ IsRoot(root))
        /\ UNCHANGED <<members, ready, again, turns, asked, exercises>>
    BY <1>2 DEF Say, IsRoot
  <2>3. BoundsOK'
    BY <1>2, <2>2, BoundsAssumption DEF Say, BoundsOK
  <2>4. /\ RootsDown' /\ ThreadsByUsers'
        /\ \A ts \in DOMAIN posts : ts \in DOMAIN posts' /\ posts'[ts] = posts[ts]
        /\ posts'[Len(posts) + 1].user \in Users
    BY <2>1, <2>2, WrittenOInv
  <2>5. EventsByUsers'
    <3>1. \A e \in events' : e \in events \/ e.ts = Len(posts) + 1
      BY <1>2 DEF Say
    <3> QED BY <2>4, <3>1 DEF SInv, EventsOK, EventsByUsers
  <2> QED BY <2>2, <2>3, <2>4, <2>5, PlacesStay
<1>3. ASSUME NEW ts \in DOMAIN posts, NEW copy \in Copies, Redeliver(ts, copy)
      PROVE  OInv'
  <2>1. /\ UNCHANGED <<members, ready, said, posts, turns, threads, asked, exercises>>
        /\ events' = events \cup {[ts |-> ts, copy |-> copy, n |-> again + 1]} /\ posts[ts].user \in Users
    BY <1>3 DEF Redeliver
  <2>2. BoundsOK'
    BY <1>3, <2>1, BoundsAssumption DEF Redeliver, BoundsOK
  <2>3. EventsByUsers'
    BY <2>1 DEF EventsByUsers
  <2> QED BY <2>1, <2>2, <2>3, NothingWritten, PlacesStay
<1>4. ASSUME NEW e \in events, MarkEvent(e)
      PROVE  OInv'
  <2>1. /\ UNCHANGED <<members, ready, said, again, posts, threads, asked, exercises>> /\ events' = events \ {e}
        /\ turns' = turns \/ turns' = turns \cup {Turn(e, "route")}
    BY <1>4 DEF MarkEvent
  <2>2. EventsByUsers' /\ BoundsOK'
    BY <2>1 DEF EventsByUsers, BoundsOK
  <2>3. TurnsByUsers'
    <3>1. /\ Turn(e, "route").user \in Users /\ Turn(e, "route").session = None
          /\ Turn(e, "route").exercise = None
      BY DEF Turn, EventsByUsers
    <3> HIDE DEF Turn
    <3> QED BY <2>1, <3>1 DEF TurnsByUsers, ByUser
  <2> QED BY <2>1, <2>2, <2>3, NothingWritten, PlacesStay
<1>5. ASSUME NEW t \in turns,
             Resolve(t) \/ Answer(t) \/ SubmitLinks(t) \/ EndTurn(t) \/ AfterTurn(t) \/ TurnStops(t)
      PROVE  OInv'
  <2>0. /\ t \in TurnType /\ t.ts \in DOMAIN posts /\ IsRoot(t.root) /\ t.user = posts[t.ts].user
        /\ t.user \in Users /\ ByUser(t.session) /\ t.exercise \in {None, t.root}
    BY DEF SInv, PostsOK, TurnsOK, TurnOK, MInv, TurnsMarked, TurnsByUsers
  <2>1. UNCHANGED <<members, ready, said, again, posts, events>>
    BY <1>5 DEF Resolve, Answer, SubmitLinks, EndTurn, AfterTurn, TurnStops
  <2>2. BoundsOK' /\ EventsByUsers' /\ RootsDown' /\ DraftOK' /\ DigestOK'
    BY <2>1, NothingWritten, PlacesStay DEF BoundsOK
  <2>3. ASSUME NEW n, TurnMoves(t, {n}), n.user = t.user, ByUser(n.session), n.exercise \in {None, n.root}
        PROVE  TurnsByUsers'
    BY <2>0, <2>3 DEF TurnsByUsers, TurnMoves
  <2>4. TurnMoves(t, {}) => TurnsByUsers'
    BY DEF TurnsByUsers, TurnMoves
  <2>5. CASE Resolve(t)
    <3>1. ByUser(threads[t.root].session)
      BY <2>0 DEF SInv, PostsOK, IsRoot, ThreadsByUsers
    <3>2. PICK goal \in BOOLEAN :
             \/ TurnMoves(t, {})
             \/ TurnMoves(t, {[t EXCEPT !.at = "answer", !.goal = goal, !.session = threads[t.root].session]})
      <4>1. (posts[t.ts].channel = "goal" /\ t.user \in members) \in BOOLEAN
        OBVIOUS
      <4> QED BY <2>5, <4>1, Zenon DEF Resolve
    <3> DEFINE n == [t EXCEPT !.at = "answer", !.goal = goal, !.session = threads[t.root].session]
    <3>3. n.user = t.user /\ ByUser(n.session) /\ n.exercise \in {None, n.root}
      BY <2>0, <3>1 DEF TurnType
    <3>4. TurnMoves(t, {}) \/ TurnMoves(t, {n})
      BY <3>2
    <3> HIDE DEF n
    <3>5. TurnsByUsers'
      BY <2>3, <2>4, <3>3, <3>4
    <3>6. UNCHANGED <<threads, asked, exercises>>
      BY <2>5 DEF Resolve
    <3> QED BY <2>1, <2>2, <3>5, <3>6, NothingWritten, PlacesStay
  <2>6. CASE Answer(t)
    <3>1. PICK exercise \in {None, t.root} :
             TurnMoves(t, {[t EXCEPT !.at = "talk", !.exercise = exercise]})
      <4>1. [t EXCEPT !.at = "talk"] = [t EXCEPT !.at = "talk", !.exercise = t.exercise]
        BY <2>0 DEF TurnType
      <4> QED BY <2>0, <2>6, <4>1 DEF Answer
    <3> DEFINE n == [t EXCEPT !.at = "talk", !.exercise = exercise]
    <3>2. n.user = t.user /\ ByUser(n.session) /\ n.exercise \in {None, n.root} /\ TurnMoves(t, {n})
      BY <2>0, <3>1 DEF TurnType
    <3> HIDE DEF n
    <3>3. TurnsByUsers'
      BY <2>3, <3>2
    <3>4. UNCHANGED <<threads, asked>> /\ (exercises' = exercises \/ MarkAnswered(t.root))
      BY <2>6 DEF Answer
    <3>5. ExercisesOK'
      <4>1. CASE exercises' = exercises
        BY <2>1, <4>1, NothingWritten, PlacesStay
      <4>2. CASE MarkAnswered(t.root)
        <5>1. \A i \in DOMAIN exercises : exercises[i] \in ExerciseType
          BY DEF EInv
        <5>2. /\ DOMAIN exercises' = DOMAIN exercises
              /\ \A i \in DOMAIN exercises :
                    exercises'[i].ts = exercises[i].ts /\ exercises'[i].note = exercises[i].note
          BY <4>2, <5>1 DEF MarkAnswered, ExerciseType
        <5> QED BY <2>1, <5>2 DEF ExercisesOK, OfAgent, IsRoot, Root
      <4> QED BY <3>4, <4>1, <4>2
    <3> QED BY <2>1, <2>2, <3>3, <3>4, <3>5, NothingWritten, PlacesStay
  <2>7. CASE SubmitLinks(t)
    <3>1. /\ TurnMoves(t, {[t EXCEPT !.asks = TRUE]}) /\ UNCHANGED <<threads, exercises>>
          /\ asked' = asked \cup {[user |-> t.user, link |-> t.ts]}
      BY <2>7 DEF SubmitLinks
    <3>2. TurnsByUsers'
      BY <2>0, <2>3, <3>1 DEF TurnType
    <3>3. AskedOK'
      BY <2>0, <2>1, <3>1 DEF AskedOK
    <3> QED BY <2>1, <2>2, <3>1, <3>2, <3>3, NothingWritten, PlacesStay
  <2>8. CASE EndTurn(t)
    <3>1. TurnMoves(t, {[t EXCEPT !.at = "after"]}) /\ UNCHANGED <<asked, exercises>>
      BY <2>8 DEF EndTurn
    <3>2. TurnsByUsers'
      BY <2>0, <2>3, <3>1 DEF TurnType
    <3>3. ThreadsByUsers'
      <4>1. CASE threads' = threads
        BY <2>1, <4>1, NothingWritten
      <4>2. ASSUME NEW s \in {t.session, Session(t.user, t.ts)} \ {None}, SaveThread(t.root, t.user, s)
            PROVE  ThreadsByUsers'
        <5>1. ByUser(s)
          BY <2>0, <4>2 DEF ByUser, Session
        <5> QED BY <2>0, <2>1, <4>2, <5>1, SaveThreadOInv
      <4> QED BY <2>8, <4>1, <4>2 DEF EndTurn
    <3> QED BY <2>1, <2>2, <3>1, <3>2, <3>3, NothingWritten, PlacesStay
  <2>9. CASE AfterTurn(t) \/ TurnStops(t)
    <3>1. TurnMoves(t, {}) /\ UNCHANGED <<threads, exercises>> /\ asked' \subseteq asked
      BY <2>9 DEF AfterTurn, TurnStops
    <3>2. TurnsByUsers' /\ AskedOK'
      BY <2>1, <2>4, <3>1 DEF AskedOK
    <3> QED BY <2>1, <2>2, <3>1, <3>2, NothingWritten, PlacesStay
  <2> QED BY <1>5, <2>5, <2>6, <2>7, <2>8, <2>9
<1> QED BY <1>1, <1>2, <1>3, <1>4, <1>5 DEF TalkNext

LEMMA ExerciseOInv ==
    ASSUME DInv, SInv, EInv, OInv, ExerciseNext, UNCHANGED inboxVars
    PROVE  OInv'
<1> USE DEF OInv
<1>0. /\ draft = [at |-> draft.at, stamp |-> draft.stamp, ts |-> draft.ts]
      /\ runs \in 0..MaxRuns /\ waiting \in 0..runs /\ MaxRuns \in Nat
      /\ NoDraft.at = "idle"
  BY RunsAssumption DEF SInv, WorkOK, DraftOK, NoDraft
<1>1. CASE PostExercise
  <2>1. /\ Posted("goal") /\ UNCHANGED <<waiting, runs>>
        /\ draft' = [at |-> "thread", stamp |-> draft.stamp, ts |-> Len(posts) + 1] /\ draft.at = "post"
        /\ UNCHANGED <<members, ready, said, again, events, turns, asked, exercises>>
    BY <1>0, <1>1 DEF PostExercise, ExerciseMoves
  <2>2. DraftOK' /\ BoundsOK'
    BY <1>0, <2>1, PostedOInv DEF DraftOK, BoundsOK, Channels
  <2> QED BY <2>1, <2>2, PostedOInv, PlacesStay DEF Channels
<1>2. CASE SaveExerciseThread
  <2>1. /\ SaveThread(draft.ts, Owner, Session(Owner, draft.ts)) /\ UNCHANGED <<waiting, runs>>
        /\ draft' = [at |-> "record", stamp |-> draft.stamp, ts |-> draft.ts] /\ draft.at = "thread"
        /\ UNCHANGED <<members, ready, said, again, posts, events, turns, asked, exercises>>
    BY <1>0, <1>2 DEF SaveExerciseThread, ExerciseMoves
  <2>2. DraftOK' /\ BoundsOK'
    BY <1>0, <2>1 DEF DraftOK, BoundsOK, OfAgent
  <2>3. ByUser(Session(Owner, draft.ts)) /\ IsRoot(draft.ts)
    BY <2>1, OwnerAssumption DEF ByUser, Session, SInv, WorkOK
  <2> QED BY <2>1, <2>2, <2>3, SaveThreadOInv, NothingWritten, PlacesStay
<1>3. CASE SaveExercise
  <2>1. /\ draft' = [at |-> "note", stamp |-> draft.stamp, ts |-> draft.ts] /\ draft.at = "record"
        /\ UNCHANGED <<waiting, runs, members, ready, said, again, posts, events, turns, threads, asked>>
        /\ exercises' = Append(exercises, [ts |-> draft.ts, day |-> draft.stamp[1], note |-> draft.stamp,
                                           answered |-> FALSE])
    BY <1>0, <1>3 DEF SaveExercise, ExerciseMoves
  <2>2. DraftOK' /\ BoundsOK'
    BY <1>0, <2>1 DEF DraftOK, BoundsOK, OfAgent
  <2>3. ExercisesOK'
    <3>1. OfAgent(draft.ts) /\ IsRoot(draft.ts) /\ draft.stamp \in Days \X Nat
      BY <2>1 DEF DraftOK, SInv, WorkOK
    <3>2. \A i \in DOMAIN exercises' :
             \/ i \in DOMAIN exercises /\ exercises'[i] = exercises[i]
             \/ exercises'[i].ts = draft.ts /\ exercises'[i].note = draft.stamp
      <4> DEFINE row == [ts |-> draft.ts, day |-> draft.stamp[1], note |-> draft.stamp, answered |-> FALSE]
      <4>1. row.ts = draft.ts /\ row.note = draft.stamp /\ exercises' = Append(exercises, row)
        BY <2>1
      <4> HIDE DEF row
      <4>2. /\ exercises \in Seq(ExerciseType)
            /\ DOMAIN exercises' = 1..(Len(exercises) + 1) /\ exercises'[Len(exercises) + 1] = row
            /\ \A i \in DOMAIN exercises : exercises'[i] = exercises[i]
        BY <4>1 DEF EInv
      <4> QED BY <4>1, <4>2
    <3> QED BY <2>1, <3>1, <3>2 DEF ExercisesOK, OfAgent, IsRoot, Root
  <2> QED BY <2>1, <2>2, <2>3, NothingWritten, PlacesStay
<1>4. CASE LearningExercises \/ ExerciseStarts \/ CheckSkip \/ DraftExercise \/ WriteNote \/ ExerciseFails
  <2>1. UNCHANGED talkVars
    BY <1>4 DEF LearningExercises, ExerciseStarts, CheckSkip, DraftExercise, WriteNote, ExerciseFails
  <2>2. runs' \in 0..MaxRuns /\ waiting' \in 0..runs'
    BY <1>0, <1>4 DEF LearningExercises, ExerciseStarts, CheckSkip, DraftExercise, WriteNote, ExerciseFails,
                      ExerciseMoves
  <2>3. /\ draft'.at \in {"idle", "check", "draft", "post", "thread", "record", "note"}
        /\ draft'.at \in {"post", "thread", "record"} => draft'.stamp \in Days \X Nat
        /\ draft'.at \in {"thread", "record", "note"} => draft'.ts = draft.ts /\ draft' = draft
    <3>1. CASE LearningExercises \/ WriteNote \/ ExerciseFails
      BY <1>0, <3>1 DEF LearningExercises, WriteNote, ExerciseFails, ExerciseMoves, DraftOK
    <3>2. CASE ExerciseStarts \/ CheckSkip
      BY <1>0, <3>2 DEF ExerciseStarts, CheckSkip, ExerciseMoves
    <3>3. CASE DraftExercise
      <4>1. draft'.at = "post" /\ draft'.stamp = Stamp
        BY <1>0, <3>3 DEF DraftExercise, ExerciseMoves
      <4>2. today \in Days /\ Len(exercises) \in Nat
        BY DEF DInv, EInv
      <4> QED BY <4>1, <4>2 DEF Stamp
    <3> QED BY <1>4, <3>1, <3>2, <3>3
  <2>4. DraftOK'
    BY <2>1, <2>2, <2>3 DEF DraftOK, OfAgent, talkVars
  <2> QED BY <2>1, <2>4, NothingWritten, PlacesStay DEF talkVars, BoundsOK
<1> QED BY <1>1, <1>2, <1>3, <1>4 DEF ExerciseNext

LEMMA InboxOInv ==
    ASSUME DInv, SInv, OInv, InboxNext, UNCHANGED exerciseVars
    PROVE  OInv'
<1> USE DEF OInv
<1>0. /\ digest = [at |-> digest.at, day |-> digest.day, ts |-> digest.ts]
      /\ digests \in 0..MaxDigests /\ MaxDigests \in Nat /\ NoDigest.at = "idle"
      /\ NoDigest = [at |-> "idle", day |-> 0, ts |-> 0]
      /\ day \in [Days -> {"free", "reserved", "posted"}] /\ digest.day \in Days
  BY DigestsAssumption DEF SInv, WorkOK, DigestOK, NoDigest, DInv
<1>1. CASE PostInbox \/ PostStops \/ (PostFails /\ InboxMessage)
  <2>1. /\ Posted("inbox") /\ digests' = digests /\ day' = day
        /\ UNCHANGED <<members, ready, said, again, events, turns, asked, exercises>>
        /\ \/ digest' = [at |-> "complete", day |-> digest.day, ts |-> Len(posts) + 1]
           \/ digest' = NoDigest
           \/ digest' = [at |-> "release", day |-> digest.day, ts |-> digest.ts]
    BY <1>0, <1>1 DEF PostInbox, PostStops, PostFails, InboxMessage, DigestMoves
  <2>2. DigestOK' /\ BoundsOK'
    BY <1>0, <2>1, PostedOInv DEF DigestOK, BoundsOK, Channels
  <2> QED BY <2>1, <2>2, PostedOInv, PlacesStay DEF Channels
<1>2. CASE SaveInboxThread
  <2>1. /\ SaveThread(digest.ts, Owner, Session(Owner, digest.ts)) /\ digest' = NoDigest /\ digest.at = "thread"
        /\ UNCHANGED <<members, ready, said, again, posts, events, turns, asked, exercises, digests>>
    BY <1>2 DEF SaveInboxThread, DigestMoves
  <2>2. DigestOK' /\ BoundsOK'
    BY <1>0, <2>1 DEF DigestOK, BoundsOK
  <2>3. ByUser(Session(Owner, digest.ts)) /\ IsRoot(digest.ts)
    BY <2>1, OwnerAssumption DEF ByUser, Session, SInv, WorkOK
  <2> QED BY <2>1, <2>2, <2>3, SaveThreadOInv, NothingWritten, PlacesStay
<1>3. CASE \/ InboxDigests \/ DigestStarts \/ CheckInbox \/ DraftInbox \/ ReserveInbox
           \/ (PostFails /\ UNCHANGED talkVars) \/ ReleaseInbox \/ CompleteInbox \/ DigestFails
  <2>1. UNCHANGED talkVars
    BY <1>3 DEF InboxDigests, DigestStarts, CheckInbox, DraftInbox, ReserveInbox, ReleaseInbox, CompleteInbox,
                DigestFails
  <2>2. DigestOK'
    <3>0. posts' = posts
      BY <2>1 DEF talkVars
    <3>1. CASE InboxDigests \/ DigestFails
      BY <1>0, <3>0, <3>1 DEF InboxDigests, DigestFails, DigestMoves, DigestOK
    <3>2. CASE DigestStarts
      BY <1>0, <3>0, <3>2 DEF DigestStarts, DigestOK
    <3>3. CASE CheckInbox \/ DraftInbox \/ PostFails
      BY <1>0, <3>0, <3>3 DEF CheckInbox, DraftInbox, PostFails, DigestMoves, DigestOK
    <3>4. CASE ReserveInbox \/ ReleaseInbox
      BY <1>0, <3>0, <3>4 DEF ReserveInbox, ReleaseInbox, DigestMoves, DigestOK
    <3>5. CASE CompleteInbox
      <4>1. digest' = [at |-> "thread", day |-> digest.day, ts |-> digest.ts] /\ day'[digest.day] = "posted"
            /\ digests' = digests /\ digest.at = "complete"
        BY <1>0, <3>5 DEF CompleteInbox, DigestMoves
      <4> QED BY <1>0, <3>0, <4>1 DEF DigestOK
    <3> QED BY <1>3, <3>1, <3>2, <3>3, <3>4, <3>5
  <2>3. BoundsOK'
    BY <2>1 DEF talkVars, BoundsOK
  <2> QED BY <2>1, <2>2, <2>3, NothingWritten, PlacesStay DEF talkVars
<1> QED BY <1>1, <1>2, <1>3 DEF InboxNext, PostFails

LEMMA NextOInv == ASSUME DInv, SInv, MInv, EInv, OInv, [Next]_vars PROVE OInv'
<1>1. CASE UNCHANGED vars
  BY <1>1, NothingWritten, PlacesStay DEF vars, talkVars, OInv, BoundsOK
<1>2. CASE TalkNext /\ UNCHANGED <<exerciseVars, inboxVars>>
  BY <1>2, TalkOInv
<1> QED BY <1>1, <1>2, ExerciseOInv, InboxOInv DEF Next

LEMMA InvariantsType ==
    ASSUME DInv, SInv, MInv, EInv, OInv
    PROVE  TypeOK
<1> USE DEF OInv
<1>1. /\ DOMAIN posts = DOMAIN threads /\ Len(handled) = Len(posts)
      /\ \A ts \in DOMAIN posts : posts[ts] \in PostType
      /\ \A ts \in DOMAIN threads : threads[ts] \in ThreadType
  BY DEF SInv, PostsOK, MInv
<1>2. ASSUME NEW s, NEW r, SessionOf(s, r), ByUser(s) PROVE s \in Sessions
  BY <1>2 DEF SessionOf, SessionType, ByUser, Sessions
<1>3. TalkTypeOK
  <2>1. today \in Days /\ ready \subseteq Users /\ members \subseteq Users /\ said <= MaxSaid /\ again <= MaxAgain
    BY BoundsAssumption DEF DInv, BoundsOK
  <2>2. \A ts \in DOMAIN posts : posts[ts].channel \in Channels /\ Root(ts) <= ts /\ Root(Root(ts)) = Root(ts)
    BY <1>1 DEF PostType, RootsDown, SInv, PostsOK, IsRoot
  <2>3. \A e \in events : e.ts \in DOMAIN posts /\ posts[e.ts].user \in Users
    BY DEF SInv, EventsOK, EventsByUsers
  <2>4. \A t \in turns :
          /\ [ts |-> t.ts, copy |-> t.copy] \in marked /\ t.at \in {"route", "answer", "talk", "after"}
          /\ t.user = posts[t.ts].user /\ t.root = Root(t.ts) /\ t.session \in Sessions
          /\ t.exercise \in {None, t.root}
    BY <1>2 DEF SInv, TurnsOK, TurnOK, TurnType, MInv, TurnsMarked, TurnsByUsers
  <2>5. \A ts \in DOMAIN threads : threads[ts].user # None => Root(ts) = ts /\ threads[ts].session \in Sessions
    BY <1>2 DEF SInv, ThreadsOK, ThreadsByUsers
  <2>6. Len(threads) = Len(posts) /\ \A r \in asked : r.user = posts[r.link].user
    BY DEF SInv, PostsOK, AskedOK
  <2> QED BY <1>1, <2>1, <2>2, <2>3, <2>4, <2>5, <2>6 DEF TalkTypeOK
<1>4. ExerciseTypeOK
  BY RunsAssumption DEF ExerciseTypeOK, DraftOK, ExercisesOK, OfAgent, IsRoot
<1>5. InboxTypeOK
  BY DEF InboxTypeOK, DigestOK, DInv
<1> QED BY <1>3, <1>4, <1>5 DEF TypeOK

(* What the variables hold, for any users and numbers of anything.         *)
THEOREM TypeCorrect == Spec => []TypeOK
<1> DEFINE Inv == DInv /\ SInv /\ MInv /\ EInv /\ OInv
<1>1. Init => Inv
  BY InitDInv, InitSInv, InitMInv, InitEInv, InitOInv
<1>2. Inv /\ [Next]_vars => Inv'
  BY NextDInv, NextSInv, NextMInv, NextEInv, NextOInv
<1>3. Inv => TypeOK
  BY InvariantsType
<1> QED BY <1>1, <1>2, <1>3, PTL DEF Spec
=============================================================================
