-------------------------- MODULE LearningExercise --------------------------
(***************************************************************************)
(* The daily exercises of the Owner's learning goal. Each morning's cron   *)
(* (learning_exercises.go) starts a run, one at a time, which skips the    *)
(* day while the latest exercise is unanswered, drafts an exercise, posts  *)
(* it in the goal channel, and records its thread, row and note, in that   *)
(* order (learning_exercise.go). A reply in the thread answers it, in the  *)
(* turn of Conversations.                                                  *)
(*                                                                         *)
(* A note is named after its day, the later ones of a day after their time *)
(* too, which here is their place among the exercises: a draft takes       *)
(* longer than a minute.                                                   *)
(***************************************************************************)
EXTENDS Conversations

CONSTANTS
    MaxRuns         \* bound: how many runs are started

ASSUME RunsAssumption == MaxRuns \in Nat

VARIABLES
    waiting,   \* the runs that wait for their turn
    runs,      \* how many were started
    draft      \* the run that has its turn

exerciseVars == <<waiting, runs, draft>>

NoDraft == [at |-> "idle", stamp |-> None, ts |-> 0]

ExerciseInit ==
    /\ waiting = 0 /\ runs = 0
    /\ draft = NoDraft

(* The cron's task, whose retry starts a goal's run once more.             *)
LearningExercises ==
    /\ runs < MaxRuns
    /\ runs' = runs + 1
    /\ waiting' = waiting + 1
    /\ UNCHANGED <<talkVars, draft>>

ExerciseStarts ==
    /\ draft.at = "idle" /\ waiting > 0
    /\ waiting' = waiting - 1
    /\ draft' = [draft EXCEPT !.at = "check"]
    /\ UNCHANGED <<talkVars, runs>>

ExerciseMoves(next) ==
    /\ draft' = next
    /\ UNCHANGED <<waiting, runs>>

Last == exercises[Len(exercises)]

(* Faulty variant: an unanswered exercise of an earlier day is passed over.*)
UnansweredToday == exercises # <<>> /\ ~Last.answered /\ Last.day = today

Unanswered == exercises # <<>> /\ ~Last.answered

(* checkSkip: the goal may also be over.                                   *)
CheckSkip ==
    /\ draft.at = "check"
    /\ \/ ExerciseMoves(NoDraft)
       \/ ~Unanswered /\ ExerciseMoves([draft EXCEPT !.at = "draft"])
    /\ UNCHANGED talkVars

(* Faulty variant: a note is named after its day.                          *)
StampOfDay == <<today, 0>>

Stamp == IF exercises # <<>> /\ Last.day = today THEN <<today, Len(exercises)>> ELSE <<today, 0>>

(* build-context and draft-exercise, which only read, and the first lines  *)
(* of post: the note's name is decided before the exercise is posted.      *)
DraftExercise ==
    /\ draft.at = "draft"
    /\ ExerciseMoves([draft EXCEPT !.at = "post", !.stamp = Stamp])
    /\ UNCHANGED talkVars

(* The exercise's message is there; what overflows follows in its thread.  *)
PostExercise ==
    /\ draft.at = "post"
    /\ Posted("goal")
    /\ ExerciseMoves([draft EXCEPT !.at = "thread", !.ts = Len(posts) + 1])
    /\ UNCHANGED <<today, members, ready, said, again, events, marked, turns, asked, exercises>>

SaveExerciseThread ==
    /\ draft.at = "thread"
    /\ SaveThread(draft.ts, Owner, Session(Owner, draft.ts))
    /\ ExerciseMoves([draft EXCEPT !.at = "record"])
    /\ UNCHANGED <<today, members, ready, posts, said, again, events, marked, turns, asked, exercises, handled>>

SaveExercise ==
    /\ draft.at = "record"
    /\ exercises' = Append(exercises, [ts |-> draft.ts, day |-> draft.stamp[1], note |-> draft.stamp,
                                       answered |-> FALSE])
    /\ ExerciseMoves([draft EXCEPT !.at = "note"])
    /\ UNCHANGED <<today, members, ready, posts, said, again, events, marked, turns, threads, asked, handled>>

(* The note is saved under its name in memory, or a call fails: the        *)
(* exercise is posted and recorded all the same.                           *)
WriteNote ==
    /\ draft.at = "note"
    /\ ExerciseMoves(NoDraft)
    /\ UNCHANGED talkVars

(* A task fails for good, or the worker stops: post is never retried.      *)
ExerciseFails ==
    /\ draft.at # "idle"
    /\ ExerciseMoves(NoDraft)
    /\ UNCHANGED talkVars

ExerciseNext ==
    \/ LearningExercises \/ ExerciseStarts \/ CheckSkip \/ DraftExercise \/ PostExercise
    \/ SaveExerciseThread \/ SaveExercise \/ WriteNote \/ ExerciseFails

-----------------------------------------------------------------------------
ExerciseTypeOK ==
    /\ waiting \in 0..MaxRuns /\ runs \in 0..MaxRuns
    /\ draft.at \in {"idle", "check", "draft", "post", "thread", "record", "note"}
    /\ draft.at \in {"thread", "record", "note"} => draft.ts \in DOMAIN posts
    /\ \A i \in DOMAIN exercises :
         /\ exercises[i].note \in Days \X Nat
         /\ posts[exercises[i].ts].user = None /\ Root(exercises[i].ts) = exercises[i].ts

(* learning_exercise.go:143, "An unanswered one means the user is away":   *)
(* two exercises are never open at once, whatever the cron retries.        *)
OneUnanswered == \A i, j \in DOMAIN exercises : ~exercises[i].answered /\ ~exercises[j].answered => i = j

(* learning_exercise.go:253, "so its note doesn't replace the first": no   *)
(* two exercises have one note.                                            *)
NotesKept == \A i, j \in DOMAIN exercises : exercises[i].note = exercises[j].note => i = j

(* docs/architecture.md:155, "When the goal's owner replies in an exercise *)
(* thread, chat-turn sets answered_at and resumes the drafting session, so *)
(* the agent knows exactly what was asked": that session, or one that took *)
(* its place when it was lost.                                             *)
AnswerKnowsExercise ==
    \A t \in turns : t.at = "talk" /\ t.exercise # None /\ t.user = Owner => t.session # None
=============================================================================
