---------------------------- MODULE ResumeImport ----------------------------
(***************************************************************************)
(* A resume uploaded in the web app on its way into the user's memory: the *)
(* upload in Storage, the profile document in Firestore, the worker's      *)
(* listener to profiles, and the runs of the resume-import workflow, which *)
(* Hatchet serializes per user, first come first served.  Everything is    *)
(* keyed by the user, so one user is the whole system.                     *)
(*                                                                         *)
(* The profile is the only record of an import: there is no table.  The    *)
(* web app writes its resume_generation, the worker its resume_import.     *)
(* Generations are numbered in the order of the uploads; 0 is none.        *)
(***************************************************************************)
EXTENDS Naturals, Sequences

CONSTANTS
    MaxUploads,  \* bound: uploads the user makes
    MaxSnaps,    \* bound: profile snapshots the listener is behind
    MaxQueue     \* bound: runs waiting for their turn

ASSUME BoundAssumption ==
    MaxUploads \in Nat \ {0} /\ MaxSnaps \in Nat \ {0} /\ MaxQueue \in Nat \ {0}

VARIABLES
    uploads,  \* uploads made so far, so the latest generation
    upload,   \* the generation Storage has, 0 once it is deleted
    gen,      \* profiles/{uid}.resume_generation
    import,   \* profiles/{uid}.resume_import: status and generation
    snaps,    \* profile snapshots the listener has not been given yet
    heard,    \* what the listener is doing, and for which generation
    queue,    \* generations of the runs waiting for their turn
    run,      \* the run that has its turn: its step and generation
    files,    \* generations saved in the user's workspace
    self,     \* whether the user has a Person note with relationship self
    resume,   \* the resume that note was last updated from
    told      \* generations resume_import has said are done (history)

storage == <<uploads, upload>>
memory == <<files, self, resume>>
vars == <<storage, gen, import, snaps, heard, queue, run, memory, told>>

Generations == 1 .. MaxUploads
Statuses == {"none", "queued", "running", "done", "failed"}

Import(s, g) == [status |-> s, gen |-> g]
ImportType == [status : Statuses, gen : 0 .. MaxUploads]
SnapType == [gen : 0 .. MaxUploads, imported : 0 .. MaxUploads]
HeardType == [pc : {"idle", "mark", "start", "tell"}, gen : 0 .. MaxUploads]
RunType == [pc : {"idle", "memory", "fetch", "turn", "done", "delete", "failing"},
            gen : 0 .. MaxUploads]

Idle == [pc |-> "idle", gen |-> 0]

(* A Slack user's chats may have written their self note already.          *)
Init ==
    /\ uploads = 0 /\ upload = 0 /\ gen = 0
    /\ import = Import("none", 0)
    /\ snaps = <<>> /\ heard = Idle
    /\ queue = <<>> /\ run = Idle
    /\ files = {} /\ self \in BOOLEAN /\ resume = 0
    /\ told = {}

-----------------------------------------------------------------------------
(* Firestore brings the listener a snapshot after each write of the        *)
(* profile; writes in quick succession may come as one.                    *)
Brings(s) ==
    \/ Len(snaps) < MaxSnaps /\ snaps' = Append(snaps, s)
    \/ snaps # <<>> /\ snaps' = [snaps EXCEPT ![Len(snaps)] = s]

SetResumeImport(s, g) ==
    /\ import' = Import(s, g)
    /\ told' = IF s = "done" THEN told \cup {g} ELSE told
    /\ Brings([gen |-> gen, imported |-> g])

(* The web app: the user uploads a resume, which replaces the one there;   *)
(* then the profile gets its generation.                                   *)
Upload ==
    /\ uploads < MaxUploads
    /\ uploads' = uploads + 1 /\ upload' = uploads + 1
    /\ UNCHANGED <<gen, import, snaps, heard, queue, run, memory, told>>

SaveGeneration ==
    /\ gen # uploads
    /\ gen' = uploads
    /\ Brings([gen |-> uploads, imported |-> import.gen])
    /\ UNCHANGED <<storage, import, heard, queue, run, memory, told>>

(* The user edits another field of their profile.                          *)
EditProfile ==
    /\ Brings([gen |-> gen, imported |-> import.gen])
    /\ UNCHANGED <<storage, gen, import, heard, queue, run, memory, told>>

-----------------------------------------------------------------------------
(* The listener, one profile snapshot at a time.                           *)

(* Its owner is brought in; an upload not imported yet is to be marked.    *)
(* When the owner can't be brought in the snapshot is dropped.             *)
OnProfile ==
    /\ heard.pc = "idle" /\ snaps # <<>>
    /\ snaps' = Tail(snaps)
    /\ LET s == Head(snaps) IN
       \/ s.gen # 0 /\ s.imported # s.gen /\ heard' = [pc |-> "mark", gen |-> s.gen]
       \/ UNCHANGED heard
    /\ UNCHANGED <<storage, gen, import, queue, run, memory, told>>

MarkQueued ==
    /\ heard.pc = "mark"
    /\ \/ /\ SetResumeImport("queued", heard.gen)
          /\ heard' = [heard EXCEPT !.pc = "start"]
       \/ heard' = Idle /\ UNCHANGED <<import, snaps, told>>
    /\ UNCHANGED <<storage, gen, queue, run, memory>>

(* RunNoWait starts a run, or fails.                                       *)
StartImport ==
    /\ heard.pc = "start"
    /\ \/ /\ Len(queue) < MaxQueue
          /\ queue' = Append(queue, heard.gen)
          /\ heard' = Idle
       \/ heard' = [heard EXCEPT !.pc = "tell"] /\ UNCHANGED queue
    /\ UNCHANGED <<storage, gen, import, snaps, run, memory, told>>

TellNotStarted ==
    /\ heard.pc = "tell"
    /\ heard' = Idle
    /\ SetResumeImport("failed", heard.gen) \/ UNCHANGED <<import, snaps, told>>
    /\ UNCHANGED <<storage, gen, queue, run, memory>>

(* The listener fails, or the worker stops in the middle of one: it first  *)
(* sees the profile as it is.                                              *)
ListenAgain ==
    /\ heard' = Idle
    /\ snaps' = <<[gen |-> gen, imported |-> import.gen]>>
    /\ UNCHANGED <<storage, gen, import, queue, run, memory, told>>

-----------------------------------------------------------------------------
(* The resume-import workflow: memory, fetch, update.                      *)

(* Faulty variant: the latest run gets the turn.                           *)
TurnNewest ==
    /\ run.pc = "idle" /\ queue # <<>>
    /\ run' = [pc |-> "memory", gen |-> queue[Len(queue)]]
    /\ queue' = SubSeq(queue, 1, Len(queue) - 1)
    /\ UNCHANGED <<storage, gen, import, snaps, heard, memory, told>>

Turn ==
    /\ run.pc = "idle" /\ queue # <<>>
    /\ run' = [pc |-> "memory", gen |-> Head(queue)]
    /\ queue' = Tail(queue)
    /\ UNCHANGED <<storage, gen, import, snaps, heard, memory, told>>

(* importMemory says the import is running, then sets up the user's        *)
(* memory project; that may fail and the task run again.                   *)
RunMemory ==
    /\ run.pc = "memory"
    /\ SetResumeImport("running", run.gen)
    /\ run' \in {run, [run EXCEPT !.pc = "fetch"]}
    /\ UNCHANGED <<storage, gen, heard, queue, memory>>

(* fetchResume saves the upload in the workspace, once.                    *)
RunFetch ==
    /\ run.pc = "fetch"
    /\ \/ run.gen \in files /\ UNCHANGED files
       \/ gen # 0 /\ upload = run.gen /\ files' = files \cup {run.gen}
    /\ run' = [run EXCEPT !.pc = "turn"]
    /\ UNCHANGED <<storage, gen, import, snaps, heard, queue, self, resume, told>>

(* Faulty variant: what the turn left is not looked at.                    *)
TurnUnchecked ==
    /\ run.pc = "turn"
    /\ \/ self' = TRUE /\ resume' = run.gen
       \/ UNCHANGED <<self, resume>>
    /\ run' \in {run, [run EXCEPT !.pc = "done"]}
    /\ UNCHANGED <<storage, gen, import, snaps, heard, queue, files, told>>

(* updateSelf: the agent's turn writes the resume into the self note, or   *)
(* leaves it; the turn may also fail after either.  What the code checks   *)
(* is that a self note is there.                                           *)
RunTurn ==
    /\ run.pc = "turn"
    /\ \/ self' = TRUE /\ resume' = run.gen
       \/ UNCHANGED <<self, resume>>
    /\ \/ UNCHANGED run
       \/ self' /\ run' = [run EXCEPT !.pc = "done"]
    /\ UNCHANGED <<storage, gen, import, snaps, heard, queue, files, told>>

RunDone ==
    /\ run.pc = "done"
    /\ SetResumeImport("done", run.gen)
    /\ run' = [run EXCEPT !.pc = "delete"]
    /\ UNCHANGED <<storage, gen, heard, queue, memory>>

(* Faulty variant: the delete has no generation precondition.              *)
DeleteAny == upload' = 0

(* DeleteResume deletes the upload while it is the given generation, under *)
(* a precondition Storage checks.                                          *)
DeleteResume == upload' = IF upload = run.gen THEN 0 ELSE upload

(* deleteUpload: a failure is only logged.  The worker may stop before     *)
(* the task's result is recorded, and the update task run again.           *)
RunDelete ==
    /\ run.pc = "delete"
    /\ DeleteResume \/ UNCHANGED upload
    /\ run' \in {Idle, [run EXCEPT !.pc = "turn"]}
    /\ UNCHANGED <<uploads, gen, import, snaps, heard, queue, memory, told>>

(* A call of update fails, or the worker stops: it starts over.            *)
RunRetry ==
    /\ run.pc \in {"done", "delete"}
    /\ run' = [run EXCEPT !.pc = "turn"]
    /\ UNCHANGED <<storage, gen, import, snaps, heard, queue, memory, told>>

(* A task fails for good.                                                  *)
RunFails ==
    /\ run.pc \in {"memory", "fetch", "turn", "done", "delete"}
    /\ run' = [run EXCEPT !.pc = "failing"]
    /\ UNCHANGED <<storage, gen, import, snaps, heard, queue, memory, told>>

(* OnFailure tells the web app; that may fail too.                         *)
RunFailed ==
    /\ run.pc = "failing"
    /\ run' = Idle
    /\ SetResumeImport("failed", run.gen) \/ UNCHANGED <<import, snaps, told>>
    /\ UNCHANGED <<storage, gen, heard, queue, memory>>

-----------------------------------------------------------------------------
User == Upload \/ SaveGeneration \/ EditProfile

Listener == OnProfile \/ MarkQueued \/ StartImport \/ TellNotStarted

Run ==
    \/ Turn \/ RunMemory \/ RunFetch \/ RunTurn \/ RunDone \/ RunDelete
    \/ RunRetry \/ RunFails \/ RunFailed

Next == User \/ Listener \/ ListenAgain \/ Run

Spec == Init /\ [][Next]_vars

(* The listener handles what it is brought; runs take their steps, and a   *)
(* task that is retried fails for good in the end.                         *)
FairSpec == Spec /\ WF_vars(Listener) /\ WF_vars(Run) /\ SF_vars(RunFails \/ RunFailed)

-----------------------------------------------------------------------------
(* Every variable keeps its shape and its bounds.                          *)
TypeOK ==
    /\ uploads \in 0 .. MaxUploads /\ upload \in 0 .. MaxUploads
    /\ gen \in 0 .. MaxUploads /\ import \in ImportType
    /\ snaps \in Seq(SnapType) /\ Len(snaps) <= MaxSnaps
    /\ heard \in HeardType
    /\ queue \in Seq(Generations) /\ Len(queue) <= MaxQueue
    /\ run \in RunType
    /\ files \subseteq Generations /\ self \in BOOLEAN
    /\ resume \in 0 .. MaxUploads /\ told \subseteq Generations

(* The web app says done only of an import whose turn left the user a self *)
(* note, whichever run, retry or listener wrote resume_import last.        *)
DoneHasNote == import.status = "done" => self

(* An upload leaves Storage only after the user was told that this very    *)
(* upload is in their memory: a newer one that replaced it while its run   *)
(* was under way stays.                                                    *)
DeletedWhenTold ==
    [][upload # 0 /\ upload' = 0 => upload \in told]_vars

(* Memory never goes back to an older resume: the runs are serialized and  *)
(* an older upload is never started after a newer one.                     *)
NeverOlder == [][resume' >= resume]_vars

(* A run that has its turn has its PDF: the agent never updates the note   *)
(* from a file that is not in the workspace, though its upload may be gone *)
(* from Storage by then.                                                   *)
TurnHasFile == run.pc \in {"turn", "done", "delete"} => run.gen \in files

-----------------------------------------------------------------------------
(* What comments and documents say and the code does not do.               *)

Under(g) == run.pc # "idle" /\ run.gen = g

(* web_listen.go: the listener marks an upload queued first, "so the       *)
(* snapshots that follow don't start it again".                            *)
StartedOnce ==
    [][Len(queue') > Len(queue) =>
          LET g == queue'[Len(queue')] IN
          g \notin told /\ ~Under(g) /\ \A i \in 1 .. Len(queue) : queue[i] # g]_vars

(* docs/web.md: "An upload whose import failed stays until the user        *)
(* replaces it".                                                           *)
FailedStays == import.status = "failed" /\ import.gen = uploads => upload = uploads

(* docs/web.md: "Within seconds the worker saves it in the user's          *)
(* workspace": an upload marked queued leaves that mark.                   *)
QueuedEnds == import.status = "queued" ~> import.status # "queued"
=============================================================================
