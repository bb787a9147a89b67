--------------------------- MODULE JobAssistant ----------------------------
(***************************************************************************)
(* The job assistant of one user of the web app: the job_postings table in *)
(* SQLite, the links and applications in Firestore, the web app's listener *)
(* and the job-search cron in the worker, and the runs of three durable    *)
(* workflows, each serialized per user: job-links, job-application and     *)
(* job-hunt.  No transaction spans the two stores, and a task may fail     *)
(* between any two calls.                                                  *)
(*                                                                         *)
(* Everything is keyed by the user, so one user is the whole system.  The  *)
(* hunts are those of an unpaused user with a resume, roles and regions:   *)
(* the other reasons to skip leave this state as it is.  Links sent in     *)
(* Slack record nothing and are not modelled here.                         *)
(***************************************************************************)
EXTENDS JobPostings, WebChannel, Integers, FiniteSets

CONSTANTS
    Postings,    \* canonical posting URLs (their url hashes)
    NoPosting,   \* the target of a link that is not a readable posting URL
    Links,       \* ids of link documents
    Target,      \* the canonical posting of each link's URL (jobs.Parse)
    LinkRuns,    \* job-links runs that may be queued or running at once
    AppRuns,     \* job-application runs that may be queued or running at once
    MaxLinks,    \* links a job-links run takes at most (maxLinks)
    JobsPerRun   \* postings a hunt picks at most

ASSUME TargetAssumption ==
    /\ NoPosting \notin Postings
    /\ Target \in [Links -> Postings \cup {NoPosting}]

ASSUME BatchAssumption == MaxLinks \in Nat \ {0} /\ JobsPerRun \in Nat \ {0}

VARIABLES
    posting,   \* job_postings: the status of each posting
    app,       \* applications/{id}: the review state of each application
    link,      \* links/{id}: the status of each link
    gone,      \* postings their sites no longer have
    notified,  \* queued links a snapshot brought the listener, not handled yet
    requeue,   \* processing links the cron's query returned, not updated yet
    lrun,      \* the job-links runs
    arun,      \* the job-application runs
    hunt       \* the job-hunt run

vars == <<posting, app, link, gone, notified, requeue, lrun, arun, hunt>>

LinkRunType == [pc : {"free", "waiting", "lookup", "pick", "unstarted", "failing", "failset"},
                links : SUBSET Links,      \* the links claimed for the run
                todo : SUBSET Postings,    \* postings the loop has not reached
                kept : SUBSET Postings,    \* postings it kept: fresh, then picked
                writes : SUBSET (Links \X {"done", "inflight", "failed"})]
                                           \* statuses it is about to write

AppRunType == [pc : {"free", "waiting", "save", "publish", "failing", "unread", "failset"},
               p : Postings \cup {NoPosting},
               links : SUBSET Links,
               at : SUBSET Links]          \* links it is about to write

HuntType == [pc : {"idle", "check", "close", "find", "pick", "spawn"},
             picks : SUBSET Postings,      \* picked when OpenPostings read them
             pubs : SUBSET Postings,       \* published when OpenPostings read them
             open : SUBSET Postings,       \* those of both it counts as still open
             todo : SUBSET Postings]       \* stale picks, candidates, picks to spawn

NoLinkRun == [pc |-> "free", links |-> {}, todo |-> {}, kept |-> {}, writes |-> {}]
NoAppRun  == [pc |-> "free", p |-> NoPosting, links |-> {}, at |-> {}]
NoHunt    == [pc |-> "idle", picks |-> {}, pubs |-> {}, open |-> {}, todo |-> {}]

Init ==
    /\ posting = [p \in Postings |-> "none"]
    /\ app = [p \in Postings |-> "none"]
    /\ link = [l \in Links |-> "absent"]
    /\ gone = {} /\ notified = {} /\ requeue = {}
    /\ lrun = [r \in LinkRuns |-> NoLinkRun]
    /\ arun = [a \in AppRuns |-> NoAppRun]
    /\ hunt = NoHunt

-----------------------------------------------------------------------------
(* The user in the web app, held to the security rules: they create links  *)
(* queued, delete them unless processing, and review applications.         *)

AddLink(l) ==
    /\ link[l] = "absent"
    /\ link' = [link EXCEPT ![l] = "queued"]
    /\ notified' = notified \cup {l}
    /\ UNCHANGED <<posting, app, gone, requeue, lrun, arun, hunt>>

RemoveLink(l) ==
    /\ link[l] \in {"queued", "failed"} \cup DoneStatuses
    /\ link' = [link EXCEPT ![l] = "removed"]
    /\ UNCHANGED <<posting, app, gone, notified, requeue, lrun, arun, hunt>>

Review(p) ==
    /\ app[p] = "ready"
    /\ app' = [app EXCEPT ![p] = "reviewed"]
    /\ UNCHANGED <<posting, link, gone, notified, requeue, lrun, arun, hunt>>

(* A posting's site takes it down.                                         *)
PostingGone(p) ==
    /\ p \notin gone
    /\ gone' = gone \cup {p}
    /\ UNCHANGED <<posting, app, link, notified, requeue, lrun, arun, hunt>>

-----------------------------------------------------------------------------
(* The web app's listener.  A snapshot brings it each link as it becomes   *)
(* queued; onLinks handles them in batches.                                *)

(* A batch is claimed and its run started.  When the run can't be started, *)
(* or the worker stops before it is, the claimed links stay processing.    *)
OnLinks(batch) ==
    /\ batch # {} /\ batch \subseteq notified
    /\ Cardinality(batch) <= MaxLinks
    /\ notified' = notified \ batch
    /\ link' = ClaimLinks(link, batch)
    /\ LET claimed == Claimable(link, batch) IN
       \/ /\ claimed # {}
          /\ \E r \in LinkRuns :
                /\ lrun[r].pc = "free"
                /\ lrun' = [lrun EXCEPT ![r] = [NoLinkRun EXCEPT !.pc = "waiting", !.links = claimed]]
       \/ UNCHANGED lrun
    /\ UNCHANGED <<posting, app, gone, requeue, arun, hunt>>

(* The profile can't be read, its owner can't be brought in, or the claim  *)
(* fails: the links are logged and left, queued.                           *)
OnLinksFails(batch) ==
    /\ batch # {} /\ batch \subseteq notified
    /\ notified' = notified \ batch
    /\ UNCHANGED <<posting, app, link, gone, requeue, lrun, arun, hunt>>

(* The listener fails and listens again, or the worker restarts: it first  *)
(* sees every link queued already.                                         *)
ListenAgain ==
    /\ notified' = WithStatus(link, {"queued"})
    /\ UNCHANGED <<posting, app, link, gone, requeue, lrun, arun, hunt>>

-----------------------------------------------------------------------------
(* The job-search cron's RequeueStaleLinks: one query, then an update of   *)
(* each link, whatever became of it since.  Which processing links are     *)
(* past staleClaim is left open.                                           *)

(* Faulty variant: it queries the queued links.                            *)
FindQueued(stale) ==
    /\ requeue = {}
    /\ stale # {} /\ stale \subseteq WithStatus(link, {"queued"})
    /\ requeue' = stale
    /\ UNCHANGED <<posting, app, link, gone, notified, lrun, arun, hunt>>

FindStale(stale) ==
    /\ requeue = {}
    /\ stale # {} /\ stale \subseteq WithStatus(link, {"processing"})
    /\ requeue' = stale
    /\ UNCHANGED <<posting, app, link, gone, notified, lrun, arun, hunt>>

(* An update of a link removed meanwhile is an error, which ends the task. *)
Requeue(l) ==
    /\ l \in requeue
    /\ \/ /\ link[l] \notin NoDocument
          /\ link' = [link EXCEPT ![l] = "queued"]
          /\ notified' = notified \cup {l}
          /\ requeue' = requeue \ {l}
       \/ /\ link[l] \in NoDocument
          /\ requeue' = {}
          /\ UNCHANGED <<link, notified>>
    /\ UNCHANGED <<posting, app, gone, lrun, arun, hunt>>

-----------------------------------------------------------------------------
(* The job-links workflow: resume, pick, spawn.                            *)

LinksTo(r, p) == {l \in lrun[r].links : Target[l] = p}

(* Only one job-links run of the user runs at a time.                      *)
LinksTurn(r) ==
    /\ lrun[r].pc = "waiting"
    /\ \A s \in LinkRuns \ {r} : lrun[s].pc \in {"free", "waiting"}

(* resume reads the user's own Person note; pick resolves each link to its *)
(* canonical posting.                                                      *)
LinksResume(r) ==
    /\ LinksTurn(r)
    /\ \/ lrun' = [lrun EXCEPT ![r].pc = "lookup",
                               ![r].todo = {Target[l] : l \in lrun[r].links} \ {NoPosting}]
       \/ lrun' = [lrun EXCEPT ![r].pc = "failing", ![r].writes = lrun[r].links \X {"failed"}]
    /\ UNCHANGED <<posting, app, link, gone, notified, requeue, arun, hunt>>

(* Its loop goes on once it has written the links of the last posting.     *)
LinksAt(r, pc) == lrun[r].pc = pc /\ lrun[r].writes = {}

(* Faulty variant: a failed posting counts as drafted.                     *)
LookupFailedDone(r, p) ==
    /\ LinksAt(r, "lookup") /\ p \in lrun[r].todo
    /\ \/ /\ posting[p] \in {"none", "passed"}
          /\ lrun' = [lrun EXCEPT ![r].todo = @ \ {p}, ![r].kept = @ \cup {p}]
       \/ /\ posting[p] \notin {"none", "passed"}
          /\ lrun' = [lrun EXCEPT ![r].todo = @ \ {p},
                                  ![r].writes = LinksTo(r, p) \X {IF posting[p] = "picked" THEN "inflight" ELSE "done"}]
    /\ UNCHANGED <<posting, app, link, gone, notified, requeue, arun, hunt>>

(* undrafted: a posting that is new, or was passed over or failed, is      *)
(* fresh; the links of any other are about to be done, being drafted when  *)
(* the row says picked.                                                    *)
LinksLookup(r, p) ==
    /\ LinksAt(r, "lookup") /\ p \in lrun[r].todo
    /\ \/ /\ posting[p] \in {"none", "passed", "failed"}
          /\ lrun' = [lrun EXCEPT ![r].todo = @ \ {p}, ![r].kept = @ \cup {p}]
       \/ /\ posting[p] \notin {"none", "passed", "failed"}
          /\ lrun' = [lrun EXCEPT ![r].todo = @ \ {p},
                                  ![r].writes = LinksTo(r, p) \X {IF posting[p] = "picked" THEN "inflight" ELSE "done"}]
    /\ UNCHANGED <<posting, app, link, gone, notified, requeue, arun, hunt>>

(* done, fail and failPending write one link after the other, whatever     *)
(* became of them, or of their posting, since they were read.              *)
LinksWrite(r) ==
    /\ \E w \in lrun[r].writes :
          /\ link' = SetLink(link, {w[1]}, w[2])
          /\ lrun' = [lrun EXCEPT ![r].writes = @ \ {w}]
    /\ lrun[r].pc \in {"lookup", "pick", "failset"}
    /\ UNCHANGED <<posting, app, gone, notified, requeue, arun, hunt>>

(* readPostings: those read go on to be ranked; links that are no posting  *)
(* URL, and those whose posting couldn't be read, are about to fail.       *)
LinksRead(r, read) ==
    /\ LinksAt(r, "lookup") /\ lrun[r].todo = {}
    /\ read \subseteq lrun[r].kept \ gone
    /\ LET unread == {l \in lrun[r].links : Target[l] \in (lrun[r].kept \ read) \cup {NoPosting}} IN
       lrun' = [lrun EXCEPT ![r] = [@ EXCEPT !.pc = "pick", !.todo = read, !.kept = {},
                                             !.writes = unread \X {"failed"}]]
    /\ UNCHANGED <<posting, app, link, gone, notified, requeue, arun, hunt>>

(* Each posting read is recorded as picked, or else picked again; the      *)
(* links of one that is not are about to be done, as being drafted.  The   *)
(* two calls are one step, the later one's: a row never goes away, so what *)
(* happens between them happens as well before both.                       *)
LinksPick(r, p) ==
    /\ LinksAt(r, "pick") /\ p \in lrun[r].todo
    /\ posting' = RepickPosting(PickPosting(posting, {p}), {p})
    /\ \/ /\ posting[p] \in {"none", "passed", "failed"}
          /\ lrun' = [lrun EXCEPT ![r].todo = @ \ {p}, ![r].kept = @ \cup {p}]
       \/ /\ posting[p] \notin {"none", "passed", "failed"}
          /\ lrun' = [lrun EXCEPT ![r].todo = @ \ {p}, ![r].writes = LinksTo(r, p) \X {"inflight"}]
    /\ UNCHANGED <<app, link, gone, notified, requeue, arun, hunt>>

(* RunNoWait of a job-application run, for posting p and links ids.        *)
StartApplication(p, ids) ==
    \E a \in AppRuns :
        /\ arun[a].pc = "free"
        /\ arun' = [arun EXCEPT ![a] = [NoAppRun EXCEPT !.pc = "waiting", !.p = p, !.links = ids]]

(* spawn, once every posting is recorded: start a run for each, or fail    *)
(* the posting, and then those of its links still processing.              *)
LinksSpawn(r, p) ==
    /\ LinksAt(r, "pick") /\ lrun[r].todo = {} /\ p \in lrun[r].kept
    /\ \/ /\ StartApplication(p, LinksTo(r, p))
          /\ lrun' = [lrun EXCEPT ![r].kept = @ \ {p}]
          /\ UNCHANGED posting
       \/ /\ posting' = MarkFailed(posting, {p})
          /\ lrun' = [lrun EXCEPT ![r].kept = @ \ {p}, ![r].pc = "unstarted",
                                  ![r].writes = LinksTo(r, p) \X {"failed"}]
          /\ UNCHANGED arun
    /\ UNCHANGED <<app, link, gone, notified, requeue, hunt>>

(* The run ends: every posting is drafted or failed, or OnFailure is done. *)
LinksEnd(r) ==
    /\ \/ LinksAt(r, "pick") /\ lrun[r].todo = {} /\ lrun[r].kept = {}
       \/ LinksAt(r, "failset")
    /\ lrun' = [lrun EXCEPT ![r] = NoLinkRun]
    /\ UNCHANGED <<posting, app, link, gone, notified, requeue, arun, hunt>>

(* A call fails or the worker stops: pick and spawn are not retried.       *)
(* OnFailure takes all the run's links.                                    *)
LinksTaskFails(r) ==
    /\ lrun[r].pc \in {"lookup", "pick", "unstarted"}
    /\ lrun' = [lrun EXCEPT ![r] = [@ EXCEPT !.pc = "failing", !.todo = {}, !.kept = {},
                                             !.writes = lrun[r].links \X {"failed"}]]
    /\ UNCHANGED <<posting, app, link, gone, notified, requeue, arun, hunt>>

(* failPending, of spawn or of OnFailure, reads each link's status before  *)
(* it writes any, and leaves those it does not find processing.            *)
LinksPending(r) ==
    /\ lrun[r].pc \in {"unstarted", "failing"}
    /\ lrun' = [lrun EXCEPT ![r].pc = IF @ = "failing" THEN "failset" ELSE "pick",
                            ![r].writes = Pending(link, {w[1] : w \in @}) \X {"failed"}]
    /\ UNCHANGED <<posting, app, link, gone, notified, requeue, arun, hunt>>

(* OnFailure may itself fail.                                              *)
LinksFailureLost(r) ==
    /\ lrun[r].pc \in {"failing", "failset"}
    /\ lrun' = [lrun EXCEPT ![r] = NoLinkRun]
    /\ UNCHANGED <<posting, app, link, gone, notified, requeue, arun, hunt>>

LinksRun(r) ==
    \/ LinksResume(r)
    \/ \E p \in Postings : LinksLookup(r, p) \/ LinksPick(r, p) \/ LinksSpawn(r, p)
    \/ \E read \in SUBSET Postings : LinksRead(r, read)
    \/ LinksWrite(r) \/ LinksEnd(r)
    \/ LinksTaskFails(r) \/ LinksPending(r) \/ LinksFailureLost(r)

-----------------------------------------------------------------------------
(* The job-application workflow: check-skip, tailor, publish.              *)

AppTurn(a) ==
    /\ arun[a].pc = "waiting"
    /\ \A b \in AppRuns \ {a} : arun[b].pc \in {"free", "waiting"}

(* check-skip: a posting no longer waiting for its application is skipped, *)
(* which is no failure: the run ends and its links are left as they are.   *)
AppCheck(a) ==
    /\ AppTurn(a)
    /\ arun' = [arun EXCEPT ![a] = IF posting[arun[a].p] = "picked"
                                   THEN [@ EXCEPT !.pc = "save"] ELSE NoAppRun]
    /\ UNCHANGED <<posting, app, link, gone, notified, requeue, lrun, hunt>>

(* Faulty variant: an error of SaveApplication is swallowed.               *)
SaveUnchecked(a) ==
    /\ arun[a].pc = "save"
    /\ app' \in {app, SaveApplication(app, arun[a].p)}
    /\ arun' = [arun EXCEPT ![a].pc = "publish", ![a].at = arun[a].links]
    /\ UNCHANGED <<posting, link, gone, notified, requeue, lrun, hunt>>

(* tailor has written the application.  publish saves it, points the links *)
(* at it one after the other, and records the posting as published.        *)
AppSave(a) ==
    /\ arun[a].pc = "save"
    /\ app' = SaveApplication(app, arun[a].p)
    /\ arun' = [arun EXCEPT ![a].pc = "publish", ![a].at = arun[a].links]
    /\ UNCHANGED <<posting, link, gone, notified, requeue, lrun, hunt>>

AppPoint(a, l) ==
    /\ arun[a].pc = "publish" /\ l \in arun[a].at
    /\ link' = SetLink(link, {l}, "done")
    /\ arun' = [arun EXCEPT ![a].at = @ \ {l}]
    /\ UNCHANGED <<posting, app, gone, notified, requeue, lrun, hunt>>

AppPublish(a) ==
    /\ arun[a].pc = "publish" /\ arun[a].at = {}
    /\ posting' = MarkPublished(posting, {arun[a].p})
    /\ arun' = [arun EXCEPT ![a] = NoAppRun]
    /\ UNCHANGED <<app, link, gone, notified, requeue, lrun, hunt>>

(* publish fails and is tried again, from its first call.                  *)
AppRetry(a) ==
    /\ arun[a].pc = "publish"
    /\ arun' = [arun EXCEPT ![a].pc = "save", ![a].at = {}]
    /\ UNCHANGED <<posting, app, link, gone, notified, requeue, lrun, hunt>>

(* A task has failed for good: check-skip, tailor or publish.              *)
AppTaskFails(a) ==
    /\ AppTurn(a) \/ arun[a].pc \in {"save", "publish"}
    /\ arun' = [arun EXCEPT ![a].pc = "failing", ![a].at = {}]
    /\ UNCHANGED <<posting, app, link, gone, notified, requeue, lrun, hunt>>

(* OnFailure: the posting fails, and then the links failPending reads as   *)
(* processing; it may itself fail.                                         *)
AppFailed(a) ==
    /\ arun[a].pc = "failing"
    /\ posting' = MarkFailed(posting, {arun[a].p})
    /\ arun' = [arun EXCEPT ![a].pc = "unread"]
    /\ UNCHANGED <<app, link, gone, notified, requeue, lrun, hunt>>

AppPending(a) ==
    /\ arun[a].pc = "unread"
    /\ arun' = [arun EXCEPT ![a].pc = "failset", ![a].at = Pending(link, arun[a].links)]
    /\ UNCHANGED <<posting, app, link, gone, notified, requeue, lrun, hunt>>

AppFailSet(a, l) ==
    /\ arun[a].pc = "failset" /\ l \in arun[a].at
    /\ link' = SetLink(link, {l}, "failed")
    /\ arun' = [arun EXCEPT ![a].at = @ \ {l}]
    /\ UNCHANGED <<posting, app, gone, notified, requeue, lrun, hunt>>

(* It has failed them all, or one of its calls fails.                      *)
AppFailureEnds(a) ==
    /\ arun[a].pc \in {"failing", "unread", "failset"}
    /\ arun' = [arun EXCEPT ![a] = NoAppRun]
    /\ UNCHANGED <<posting, app, link, gone, notified, requeue, lrun, hunt>>

AppRun(a) ==
    \/ AppCheck(a) \/ AppSave(a) \/ AppPublish(a)
    \/ \E l \in Links : AppPoint(a, l) \/ AppFailSet(a, l)
    \/ AppRetry(a) \/ AppTaskFails(a)
    \/ AppFailed(a) \/ AppPending(a) \/ AppFailureEnds(a)

-----------------------------------------------------------------------------
(* The job-hunt workflow: check-skip, find, pick, spawn.                   *)

(* check-skip reads the open postings.  Which picks are past stalePick is  *)
(* left open.                                                              *)
HuntOpen(stale) ==
    /\ hunt.pc = "idle"
    /\ stale \subseteq WithStatus(posting, {"picked"})
    /\ hunt' = [pc |-> "check", picks |-> WithStatus(posting, {"picked"}),
                pubs |-> WithStatus(posting, {"published"}),
                open |-> WithStatus(posting, OpenStatus) \ stale, todo |-> stale]
    /\ UNCHANGED <<posting, app, link, gone, notified, requeue, lrun, arun>>

(* Faulty variant: a stale pick is not marked failed.                      *)
ExpireNothing(p) ==
    /\ hunt.pc = "check" /\ p \in hunt.todo
    /\ hunt' = [hunt EXCEPT !.todo = @ \ {p}]
    /\ UNCHANGED <<posting, app, link, gone, notified, requeue, lrun, arun>>

(* It marks the stale picks failed, ...                                    *)
HuntExpire(p) ==
    /\ hunt.pc = "check" /\ p \in hunt.todo
    /\ posting' = MarkFailed(posting, {p})
    /\ hunt' = [hunt EXCEPT !.todo = @ \ {p}]
    /\ UNCHANGED <<app, link, gone, notified, requeue, lrun, arun>>

(* ... reads the reviews of the published postings, ...                    *)
HuntReviews ==
    /\ hunt.pc = "check" /\ hunt.todo = {}
    /\ hunt' = [hunt EXCEPT !.pc = "close",
                            !.open = @ \ {p \in hunt.pubs : app[p] = "reviewed"}]
    /\ UNCHANGED <<posting, app, link, gone, notified, requeue, lrun, arun>>

(* Faulty variant: any error of a fetch counts as gone.                    *)
SeenOnError(seen) == seen \subseteq hunt.pubs

(* Of the postings still open, the fetches find some gone; a fetch that    *)
(* fails otherwise tells nothing.                                          *)
SeenGone(seen) == seen \subseteq hunt.pubs \cap gone

(* ... and closes those reviewed or seen to be gone; it goes on when none  *)
(* is still open.  The fetches are in the step of ClosePostings: what is   *)
(* gone stays so, and nothing else reads it meanwhile.                     *)
HuntClose(seen) ==
    /\ hunt.pc = "close" /\ SeenGone(seen)
    /\ posting' = ClosePostings(posting, hunt.pubs \ (hunt.open \ seen))
    /\ hunt' = IF hunt.open \subseteq seen THEN [NoHunt EXCEPT !.pc = "find"] ELSE NoHunt
    /\ UNCHANGED <<app, link, gone, notified, requeue, lrun, arun>>

(* The postings found, new to the user and read from their sites.          *)
HuntFind(found) ==
    /\ hunt.pc = "find"
    /\ found \subseteq UnseenPostings(posting, Postings \ gone)
    /\ hunt' = IF found = {} THEN NoHunt ELSE [hunt EXCEPT !.pc = "pick", !.todo = found]
    /\ UNCHANGED <<posting, app, link, gone, notified, requeue, lrun, arun>>

(* The agent's judgement splits the candidates into unfit, fit and not     *)
(* judged.  The unfit are recorded as passed, then the best of the fit as  *)
(* picked, until JobsPerRun are; one found meanwhile is skipped.           *)
HuntPick(unfit, fit, best) ==
    /\ hunt.pc = "pick"
    /\ unfit \subseteq hunt.todo /\ fit \subseteq hunt.todo \ unfit
    /\ best \subseteq UnseenPostings(posting, fit)
    /\ \/ best = UnseenPostings(posting, fit) /\ Cardinality(best) <= JobsPerRun
       \/ Cardinality(best) = JobsPerRun
    /\ posting' = PickPosting(PassPosting(posting, unfit), best)
    /\ hunt' = IF best = {} THEN NoHunt ELSE [hunt EXCEPT !.pc = "spawn", !.todo = best]
    /\ UNCHANGED <<app, link, gone, notified, requeue, lrun, arun>>

HuntSpawn(p) ==
    /\ hunt.pc = "spawn" /\ p \in hunt.todo
    /\ hunt' = IF hunt.todo = {p} THEN NoHunt ELSE [hunt EXCEPT !.todo = @ \ {p}]
    /\ \/ StartApplication(p, {}) /\ UNCHANGED posting
       \/ posting' = MarkFailed(posting, {p}) /\ UNCHANGED arun
    /\ UNCHANGED <<app, link, gone, notified, requeue, lrun>>

(* A task fails for good part way: some candidates are recorded, and no    *)
(* run is started for these.  OnFailure only tells the web app.  A retry   *)
(* of check-skip reads the open postings again.                            *)
HuntTaskFails(unfit, best) ==
    /\ hunt.pc # "idle"
    /\ unfit \cup best \subseteq hunt.todo /\ unfit \cap best = {}
    /\ Cardinality(best) <= JobsPerRun
    /\ hunt.pc # "pick" => unfit = {} /\ best = {}
    /\ posting' = PickPosting(PassPosting(posting, unfit), best)
    /\ hunt' = NoHunt
    /\ UNCHANGED <<app, link, gone, notified, requeue, lrun, arun>>

HuntRun ==
    \/ HuntReviews
    \/ \E S \in SUBSET Postings : HuntOpen(S) \/ HuntClose(S) \/ HuntFind(S)
    \/ \E S, T \in SUBSET Postings : HuntTaskFails(S, T)
    \/ \E unfit, fit, best \in SUBSET Postings : HuntPick(unfit, fit, best)
    \/ \E p \in Postings : HuntExpire(p) \/ HuntSpawn(p)

-----------------------------------------------------------------------------
Next ==
    \/ \E l \in Links : AddLink(l) \/ RemoveLink(l) \/ Requeue(l)
    \/ \E p \in Postings : Review(p) \/ PostingGone(p)
    \/ \E S \in SUBSET Links : OnLinks(S) \/ OnLinksFails(S) \/ FindStale(S)
    \/ ListenAgain
    \/ \E r \in LinkRuns : LinksRun(r)
    \/ \E a \in AppRuns : AppRun(a)
    \/ HuntRun

Spec == Init /\ [][Next]_vars

(* What the schedule promises.  The cron runs at its hours for good: a     *)
(* link that stays processing is past staleClaim at all later ones, so its *)
(* query is repeated, and a pick that stays is past stalePick.  The search *)
(* goes on, and check-skip does not fail for ever.  The listener handles   *)
(* what it is brought, and does not fail each time it is brought a link;   *)
(* runs started take their steps.                                          *)
(* Nothing makes the listener listen again: that needs a failure.          *)
Fairness ==
    /\ \A l \in Links :
          /\ SF_vars(\E S \in SUBSET Links : l \in S /\ FindStale(S))
          /\ WF_vars(Requeue(l))
          /\ WF_vars(\E S \in SUBSET Links : l \in S /\ (OnLinks(S) \/ OnLinksFails(S)))
          /\ SF_vars(\E S \in SUBSET Links : l \in S /\ OnLinks(S))
    /\ \A p \in Postings :
          /\ SF_vars(\E S \in SUBSET Postings : p \in S /\ HuntOpen(S))
          /\ SF_vars(HuntExpire(p))
    /\ WF_vars(HuntRun)
    /\ \A r \in LinkRuns : WF_vars(LinksRun(r))
    /\ \A a \in AppRuns : WF_vars(AppRun(a))

FairSpec == Spec /\ Fairness

-----------------------------------------------------------------------------
(* Every variable keeps its shape.                                         *)
TypeOK ==
    /\ posting \in [Postings -> PostingStatus]
    /\ app \in [Postings -> AppStatuses]
    /\ link \in [Links -> LinkStatuses]
    /\ gone \subseteq Postings /\ notified \subseteq Links /\ requeue \subseteq Links
    /\ lrun \in [LinkRuns -> LinkRunType]
    /\ arun \in [AppRuns -> AppRunType]
    /\ hunt \in HuntType

(* The two stores agree where it matters: a posting SQLite counts as       *)
(* published, or was closed after that, has its application in Firestore,  *)
(* although publish writes one after the other and may stop in between.    *)
PublishedHasApplication ==
    \A p \in Postings : posting[p] \in {"published", "closed"} => app[p] # "none"

(* Recorded before anything else: an application exists only for a posting *)
(* that was picked, and a posting judged not a fit has none.               *)
ApplicationIsRecorded ==
    \A p \in Postings : app[p] # "none" => posting[p] \notin {"none", "passed"}

(* A link the user is told is done leads to its posting's application, and *)
(* one said to be drafted to a posting that was taken up: whichever run    *)
(* wrote it, on whatever it read of the other store before, and whatever   *)
(* became of the posting since.                                            *)
DoneLinksLead ==
    \A l \in Links :
        /\ link[l] = "done" => Target[l] \in Postings /\ app[Target[l]] # "none"
        /\ link[l] = "inflight" => Target[l] \in Postings /\ posting[Target[l]] \notin {"none", "passed"}

(* A retried publish, a second draft or a late run never undoes the user's *)
(* review.                                                                 *)
ReviewIsKept == [][\A p \in Postings : app[p] = "reviewed" => app'[p] = "reviewed"]_vars

(* A posting is never shown again: no run, hunt or link takes a closed one *)
(* up, or a published one anywhere but to closed, or forgets one it found. *)
PostingForward ==
    [][\A p \in Postings :
          /\ posting[p] = "closed" => posting'[p] = "closed"
          /\ posting[p] = "published" => posting'[p] \in {"published", "closed"}
          /\ posting[p] # "none" => posting'[p] # "none"]_vars

(* A link the user removed stays removed, whatever was under way for it.   *)
RemovedStaysRemoved ==
    [][\A l \in Links : link[l] = "removed" => link'[l] = "removed"]_vars

(* A published posting is closed only after its review, or once its site   *)
(* no longer has it.                                                       *)
ClosedOnlyWhenSettled ==
    [][\A p \in Postings : posting[p] = "published" /\ posting'[p] = "closed" =>
          app[p] = "reviewed" \/ p \in gone]_vars

HuntGoesOn == hunt.pc = "close" /\ hunt'.pc = "find"

(* Reviews gate new applications: a search goes on only with every posting *)
(* it read as open dealt with, whatever happened since: the published are  *)
(* closed, and reviewed or gone, and of the picks only one the user sent a *)
(* link to may be picked again.                                            *)
ReviewsGateSearch ==
    [][HuntGoesOn =>
          /\ \A p \in hunt.pubs : posting'[p] = "closed" /\ (app[p] = "reviewed" \/ p \in gone)
          /\ \A p \in hunt.picks : posting'[p] = "picked" =>
                \E l \in Links : Target[l] = p /\ link[l] # "absent"]_vars

(* Every link taken up leaves processing: the run of a link whose run is   *)
(* lost, skipped or never started does not, but the cron queues it again.  *)
ProcessingEnds == \A l \in Links : link[l] = "processing" ~> link[l] # "processing"

(* A pick whose run is lost does not hold the searches up for good.        *)
PickEnds == \A p \in Postings : posting[p] = "picked" ~> posting[p] # "picked"

(* The stage each posting has reached for the user.                        *)
StageOf(p) ==
    CASE app[p] = "none" /\ posting[p] \in {"none", "passed"} -> "unseen"
      [] app[p] = "none" /\ posting[p] \notin {"none", "passed"} -> "attempted"
      [] app[p] = "ready" /\ posting[p] # "closed" -> "ready"
      [] OTHER -> "settled"

Promise == INSTANCE PostingReview WITH stage <- [p \in Postings |-> StageOf(p)]

(* The assistant keeps the promise of PostingReview.                       *)
KeepsPromise == Promise!ReviewSpec

-----------------------------------------------------------------------------
(* What the documents say and the code does not do.                        *)

(* docs/web.md: application_id is "The application for the posting, once   *)
(* `done`".                                                                *)
DoneLinkHasApplication ==
    \A l \in Links : link[l] \in DoneStatuses =>
        app[Target[l]] # "none" \/ posting[Target[l]] = "picked"

(* docs/web.md: "every `ready` one must be marked `applied` or `dismissed` *)
(* first": a search never goes on past a ready application because its     *)
(* posting counts as failed.                                               *)
ReadyHoldsSearch ==
    [][HuntGoesOn => \A p \in Postings : ~(app[p] = "ready" /\ posting[p] = "failed")]_vars

(* docs/web.md: "A posting that already has an application isn't drafted   *)
(* again".                                                                 *)
NotDraftedAgain ==
    [][\A a \in AppRuns : arun[a].pc = "waiting" /\ arun'[a].pc = "save" =>
          app[arun[a].p] = "none"]_vars

(* failPending: "links done meanwhile, or removed, are left alone".        *)
DoneLeftAlone ==
    [][\A l \in Links : link[l] \in DoneStatuses => link'[l] # "failed"]_vars

(* docs/web.md: the worker "takes them up within seconds".                 *)
QueuedTakenUp == \A l \in Links : link[l] = "queued" ~> link[l] # "queued"
=============================================================================
