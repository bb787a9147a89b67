------------------------- MODULE JobAssistantProofs ------------------------
(***************************************************************************)
(* What JobAssistant keeps for every set of postings, links and runs.      *)
(***************************************************************************)
EXTENDS JobAssistant, TLAPS

(* The statements of the store keep a table of statuses one.               *)
LEMMA StoreTypes ==
    ASSUME NEW st \in [Postings -> PostingStatus], NEW hs
    PROVE  /\ PickPosting(st, hs) \in [Postings -> PostingStatus]
           /\ PassPosting(st, hs) \in [Postings -> PostingStatus]
           /\ RepickPosting(st, hs) \in [Postings -> PostingStatus]
           /\ MarkPublished(st, hs) \in [Postings -> PostingStatus]
           /\ MarkFailed(st, hs) \in [Postings -> PostingStatus]
           /\ ClosePostings(st, hs) \in [Postings -> PostingStatus]
BY DEF PickPosting, PassPosting, RepickPosting, MarkPublished, MarkFailed, ClosePostings,
       InsertNew, UpdateFrom, PostingStatus

(* So do the writes of the web channel with its documents.                 *)
LEMMA SetLinkType ==
    ASSUME NEW lk \in [Links -> LinkStatuses], NEW ids, NEW s \in LinkStatuses
    PROVE  SetLink(lk, ids, s) \in [Links -> LinkStatuses]
BY DEF SetLink

(* Claiming links keeps the function from links to statuses.               *)
LEMMA ClaimLinksType ==
    ASSUME NEW lk \in [Links -> LinkStatuses], NEW ids
    PROVE  ClaimLinks(lk, ids) \in [Links -> LinkStatuses]
BY DEF ClaimLinks, LinkStatuses

(* So does saving an application for the applications.                     *)
LEMMA SaveType ==
    ASSUME NEW ap \in [Postings -> AppStatuses], NEW h \in Postings
    PROVE  SaveApplication(ap, h) \in [Postings -> AppStatuses]
BY DEF SaveApplication, AppStatuses

(* The initial state has the shape TypeOK states.                          *)
LEMMA InitType == Init => TypeOK
BY DEF Init, TypeOK, PostingStatus, AppStatuses, LinkStatuses, LinkRunType, AppRunType,
       HuntType, NoLinkRun, NoAppRun, NoHunt

(* The links of a run, those still pending, the postings they lead to.     *)
LEMMA LinkSets ==
    ASSUME TypeOK, NEW r \in LinkRuns
    PROVE  /\ \A p : LinksTo(r, p) \subseteq Links
           /\ Pending(link, lrun[r].links) \subseteq Links
           /\ {Target[l] : l \in lrun[r].links} \ {NoPosting} \subseteq Postings
BY TargetAssumption DEF TypeOK, LinksTo, Pending, LinkRunType

(* Starting a drafting run keeps the shape of the runs.                    *)
LEMMA StartType ==
    ASSUME TypeOK, NEW p \in Postings, NEW ids \in SUBSET Links, StartApplication(p, ids)
    PROVE  arun' \in [AppRuns -> AppRunType]
<1> PICK a \in AppRuns :
        arun' = [arun EXCEPT ![a] = [NoAppRun EXCEPT !.pc = "waiting", !.p = p, !.links = ids]]
    BY DEF StartApplication
<1>1. [NoAppRun EXCEPT !.pc = "waiting", !.p = p, !.links = ids] \in AppRunType
    BY DEF NoAppRun, AppRunType
<1> QED BY <1>1 DEF TypeOK

(* Replacing one job-links run by another keeps the shape of them all.     *)
LEMMA LinkRunType1 ==
    ASSUME TypeOK, NEW r \in LinkRuns, NEW run \in LinkRunType, lrun' = [lrun EXCEPT ![r] = run]
    PROVE  lrun' \in [LinkRuns -> LinkRunType]
BY DEF TypeOK

(* The shape is kept by each step of a job-links run ...                   *)
LEMMA LinksRunKeepsType ==
    ASSUME TypeOK, NEW r \in LinkRuns, LinksRun(r)
    PROVE  TypeOK'
<1> USE DEF TypeOK
<1>0. lrun[r] \in LinkRunType /\ lrun[r].links \in SUBSET Links /\ NoLinkRun \in LinkRunType
    BY DEF LinkRunType, NoLinkRun
<1>1. CASE LinksResume(r)
  <2>1. lrun[r].links \X {"failed"} \in SUBSET (Links \X {"done", "inflight", "failed"})
    BY <1>0
  <2>2. /\ [lrun[r] EXCEPT !.pc = "failing", !.writes = lrun[r].links \X {"failed"}] \in LinkRunType
        /\ \A todo \in SUBSET Postings : [lrun[r] EXCEPT !.pc = "lookup", !.todo = todo] \in LinkRunType
    BY <1>0, <2>1 DEF LinkRunType
  <2>3. {Target[l] : l \in lrun[r].links} \ {NoPosting} \in SUBSET Postings
    BY LinkSets
  <2>4. \E run \in LinkRunType : lrun' = [lrun EXCEPT ![r] = run]
    BY <1>1, <2>2, <2>3 DEF LinksResume
  <2> QED BY <1>1, <2>4, LinkRunType1 DEF LinksResume
<1>2. ASSUME NEW p \in Postings, LinksLookup(r, p) PROVE TypeOK'
  <2>1. \A s \in {"done", "inflight"} :
            LinksTo(r, p) \X {s} \in SUBSET (Links \X {"done", "inflight", "failed"})
    BY LinkSets
  <2>2. /\ [lrun[r] EXCEPT !.todo = @ \ {p}, !.kept = @ \cup {p}] \in LinkRunType
        /\ \A s \in {"done", "inflight"} :
              [lrun[r] EXCEPT !.todo = @ \ {p}, !.writes = LinksTo(r, p) \X {s}] \in LinkRunType
    BY <1>0, <2>1 DEF LinkRunType
  <2>3. \E run \in LinkRunType : lrun' = [lrun EXCEPT ![r] = run]
    BY <1>2, <2>2 DEF LinksLookup
  <2> QED BY <1>2, <2>3, LinkRunType1 DEF LinksLookup
<1>3. ASSUME NEW p \in Postings, LinksPick(r, p) PROVE TypeOK'
  <2>1. LinksTo(r, p) \X {"inflight"} \in SUBSET (Links \X {"done", "inflight", "failed"})
    BY LinkSets
  <2>2. /\ [lrun[r] EXCEPT !.todo = @ \ {p}, !.kept = @ \cup {p}] \in LinkRunType
        /\ [lrun[r] EXCEPT !.todo = @ \ {p}, !.writes = LinksTo(r, p) \X {"inflight"}] \in LinkRunType
    BY <1>0, <2>1 DEF LinkRunType
  <2>3. \E run \in LinkRunType : lrun' = [lrun EXCEPT ![r] = run]
    BY <1>3, <2>2 DEF LinksPick
  <2>4. posting' \in [Postings -> PostingStatus]
    BY <1>3, StoreTypes DEF LinksPick
  <2> QED BY <1>3, <2>3, <2>4, LinkRunType1 DEF LinksPick
<1>4. ASSUME NEW p \in Postings, LinksSpawn(r, p) PROVE TypeOK'
  <2>1. LinksTo(r, p) \X {"failed"} \in SUBSET (Links \X {"done", "inflight", "failed"})
    BY LinkSets
  <2>2. /\ [lrun[r] EXCEPT !.kept = @ \ {p}] \in LinkRunType
        /\ [lrun[r] EXCEPT !.kept = @ \ {p}, !.pc = "unstarted",
                           !.writes = LinksTo(r, p) \X {"failed"}] \in LinkRunType
    BY <1>0, <2>1 DEF LinkRunType
  <2>3. \E run \in LinkRunType : lrun' = [lrun EXCEPT ![r] = run]
    BY <1>4, <2>2 DEF LinksSpawn
  <2>4. arun' \in [AppRuns -> AppRunType]
    BY <1>4, LinkSets, StartType DEF LinksSpawn
  <2>5. posting' \in [Postings -> PostingStatus]
    BY <1>4, StoreTypes DEF LinksSpawn
  <2> QED BY <1>4, <2>3, <2>4, <2>5, LinkRunType1 DEF LinksSpawn
<1>5. ASSUME NEW read \in SUBSET Postings, LinksRead(r, read) PROVE TypeOK'
  <2> DEFINE unread == {l \in lrun[r].links : Target[l] \in (lrun[r].kept \ read) \cup {NoPosting}}
  <2>1. unread \X {"failed"} \in SUBSET (Links \X {"done", "inflight", "failed"})
    BY <1>0
  <2>2. [lrun[r] EXCEPT !.pc = "pick", !.todo = read, !.kept = {},
                        !.writes = unread \X {"failed"}] \in LinkRunType
    BY <1>0, <2>1 DEF LinkRunType
  <2>3. \E run \in LinkRunType : lrun' = [lrun EXCEPT ![r] = run]
    BY <1>5, <2>2 DEF LinksRead
  <2> QED BY <1>5, <2>3, LinkRunType1 DEF LinksRead
<1>6. CASE LinksEnd(r) \/ LinksFailureLost(r)
  <2>1. lrun' = [lrun EXCEPT ![r] = NoLinkRun]
    BY <1>6 DEF LinksEnd, LinksFailureLost
  <2> QED BY <1>0, <1>6, <2>1, LinkRunType1 DEF LinksEnd, LinksFailureLost
<1>7. CASE LinksTaskFails(r)
  <2>1. lrun[r].links \X {"failed"} \in SUBSET (Links \X {"done", "inflight", "failed"})
    BY <1>0
  <2>2. [lrun[r] EXCEPT !.pc = "failing", !.todo = {}, !.kept = {},
                        !.writes = lrun[r].links \X {"failed"}] \in LinkRunType
    BY <1>0, <2>1 DEF LinkRunType
  <2>3. lrun' = [lrun EXCEPT ![r] = [lrun[r] EXCEPT !.pc = "failing", !.todo = {}, !.kept = {},
                                                    !.writes = lrun[r].links \X {"failed"}]]
    BY <1>7 DEF LinksTaskFails
  <2> QED BY <1>7, <2>2, <2>3, LinkRunType1 DEF LinksTaskFails
<1>8. CASE LinksPending(r)
  <2> DEFINE found == Pending(link, {w[1] : w \in lrun[r].writes})
  <2>0. lrun[r].writes \in SUBSET (Links \X {"done", "inflight", "failed"})
    BY <1>0 DEF LinkRunType
  <2>1. found \subseteq Links
    BY <2>0 DEF Pending
  <2>2. found \X {"failed"} \in SUBSET (Links \X {"done", "inflight", "failed"})
    BY <2>1
  <2>3. \A pc \in {"failset", "pick"} :
            [lrun[r] EXCEPT !.pc = pc, !.writes = found \X {"failed"}] \in LinkRunType
    BY <1>0, <2>2 DEF LinkRunType
  <2>4. \E run \in LinkRunType : lrun' = [lrun EXCEPT ![r] = run]
    BY <1>8, <2>3 DEF LinksPending
  <2> QED BY <1>8, <2>4, LinkRunType1 DEF LinksPending
<1>9. CASE LinksWrite(r)
  <2>0. lrun[r].writes \in SUBSET (Links \X {"done", "inflight", "failed"})
    BY <1>0 DEF LinkRunType
  <2>1. PICK w \in lrun[r].writes : /\ link' = SetLink(link, {w[1]}, w[2])
                                    /\ lrun' = [lrun EXCEPT ![r].writes = @ \ {w}]
    BY <1>9 DEF LinksWrite
  <2>2. w[2] \in LinkStatuses
    BY <2>0 DEF LinkStatuses
  <2>3. link' \in [Links -> LinkStatuses]
    BY <2>1, <2>2, SetLinkType
  <2>4. [lrun[r] EXCEPT !.writes = @ \ {w}] \in LinkRunType
    BY <1>0 DEF LinkRunType
  <2>5. \E run \in LinkRunType : lrun' = [lrun EXCEPT ![r] = run]
    BY <2>1, <2>4
  <2> QED BY <1>9, <2>3, <2>5, LinkRunType1 DEF LinksWrite
<1> QED BY <1>1, <1>2, <1>3, <1>4, <1>5, <1>6, <1>7, <1>8, <1>9 DEF LinksRun

(* ... of a job-application run ...                                        *)
LEMMA AppRunKeepsType ==
    ASSUME TypeOK, NEW a \in AppRuns, AppRun(a),
           arun[a].pc # "free" => arun[a].p \in Postings
    PROVE  TypeOK'
<1> USE DEF TypeOK
<1>a. Pending(link, arun[a].links) \subseteq Links
    BY DEF Pending, AppRunType
<1>b. arun[a] \in AppRunType
    OBVIOUS
<1>1. CASE AppCheck(a)
  <2>1. [arun[a] EXCEPT !.pc = "save"] \in AppRunType /\ NoAppRun \in AppRunType
    BY <1>b DEF AppRunType, NoAppRun
  <2> QED BY <1>1, <2>1 DEF AppCheck
<1>2. CASE AppSave(a)
  <2>1. [arun[a] EXCEPT !.pc = "publish", !.at = arun[a].links] \in AppRunType
    BY <1>b DEF AppRunType
  <2>2. arun' = [arun EXCEPT ![a] = [arun[a] EXCEPT !.pc = "publish", !.at = arun[a].links]]
    BY <1>2 DEF AppSave
  <2> QED BY <1>2, <2>1, <2>2, SaveType DEF AppSave
<1>3. ASSUME NEW l \in Links, AppPoint(a, l) PROVE TypeOK'
  <2>1. arun' \in [AppRuns -> AppRunType]
    BY <1>3 DEF AppPoint, AppRunType
  <2>2. "done" \in LinkStatuses
    BY DEF LinkStatuses
  <2> QED BY <1>3, <2>1, <2>2, SetLinkType DEF AppPoint
<1>4. CASE AppPublish(a)
  <2>1. arun' \in [AppRuns -> AppRunType]
    BY <1>4 DEF AppPublish, AppRunType, NoAppRun
  <2> QED BY <1>4, <2>1, StoreTypes DEF AppPublish
<1>5. CASE AppRetry(a)
  <2>1. [arun[a] EXCEPT !.pc = "save", !.at = {}] \in AppRunType
    BY <1>b DEF AppRunType
  <2>2. arun' = [arun EXCEPT ![a] = [arun[a] EXCEPT !.pc = "save", !.at = {}]]
    BY <1>5 DEF AppRetry
  <2> QED BY <1>5, <2>1, <2>2 DEF AppRetry
<1>6. CASE AppTaskFails(a)
  <2>1. [arun[a] EXCEPT !.pc = "failing", !.at = {}] \in AppRunType
    BY <1>b DEF AppRunType
  <2>2. arun' = [arun EXCEPT ![a] = [arun[a] EXCEPT !.pc = "failing", !.at = {}]]
    BY <1>6 DEF AppTaskFails
  <2> QED BY <1>6, <2>1, <2>2 DEF AppTaskFails
<1>7. CASE AppFailed(a)
  <2>1. arun' \in [AppRuns -> AppRunType]
    BY <1>7 DEF AppFailed, AppRunType
  <2> QED BY <1>7, <2>1, StoreTypes DEF AppFailed
<1>8. CASE AppPending(a)
  <2>1. arun[a] \in AppRunType /\ Pending(link, arun[a].links) \in SUBSET Links
    BY <1>a
  <2>2. [arun[a] EXCEPT !.pc = "failset", !.at = Pending(link, arun[a].links)] \in AppRunType
    BY <2>1 DEF AppRunType
  <2> QED BY <1>8, <2>2 DEF AppPending
<1>9. ASSUME NEW l \in Links, AppFailSet(a, l) PROVE TypeOK'
  <2>1. arun' \in [AppRuns -> AppRunType]
    BY <1>9 DEF AppFailSet, AppRunType
  <2>2. "failed" \in LinkStatuses
    BY DEF LinkStatuses
  <2> QED BY <1>9, <2>1, <2>2, SetLinkType DEF AppFailSet
<1>10. CASE AppFailureEnds(a)
    BY <1>10 DEF AppFailureEnds, AppRunType, NoAppRun
<1> QED BY <1>1, <1>2, <1>3, <1>4, <1>5, <1>6, <1>7, <1>8, <1>9, <1>10 DEF AppRun

(* ... and of the job-hunt run.                                            *)
LEMMA HuntRunKeepsType ==
    ASSUME TypeOK, HuntRun
    PROVE  TypeOK'
<1> USE DEF TypeOK
<1>1. ASSUME NEW S \in SUBSET Postings, HuntOpen(S) PROVE TypeOK'
  <2>1. \A T : WithStatus(posting, T) \in SUBSET Postings
    BY DEF WithStatus
  <2>2. hunt' \in HuntType
    BY <1>1, <2>1 DEF HuntOpen, HuntType
  <2> QED BY <1>1, <2>2 DEF HuntOpen
<1>2. ASSUME NEW p \in Postings, HuntExpire(p) PROVE TypeOK'
  <2>1. hunt' \in HuntType
    BY <1>2 DEF HuntExpire, HuntType
  <2> QED BY <1>2, <2>1, StoreTypes DEF HuntExpire
<1>7. CASE HuntReviews
  <2>1. hunt' \in HuntType
    BY <1>7 DEF HuntReviews, HuntType
  <2> QED BY <1>7, <2>1 DEF HuntReviews
<1>8. ASSUME NEW S \in SUBSET Postings, HuntClose(S) PROVE TypeOK'
  <2>1. hunt' \in HuntType
    BY <1>8 DEF HuntClose, HuntType, NoHunt
  <2> QED BY <1>8, <2>1, StoreTypes DEF HuntClose
<1>3. ASSUME NEW S \in SUBSET Postings, NEW T \in SUBSET Postings, HuntTaskFails(S, T) PROVE TypeOK'
  <2>1. hunt' \in HuntType
    BY <1>3 DEF HuntTaskFails, HuntType, NoHunt
  <2>2. posting' \in [Postings -> PostingStatus]
    <3>1. PassPosting(posting, S) \in [Postings -> PostingStatus]
      BY StoreTypes
    <3> QED BY <1>3, <3>1, StoreTypes DEF HuntTaskFails
  <2> QED BY <1>3, <2>1, <2>2 DEF HuntTaskFails
<1>4. ASSUME NEW found \in SUBSET Postings, HuntFind(found) PROVE TypeOK'
    BY <1>4 DEF HuntFind, HuntType, NoHunt
<1>5. ASSUME NEW unfit \in SUBSET Postings, NEW fit \in SUBSET Postings,
             NEW best \in SUBSET Postings, HuntPick(unfit, fit, best) PROVE TypeOK'
  <2>1. hunt' \in HuntType
    BY <1>5 DEF HuntPick, HuntType, NoHunt
  <2>2. posting' \in [Postings -> PostingStatus]
    <3>1. PassPosting(posting, unfit) \in [Postings -> PostingStatus]
      BY StoreTypes
    <3> QED BY <1>5, <3>1, StoreTypes DEF HuntPick
  <2> QED BY <1>5, <2>1, <2>2 DEF HuntPick
<1>6. ASSUME NEW p \in Postings, HuntSpawn(p) PROVE TypeOK'
  <2>1. hunt' \in HuntType
    BY <1>6 DEF HuntSpawn, HuntType, NoHunt
  <2>2. posting' \in [Postings -> PostingStatus]
    BY <1>6, StoreTypes DEF HuntSpawn
  <2>3. arun' \in [AppRuns -> AppRunType]
    BY <1>6, StartType DEF HuntSpawn
  <2> QED BY <1>6, <2>1, <2>2, <2>3 DEF HuntSpawn
<1> QED BY <1>1, <1>2, <1>3, <1>4, <1>5, <1>6, <1>7, <1>8 DEF HuntRun

-----------------------------------------------------------------------------
(* The inductive invariant.  TypeOK alone is not inductive, since an       *)
(* application run in progress must name a posting.  PublishedHasApplication *)
(* needs that a run past SaveApplication has its application, and that     *)
(* what check-skip closes was published when it read it.                   *)
IsRecorded(p) == posting[p] \notin {"none", "passed"}

RunsAreOfRecorded ==
    \A a \in AppRuns : arun[a].pc # "free" => arun[a].p \in Postings /\ IsRecorded(arun[a].p)

PublishingIsSaved ==
    \A a \in AppRuns : arun[a].pc = "publish" => app[arun[a].p] # "none"

PicksAreRecorded ==
    /\ \A r \in LinkRuns : lrun[r].pc \in {"pick", "unstarted"} =>
          \A p \in lrun[r].kept : IsRecorded(p)
    /\ hunt.pc = "spawn" => \A p \in hunt.todo : IsRecorded(p)

ClosableHasApplication == \A p \in hunt.pubs : app[p] # "none" /\ IsRecorded(p)

(* What check-skip knows of the published postings it read.                *)
CheckReads ==
    \A p \in hunt.pubs :
        /\ hunt.pc = "check" => p \in hunt.open
        /\ hunt.pc = "close" => p \in hunt.open \/ app[p] = "reviewed"

IInv ==
    /\ TypeOK
    /\ CheckReads
    /\ PublishedHasApplication
    /\ ApplicationIsRecorded
    /\ RunsAreOfRecorded
    /\ PublishingIsSaved
    /\ PicksAreRecorded
    /\ ClosableHasApplication

(* The inductive invariant holds at first.                                 *)
LEMMA InitInv == Init => IInv
BY InitType DEF Init, IInv, PublishedHasApplication, ApplicationIsRecorded, RunsAreOfRecorded,
   PublishingIsSaved, PicksAreRecorded, ClosableHasApplication, CheckReads, NoLinkRun, NoAppRun, NoHunt

(* Every step keeps the shape.                                             *)
LEMMA TypeStep == IInv /\ [Next]_vars => TypeOK'
<1> SUFFICES ASSUME IInv, [Next]_vars PROVE TypeOK'
    OBVIOUS
<1>0. TypeOK
    BY DEF IInv
<1>1. ASSUME NEW l \in Links, AddLink(l) PROVE TypeOK'
    BY <1>0, <1>1 DEF AddLink, TypeOK, LinkStatuses
<1>2. ASSUME NEW l \in Links, RemoveLink(l) PROVE TypeOK'
    BY <1>0, <1>2 DEF RemoveLink, TypeOK, LinkStatuses
<1>3. ASSUME NEW l \in Links, Requeue(l) PROVE TypeOK'
    BY <1>0, <1>3 DEF Requeue, TypeOK, LinkStatuses
<1>4. ASSUME NEW p \in Postings, Review(p) PROVE TypeOK'
    BY <1>0, <1>4 DEF Review, TypeOK, AppStatuses
<1>5. ASSUME NEW p \in Postings, PostingGone(p) PROVE TypeOK'
    BY <1>0, <1>5 DEF PostingGone, TypeOK
<1>6. ASSUME NEW S \in SUBSET Links, OnLinks(S) PROVE TypeOK'
  <2>1. lrun' \in [LinkRuns -> LinkRunType]
    <3>1. Claimable(link, S) \in SUBSET Links
      BY DEF Claimable
    <3>2. [NoLinkRun EXCEPT !.pc = "waiting", !.links = Claimable(link, S)] \in LinkRunType
      BY <3>1 DEF NoLinkRun, LinkRunType
    <3> QED BY <1>0, <1>6, <3>2 DEF OnLinks, TypeOK
  <2> QED BY <1>0, <1>6, <2>1, ClaimLinksType DEF OnLinks, TypeOK
<1>7. ASSUME NEW S \in SUBSET Links, OnLinksFails(S) PROVE TypeOK'
    BY <1>0, <1>7 DEF OnLinksFails, TypeOK
<1>8. ASSUME NEW S \in SUBSET Links, FindStale(S) PROVE TypeOK'
    BY <1>0, <1>8 DEF FindStale, TypeOK
<1>9. CASE ListenAgain
    BY <1>0, <1>9 DEF ListenAgain, TypeOK, WithStatus
<1>10. ASSUME NEW r \in LinkRuns, LinksRun(r) PROVE TypeOK'
    BY <1>0, <1>10, LinksRunKeepsType
<1>11. ASSUME NEW a \in AppRuns, AppRun(a) PROVE TypeOK'
    BY <1>0, <1>11, AppRunKeepsType DEF IInv, RunsAreOfRecorded
<1>12. CASE HuntRun
    BY <1>0, <1>12, HuntRunKeepsType
<1>13. CASE UNCHANGED vars
    BY <1>0, <1>13 DEF vars, TypeOK
<1> QED BY <1>1, <1>2, <1>3, <1>4, <1>5, <1>6, <1>7, <1>8, <1>9, <1>10, <1>11, <1>12, <1>13 DEF Next

-----------------------------------------------------------------------------
(* No statement of the store takes a recorded posting back, and each       *)
(* reaches published or closed only as its name says.                      *)
LEMMA StoreForward ==
    ASSUME NEW st \in [Postings -> PostingStatus], NEW hs, NEW p \in Postings
    PROVE  /\ st[p] \notin {"none", "passed"} =>
                 /\ PickPosting(st, hs)[p] = st[p]
                 /\ PassPosting(st, hs)[p] = st[p]
                 /\ RepickPosting(st, hs)[p] \in {st[p], "picked"}
                 /\ MarkPublished(st, hs)[p] \in {st[p], "published"}
                 /\ MarkFailed(st, hs)[p] \in {st[p], "failed"}
                 /\ ClosePostings(st, hs)[p] \in {st[p], "closed"}
           /\ st[p] \in {"none", "passed"} =>
                 /\ PickPosting(st, hs)[p] \in {st[p], "picked"}
                 /\ PassPosting(st, hs)[p] \in {"none", "passed"}
                 /\ RepickPosting(st, hs)[p] \in {st[p], "picked"}
                 /\ MarkPublished(st, hs)[p] = st[p]
                 /\ MarkFailed(st, hs)[p] = st[p]
           /\ p \notin hs => ClosePostings(st, hs)[p] = st[p] /\ MarkPublished(st, hs)[p] = st[p]
BY DEF PickPosting, PassPosting, RepickPosting, MarkPublished, MarkFailed, ClosePostings,
       InsertNew, UpdateFrom

(* Only AppSave and Review write applications, and neither takes one back. *)
LEMMA AppChange ==
    ASSUME [Next]_vars
    PROVE  \/ UNCHANGED app
           \/ \E p \in Postings : Review(p)
           \/ \E a \in AppRuns : AppSave(a)
<1>1. ASSUME NEW l \in Links, AddLink(l) \/ RemoveLink(l) \/ Requeue(l) PROVE UNCHANGED app
    BY <1>1 DEF AddLink, RemoveLink, Requeue
<1>2. ASSUME NEW p \in Postings, PostingGone(p) PROVE UNCHANGED app
    BY <1>2 DEF PostingGone
<1>3. ASSUME NEW S \in SUBSET Links, OnLinks(S) \/ OnLinksFails(S) \/ FindStale(S) PROVE UNCHANGED app
    BY <1>3 DEF OnLinks, OnLinksFails, FindStale
<1>4. ASSUME NEW r \in LinkRuns, LinksRun(r) PROVE UNCHANGED app
    BY <1>4 DEF LinksRun, LinksResume, LinksLookup, LinksPick, LinksSpawn, LinksRead, LinksEnd,
        LinksTaskFails, LinksWrite, LinksPending, LinksFailureLost
<1>5. ASSUME NEW a \in AppRuns, AppRun(a) PROVE UNCHANGED app \/ AppSave(a)
    BY <1>5 DEF AppRun, AppCheck, AppPoint, AppPublish, AppRetry, AppTaskFails, AppFailed,
        AppPending, AppFailSet, AppFailureEnds
<1>6. CASE HuntRun
    BY <1>6 DEF HuntRun, HuntOpen, HuntExpire, HuntReviews, HuntClose, HuntTaskFails, HuntFind, HuntPick, HuntSpawn
<1> QED BY <1>1, <1>2, <1>3, <1>4, <1>5, <1>6 DEF Next, ListenAgain, vars

(* No write of an application undoes a review.                             *)
LEMMA ReviewStays ==
    ASSUME TypeOK, [Next]_vars, NEW p \in Postings, app[p] = "reviewed"
    PROVE  app'[p] = "reviewed"
<1>1. app \in [Postings -> AppStatuses]
    BY DEF TypeOK
<1>2. ASSUME NEW q \in Postings, Review(q) PROVE app'[p] = "reviewed"
    BY <1>1, <1>2 DEF Review
<1>3. ASSUME NEW a \in AppRuns, AppSave(a) PROVE app'[p] = "reviewed"
    BY <1>1, <1>3 DEF AppSave, SaveApplication
<1> QED BY <1>2, <1>3, AppChange

(* Only these steps write the store.                                       *)
PostingWrite ==
    \/ \E r \in LinkRuns, p \in Postings : LinksPick(r, p) \/ LinksSpawn(r, p)
    \/ \E a \in AppRuns : AppPublish(a) \/ AppFailed(a)
    \/ \E S \in SUBSET Postings : HuntClose(S)
    \/ \E S, T \in SUBSET Postings : HuntTaskFails(S, T)
    \/ \E unfit, fit, best \in SUBSET Postings : HuntPick(unfit, fit, best)
    \/ \E p \in Postings : HuntExpire(p) \/ HuntSpawn(p)

(* Which steps change postings, and how far.                               *)
LEMMA PostingChange ==
    ASSUME [Next]_vars
    PROVE  UNCHANGED posting \/ PostingWrite
<1>1. ASSUME NEW l \in Links, AddLink(l) \/ RemoveLink(l) \/ Requeue(l) PROVE UNCHANGED posting
    BY <1>1 DEF AddLink, RemoveLink, Requeue
<1>2. ASSUME NEW p \in Postings, Review(p) \/ PostingGone(p) PROVE UNCHANGED posting
    BY <1>2 DEF PostingGone, Review
<1>3. ASSUME NEW S \in SUBSET Links, OnLinks(S) \/ OnLinksFails(S) \/ FindStale(S) PROVE UNCHANGED posting
    BY <1>3 DEF OnLinks, OnLinksFails, FindStale
<1>4. ASSUME NEW r \in LinkRuns, LinksRun(r) PROVE UNCHANGED posting \/ PostingWrite
    BY <1>4 DEF PostingWrite, LinksRun, LinksResume, LinksLookup, LinksRead, LinksEnd,
        LinksTaskFails, LinksWrite, LinksPending, LinksFailureLost
<1>5. ASSUME NEW a \in AppRuns, AppRun(a) PROVE UNCHANGED posting \/ PostingWrite
    BY <1>5 DEF PostingWrite, AppRun, AppCheck, AppSave, AppPoint, AppRetry, AppTaskFails,
        AppPending, AppFailSet, AppFailureEnds
<1>6. CASE HuntRun
    BY <1>6 DEF PostingWrite, HuntRun, HuntOpen, HuntReviews, HuntFind
<1> QED BY <1>1, <1>2, <1>3, <1>4, <1>5, <1>6 DEF Next, ListenAgain, vars

(* A recorded posting stays recorded, and an application stays written.    *)
LEMMA Forward ==
    ASSUME IInv, [Next]_vars, NEW p \in Postings
    PROVE  /\ IsRecorded(p) => posting'[p] \notin {"none", "passed"}
           /\ app[p] # "none" => app'[p] # "none"
<1>0. posting \in [Postings -> PostingStatus] /\ app \in [Postings -> AppStatuses]
    BY DEF IInv, TypeOK
<1>1. app[p] # "none" => app'[p] # "none"
  <2>1. ASSUME NEW q \in Postings, Review(q), app[p] # "none" PROVE app'[p] # "none"
    BY <1>0, <2>1 DEF Review
  <2>2. ASSUME NEW a \in AppRuns, AppSave(a), app[p] # "none" PROVE app'[p] # "none"
    BY <1>0, <2>2 DEF AppSave, SaveApplication
  <2> QED BY <2>1, <2>2, AppChange
<1>2. IsRecorded(p) => posting'[p] \notin {"none", "passed"}
  <2> SUFFICES ASSUME IsRecorded(p) PROVE posting'[p] \notin {"none", "passed"}
    OBVIOUS
  <2>1. ASSUME NEW r \in LinkRuns, NEW q \in Postings, LinksPick(r, q)
        PROVE posting'[p] \notin {"none", "passed"}
    <3>1. PickPosting(posting, {q}) \in [Postings -> PostingStatus]
      BY <1>0, StoreTypes
    <3>2. PickPosting(posting, {q})[p] = posting[p]
      BY <1>0, StoreForward DEF IsRecorded
    <3>3. RepickPosting(PickPosting(posting, {q}), {q})[p] \in {posting[p], "picked"}
      BY <3>1, <3>2, StoreForward DEF IsRecorded
    <3> QED BY <2>1, <3>3 DEF LinksPick, IsRecorded
  <2>2. ASSUME NEW r \in LinkRuns, NEW q \in Postings, LinksSpawn(r, q)
        PROVE posting'[p] \notin {"none", "passed"}
    BY <1>0, <2>2, StoreForward DEF LinksSpawn, IsRecorded
  <2>3. ASSUME NEW a \in AppRuns, AppPublish(a) \/ AppFailed(a)
        PROVE posting'[p] \notin {"none", "passed"}
    BY <1>0, <2>3, StoreForward DEF AppPublish, AppFailed, IsRecorded
  <2>4. ASSUME NEW q \in Postings, HuntExpire(q) PROVE posting'[p] \notin {"none", "passed"}
    BY <1>0, <2>4, StoreForward DEF HuntExpire, IsRecorded
  <2>8. ASSUME NEW S \in SUBSET Postings, HuntClose(S) PROVE posting'[p] \notin {"none", "passed"}
    BY <1>0, <2>8, StoreForward DEF HuntClose, IsRecorded
  <2>5. ASSUME NEW S \in SUBSET Postings, NEW T \in SUBSET Postings, HuntTaskFails(S, T)
        PROVE posting'[p] \notin {"none", "passed"}
    <3>1. PassPosting(posting, S) \in [Postings -> PostingStatus]
      BY <1>0, StoreTypes
    <3> QED BY <1>0, <2>5, <3>1, StoreForward DEF HuntTaskFails, IsRecorded
  <2>6. ASSUME NEW unfit \in SUBSET Postings, NEW fit \in SUBSET Postings,
               NEW best \in SUBSET Postings, HuntPick(unfit, fit, best)
        PROVE posting'[p] \notin {"none", "passed"}
    <3>1. PassPosting(posting, unfit) \in [Postings -> PostingStatus]
      BY <1>0, StoreTypes
    <3> QED BY <1>0, <2>6, <3>1, StoreForward DEF HuntPick, IsRecorded
  <2>7. ASSUME NEW q \in Postings, HuntSpawn(q) PROVE posting'[p] \notin {"none", "passed"}
    BY <1>0, <2>7, StoreForward DEF HuntSpawn, IsRecorded
  <2> QED BY <2>1, <2>2, <2>3, <2>4, <2>5, <2>6, <2>7, <2>8, PostingChange DEF PostingWrite, IsRecorded
<1> QED BY <1>1, <1>2

(* A new application is of the run that saved it, whose posting is         *)
(* recorded.                                                               *)
LEMMA RecordedStep ==
    ASSUME IInv, [Next]_vars
    PROVE  ApplicationIsRecorded'
<1> SUFFICES ASSUME NEW p \in Postings, app'[p] # "none"
             PROVE  posting'[p] \notin {"none", "passed"}
    BY DEF ApplicationIsRecorded
<1>1. app[p] # "none" => IsRecorded(p)
    BY DEF IInv, ApplicationIsRecorded, IsRecorded
<1>2. ASSUME NEW a \in AppRuns, AppSave(a), app[p] = "none" PROVE IsRecorded(p)
  <2>1. arun[a].p \in Postings /\ IsRecorded(arun[a].p)
    BY <1>2 DEF AppSave, IInv, RunsAreOfRecorded
  <2> QED BY <1>2, <2>1 DEF AppSave, SaveApplication, IInv, TypeOK
<1>3. ASSUME NEW q \in Postings, Review(q), app[p] = "none" PROVE FALSE
    BY <1>3 DEF Review, IInv, TypeOK
<1> QED BY <1>1, <1>2, <1>3, AppChange, Forward

(* A posting becomes published in a run that saved its application, and    *)
(* closed when check-skip read it as published.                            *)
LEMMA PublishedStep ==
    ASSUME IInv, [Next]_vars
    PROVE  PublishedHasApplication'
<1> SUFFICES ASSUME NEW p \in Postings, posting'[p] \in {"published", "closed"}
             PROVE  app'[p] # "none"
    BY DEF PublishedHasApplication
<1>0. posting \in [Postings -> PostingStatus]
    BY DEF IInv, TypeOK
<1>a. posting[p] \in {"published", "closed"} => app[p] # "none"
    BY DEF IInv, PublishedHasApplication
<1> SUFFICES ASSUME posting[p] \notin {"published", "closed"} PROVE app[p] # "none"
    BY <1>a, Forward
<1>1. ASSUME NEW r \in LinkRuns, NEW q \in Postings, LinksPick(r, q) PROVE FALSE
  <2>1. PickPosting(posting, {q}) \in [Postings -> PostingStatus]
    BY <1>0, StoreTypes
  <2>2. PickPosting(posting, {q})[p] \notin {"published", "closed"}
    BY <1>0, StoreForward
  <2>3. posting'[p] = RepickPosting(PickPosting(posting, {q}), {q})[p]
    BY <1>1 DEF LinksPick
  <2>4. RepickPosting(PickPosting(posting, {q}), {q})[p] \notin {"published", "closed"}
    BY <2>1, <2>2, StoreForward
  <2> QED BY <2>3, <2>4
<1>2. ASSUME NEW r \in LinkRuns, NEW q \in Postings, LinksSpawn(r, q) PROVE FALSE
    BY <1>0, <1>2, StoreForward DEF LinksSpawn
<1>3. ASSUME NEW a \in AppRuns, AppPublish(a) PROVE app[p] # "none"
    BY <1>0, <1>3, StoreForward DEF AppPublish, IInv, PublishingIsSaved
<1>4. ASSUME NEW a \in AppRuns, AppFailed(a) PROVE FALSE
    BY <1>0, <1>4, StoreForward DEF AppFailed
<1>5. ASSUME NEW q \in Postings, HuntExpire(q) PROVE FALSE
    BY <1>0, <1>5, StoreForward DEF HuntExpire
<1>9. ASSUME NEW S \in SUBSET Postings, HuntClose(S) PROVE app[p] # "none"
  <2>1. p \in hunt.pubs
    BY <1>0, <1>9, StoreForward DEF HuntClose
  <2> QED BY <2>1 DEF IInv, ClosableHasApplication
<1>6. ASSUME NEW S \in SUBSET Postings, NEW T \in SUBSET Postings, HuntTaskFails(S, T) PROVE FALSE
  <2>1. PassPosting(posting, S) \in [Postings -> PostingStatus]
    BY <1>0, StoreTypes
  <2>2. PassPosting(posting, S)[p] \notin {"published", "closed"}
    BY <1>0, StoreForward
  <2> QED BY <1>0, <1>6, <2>1, <2>2, StoreForward DEF HuntTaskFails
<1>7. ASSUME NEW unfit \in SUBSET Postings, NEW fit \in SUBSET Postings,
             NEW best \in SUBSET Postings, HuntPick(unfit, fit, best) PROVE FALSE
  <2>1. PassPosting(posting, unfit) \in [Postings -> PostingStatus]
    BY <1>0, StoreTypes
  <2>2. PassPosting(posting, unfit)[p] \notin {"published", "closed"}
    BY <1>0, StoreForward
  <2> QED BY <1>7, <2>1, <2>2, StoreForward DEF HuntPick
<1>8. ASSUME NEW q \in Postings, HuntSpawn(q) PROVE FALSE
    BY <1>0, <1>8, StoreForward DEF HuntSpawn
<1> QED BY <1>1, <1>2, <1>3, <1>4, <1>5, <1>6, <1>7, <1>8, <1>9, PostingChange DEF PostingWrite

(* A run is started only for a posting picked and recorded before.         *)
LEMMA StartStep ==
    ASSUME IInv, [Next]_vars, NEW p \in Postings, NEW ids, StartApplication(p, ids),
           IsRecorded(p), UNCHANGED app
    PROVE  RunsAreOfRecorded' /\ PublishingIsSaved'
<1> PICK b \in AppRuns :
        arun' = [arun EXCEPT ![b] = [NoAppRun EXCEPT !.pc = "waiting", !.p = p, !.links = ids]]
    BY DEF StartApplication
<1>1. ASSUME NEW a \in AppRuns
      PROVE  \/ arun'[a] = arun[a]
             \/ arun'[a].pc = "waiting" /\ arun'[a].p = p
    BY DEF NoAppRun, IInv, TypeOK
<1>2. ASSUME NEW a \in AppRuns, arun'[a].pc # "free"
      PROVE  arun'[a].p \in Postings /\ posting'[arun'[a].p] \notin {"none", "passed"}
    BY <1>1, <1>2, Forward DEF IInv, RunsAreOfRecorded
<1>3. ASSUME NEW a \in AppRuns, arun'[a].pc = "publish"
      PROVE  app'[arun'[a].p] # "none"
    BY <1>1, <1>3 DEF IInv, PublishingIsSaved
<1> QED BY <1>2, <1>3 DEF RunsAreOfRecorded, PublishingIsSaved, IsRecorded

(* Who starts a drafting run, and who moves one.                           *)
LEMMA RunChange ==
    ASSUME [Next]_vars
    PROVE  \/ UNCHANGED arun
           \/ \E a \in AppRuns : AppRun(a)
           \/ \E r \in LinkRuns, p \in Postings : LinksSpawn(r, p)
           \/ \E p \in Postings : HuntSpawn(p)
<1>1. ASSUME NEW l \in Links, AddLink(l) \/ RemoveLink(l) \/ Requeue(l) PROVE UNCHANGED arun
    BY <1>1 DEF AddLink, RemoveLink, Requeue
<1>2. ASSUME NEW p \in Postings, Review(p) \/ PostingGone(p) PROVE UNCHANGED arun
    BY <1>2 DEF PostingGone, Review
<1>3. ASSUME NEW S \in SUBSET Links, OnLinks(S) \/ OnLinksFails(S) \/ FindStale(S) PROVE UNCHANGED arun
    BY <1>3 DEF OnLinks, OnLinksFails, FindStale
<1>4. ASSUME NEW r \in LinkRuns, LinksRun(r)
      PROVE  UNCHANGED arun \/ \E p \in Postings : LinksSpawn(r, p)
    BY <1>4 DEF LinksRun, LinksResume, LinksLookup, LinksPick, LinksRead, LinksEnd,
        LinksTaskFails, LinksWrite, LinksPending, LinksFailureLost
<1>5. ASSUME HuntRun PROVE UNCHANGED arun \/ \E p \in Postings : HuntSpawn(p)
    BY <1>5 DEF HuntRun, HuntOpen, HuntExpire, HuntReviews, HuntClose, HuntTaskFails, HuntFind, HuntPick
<1> QED BY <1>1, <1>2, <1>3, <1>4, <1>5 DEF Next, ListenAgain, vars

(* A drafting run moves no other, and keeps its posting and its links; it  *)
(* writes links only in publish and in OnFailure.                          *)
LEMMA AppRunMoves ==
    ASSUME TypeOK, NEW a \in AppRuns, AppRun(a)
    PROVE  /\ arun[a].pc # "free"
           /\ \A b \in AppRuns \ {a} : arun'[b] = arun[b]
           /\ \/ arun'[a].pc = "free"
              \/ /\ arun'[a].p = arun[a].p /\ arun'[a].links = arun[a].links
                 /\ arun'[a].at \subseteq arun[a].links \cup arun[a].at
           /\ arun'[a].pc = "publish" => AppSave(a) \/ \E l \in Links : AppPoint(a, l)
           /\ UNCHANGED link \/ \E l \in Links : AppPoint(a, l) \/ AppFailSet(a, l)
<1>0. arun \in [AppRuns -> AppRunType] /\ arun[a] \in AppRunType /\ NoAppRun.pc = "free"
    BY DEF TypeOK, NoAppRun
<1> DEFINE Kept == /\ arun[a].pc # "free"
                   /\ arun' = [arun EXCEPT ![a] = arun'[a]]
                   /\ \/ arun'[a].pc = "free"
                      \/ /\ arun'[a].p = arun[a].p /\ arun'[a].links = arun[a].links
                         /\ arun'[a].at \subseteq arun[a].links \cup arun[a].at
                   /\ arun'[a].pc = "publish" => AppSave(a) \/ \E l \in Links : AppPoint(a, l)
                   /\ UNCHANGED link \/ \E l \in Links : AppPoint(a, l) \/ AppFailSet(a, l)
<1>1. ASSUME AppCheck(a) PROVE Kept
  <2>1. /\ arun[a].pc = "waiting" /\ UNCHANGED link
        /\ arun' = [arun EXCEPT ![a] = IF posting[arun[a].p] = "picked"
                                       THEN [arun[a] EXCEPT !.pc = "save"] ELSE NoAppRun]
    BY <1>1 DEF AppCheck, AppTurn
  <2>2. arun'[a] = [arun[a] EXCEPT !.pc = "save"] \/ arun'[a] = NoAppRun
    BY <1>0, <2>1
  <2> QED BY <1>0, <2>1, <2>2 DEF AppRunType
<1>2. ASSUME AppSave(a) PROVE Kept
  <2>1. /\ arun[a].pc = "save" /\ UNCHANGED link
        /\ arun' = [arun EXCEPT ![a] = [arun[a] EXCEPT !.pc = "publish", !.at = arun[a].links]]
    BY <1>2 DEF AppSave
  <2> QED BY <1>0, <1>2, <2>1 DEF AppRunType
<1>3. ASSUME NEW l \in Links, AppPoint(a, l) PROVE Kept
  <2>1. /\ arun[a].pc = "publish"
        /\ arun' = [arun EXCEPT ![a] = [arun[a] EXCEPT !.at = @ \ {l}]]
    BY <1>3 DEF AppPoint
  <2>2. arun'[a] = [arun[a] EXCEPT !.at = @ \ {l}]
    BY <1>0, <2>1
  <2> QED BY <1>0, <1>3, <2>1, <2>2 DEF AppRunType
<1>4. ASSUME NEW l \in Links, AppFailSet(a, l) PROVE Kept
  <2>1. /\ arun[a].pc = "failset"
        /\ arun' = [arun EXCEPT ![a] = [arun[a] EXCEPT !.at = @ \ {l}]]
    BY <1>4 DEF AppFailSet
  <2>2. arun'[a] = [arun[a] EXCEPT !.at = @ \ {l}]
    BY <1>0, <2>1
  <2> QED BY <1>0, <1>4, <2>1, <2>2 DEF AppRunType
<1>5. ASSUME AppRetry(a) \/ AppTaskFails(a) PROVE Kept
  <2>1. /\ arun[a].pc # "free" /\ UNCHANGED link
        /\ \E pc \in {"save", "failing"} :
              arun' = [arun EXCEPT ![a] = [arun[a] EXCEPT !.pc = pc, !.at = {}]]
    BY <1>5 DEF AppRetry, AppTaskFails, AppTurn
  <2>2. \E pc \in {"save", "failing"} : arun'[a] = [arun[a] EXCEPT !.pc = pc, !.at = {}]
    BY <1>0, <2>1
  <2> QED BY <1>0, <2>1, <2>2 DEF AppRunType
<1>6. ASSUME AppFailed(a) PROVE Kept
  <2>1. /\ arun[a].pc = "failing" /\ UNCHANGED link
        /\ arun' = [arun EXCEPT ![a] = [arun[a] EXCEPT !.pc = "unread"]]
    BY <1>6 DEF AppFailed
  <2> QED BY <1>0, <2>1 DEF AppRunType
<1>7. ASSUME AppPending(a) PROVE Kept
  <2>1. /\ arun[a].pc = "unread" /\ UNCHANGED link
        /\ arun' = [arun EXCEPT ![a] = [arun[a] EXCEPT !.pc = "failset",
                                                       !.at = Pending(link, arun[a].links)]]
    BY <1>7 DEF AppPending
  <2> QED BY <1>0, <2>1 DEF AppRunType, Pending
<1>8. ASSUME AppPublish(a) \/ AppFailureEnds(a) PROVE Kept
  <2>1. /\ arun[a].pc \in {"publish", "failing", "unread", "failset"} /\ UNCHANGED link
        /\ arun' = [arun EXCEPT ![a] = NoAppRun]
    BY <1>8 DEF AppPublish, AppFailureEnds
  <2> QED BY <1>0, <2>1
<1>9. Kept
  <2> HIDE DEF Kept
  <2> QED BY <1>1, <1>2, <1>3, <1>4, <1>5, <1>6, <1>7, <1>8 DEF AppRun
<1> QED BY <1>0, <1>9

(* What the job-links and drafting runs hold stays recorded.               *)
LEMMA RunsStep ==
    ASSUME IInv, [Next]_vars
    PROVE  RunsAreOfRecorded' /\ PublishingIsSaved'
<1>1. ASSUME UNCHANGED arun PROVE RunsAreOfRecorded' /\ PublishingIsSaved'
  <2>1. ASSUME NEW a \in AppRuns, arun[a].pc # "free"
        PROVE  arun[a].p \in Postings /\ posting'[arun[a].p] \notin {"none", "passed"}
               /\ (app[arun[a].p] # "none" => app'[arun[a].p] # "none")
    BY <2>1, Forward DEF IInv, RunsAreOfRecorded
  <2> QED BY <1>1, <2>1 DEF RunsAreOfRecorded, PublishingIsSaved, IsRecorded, IInv
<1>2. ASSUME NEW a \in AppRuns, AppRun(a) PROVE RunsAreOfRecorded' /\ PublishingIsSaved'
  <2>0. TypeOK
    BY DEF IInv
  <2>1. \A b \in AppRuns \ {a} : arun'[b] = arun[b]
    BY <1>2, <2>0, AppRunMoves
  <2>2. arun[a].pc # "free"
    BY <1>2, <2>0, AppRunMoves
  <2>3. arun'[a].pc = "free" \/ arun'[a].p = arun[a].p
    BY <1>2, <2>0, AppRunMoves
  <2>4. arun[a].p \in Postings /\ posting'[arun[a].p] \notin {"none", "passed"}
    BY <2>2, Forward DEF IInv, RunsAreOfRecorded
  <2>5. arun'[a].pc = "publish" => app'[arun[a].p] # "none"
    <3>1. CASE AppSave(a)
      BY <2>4, <3>1 DEF AppSave, SaveApplication, IInv, TypeOK
    <3>2. ASSUME NEW l \in Links, AppPoint(a, l) PROVE app'[arun[a].p] # "none"
      BY <2>4, <3>2 DEF AppPoint, IInv, PublishingIsSaved
    <3> QED BY <1>2, <2>0, <3>1, <3>2, AppRunMoves
  <2>6. ASSUME NEW b \in AppRuns, arun'[b].pc # "free"
        PROVE  /\ arun'[b].p \in Postings /\ posting'[arun'[b].p] \notin {"none", "passed"}
               /\ arun'[b].pc = "publish" => app'[arun'[b].p] # "none"
    <3>1. CASE b = a
      BY <2>3, <2>4, <2>5, <2>6, <3>1
    <3>2. CASE b # a
      <4>1. arun'[b] = arun[b]
        BY <2>1, <3>2
      <4>2. arun[b].p \in Postings /\ IsRecorded(arun[b].p)
            /\ (arun[b].pc = "publish" => app[arun[b].p] # "none")
        BY <2>6, <4>1 DEF IInv, RunsAreOfRecorded, PublishingIsSaved
      <4> QED BY <4>1, <4>2, Forward
    <3> QED BY <3>1, <3>2
  <2> QED BY <2>6 DEF RunsAreOfRecorded, PublishingIsSaved, IsRecorded
<1>3. ASSUME NEW r \in LinkRuns, NEW p \in Postings, LinksSpawn(r, p)
      PROVE RunsAreOfRecorded' /\ PublishingIsSaved'
  <2>1. IsRecorded(p) /\ UNCHANGED app
    BY <1>3 DEF LinksSpawn, LinksAt, IInv, PicksAreRecorded
  <2> QED BY <1>1, <1>3, <2>1, StartStep DEF LinksSpawn
<1>4. ASSUME NEW p \in Postings, HuntSpawn(p) PROVE RunsAreOfRecorded' /\ PublishingIsSaved'
  <2>1. IsRecorded(p) /\ UNCHANGED app
    BY <1>4 DEF HuntSpawn, IInv, PicksAreRecorded
  <2> QED BY <1>1, <1>4, <2>1, StartStep DEF HuntSpawn
<1> QED BY <1>1, <1>2, <1>3, <1>4, RunChange

(* A job-links run moves no other.                                         *)
LEMMA LinksRunAlone ==
    ASSUME TypeOK, NEW r \in LinkRuns, LinksRun(r)
    PROVE  \A s \in LinkRuns \ {r} : lrun'[s] = lrun[s]
<1>0. lrun \in [LinkRuns -> LinkRunType]
    BY DEF TypeOK
<1> SUFFICES ASSUME NEW s \in LinkRuns \ {r} PROVE lrun'[s] = lrun[s]
    OBVIOUS
<1>1. ASSUME NEW p \in Postings, LinksLookup(r, p) PROVE lrun'[s] = lrun[s]
    BY <1>0, <1>1 DEF LinksLookup
<1>2. ASSUME NEW p \in Postings, LinksPick(r, p) PROVE lrun'[s] = lrun[s]
    BY <1>0, <1>2 DEF LinksPick
<1>3. ASSUME NEW p \in Postings, LinksSpawn(r, p) PROVE lrun'[s] = lrun[s]
    BY <1>0, <1>3 DEF LinksSpawn
<1>4. ASSUME NEW read \in SUBSET Postings, LinksRead(r, read) PROVE lrun'[s] = lrun[s]
    BY <1>0, <1>4 DEF LinksRead
<1>5. CASE LinksResume(r)
    BY <1>0, <1>5 DEF LinksResume
<1>6. CASE LinksEnd(r) \/ LinksTaskFails(r)
    BY <1>0, <1>6 DEF LinksEnd, LinksTaskFails
<1>7. CASE LinksWrite(r) \/ LinksPending(r) \/ LinksFailureLost(r)
    BY <1>0, <1>7 DEF LinksWrite, LinksPending, LinksFailureLost
<1> QED BY <1>1, <1>2, <1>3, <1>4, <1>5, <1>6, <1>7 DEF LinksRun

(* Who moves a job-links run.                                              *)
LEMMA LinkRunChange ==
    ASSUME [Next]_vars
    PROVE  \/ UNCHANGED lrun
           \/ \E r \in LinkRuns : LinksRun(r)
           \/ \E S \in SUBSET Links : OnLinks(S)
<1>1. ASSUME NEW l \in Links, AddLink(l) \/ RemoveLink(l) \/ Requeue(l) PROVE UNCHANGED lrun
    BY <1>1 DEF AddLink, RemoveLink, Requeue
<1>2. ASSUME NEW p \in Postings, Review(p) \/ PostingGone(p) PROVE UNCHANGED lrun
    BY <1>2 DEF PostingGone, Review
<1>3. ASSUME NEW S \in SUBSET Links, OnLinksFails(S) \/ FindStale(S) PROVE UNCHANGED lrun
    BY <1>3 DEF OnLinksFails, FindStale
<1>4. ASSUME NEW a \in AppRuns, AppRun(a) PROVE UNCHANGED lrun
    BY <1>4 DEF AppRun, AppCheck, AppSave, AppPoint, AppPublish, AppRetry, AppTaskFails, AppFailed,
        AppPending, AppFailSet, AppFailureEnds
<1>5. ASSUME HuntRun PROVE UNCHANGED lrun
    BY <1>5 DEF HuntRun, HuntOpen, HuntExpire, HuntReviews, HuntClose, HuntTaskFails, HuntFind,
        HuntPick, HuntSpawn
<1> QED BY <1>1, <1>2, <1>3, <1>4, <1>5 DEF Next, ListenAgain, vars

(* What a job-links run keeps while it picks, and a hunt to spawn, it has  *)
(* recorded.                                                               *)
LEMMA LinkPicksStep ==
    ASSUME IInv, [Next]_vars
    PROVE  \A r \in LinkRuns : lrun'[r].pc \in {"pick", "unstarted"} =>
               \A p \in lrun'[r].kept : posting'[p] \notin {"none", "passed"}
<1>0. /\ posting \in [Postings -> PostingStatus]
      /\ lrun \in [LinkRuns -> LinkRunType]
      /\ \A r \in LinkRuns : lrun[r].kept \subseteq Postings
    BY DEF IInv, TypeOK, LinkRunType
<1>1. ASSUME NEW r \in LinkRuns, lrun[r].pc \in {"pick", "unstarted"}, NEW p \in lrun[r].kept
      PROVE  posting'[p] \notin {"none", "passed"}
    BY <1>0, <1>1, Forward DEF IInv, PicksAreRecorded
<1>3. ASSUME NEW r \in LinkRuns, LinksRun(r), lrun'[r].pc \in {"pick", "unstarted"}
      PROVE  \/ lrun[r].pc \in {"pick", "unstarted"} /\ lrun'[r].kept \subseteq lrun[r].kept
             \/ lrun'[r].kept = {}
             \/ \E p \in Postings : LinksPick(r, p)
  <2>1. ASSUME NEW p \in Postings, LinksLookup(r, p) PROVE FALSE
    <3>1. lrun'[r].pc = "lookup"
      BY <1>0, <2>1 DEF LinksLookup, LinksAt, LinkRunType
    <3> QED BY <1>3, <3>1
  <2>2. ASSUME NEW p \in Postings, LinksSpawn(r, p)
        PROVE lrun[r].pc = "pick" /\ lrun'[r].kept \subseteq lrun[r].kept
    BY <1>0, <2>2 DEF LinksSpawn, LinksAt, LinkRunType
  <2>3. ASSUME NEW read \in SUBSET Postings, LinksRead(r, read) PROVE lrun'[r].kept = {}
    BY <1>0, <2>3 DEF LinksRead, LinkRunType
  <2>4. CASE LinksResume(r)
    <3>1. lrun'[r].pc \in {"lookup", "failing"}
      BY <1>0, <2>4 DEF LinksResume, LinkRunType
    <3> QED BY <1>3, <3>1
  <2>5. CASE LinksTaskFails(r)
    <3>1. lrun'[r].pc = "failing"
      BY <1>0, <2>5 DEF LinksTaskFails, LinkRunType
    <3> QED BY <1>3, <3>1
  <2>6. CASE LinksPending(r)
    <3>1. /\ lrun'[r].kept = lrun[r].kept
          /\ lrun[r].pc = "failing" => lrun'[r].pc = "failset"
          /\ lrun[r].pc \in {"unstarted", "failing"}
      BY <1>0, <2>6 DEF LinksPending, LinkRunType
    <3> QED BY <1>3, <3>1
  <2>7. CASE LinksEnd(r) \/ LinksFailureLost(r)
    <3>1. lrun'[r] = NoLinkRun
      BY <1>0, <2>7 DEF LinksEnd, LinksFailureLost
    <3> QED BY <1>3, <3>1 DEF NoLinkRun
  <2>8. CASE LinksWrite(r)
    <3>1. lrun'[r].kept = lrun[r].kept /\ lrun'[r].pc = lrun[r].pc
      BY <1>0, <2>8 DEF LinksWrite, LinkRunType
    <3> QED BY <1>3, <3>1
  <2> QED BY <1>3, <2>1, <2>2, <2>3, <2>4, <2>5, <2>6, <2>7, <2>8 DEF LinksRun
<1>4. ASSUME NEW r \in LinkRuns, NEW q \in Postings, LinksPick(r, q), NEW p \in lrun'[r].kept
      PROVE  posting'[p] \notin {"none", "passed"}
  <2>1. CASE p \in lrun[r].kept
    BY <1>1, <1>4, <2>1 DEF LinksPick, LinksAt
  <2>2. CASE p \notin lrun[r].kept
    <3>1. p = q /\ posting[q] \in {"none", "passed", "failed"}
      BY <1>0, <1>4, <2>2 DEF LinksPick, LinkRunType
    <3>2. posting'[q] = "picked"
      BY <1>0, <1>4, <3>1 DEF LinksPick, PickPosting, RepickPosting, InsertNew, UpdateFrom
    <3> QED BY <3>1, <3>2
  <2> QED BY <2>1, <2>2
<1>5. ASSUME NEW r \in LinkRuns, LinksRun(r), NEW s \in LinkRuns, lrun'[s].pc \in {"pick", "unstarted"},
             NEW p \in lrun'[s].kept
      PROVE  posting'[p] \notin {"none", "passed"}
  <2>1. CASE s # r
    BY <1>1, <1>5, <2>1, LinksRunAlone DEF IInv
  <2>2. CASE s = r
    BY <1>1, <1>3, <1>4, <1>5, <2>2
  <2> QED BY <2>1, <2>2
<1>6. ASSUME NEW S \in SUBSET Links, OnLinks(S), NEW s \in LinkRuns, lrun'[s].pc \in {"pick", "unstarted"}
      PROVE  lrun'[s] = lrun[s]
    BY <1>0, <1>6 DEF OnLinks, NoLinkRun
<1> QED BY <1>1, <1>5, <1>6, LinkRunChange

(* Only the job-hunt run moves itself.                                     *)
LEMMA HuntChange ==
    ASSUME [Next]_vars
    PROVE  UNCHANGED hunt \/ HuntRun
<1>1. ASSUME NEW l \in Links, AddLink(l) \/ RemoveLink(l) \/ Requeue(l) PROVE UNCHANGED hunt
  BY <1>1 DEF AddLink, RemoveLink, Requeue
<1>2. ASSUME NEW p \in Postings, Review(p) \/ PostingGone(p) PROVE UNCHANGED hunt
  BY <1>2 DEF PostingGone, Review
<1>3. ASSUME NEW S \in SUBSET Links, OnLinks(S) \/ OnLinksFails(S) \/ FindStale(S) PROVE UNCHANGED hunt
  BY <1>3 DEF OnLinks, OnLinksFails, FindStale
<1>4. ASSUME NEW a \in AppRuns, AppRun(a) PROVE UNCHANGED hunt
  BY <1>4 DEF AppRun, AppCheck, AppSave, AppPoint, AppPublish, AppRetry, AppTaskFails, AppFailed,
      AppPending, AppFailSet, AppFailureEnds
<1>5. ASSUME NEW r \in LinkRuns, LinksRun(r) PROVE UNCHANGED hunt
  BY <1>5 DEF LinksRun, LinksResume, LinksLookup, LinksPick, LinksSpawn, LinksRead, LinksEnd,
      LinksTaskFails, LinksWrite, LinksPending, LinksFailureLost
<1> QED BY <1>1, <1>2, <1>3, <1>4, <1>5 DEF Next, ListenAgain, vars

(* What the hunt holds stays recorded.                                     *)
LEMMA HuntStep ==
    ASSUME IInv, [Next]_vars
    PROVE  /\ hunt'.pc = "spawn" => \A p \in hunt'.todo : posting'[p] \notin {"none", "passed"}
           /\ \A p \in hunt'.pubs : app'[p] # "none" /\ posting'[p] \notin {"none", "passed"}
<1> DEFINE Goal == /\ hunt'.pc = "spawn" => \A p \in hunt'.todo : posting'[p] \notin {"none", "passed"}
                   /\ \A p \in hunt'.pubs : app'[p] # "none" /\ posting'[p] \notin {"none", "passed"}
<1>0. /\ posting \in [Postings -> PostingStatus]
      /\ hunt \in HuntType /\ hunt.pubs \subseteq Postings /\ hunt.todo \subseteq Postings
    BY DEF IInv, TypeOK, HuntType
<1>1. /\ hunt.pc = "spawn" => \A p \in hunt.todo : posting'[p] \notin {"none", "passed"}
      /\ \A p \in hunt.pubs : app'[p] # "none" /\ posting'[p] \notin {"none", "passed"}
    BY <1>0, Forward DEF IInv, PicksAreRecorded, ClosableHasApplication
<1>2. CASE UNCHANGED hunt
    BY <1>1, <1>2
<1>3. ASSUME NEW S \in SUBSET Postings, HuntOpen(S) PROVE Goal
  <2>1. \A p \in hunt'.pubs : p \in Postings /\ posting[p] = "published"
    BY <1>0, <1>3 DEF HuntOpen, WithStatus
  <2>2. \A p \in hunt'.pubs : app[p] # "none" /\ IsRecorded(p)
    BY <2>1 DEF IInv, PublishedHasApplication, IsRecorded
  <2>3. hunt'.pc = "check"
    BY <1>3 DEF HuntOpen
  <2> QED BY <2>1, <2>2, <2>3, Forward
<1>4. ASSUME NEW S \in SUBSET Postings, NEW T \in SUBSET Postings,
             HuntClose(S) \/ HuntTaskFails(S, T)
      PROVE Goal
    BY <1>4 DEF HuntClose, HuntTaskFails, NoHunt
<1>8. ASSUME NEW p \in Postings, HuntExpire(p) PROVE Goal
  <2>1. hunt'.pubs = hunt.pubs /\ hunt'.pc # "spawn"
    BY <1>0, <1>8 DEF HuntExpire, HuntType
  <2> QED BY <1>1, <2>1
<1>5. ASSUME NEW found \in SUBSET Postings, HuntFind(found) PROVE Goal
    BY <1>0, <1>1, <1>5 DEF HuntFind, NoHunt, HuntType
<1>6. ASSUME NEW unfit \in SUBSET Postings, NEW fit \in SUBSET Postings,
             NEW best \in SUBSET Postings, HuntPick(unfit, fit, best) PROVE Goal
  <2>1. hunt'.pubs \subseteq hunt.pubs
    BY <1>0, <1>6 DEF HuntPick, NoHunt, HuntType
  <2>2. hunt'.todo \subseteq best
    BY <1>0, <1>6 DEF HuntPick, NoHunt, HuntType
  <2>3. ASSUME NEW p \in best PROVE posting'[p] = "picked"
    <3>1. posting[p] = "none" /\ p \notin unfit /\ p \in Postings
      BY <1>0, <1>6, <2>3 DEF HuntPick, UnseenPostings, WithStatus
    <3>2. PassPosting(posting, unfit)[p] = "none"
      BY <1>0, <3>1 DEF PassPosting, InsertNew
    <3>3. PassPosting(posting, unfit) \in [Postings -> PostingStatus]
      BY <1>0, StoreTypes
    <3> QED BY <1>6, <3>1, <3>2, <3>3 DEF HuntPick, PickPosting, InsertNew
  <2> QED BY <1>1, <2>1, <2>2, <2>3
<1>7. ASSUME NEW p \in Postings, HuntSpawn(p) PROVE Goal
  <2>1. hunt.pc = "spawn" /\ hunt'.todo \subseteq hunt.todo /\ hunt'.pubs \subseteq hunt.pubs
    BY <1>0, <1>7 DEF HuntSpawn, NoHunt, HuntType
  <2> QED BY <1>1, <2>1
<1>9. CASE HuntReviews
  <2>1. hunt'.pubs = hunt.pubs /\ hunt'.pc # "spawn"
    BY <1>0, <1>9 DEF HuntReviews, HuntType
  <2> QED BY <1>1, <2>1
<1> QED BY <1>2, <1>3, <1>4, <1>5, <1>6, <1>7, <1>8, <1>9, HuntChange DEF HuntRun

(* check-skip leaves a published posting out only when it is reviewed, and *)
(* a review stays.                                                         *)
LEMMA CheckReadsStep ==
    ASSUME IInv, [Next]_vars
    PROVE  CheckReads'
<1>0. /\ posting \in [Postings -> PostingStatus] /\ hunt \in HuntType
      /\ hunt.pubs \subseteq Postings
    BY DEF IInv, TypeOK, HuntType
<1>1. ASSUME NEW p \in Postings, app[p] = "reviewed" PROVE app'[p] = "reviewed"
    BY <1>1, ReviewStays DEF IInv
<1>2. CASE UNCHANGED hunt
    BY <1>0, <1>1, <1>2 DEF IInv, CheckReads
<1>3. ASSUME NEW S \in SUBSET Postings, HuntOpen(S) PROVE CheckReads'
  <2>1. /\ hunt'.pc = "check" /\ hunt'.pubs = WithStatus(posting, {"published"})
        /\ hunt'.open = WithStatus(posting, OpenStatus) \ S
        /\ S \subseteq WithStatus(posting, {"picked"})
    BY <1>3 DEF HuntOpen
  <2> QED BY <1>0, <2>1 DEF CheckReads, WithStatus, OpenStatus
<1>4. ASSUME NEW p \in Postings, HuntExpire(p) PROVE CheckReads'
  <2>1. /\ hunt'.pc = hunt.pc /\ hunt'.pubs = hunt.pubs /\ hunt'.open = hunt.open
        /\ hunt.pc = "check"
    BY <1>0, <1>4 DEF HuntExpire, HuntType
  <2> QED BY <2>1 DEF IInv, CheckReads
<1>5. CASE HuntReviews
  <2>1. /\ hunt'.pc = "close" /\ hunt'.pubs = hunt.pubs /\ hunt.pc = "check"
        /\ hunt'.open = hunt.open \ {p \in hunt.pubs : app[p] = "reviewed"}
        /\ UNCHANGED app
    BY <1>0, <1>5 DEF HuntReviews, HuntType
  <2> QED BY <2>1 DEF IInv, CheckReads
<1>6. ASSUME NEW S \in SUBSET Postings, NEW T \in SUBSET Postings,
             HuntClose(S) \/ HuntTaskFails(S, T) \/ HuntFind(S)
      PROVE  CheckReads'
  <2>1. /\ NoHunt.pc = "idle" /\ [NoHunt EXCEPT !.pc = "find"].pc = "find"
        /\ [hunt EXCEPT !.pc = "pick", !.todo = S].pc = "pick"
    BY <1>0 DEF NoHunt, HuntType
  <2>2. hunt'.pc \notin {"check", "close"}
    BY <1>6, <2>1 DEF HuntClose, HuntTaskFails, HuntFind
  <2> QED BY <2>2 DEF CheckReads
<1>7. ASSUME NEW unfit \in SUBSET Postings, NEW fit \in SUBSET Postings,
             NEW best \in SUBSET Postings, HuntPick(unfit, fit, best)
      PROVE  CheckReads'
  <2>1. hunt'.pc \notin {"check", "close"}
    BY <1>0, <1>7 DEF HuntPick, NoHunt, HuntType
  <2> QED BY <2>1 DEF CheckReads
<1>8. ASSUME NEW p \in Postings, HuntSpawn(p) PROVE CheckReads'
  <2>1. hunt'.pc \notin {"check", "close"}
    BY <1>0, <1>8 DEF HuntSpawn, NoHunt, HuntType
  <2> QED BY <2>1 DEF CheckReads
<1> QED BY <1>2, <1>3, <1>4, <1>5, <1>6, <1>7, <1>8, HuntChange DEF HuntRun

(* Every step keeps the inductive invariant.                               *)
LEMMA Inductive == IInv /\ [Next]_vars => IInv'
<1> SUFFICES ASSUME IInv, [Next]_vars PROVE IInv'
    OBVIOUS
<1>1. PicksAreRecorded'
    BY LinkPicksStep, HuntStep DEF PicksAreRecorded, IsRecorded
<1>2. ClosableHasApplication'
    BY HuntStep DEF ClosableHasApplication, IsRecorded
<1> QED BY <1>1, <1>2, CheckReadsStep, TypeStep, PublishedStep, RecordedStep, RunsStep DEF IInv

(* So it always holds.                                                     *)
LEMMA Invariance == Spec => []IInv
BY InitInv, Inductive, PTL DEF Spec

(* TypeOK holds in every reachable state: every run in progress names a    *)
(* posting, and every write of the two stores keeps their statuses.        *)
THEOREM TypeCorrect == Spec => []TypeOK
<1>1. IInv => TypeOK
    BY DEF IInv
<1> QED BY <1>1, Invariance, PTL

(* A posting SQLite counts as published, or closed after that, has its     *)
(* application in Firestore, whatever fails between the two writes of      *)
(* publishApplication and whatever other runs do.                          *)
THEOREM PublishedHasApplicationAlways == Spec => []PublishedHasApplication
<1>1. IInv => PublishedHasApplication
    BY DEF IInv
<1> QED BY <1>1, Invariance, PTL

(* An application exists only for a posting that was recorded as picked.   *)
THEOREM ApplicationIsRecordedAlways == Spec => []ApplicationIsRecorded
<1>1. IInv => ApplicationIsRecorded
    BY DEF IInv
<1> QED BY <1>1, Invariance, PTL

-----------------------------------------------------------------------------
(* A saved or reviewed application keeps its review.                       *)
THEOREM ReviewIsKeptAlways == Spec => ReviewIsKept
<1>1. IInv /\ [Next]_vars => [\A p \in Postings : app[p] = "reviewed" => app'[p] = "reviewed"]_vars
  BY ReviewStays DEF IInv
<1> QED BY <1>1, Invariance, PTL DEF Spec, ReviewIsKept

(* Where the statements of the store leave a posting that was found,       *)
(* published or closed.                                                    *)
LEMMA StorePath ==
    ASSUME NEW st \in [Postings -> PostingStatus], NEW hs, NEW p \in Postings
    PROVE  /\ st[p] # "none" =>
                 /\ PickPosting(st, hs)[p] = st[p] /\ PassPosting(st, hs)[p] = st[p]
                 /\ RepickPosting(st, hs)[p] # "none" /\ MarkPublished(st, hs)[p] # "none"
                 /\ MarkFailed(st, hs)[p] # "none" /\ ClosePostings(st, hs)[p] # "none"
           /\ st[p] \in {"published", "closed"} =>
                 /\ RepickPosting(st, hs)[p] = st[p] /\ MarkPublished(st, hs)[p] = st[p]
                 /\ MarkFailed(st, hs)[p] = st[p]
                 /\ ClosePostings(st, hs)[p] = IF p \in hs THEN "closed" ELSE st[p]
BY DEF PickPosting, PassPosting, RepickPosting, MarkPublished, MarkFailed, ClosePostings,
       InsertNew, UpdateFrom, PostingStatus

Onwards(p) ==
    /\ posting[p] # "none" => posting'[p] # "none"
    /\ posting[p] = "closed" => posting'[p] = "closed"
    /\ posting[p] = "published" =>
          \/ posting'[p] = "published"
          \/ posting'[p] = "closed" /\ (app[p] = "reviewed" \/ p \in gone)

(* A posting that was found, shown or closed is only ever taken onwards,   *)
(* and closed only once it is settled.                                     *)
LEMMA OnwardsStep ==
    ASSUME IInv, [Next]_vars, NEW p \in Postings
    PROVE  Onwards(p)
<1>0. posting \in [Postings -> PostingStatus]
  BY DEF IInv, TypeOK
<1> USE DEF Onwards
<1>1. ASSUME NEW r \in LinkRuns, NEW q \in Postings, LinksPick(r, q) PROVE Onwards(p)
  <2>1. PickPosting(posting, {q}) \in [Postings -> PostingStatus]
    BY <1>0, StoreTypes
  <2>2. posting[p] # "none" => PickPosting(posting, {q})[p] = posting[p]
    BY <1>0, StorePath
  <2>3. /\ posting[p] # "none" => RepickPosting(PickPosting(posting, {q}), {q})[p] # "none"
        /\ posting[p] \in {"published", "closed"} =>
              RepickPosting(PickPosting(posting, {q}), {q})[p] = posting[p]
    BY <2>1, <2>2, StorePath
  <2>4. posting' = RepickPosting(PickPosting(posting, {q}), {q})
    BY <1>1 DEF LinksPick
  <2> QED BY <2>3, <2>4
<1>2. ASSUME NEW r \in LinkRuns, NEW q \in Postings, LinksSpawn(r, q) PROVE Onwards(p)
  BY <1>0, <1>2, StorePath DEF LinksSpawn
<1>3. ASSUME NEW a \in AppRuns, AppPublish(a) \/ AppFailed(a) PROVE Onwards(p)
  BY <1>0, <1>3, StorePath DEF AppPublish, AppFailed
<1>4. ASSUME NEW q \in Postings, HuntExpire(q) PROVE Onwards(p)
  BY <1>0, <1>4, StorePath DEF HuntExpire
<1>8. ASSUME NEW S \in SUBSET Postings, HuntClose(S) PROVE Onwards(p)
  <2>1. /\ posting' = ClosePostings(posting, hunt.pubs \ (hunt.open \ S))
        /\ S \subseteq gone
    BY <1>8 DEF HuntClose, SeenGone
  <2>2. hunt.pc = "close" /\ p \in hunt.pubs /\ p \notin hunt.open => app[p] = "reviewed"
    BY DEF IInv, CheckReads
  <2> QED BY <1>0, <1>8, <2>1, <2>2, StorePath DEF HuntClose
<1>5. ASSUME NEW S \in SUBSET Postings, NEW T \in SUBSET Postings, HuntTaskFails(S, T) PROVE Onwards(p)
  <2>1. PassPosting(posting, S) \in [Postings -> PostingStatus]
    BY <1>0, StoreTypes
  <2> QED BY <1>0, <1>5, <2>1, StorePath DEF HuntTaskFails
<1>6. ASSUME NEW unfit \in SUBSET Postings, NEW fit \in SUBSET Postings,
             NEW best \in SUBSET Postings, HuntPick(unfit, fit, best)
      PROVE  Onwards(p)
  <2>1. PassPosting(posting, unfit) \in [Postings -> PostingStatus]
    BY <1>0, StoreTypes
  <2> QED BY <1>0, <1>6, <2>1, StorePath DEF HuntPick
<1>7. ASSUME NEW q \in Postings, HuntSpawn(q) PROVE Onwards(p)
  BY <1>0, <1>7, StorePath DEF HuntSpawn
<1> QED BY <1>1, <1>2, <1>3, <1>4, <1>5, <1>6, <1>7, <1>8, PostingChange DEF PostingWrite

(* No run, hunt or link shows a posting again once it was closed, or takes *)
(* a published one anywhere but to closed.                                 *)
THEOREM PostingForwardAlways == Spec => PostingForward
<1>1. IInv /\ [Next]_vars =>
         [\A p \in Postings :
             /\ posting[p] = "closed" => posting'[p] = "closed"
             /\ posting[p] = "published" => posting'[p] \in {"published", "closed"}
             /\ posting[p] # "none" => posting'[p] # "none"]_vars
  BY OnwardsStep DEF Onwards
<1> QED BY <1>1, Invariance, PTL DEF Spec, PostingForward

(* A published posting is closed only after its review, or when its site   *)
(* no longer has it.                                                       *)
THEOREM ClosedOnlyWhenSettledAlways == Spec => ClosedOnlyWhenSettled
<1>1. IInv /\ [Next]_vars =>
         [\A p \in Postings : posting[p] = "published" /\ posting'[p] = "closed" =>
             app[p] = "reviewed" \/ p \in gone]_vars
  BY OnwardsStep DEF Onwards
<1> QED BY <1>1, Invariance, PTL DEF Spec, ClosedOnlyWhenSettled

(* A link the user removed stays removed, whatever was under way for it.   *)
THEOREM RemovedStaysRemovedAlways == Spec => RemovedStaysRemoved
<1>1. ASSUME IInv, [Next]_vars, NEW l \in Links, link[l] = "removed" PROVE link'[l] = "removed"
  <2>0. link \in [Links -> LinkStatuses] /\ DOMAIN link = Links
    BY <1>1 DEF IInv, TypeOK
  <2>1. \A ids, s : SetLink(link, ids, s)[l] = "removed" /\ ClaimLinks(link, ids)[l] = "removed"
    BY <1>1, <2>0 DEF SetLink, ClaimLinks, Claimable, NoDocument
  <2>2. ASSUME NEW k \in Links, AddLink(k) \/ RemoveLink(k) \/ Requeue(k) PROVE link'[l] = "removed"
    BY <1>1, <2>0, <2>2 DEF AddLink, RemoveLink, Requeue, NoDocument
  <2>3. ASSUME NEW q \in Postings, Review(q) \/ PostingGone(q) PROVE link'[l] = "removed"
    BY <1>1, <2>3 DEF Review, PostingGone
  <2>4. ASSUME NEW S \in SUBSET Links, OnLinks(S) \/ OnLinksFails(S) \/ FindStale(S)
        PROVE  link'[l] = "removed"
    BY <1>1, <2>1, <2>4 DEF OnLinks, OnLinksFails, FindStale
  <2>5. ASSUME NEW r \in LinkRuns, LinksRun(r) PROVE link'[l] = "removed"
    <3>1. CASE LinksWrite(r)
      BY <1>1, <2>1, <3>1 DEF LinksWrite
    <3>2. CASE UNCHANGED link
      BY <1>1, <3>2
    <3>3. LinksWrite(r) \/ UNCHANGED link
      BY <2>5 DEF LinksRun, LinksResume, LinksLookup, LinksPick, LinksSpawn, LinksRead, LinksEnd,
          LinksTaskFails, LinksPending, LinksFailureLost
    <3> QED BY <3>1, <3>2, <3>3
  <2>6. ASSUME NEW a \in AppRuns, AppRun(a) PROVE link'[l] = "removed"
    <3>1. ASSUME NEW k \in Links, AppPoint(a, k) \/ AppFailSet(a, k) PROVE link'[l] = "removed"
      BY <2>1, <3>1 DEF AppPoint, AppFailSet
    <3>2. TypeOK
      BY <1>1 DEF IInv
    <3> QED BY <1>1, <2>6, <3>1, <3>2, AppRunMoves
  <2>7. CASE HuntRun
    BY <1>1, <2>7 DEF HuntRun, HuntOpen, HuntExpire, HuntReviews, HuntClose, HuntTaskFails, HuntFind, HuntPick, HuntSpawn
  <2> QED BY <1>1, <2>2, <2>3, <2>4, <2>5, <2>6, <2>7 DEF Next, ListenAgain, vars
<1>2. IInv /\ [Next]_vars => [\A l \in Links : link[l] = "removed" => link'[l] = "removed"]_vars
  BY <1>1
<1> QED BY <1>2, Invariance, PTL DEF Spec, RemovedStaysRemoved

-----------------------------------------------------------------------------
(* What a drafting run will mark done leads to its own posting, which      *)
(* neither RunsAreOfRecorded nor PublishingIsSaved says.                   *)
RunLinksLead ==
    \A a \in AppRuns : arun[a].pc # "free" =>
        \A l \in arun[a].links \cup arun[a].at : Target[l] = arun[a].p

(* A run is started with links that lead to its posting.                   *)
LEMMA StartLeads ==
    ASSUME TypeOK, RunLinksLead, NEW p \in Postings, NEW ids, \A l \in ids : Target[l] = p,
           StartApplication(p, ids)
    PROVE  RunLinksLead'
<1> PICK b \in AppRuns :
        arun' = [arun EXCEPT ![b] = [NoAppRun EXCEPT !.pc = "waiting", !.p = p, !.links = ids]]
    BY DEF StartApplication
<1>1. ASSUME NEW a \in AppRuns
      PROVE  arun'[a] = arun[a] \/ (arun'[a].p = p /\ arun'[a].links = ids /\ arun'[a].at = {})
    BY DEF NoAppRun, TypeOK
<1>2. ASSUME NEW a \in AppRuns, arun'[a].pc # "free", NEW l \in arun'[a].links \cup arun'[a].at
      PROVE  Target[l] = arun'[a].p
  <2>1. CASE arun'[a] = arun[a]
    BY <1>2, <2>1 DEF RunLinksLead
  <2>2. CASE arun'[a].p = p /\ arun'[a].links = ids /\ arun'[a].at = {}
    BY <1>2, <2>2
  <2> QED BY <1>1, <2>1, <2>2
<1> QED BY <1>2 DEF RunLinksLead

(* A drafting run's links are those it was started with.                   *)
LEMMA RunLinksStep ==
    ASSUME IInv, RunLinksLead, [Next]_vars
    PROVE  RunLinksLead'
<1>0. arun \in [AppRuns -> AppRunType] /\ TypeOK
    BY DEF IInv, TypeOK
<1>1. ASSUME NEW a \in AppRuns, AppRun(a) PROVE RunLinksLead'
  <2>1. \A b \in AppRuns \ {a} : arun'[b] = arun[b]
    BY <1>0, <1>1, AppRunMoves
  <2>2. \/ arun'[a].pc = "free"
        \/ /\ arun[a].pc # "free" /\ arun'[a].p = arun[a].p /\ arun'[a].links = arun[a].links
           /\ arun'[a].at \subseteq arun[a].links \cup arun[a].at
    BY <1>0, <1>1, AppRunMoves
  <2> QED BY <2>1, <2>2 DEF RunLinksLead
<1>2. ASSUME NEW r \in LinkRuns, NEW p \in Postings, LinksSpawn(r, p) PROVE RunLinksLead'
  <2>1. \A l \in LinksTo(r, p) : Target[l] = p
    BY DEF LinksTo
  <2> QED BY <1>0, <1>2, <2>1, StartLeads DEF LinksSpawn, RunLinksLead
<1>3. ASSUME NEW p \in Postings, HuntSpawn(p) PROVE RunLinksLead'
    BY <1>0, <1>3, StartLeads DEF HuntSpawn, RunLinksLead
<1>4. ASSUME UNCHANGED arun PROVE RunLinksLead'
    BY <1>4 DEF RunLinksLead
<1> QED BY <1>1, <1>2, <1>3, <1>4, RunChange

(* Setting links changes those it names, to the status it names.           *)
LEMMA SetLinkOnly ==
    ASSUME NEW lk \in [Links -> LinkStatuses], NEW ids, NEW s, NEW l \in Links,
           SetLink(lk, ids, s)[l] # lk[l]
    PROVE  l \in ids /\ SetLink(lk, ids, s)[l] = s
BY DEF SetLink

(* What a link with a status leads to; only the two of a done link say     *)
(* something.                                                              *)
LeadsTo(l, s) ==
    /\ s = "done" => Target[l] \in Postings /\ app[Target[l]] # "none"
    /\ s = "inflight" => Target[l] \in Postings /\ IsRecorded(Target[l])

(* What a job-links run is about to write was so when it read the row, and *)
(* still is.                                                               *)
WritesLead == \A r \in LinkRuns : \A w \in lrun[r].writes : LeadsTo(w[1], w[2])

(* What a link leads to it keeps leading to.                               *)
LEMMA LeadsStays ==
    ASSUME IInv, [Next]_vars, NEW l, NEW s, LeadsTo(l, s)
    PROVE  /\ s = "done" => Target[l] \in Postings /\ app'[Target[l]] # "none"
           /\ s = "inflight" => Target[l] \in Postings /\ posting'[Target[l]] \notin {"none", "passed"}
BY Forward DEF LeadsTo

(* A job-links run reads before it writes.                                 *)
LEMMA WritesFound ==
    ASSUME IInv, WritesLead, NEW r \in LinkRuns, LinksRun(r), NEW w \in lrun'[r].writes
    PROVE  LeadsTo(w[1], w[2])
<1>0. /\ posting \in [Postings -> PostingStatus] /\ lrun \in [LinkRuns -> LinkRunType]
      /\ lrun[r] \in LinkRunType
    BY DEF IInv, TypeOK
<1>1. ASSUME w[2] = "failed" PROVE LeadsTo(w[1], w[2])
    BY <1>1 DEF LeadsTo
<1>2. ASSUME w \in lrun[r].writes PROVE LeadsTo(w[1], w[2])
    BY <1>2 DEF WritesLead
<1>3. ASSUME NEW p \in Postings, posting[p] \notin {"none", "passed", "failed"},
             w \in LinksTo(r, p) \X {IF posting[p] = "picked" THEN "inflight" ELSE "done"}
      PROVE  LeadsTo(w[1], w[2])
  <2>1. Target[w[1]] = p /\ w[2] = IF posting[p] = "picked" THEN "inflight" ELSE "done"
    BY <1>3 DEF LinksTo
  <2>2. posting[p] # "picked" => app[p] # "none"
    BY <1>0, <1>3 DEF IInv, PublishedHasApplication, PostingStatus
  <2> QED BY <1>3, <2>1, <2>2 DEF LeadsTo, IsRecorded
<1>4. ASSUME NEW p \in Postings, posting[p] \notin {"none", "passed", "failed"},
             w \in LinksTo(r, p) \X {"inflight"}
      PROVE  LeadsTo(w[1], w[2])
  <2>1. Target[w[1]] = p /\ w[2] = "inflight"
    BY <1>4 DEF LinksTo
  <2> QED BY <1>4, <2>1 DEF LeadsTo, IsRecorded
<1>5. ASSUME NEW p \in Postings, LinksLookup(r, p) PROVE LeadsTo(w[1], w[2])
  <2>1. CASE posting[p] \in {"none", "passed", "failed"}
    <3>1. lrun'[r].writes = lrun[r].writes
      BY <1>0, <1>5, <2>1 DEF LinksLookup, LinkRunType
    <3> QED BY <1>2, <3>1
  <2>2. CASE posting[p] \notin {"none", "passed", "failed"}
    <3>1. lrun'[r].writes = LinksTo(r, p) \X {IF posting[p] = "picked" THEN "inflight" ELSE "done"}
      BY <1>0, <1>5, <2>2 DEF LinksLookup, LinkRunType
    <3> QED BY <1>3, <2>2, <3>1
  <2> QED BY <2>1, <2>2
<1>6. ASSUME NEW p \in Postings, LinksPick(r, p) PROVE LeadsTo(w[1], w[2])
  <2>1. CASE posting[p] \in {"none", "passed", "failed"}
    <3>1. lrun'[r].writes = lrun[r].writes
      BY <1>0, <1>6, <2>1 DEF LinksPick, LinkRunType
    <3> QED BY <1>2, <3>1
  <2>2. CASE posting[p] \notin {"none", "passed", "failed"}
    <3>1. lrun'[r].writes = LinksTo(r, p) \X {"inflight"}
      BY <1>0, <1>6, <2>2 DEF LinksPick, LinkRunType
    <3> QED BY <1>4, <2>2, <3>1
  <2> QED BY <2>1, <2>2
<1>7. ASSUME NEW p \in Postings, LinksSpawn(r, p) PROVE LeadsTo(w[1], w[2])
  <2>1. lrun'[r].writes = lrun[r].writes \/ lrun'[r].writes = LinksTo(r, p) \X {"failed"}
    BY <1>0, <1>7 DEF LinksSpawn, LinkRunType
  <2> QED BY <1>1, <1>2, <2>1
<1>8. ASSUME NEW read \in SUBSET Postings, LinksRead(r, read) PROVE LeadsTo(w[1], w[2])
  <2>1. \E S : lrun'[r].writes = S \X {"failed"}
    BY <1>0, <1>8 DEF LinksRead, LinkRunType
  <2> QED BY <1>1, <2>1
<1>9. CASE LinksResume(r) \/ LinksTaskFails(r)
  <2>1. lrun'[r].writes = lrun[r].writes \/ lrun'[r].writes = lrun[r].links \X {"failed"}
    <3>1. CASE LinksResume(r)
      BY <1>0, <3>1 DEF LinksResume, LinkRunType
    <3>2. CASE LinksTaskFails(r)
      BY <1>0, <3>2 DEF LinksTaskFails, LinkRunType
    <3> QED BY <1>9, <3>1, <3>2
  <2> QED BY <1>1, <1>2, <2>1
<1>10. CASE LinksPending(r)
  <2>1. \E S : lrun'[r].writes = S \X {"failed"}
    BY <1>0, <1>10 DEF LinksPending, LinkRunType
  <2> QED BY <1>1, <2>1
<1>11. CASE LinksWrite(r) \/ LinksEnd(r) \/ LinksFailureLost(r)
  <2>1. lrun'[r].writes \subseteq lrun[r].writes
    <3>1. CASE LinksWrite(r)
      BY <1>0, <3>1 DEF LinksWrite, LinkRunType
    <3>2. CASE LinksEnd(r) \/ LinksFailureLost(r)
      BY <1>0, <3>2 DEF LinksEnd, LinksFailureLost, NoLinkRun
    <3> QED BY <1>11, <3>1, <3>2
  <2> QED BY <1>2, <2>1
<1> QED BY <1>5, <1>6, <1>7, <1>8, <1>9, <1>10, <1>11 DEF LinksRun

(* So every step of any run keeps what the job-links runs will write true. *)
LEMMA WritesStep ==
    ASSUME IInv, WritesLead, [Next]_vars
    PROVE  WritesLead'
<1>0. lrun \in [LinkRuns -> LinkRunType]
    BY DEF IInv, TypeOK
<1>1. ASSUME NEW s \in LinkRuns, NEW w \in lrun'[s].writes PROVE LeadsTo(w[1], w[2])
  <2>1. ASSUME lrun'[s] = lrun[s] PROVE LeadsTo(w[1], w[2])
    BY <1>1, <2>1 DEF WritesLead
  <2>2. ASSUME NEW r \in LinkRuns, LinksRun(r) PROVE LeadsTo(w[1], w[2])
    <3>1. CASE s = r
      BY <1>1, <2>2, <3>1, WritesFound
    <3>2. CASE s # r
      BY <2>1, <2>2, <3>2, LinksRunAlone DEF IInv
    <3> QED BY <3>1, <3>2
  <2>3. ASSUME NEW S \in SUBSET Links, OnLinks(S) PROVE lrun'[s] = lrun[s] \/ lrun'[s].writes = {}
    BY <1>0, <2>3 DEF OnLinks, NoLinkRun
  <2> QED BY <1>1, <2>1, <2>2, <2>3, LinkRunChange
<1>2. ASSUME NEW s \in LinkRuns, NEW w \in lrun'[s].writes PROVE LeadsTo(w[1], w[2])'
    BY <1>1, <1>2, LeadsStays DEF LeadsTo, IsRecorded
<1> QED BY <1>2 DEF WritesLead

(* Only a job-links run's write and a drafting run's makes a link done.    *)
LEMMA DoneChange ==
    ASSUME TypeOK, [Next]_vars, NEW l \in Links, link'[l] \in DoneStatuses
    PROVE  \/ link'[l] = link[l]
           \/ \E r \in LinkRuns : LinksWrite(r)
           \/ \E a \in AppRuns : AppPoint(a, l)
<1>0. link \in [Links -> LinkStatuses] /\ DOMAIN link = Links
    BY DEF TypeOK
<1> USE DEF DoneStatuses
<1>1. ASSUME NEW k \in Links, AddLink(k) \/ RemoveLink(k) \/ Requeue(k) PROVE link'[l] = link[l]
    BY <1>0, <1>1 DEF AddLink, RemoveLink, Requeue
<1>2. ASSUME NEW S \in SUBSET Links, OnLinks(S) \/ OnLinksFails(S) \/ FindStale(S)
      PROVE  link'[l] = link[l]
    BY <1>0, <1>2 DEF OnLinks, OnLinksFails, FindStale, ClaimLinks
<1>3. ASSUME NEW q \in Postings, Review(q) \/ PostingGone(q) PROVE link'[l] = link[l]
    BY <1>3 DEF Review, PostingGone
<1>4. ASSUME NEW r \in LinkRuns, LinksRun(r) PROVE LinksWrite(r) \/ link'[l] = link[l]
    BY <1>4 DEF LinksRun, LinksResume, LinksLookup, LinksPick, LinksSpawn, LinksRead, LinksEnd,
        LinksTaskFails, LinksPending, LinksFailureLost
<1>5. ASSUME NEW a \in AppRuns, AppRun(a) PROVE AppPoint(a, l) \/ link'[l] = link[l]
  <2>1. ASSUME NEW k \in Links, AppPoint(a, k) \/ AppFailSet(a, k)
        PROVE AppPoint(a, l) \/ link'[l] = link[l]
    <3>1. CASE k = l
      BY <1>0, <2>1, <3>1, SetLinkOnly DEF AppPoint, AppFailSet
    <3>2. CASE k # l
      BY <1>0, <2>1, <3>2 DEF AppPoint, AppFailSet, SetLink
    <3> QED BY <3>1, <3>2
  <2> QED BY <1>5, <2>1, AppRunMoves
<1>6. CASE HuntRun
    BY <1>6 DEF HuntRun, HuntOpen, HuntExpire, HuntReviews, HuntClose, HuntTaskFails, HuntFind, HuntPick, HuntSpawn
<1> QED BY <1>1, <1>2, <1>3, <1>4, <1>5, <1>6 DEF Next, ListenAgain, vars

(* A link is made done as it leads, and leads on.                          *)
LEMMA DoneLinksStep ==
    ASSUME IInv, RunLinksLead, WritesLead, DoneLinksLead, [Next]_vars
    PROVE  DoneLinksLead'
<1>0. link \in [Links -> LinkStatuses] /\ DOMAIN link = Links /\ TypeOK
    BY DEF IInv, TypeOK
<1>1. ASSUME NEW l \in Links, link'[l] \in DoneStatuses PROVE LeadsTo(l, link'[l])
  <2>1. ASSUME link'[l] = link[l] PROVE LeadsTo(l, link'[l])
    BY <2>1 DEF DoneLinksLead, LeadsTo, IsRecorded
  <2>2. ASSUME NEW r \in LinkRuns, LinksWrite(r), link'[l] # link[l] PROVE LeadsTo(l, link'[l])
    <3>1. PICK w \in lrun[r].writes : link' = SetLink(link, {w[1]}, w[2])
      BY <2>2 DEF LinksWrite
    <3>2. l = w[1] /\ link'[l] = w[2]
      BY <1>0, <2>2, <3>1, SetLinkOnly
    <3> QED BY <3>2 DEF WritesLead
  <2>3. ASSUME NEW a \in AppRuns, AppPoint(a, l), link'[l] # link[l] PROVE LeadsTo(l, link'[l])
    <3>1. link'[l] = "done" /\ arun[a].pc = "publish" /\ l \in arun[a].at
      BY <1>0, <2>3, SetLinkOnly DEF AppPoint
    <3>2. arun[a].p \in Postings /\ app[arun[a].p] # "none" /\ Target[l] = arun[a].p
      BY <3>1 DEF IInv, RunsAreOfRecorded, PublishingIsSaved, RunLinksLead
    <3> QED BY <3>1, <3>2 DEF LeadsTo
  <2> QED BY <1>0, <1>1, <2>1, <2>2, <2>3, DoneChange
<1>2. ASSUME NEW l \in Links
      PROVE  /\ link'[l] = "done" => Target[l] \in Postings /\ app'[Target[l]] # "none"
             /\ link'[l] = "inflight" =>
                   Target[l] \in Postings /\ posting'[Target[l]] \notin {"none", "passed"}
    BY <1>1, LeadsStays DEF DoneStatuses
<1> QED BY <1>2 DEF DoneLinksLead

(* A link the user is told is done leads to its posting's application, and *)
(* one said to be drafted to a posting that was taken up, although the row *)
(* is read in one store and the link written in the other later: the runs  *)
(* of two links to one posting, the search, failures and the retries of    *)
(* publish race in between.                                                *)
THEOREM DoneLinksLeadAlways == Spec => []DoneLinksLead
<1>1. Init => RunLinksLead /\ WritesLead /\ DoneLinksLead
  BY DEF Init, RunLinksLead, WritesLead, DoneLinksLead, NoAppRun, NoLinkRun
<1>2. IInv /\ RunLinksLead /\ WritesLead /\ DoneLinksLead /\ [Next]_vars =>
          RunLinksLead' /\ WritesLead' /\ DoneLinksLead'
  BY RunLinksStep, WritesStep, DoneLinksStep
<1> QED BY <1>1, <1>2, Invariance, PTL DEF Spec

-----------------------------------------------------------------------------
(* Reviews gate the search.  The user sent a link to a posting.            *)
Sent(p) == \E l \in Links : Target[l] = p /\ link[l] # "absent"

(* A job-links run has links the user sent, and postings of those.         *)
RunsAreSent ==
    \A r \in LinkRuns :
        /\ \A l \in lrun[r].links : link[l] # "absent"
        /\ \A p \in lrun[r].todo \cup lrun[r].kept : \E l \in lrun[r].links : Target[l] = p

(* A pick check-skip has expired is picked again only by such a run.       *)
ExpiredAreSent ==
    hunt.pc \in {"check", "close"} =>
        /\ hunt.pc = "close" => hunt.todo = {}
        /\ hunt.picks \cap hunt.pubs = {}
        /\ \A p \in hunt.picks \ (hunt.open \cup hunt.todo) : posting[p] = "picked" => Sent(p)

(* A link the user sent stays one, whatever becomes of it.                 *)
LEMMA SentStays ==
    ASSUME IInv, [Next]_vars, NEW l \in Links, link[l] # "absent"
    PROVE  link'[l] # "absent"
<1>0. link \in [Links -> LinkStatuses] /\ DOMAIN link = Links
    BY DEF IInv, TypeOK
<1>1. \A ids, s : s # "absent" => SetLink(link, ids, s)[l] # "absent"
    BY <1>0 DEF SetLink
<1>2. ASSUME NEW k \in Links, AddLink(k) \/ RemoveLink(k) \/ Requeue(k) PROVE link'[l] # "absent"
    BY <1>0, <1>2 DEF AddLink, RemoveLink, Requeue
<1>3. ASSUME NEW q \in Postings, Review(q) \/ PostingGone(q) PROVE link'[l] # "absent"
    BY <1>3 DEF Review, PostingGone
<1>4. ASSUME NEW S \in SUBSET Links, OnLinks(S) \/ OnLinksFails(S) \/ FindStale(S)
      PROVE  link'[l] # "absent"
    BY <1>0, <1>4 DEF OnLinks, OnLinksFails, FindStale, ClaimLinks
<1>5. ASSUME NEW r \in LinkRuns, LinksRun(r) PROVE link'[l] # "absent"
  <2>1. CASE LinksWrite(r)
    <3>1. PICK w \in lrun[r].writes : link' = SetLink(link, {w[1]}, w[2])
      BY <2>1 DEF LinksWrite
    <3>2. w[2] \in {"done", "inflight", "failed"}
      BY <3>1 DEF IInv, TypeOK, LinkRunType
    <3> QED BY <1>1, <3>1, <3>2
  <2>2. LinksWrite(r) \/ UNCHANGED link
    BY <1>5 DEF LinksRun, LinksResume, LinksLookup, LinksPick, LinksSpawn, LinksRead, LinksEnd,
        LinksTaskFails, LinksPending, LinksFailureLost
  <2> QED BY <2>1, <2>2
<1>6. ASSUME NEW a \in AppRuns, AppRun(a) PROVE link'[l] # "absent"
  <2>1. ASSUME NEW k \in Links, AppPoint(a, k) \/ AppFailSet(a, k) PROVE link'[l] # "absent"
    BY <1>1, <2>1 DEF AppPoint, AppFailSet
  <2>2. TypeOK
    BY DEF IInv
  <2> QED BY <1>6, <2>1, <2>2, AppRunMoves
<1>7. CASE HuntRun
    BY <1>7 DEF HuntRun, HuntOpen, HuntExpire, HuntReviews, HuntClose, HuntTaskFails, HuntFind, HuntPick, HuntSpawn
<1> QED BY <1>2, <1>3, <1>4, <1>5, <1>6, <1>7 DEF Next, ListenAgain, vars

(* The postings of a job-links run are those of its links.                 *)
LEMMA RunsAreSentStep ==
    ASSUME IInv, RunsAreSent, [Next]_vars
    PROVE  RunsAreSent'
<1>0. lrun \in [LinkRuns -> LinkRunType]
    BY DEF IInv, TypeOK
<1> DEFINE Good(s) == /\ lrun'[s].links \subseteq Links
                      /\ \A l \in lrun'[s].links : link[l] # "absent"
                      /\ \A p \in lrun'[s].todo \cup lrun'[s].kept :
                            \E l \in lrun'[s].links : Target[l] = p
<1>1. ASSUME NEW s \in LinkRuns, lrun'[s] = lrun[s] PROVE Good(s)
    BY <1>0, <1>1 DEF RunsAreSent, LinkRunType
<1>2. ASSUME NEW r \in LinkRuns, LinksRun(r) PROVE Good(r)
  <2>0. lrun[r] \in LinkRunType /\ lrun[r].links \subseteq Links
    BY <1>0 DEF LinkRunType
  <2>1. ASSUME lrun'[r].links = lrun[r].links,
               lrun'[r].todo \cup lrun'[r].kept \subseteq lrun[r].todo \cup lrun[r].kept
        PROVE  Good(r)
    BY <2>0, <2>1 DEF RunsAreSent
  <2>2. ASSUME lrun'[r].links = lrun[r].links, lrun'[r].kept = lrun[r].kept,
               lrun'[r].todo = {Target[l] : l \in lrun[r].links} \ {NoPosting}
        PROVE  Good(r)
    BY <2>0, <2>2 DEF RunsAreSent
  <2>3. CASE LinksResume(r)
    <3>1. \/ lrun'[r].links = lrun[r].links /\ lrun'[r].todo = lrun[r].todo /\ lrun'[r].kept = lrun[r].kept
          \/ /\ lrun'[r].links = lrun[r].links /\ lrun'[r].kept = lrun[r].kept
             /\ lrun'[r].todo = {Target[l] : l \in lrun[r].links} \ {NoPosting}
      BY <1>0, <2>0, <2>3 DEF LinksResume, LinkRunType
    <3> QED BY <2>1, <2>2, <3>1
  <2>4. ASSUME NEW p \in Postings, LinksLookup(r, p) PROVE Good(r)
    <3>1. /\ lrun'[r].links = lrun[r].links
          /\ lrun'[r].todo \cup lrun'[r].kept \subseteq lrun[r].todo \cup lrun[r].kept
      BY <1>0, <2>0, <2>4 DEF LinksLookup, LinkRunType
    <3> QED BY <2>1, <3>1
  <2>5. ASSUME NEW p \in Postings, LinksPick(r, p) PROVE Good(r)
    <3>1. /\ lrun'[r].links = lrun[r].links
          /\ lrun'[r].todo \cup lrun'[r].kept \subseteq lrun[r].todo \cup lrun[r].kept
      BY <1>0, <2>0, <2>5 DEF LinksPick, LinkRunType
    <3> QED BY <2>1, <3>1
  <2>6. ASSUME NEW p \in Postings, LinksSpawn(r, p) PROVE Good(r)
    <3>1. /\ lrun'[r].links = lrun[r].links
          /\ lrun'[r].todo \cup lrun'[r].kept \subseteq lrun[r].todo \cup lrun[r].kept
      BY <1>0, <2>0, <2>6 DEF LinksSpawn, LinkRunType
    <3> QED BY <2>1, <3>1
  <2>7. ASSUME NEW read \in SUBSET Postings, LinksRead(r, read) PROVE Good(r)
    <3>1. /\ lrun'[r].links = lrun[r].links /\ read \subseteq lrun[r].kept
          /\ lrun'[r].todo = read /\ lrun'[r].kept = {}
      BY <1>0, <2>0, <2>7 DEF LinksRead, LinkRunType
    <3> QED BY <2>1, <3>1
  <2>8. CASE LinksWrite(r) \/ LinksPending(r)
    <3>1. lrun'[r].links = lrun[r].links /\ lrun'[r].todo = lrun[r].todo /\ lrun'[r].kept = lrun[r].kept
      <4>1. CASE LinksWrite(r)
        BY <1>0, <2>0, <4>1 DEF LinksWrite, LinkRunType
      <4>2. CASE LinksPending(r)
        BY <1>0, <2>0, <4>2 DEF LinksPending, LinkRunType
      <4> QED BY <2>8, <4>1, <4>2
    <3> QED BY <2>1, <3>1
  <2>9. CASE LinksTaskFails(r)
    <3>1. lrun'[r].links = lrun[r].links /\ lrun'[r].todo = {} /\ lrun'[r].kept = {}
      BY <1>0, <2>0, <2>9 DEF LinksTaskFails, LinkRunType
    <3> QED BY <2>1, <3>1
  <2>10. CASE LinksEnd(r) \/ LinksFailureLost(r)
    <3>1. lrun'[r] = NoLinkRun
      BY <1>0, <2>10 DEF LinksEnd, LinksFailureLost
    <3> QED BY <3>1 DEF NoLinkRun
  <2> QED BY <1>2, <2>3, <2>4, <2>5, <2>6, <2>7, <2>8, <2>9, <2>10 DEF LinksRun
<1>3. ASSUME NEW S \in SUBSET Links, OnLinks(S), NEW s \in LinkRuns PROVE Good(s)
  <2>1. \/ lrun'[s] = lrun[s]
        \/ lrun'[s] = [NoLinkRun EXCEPT !.pc = "waiting", !.links = Claimable(link, S)]
    BY <1>0, <1>3 DEF OnLinks
  <2>2. CASE lrun'[s] = [NoLinkRun EXCEPT !.pc = "waiting", !.links = Claimable(link, S)]
    BY <2>2 DEF NoLinkRun, Claimable
  <2> QED BY <1>1, <2>1, <2>2
<1>4. ASSUME NEW s \in LinkRuns PROVE Good(s)
    BY <1>1, <1>2, <1>3, LinksRunAlone, LinkRunChange DEF IInv
<1>5. ASSUME NEW s \in LinkRuns, NEW l \in lrun'[s].links PROVE link'[l] # "absent"
    BY <1>4, SentStays
<1> QED BY <1>4, <1>5 DEF RunsAreSent

(* Who picks a posting, and that check-skip does not.                      *)
LEMMA Picking ==
    ASSUME IInv, [Next]_vars, NEW p \in Postings, posting[p] # "picked", posting'[p] = "picked",
           hunt.pc # "pick"
    PROVE  \E r \in LinkRuns : LinksPick(r, p)
<1>0. posting \in [Postings -> PostingStatus]
    BY DEF IInv, TypeOK
<1>1. ASSUME NEW r \in LinkRuns, NEW q \in Postings, LinksPick(r, q) PROVE q = p
    BY <1>0, <1>1 DEF LinksPick, RepickPosting, PickPosting, InsertNew, UpdateFrom
<1>2. ASSUME NEW r \in LinkRuns, NEW q \in Postings, LinksSpawn(r, q) PROVE FALSE
    BY <1>0, <1>2 DEF LinksSpawn, MarkFailed, UpdateFrom
<1>3. ASSUME NEW a \in AppRuns, AppPublish(a) \/ AppFailed(a) PROVE FALSE
    BY <1>0, <1>3 DEF AppPublish, AppFailed, MarkPublished, MarkFailed, UpdateFrom
<1>4. ASSUME NEW S \in SUBSET Postings, HuntClose(S) PROVE FALSE
    BY <1>0, <1>4 DEF HuntClose, ClosePostings, UpdateFrom
<1>5. ASSUME NEW S \in SUBSET Postings, NEW T \in SUBSET Postings, HuntTaskFails(S, T) PROVE FALSE
    BY <1>0, <1>5 DEF HuntTaskFails, PickPosting, PassPosting, InsertNew
<1>6. ASSUME NEW q \in Postings, HuntExpire(q) \/ HuntSpawn(q) PROVE FALSE
    BY <1>0, <1>6 DEF HuntExpire, HuntSpawn, MarkFailed, UpdateFrom
<1> QED BY <1>1, <1>2, <1>3, <1>4, <1>5, <1>6, PostingChange DEF PostingWrite, HuntPick

(* A job-links run picks what the user sent.                               *)
LEMMA PickedIsSent ==
    ASSUME IInv, RunsAreSent, [Next]_vars, NEW p \in Postings, hunt.pc # "pick",
           posting[p] = "picked" => Sent(p)
    PROVE  posting'[p] = "picked" => Sent(p)'
<1>1. ASSUME NEW r \in LinkRuns, LinksPick(r, p) PROVE Sent(p)
  <2>1. PICK l \in lrun[r].links : Target[l] = p /\ link[l] # "absent"
    BY <1>1 DEF LinksPick, RunsAreSent
  <2>2. l \in Links
    BY <2>1 DEF IInv, TypeOK, LinkRunType
  <2> QED BY <2>1, <2>2 DEF Sent
<1>2. ASSUME posting'[p] = "picked" PROVE Sent(p)
    BY <1>1, <1>2, Picking
<1> QED BY <1>2, SentStays DEF Sent

(* check-skip expires the stale picks one by one.                          *)
LEMMA ExpiredStep ==
    ASSUME IInv, RunsAreSent, ExpiredAreSent, [Next]_vars
    PROVE  ExpiredAreSent'
<1>0. /\ posting \in [Postings -> PostingStatus] /\ hunt \in HuntType
      /\ hunt.picks \subseteq Postings
    BY DEF IInv, TypeOK, HuntType
<1>1. ASSUME hunt.pc \in {"check", "close"}, NEW p \in hunt.picks \ (hunt.open \cup hunt.todo)
      PROVE  posting'[p] = "picked" => Sent(p)'
  <2>1. p \in Postings /\ hunt.pc # "pick" /\ (posting[p] = "picked" => Sent(p))
    BY <1>0, <1>1 DEF ExpiredAreSent
  <2> QED BY <2>1, PickedIsSent
<1>2. CASE UNCHANGED hunt
    BY <1>1, <1>2 DEF ExpiredAreSent
<1>3. ASSUME NEW S \in SUBSET Postings, HuntOpen(S) PROVE ExpiredAreSent'
  <2>1. /\ hunt'.pc = "check" /\ hunt'.picks = WithStatus(posting, {"picked"})
        /\ hunt'.pubs = WithStatus(posting, {"published"})
        /\ hunt'.open = WithStatus(posting, OpenStatus) \ S /\ hunt'.todo = S
    BY <1>3 DEF HuntOpen
  <2>2. hunt'.picks \ (hunt'.open \cup hunt'.todo) = {} /\ hunt'.picks \cap hunt'.pubs = {}
    BY <2>1 DEF WithStatus, OpenStatus
  <2> QED BY <2>1, <2>2 DEF ExpiredAreSent
<1>4. ASSUME NEW q \in Postings, HuntExpire(q) PROVE ExpiredAreSent'
  <2>1. /\ hunt.pc = "check" /\ hunt'.pc = "check" /\ hunt'.picks = hunt.picks
        /\ hunt'.pubs = hunt.pubs /\ hunt'.open = hunt.open /\ hunt'.todo = hunt.todo \ {q}
    BY <1>0, <1>4 DEF HuntExpire, HuntType
  <2>2. posting'[q] # "picked"
    BY <1>0, <1>4 DEF HuntExpire, MarkFailed, UpdateFrom
  <2>3. ASSUME NEW p \in hunt'.picks \ (hunt'.open \cup hunt'.todo)
        PROVE  posting'[p] = "picked" => Sent(p)'
    BY <1>1, <2>1, <2>2, <2>3
  <2> QED BY <2>1, <2>3 DEF ExpiredAreSent
<1>5. CASE HuntReviews
  <2>1. /\ hunt.pc = "check" /\ hunt.todo = {} /\ hunt'.pc = "close" /\ hunt'.picks = hunt.picks
        /\ hunt'.todo = hunt.todo /\ hunt'.pubs = hunt.pubs
        /\ hunt'.open = hunt.open \ {p \in hunt.pubs : app[p] = "reviewed"}
        /\ UNCHANGED <<posting, link>>
    BY <1>0, <1>5 DEF HuntReviews, HuntType
  <2>2. hunt.picks \cap hunt.pubs = {}
    BY <2>1 DEF ExpiredAreSent
  <2>3. hunt'.picks \ (hunt'.open \cup hunt'.todo) = hunt.picks \ (hunt.open \cup hunt.todo)
    BY <2>1, <2>2
  <2> QED BY <1>1, <2>1, <2>2, <2>3 DEF ExpiredAreSent
<1>6. ASSUME NEW S \in SUBSET Postings, NEW T \in SUBSET Postings,
             HuntClose(S) \/ HuntTaskFails(S, T) \/ HuntFind(S)
      PROVE  ExpiredAreSent'
  <2>1. /\ NoHunt.pc = "idle" /\ [NoHunt EXCEPT !.pc = "find"].pc = "find"
        /\ [hunt EXCEPT !.pc = "pick", !.todo = S].pc = "pick"
    BY <1>0 DEF NoHunt, HuntType
  <2>2. hunt'.pc \notin {"check", "close"}
    BY <1>6, <2>1 DEF HuntClose, HuntTaskFails, HuntFind
  <2> QED BY <2>2 DEF ExpiredAreSent
<1>7. ASSUME NEW unfit \in SUBSET Postings, NEW fit \in SUBSET Postings,
             NEW best \in SUBSET Postings, HuntPick(unfit, fit, best)
      PROVE  ExpiredAreSent'
  <2>1. hunt'.pc \notin {"check", "close"}
    BY <1>0, <1>7 DEF HuntPick, NoHunt, HuntType
  <2> QED BY <2>1 DEF ExpiredAreSent
<1>8. ASSUME NEW p \in Postings, HuntSpawn(p) PROVE ExpiredAreSent'
  <2>1. hunt'.pc \notin {"check", "close"}
    BY <1>0, <1>8 DEF HuntSpawn, NoHunt, HuntType
  <2> QED BY <2>1 DEF ExpiredAreSent
<1> QED BY <1>2, <1>3, <1>4, <1>5, <1>6, <1>7, <1>8, HuntChange DEF HuntRun

(* Reviews gate new applications: when a search goes on, every posting it  *)
(* read as published is closed, reviewed or gone, and of the picks it read *)
(* only one the user sent a link to can be picked again, although users    *)
(* review, links come in and other runs write between check-skip's read of *)
(* the store, its reads of the reviews and the sites, and its writes.      *)
THEOREM ReviewsGateSearchAlways == Spec => ReviewsGateSearch
<1>1. Init => RunsAreSent /\ ExpiredAreSent
  BY DEF Init, RunsAreSent, ExpiredAreSent, NoLinkRun, NoHunt
<1>2. IInv /\ RunsAreSent /\ ExpiredAreSent /\ [Next]_vars => RunsAreSent' /\ ExpiredAreSent'
  BY RunsAreSentStep, ExpiredStep
<1>3. ASSUME IInv, ExpiredAreSent, [Next]_vars, HuntGoesOn
      PROVE  /\ \A p \in hunt.pubs : posting'[p] = "closed" /\ (app[p] = "reviewed" \/ p \in gone)
             /\ \A p \in hunt.picks : posting'[p] = "picked" =>
                   \E l \in Links : Target[l] = p /\ link[l] # "absent"
  <2>0. /\ posting \in [Postings -> PostingStatus]
        /\ hunt \in HuntType /\ hunt.pubs \subseteq Postings /\ hunt.picks \subseteq Postings
    BY <1>3 DEF IInv, TypeOK, HuntType
  <2>1. PICK S \in SUBSET Postings : HuntClose(S)
    <3>1. hunt' # hunt
      BY <1>3 DEF HuntGoesOn
    <3>2. HuntRun
      BY <1>3, <3>1, HuntChange
    <3>3. ASSUME NEW S \in SUBSET Postings, NEW T \in SUBSET Postings, HuntTaskFails(S, T) PROVE FALSE
      BY <1>3, <3>3 DEF HuntTaskFails, NoHunt, HuntGoesOn
    <3> QED BY <1>3, <3>2, <3>3 DEF HuntRun, HuntGoesOn, HuntOpen, HuntExpire, HuntReviews, HuntFind, HuntPick, HuntSpawn
  <2>2. /\ hunt.pc = "close" /\ hunt.open \subseteq S /\ S \subseteq hunt.pubs /\ S \subseteq gone
        /\ posting' = ClosePostings(posting, hunt.pubs \ (hunt.open \ S))
    BY <1>3, <2>1 DEF HuntClose, HuntGoesOn, NoHunt, SeenGone
  <2>3. posting' = ClosePostings(posting, hunt.pubs)
    <3>1. hunt.pubs \ (hunt.open \ S) = hunt.pubs
      BY <2>2
    <3> QED BY <2>2, <3>1
  <2>4. ASSUME NEW p \in hunt.pubs PROVE posting'[p] = "closed" /\ (app[p] = "reviewed" \/ p \in gone)
    <3>1. posting[p] \notin {"none", "passed"} /\ p \in Postings
      BY <1>3, <2>0 DEF IInv, ClosableHasApplication, IsRecorded
    <3>2. posting'[p] = "closed"
      BY <2>0, <2>3, <3>1 DEF ClosePostings, UpdateFrom
    <3>3. p \in hunt.open \/ app[p] = "reviewed"
      BY <1>3, <2>2 DEF IInv, CheckReads
    <3> QED BY <2>2, <3>2, <3>3
  <2>5. ASSUME NEW p \in hunt.picks, posting'[p] = "picked" PROVE Sent(p)
    <3>1. p \notin hunt.pubs
      BY <2>4, <2>5
    <3>2. posting[p] = "picked"
      BY <2>0, <2>3, <2>5 DEF ClosePostings, UpdateFrom
    <3>3. p \notin hunt.open /\ hunt.todo = {}
      BY <1>3, <2>2, <3>1 DEF ExpiredAreSent
    <3> QED BY <1>3, <2>2, <3>2, <3>3 DEF ExpiredAreSent
  <2> QED BY <2>4, <2>5 DEF Sent
<1>4. IInv /\ ExpiredAreSent /\ [Next]_vars =>
         [HuntGoesOn =>
             /\ \A p \in hunt.pubs : posting'[p] = "closed" /\ (app[p] = "reviewed" \/ p \in gone)
             /\ \A p \in hunt.picks : posting'[p] = "picked" =>
                   \E l \in Links : Target[l] = p /\ link[l] # "absent"]_vars
  BY <1>3
<1> QED BY <1>1, <1>2, <1>4, Invariance, PTL DEF Spec, ReviewsGateSearch

-----------------------------------------------------------------------------
(* The stage of a posting, case by case.                                   *)
LEMMA StageValue ==
    ASSUME NEW p \in Postings
    PROVE  /\ app[p] = "none" => StageOf(p) = IF IsRecorded(p) THEN "attempted" ELSE "unseen"
           /\ app[p] = "ready" => StageOf(p) = IF posting[p] # "closed" THEN "ready" ELSE "settled"
           /\ app[p] = "reviewed" => StageOf(p) = "settled"
BY DEF StageOf, IsRecorded

(* The stage of a posting in the next state.                               *)
LEMMA NextStageValue ==
    ASSUME NEW p \in Postings
    PROVE  /\ app'[p] = "none" =>
                 StageOf(p)' = IF posting'[p] \notin {"none", "passed"} THEN "attempted" ELSE "unseen"
           /\ app'[p] = "ready" => StageOf(p)' = IF posting'[p] # "closed" THEN "ready" ELSE "settled"
           /\ app'[p] = "reviewed" => StageOf(p)' = "settled"
BY DEF StageOf

(* A write of the store that closes nothing attempts the postings it takes *)
(* up, and moves no other to another stage.                                *)
LEMMA TakingUp ==
    ASSUME IInv, [Next]_vars, UNCHANGED app,
           \A p \in Postings : posting'[p] = "closed" => posting[p] = "closed"
    PROVE  Promise!ReviewNext
<1> DEFINE S == {p \in Postings : app[p] = "none" /\ ~IsRecorded(p)
                                    /\ posting'[p] \notin {"none", "passed"}}
<1>0. app \in [Postings -> AppStatuses]
  BY DEF IInv, TypeOK
<1>1. ASSUME NEW p \in S PROVE StageOf(p) = "unseen"
  BY StageValue
<1>2. ASSUME NEW p \in Postings PROVE StageOf(p)' = IF p \in S THEN "attempted" ELSE StageOf(p)
  <2>1. app[p] \in {"none", "ready", "reviewed"} /\ app'[p] = app[p]
    BY <1>0 DEF AppStatuses
  <2>2. posting[p] = "closed" => posting'[p] = "closed"
    BY OnwardsStep DEF Onwards
  <2>3. IsRecorded(p) => posting'[p] \notin {"none", "passed"}
    BY Forward
  <2>4. CASE app[p] = "none"
    BY <2>1, <2>3, <2>4, StageValue, NextStageValue
  <2>5. CASE app[p] = "ready"
    BY <2>1, <2>2, <2>5, StageValue, NextStageValue
  <2>6. CASE app[p] = "reviewed"
    BY <2>1, <2>6, StageValue, NextStageValue
  <2> QED BY <2>1, <2>4, <2>5, <2>6
<1>3. [p \in Postings |-> StageOf(p)]' = [p \in Postings |-> IF p \in S THEN "attempted" ELSE StageOf(p)]
  BY <1>2
<1>4. Promise!Attempt(S)
  BY <1>1, <1>3 DEF Promise!Attempt, Promise!Move
<1> QED BY <1>4 DEF Promise!ReviewNext

(* check-skip settles the ready postings it closes, and moves no other.    *)
LEMMA ClosingSettles ==
    ASSUME IInv, [Next]_vars, NEW seen \in SUBSET Postings, HuntClose(seen)
    PROVE  Promise!ReviewNext
<1> DEFINE S == {p \in Postings : app[p] = "ready" /\ posting[p] # "closed" /\ posting'[p] = "closed"}
<1>0. app \in [Postings -> AppStatuses] /\ UNCHANGED app /\ posting \in [Postings -> PostingStatus]
  BY DEF IInv, TypeOK, HuntClose
<1>1. ASSUME NEW p \in S PROVE StageOf(p) = "ready"
  BY StageValue
<1>2. ASSUME NEW p \in Postings PROVE StageOf(p)' = IF p \in S THEN "settled" ELSE StageOf(p)
  <2>1. app[p] \in {"none", "ready", "reviewed"} /\ app'[p] = app[p]
    BY <1>0 DEF AppStatuses
  <2>2. posting[p] = "closed" => posting'[p] = "closed"
    BY OnwardsStep DEF Onwards
  <2>3. CASE app[p] = "none"
    <3>1. p \notin hunt.pubs
      BY <2>3 DEF IInv, ClosableHasApplication
    <3>2. posting'[p] = posting[p]
      BY <1>0, <3>1, StoreForward DEF HuntClose
    <3> QED BY <2>1, <2>3, <3>2, StageValue, NextStageValue DEF IsRecorded
  <2>4. CASE app[p] = "ready"
    BY <2>1, <2>2, <2>4, StageValue, NextStageValue
  <2>5. CASE app[p] = "reviewed"
    BY <2>1, <2>5, StageValue, NextStageValue
  <2> QED BY <2>1, <2>3, <2>4, <2>5
<1>3. [p \in Postings |-> StageOf(p)]' = [p \in Postings |-> IF p \in S THEN "settled" ELSE StageOf(p)]
  BY <1>2
<1>4. Promise!Settle(S)
  BY <1>1, <1>3 DEF Promise!Settle, Promise!Move
<1> QED BY <1>4 DEF Promise!ReviewNext

(* The first write of an application shows its posting, which is not shown *)
(* or closed yet; a retried write changes nothing.                         *)
LEMMA SavingShows ==
    ASSUME IInv, [Next]_vars, NEW a \in AppRuns, AppSave(a)
    PROVE  Promise!ReviewNext \/ UNCHANGED <<app, posting>>
<1>0. app \in [Postings -> AppStatuses]
  BY DEF IInv, TypeOK
<1>1. PICK q \in Postings : q = arun[a].p /\ IsRecorded(q)
  BY DEF AppSave, IInv, RunsAreOfRecorded
<1>2. CASE app[q] # "none"
  BY <1>1, <1>2 DEF AppSave, SaveApplication
<1>3. CASE app[q] = "none"
  <2>1. StageOf(q) = "attempted"
    BY <1>1, <1>3, StageValue
  <2>2. app' = [app EXCEPT ![q] = "ready"] /\ UNCHANGED posting
    BY <1>1, <1>3 DEF AppSave, SaveApplication
  <2>3. StageOf(q)' = "ready"
    BY <1>0, <1>1, <1>3, <2>2, NextStageValue DEF IInv, PublishedHasApplication
  <2>4. ASSUME NEW p \in Postings \ {q} PROVE StageOf(p)' = StageOf(p)
    BY <1>0, <2>2, StageValue, NextStageValue DEF AppStatuses, IsRecorded
  <2>5. [p \in Postings |-> StageOf(p)]' = [p \in Postings |-> IF p \in {q} THEN "ready" ELSE StageOf(p)]
    BY <2>3, <2>4
  <2>6. Promise!Show(q)
    BY <1>1, <2>1, <2>5 DEF Promise!Show, Promise!Move
  <2> QED BY <1>1, <2>6 DEF Promise!ReviewNext
<1> QED BY <1>2, <1>3

(* The user's review settles a posting that was ready, unless check-skip   *)
(* had settled it by closing it.                                           *)
LEMMA ReviewSettles ==
    ASSUME IInv, NEW q \in Postings, Review(q)
    PROVE  Promise!ReviewNext
<1> DEFINE S == {p \in {q} : posting[p] # "closed"}
<1>0. app \in [Postings -> AppStatuses]
  BY DEF IInv, TypeOK
<1>1. ASSUME NEW p \in S PROVE StageOf(p) = "ready"
  BY <1>1, StageValue DEF Review
<1>2. StageOf(q)' = "settled" /\ (q \notin S => StageOf(q) = "settled")
  BY <1>0, StageValue, NextStageValue DEF Review
<1>3. ASSUME NEW p \in Postings \ {q} PROVE StageOf(p)' = StageOf(p)
  BY <1>0, StageValue, NextStageValue DEF Review, AppStatuses, IsRecorded
<1>4. [p \in Postings |-> StageOf(p)]' = [p \in Postings |-> IF p \in S THEN "settled" ELSE StageOf(p)]
  BY <1>2, <1>3
<1>5. Promise!Settle(S)
  BY <1>1, <1>4 DEF Promise!Settle, Promise!Move
<1> QED BY <1>5 DEF Promise!ReviewNext

(* Of the writes of the store, only check-skip closes a posting.           *)
LEMMA OnlyCheckCloses ==
    ASSUME IInv, [Next]_vars
    PROVE  \/ \E S \in SUBSET Postings : HuntClose(S)
           \/ \A p \in Postings : posting'[p] = "closed" => posting[p] = "closed"
<1>0. posting \in [Postings -> PostingStatus]
  BY DEF IInv, TypeOK
<1> DEFINE NoneClosed == \A p \in Postings : posting'[p] = "closed" => posting[p] = "closed"
<1>1. ASSUME NEW st \in [Postings -> PostingStatus], NEW hs, NEW p \in Postings
      PROVE  /\ PickPosting(st, hs)[p] = "closed" => st[p] = "closed"
             /\ PassPosting(st, hs)[p] = "closed" => st[p] = "closed"
             /\ RepickPosting(st, hs)[p] = "closed" => st[p] = "closed"
             /\ MarkPublished(st, hs)[p] = "closed" => st[p] = "closed"
             /\ MarkFailed(st, hs)[p] = "closed" => st[p] = "closed"
  BY DEF PickPosting, PassPosting, RepickPosting, MarkPublished, MarkFailed, InsertNew, UpdateFrom
<1>2. ASSUME NEW r \in LinkRuns, NEW q \in Postings, LinksPick(r, q) PROVE NoneClosed
  BY <1>0, <1>1, <1>2, StoreTypes DEF LinksPick
<1>3. ASSUME NEW r \in LinkRuns, NEW q \in Postings, LinksSpawn(r, q) PROVE NoneClosed
  BY <1>0, <1>1, <1>3 DEF LinksSpawn
<1>4. ASSUME NEW a \in AppRuns, AppPublish(a) \/ AppFailed(a) PROVE NoneClosed
  BY <1>0, <1>1, <1>4 DEF AppPublish, AppFailed
<1>5. ASSUME NEW S \in SUBSET Postings, NEW T \in SUBSET Postings, HuntTaskFails(S, T) PROVE NoneClosed
  BY <1>0, <1>1, <1>5, StoreTypes DEF HuntTaskFails
<1>6. ASSUME NEW unfit \in SUBSET Postings, NEW fit \in SUBSET Postings,
             NEW best \in SUBSET Postings, HuntPick(unfit, fit, best)
      PROVE  NoneClosed
  BY <1>0, <1>1, <1>6, StoreTypes DEF HuntPick
<1>7. ASSUME NEW q \in Postings, HuntSpawn(q) PROVE NoneClosed
  BY <1>0, <1>1, <1>7 DEF HuntSpawn
<1>8. ASSUME NEW q \in Postings, HuntExpire(q) PROVE NoneClosed
  BY <1>0, <1>1, <1>8 DEF HuntExpire
<1> QED BY <1>2, <1>3, <1>4, <1>5, <1>6, <1>7, <1>8, PostingChange DEF PostingWrite

(* A step that writes an application writes nothing else of a posting.     *)
LEMMA PromiseStep ==
    ASSUME IInv, [Next]_vars
    PROVE  Promise!ReviewNext \/ UNCHANGED <<app, posting>>
<1>1. CASE UNCHANGED app
  BY <1>1, OnlyCheckCloses, ClosingSettles, TakingUp
<1>2. ASSUME NEW q \in Postings, Review(q) PROVE Promise!ReviewNext
  BY <1>2, ReviewSettles
<1>3. ASSUME NEW a \in AppRuns, AppSave(a)
      PROVE  Promise!ReviewNext \/ UNCHANGED <<app, posting>>
  BY <1>3, SavingShows
<1> QED BY <1>1, <1>2, <1>3, AppChange

(* The job assistant implements PostingReview: whatever fails, and in      *)
(* whichever order the runs, the search, the listener and the user take    *)
(* their steps, each posting is attempted before anything is shown for it, *)
(* shown at most once, and never again once it is settled.                 *)
THEOREM KeepsPromiseAlways == Spec => KeepsPromise
<1>1. Init => Promise!ReviewInit
  <2> SUFFICES ASSUME Init PROVE [p \in Postings |-> StageOf(p)] = [p \in Postings |-> "unseen"]
    BY DEF Promise!ReviewInit
  <2>1. ASSUME NEW p \in Postings PROVE StageOf(p) = "unseen"
    BY StageValue DEF Init, IsRecorded
  <2> QED BY <2>1
<1>2. IInv /\ [Next]_vars => [Promise!ReviewNext]_([p \in Postings |-> StageOf(p)])
  <2>1. UNCHANGED <<app, posting>> => UNCHANGED [p \in Postings |-> StageOf(p)]
    BY DEF StageOf
  <2> QED BY <2>1, PromiseStep
<1> QED BY <1>1, <1>2, Invariance, PTL DEF Spec, KeepsPromise, Promise!ReviewSpec
=============================================================================
