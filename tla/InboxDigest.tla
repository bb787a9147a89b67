---------------------------- MODULE InboxDigest ----------------------------
(***************************************************************************)
(* The Owner's inbox digest (inbox_digest.go): each morning's cron starts  *)
(* a run, one at a time, which reads what is due and the mail that was not *)
(* saved (the tables of MailMessage: any day may have some), drafts the    *)
(* message, reserves the day (store/inbox.go), posts and records it, and   *)
(* has its thread resume the drafting session.                             *)
(***************************************************************************)
EXTENDS Conversations

CONSTANT
    MaxDigests      \* bound: how many digest runs are started

ASSUME DigestsAssumption == MaxDigests \in Nat

VARIABLES
    due,       \* the runs that wait for their turn, by day
    digests,   \* how many were started
    digest,    \* the run that has its turn
    day,       \* inbox_digests: "free", "reserved" or "posted", per day
    sent       \* history: the digests Slack answered for, per day

inboxVars == <<due, digests, digest, day, sent>>

NoDigest == [at |-> "idle", day |-> 0, ts |-> 0]

InboxInit ==
    /\ due = <<>> /\ digests = 0 /\ digest = NoDigest
    /\ day = [d \in Days |-> "free"] /\ sent = [d \in Days |-> 0]

(* The cron, which may be retried, or a run started again by hand.         *)
InboxDigests ==
    /\ digests < MaxDigests
    /\ digests' = digests + 1
    /\ due' = Append(due, today)
    /\ UNCHANGED <<talkVars, digest, day, sent>>

DigestStarts ==
    /\ digest.at = "idle" /\ due # <<>>
    /\ digest' = [NoDigest EXCEPT !.at = "check", !.day = Head(due)]
    /\ due' = Tail(due)
    /\ UNCHANGED <<talkVars, digests, day, sent>>

DigestMoves(next) ==
    /\ digest' = next
    /\ UNCHANGED <<due, digests>>

(* A reserved day counts as posted; a day with nothing due is skipped.     *)
CheckInbox ==
    /\ digest.at = "check"
    /\ \/ DigestMoves(NoDigest)
       \/ day[digest.day] = "free" /\ DigestMoves([digest EXCEPT !.at = "draft"])
    /\ UNCHANGED <<talkVars, day, sent>>

DraftInbox ==
    /\ digest.at = "draft"
    /\ DigestMoves([digest EXCEPT !.at = "reserve"])
    /\ UNCHANGED <<talkVars, day, sent>>

(* Faulty variant: the day is not reserved.                                *)
PostUnreserved ==
    /\ digest.at = "reserve"
    /\ DigestMoves(IF day[digest.day] = "free" THEN [digest EXCEPT !.at = "slack"] ELSE NoDigest)
    /\ UNCHANGED <<talkVars, day, sent>>

(* ReserveInbox: an INSERT that does nothing when the day has a row.       *)
ReserveInbox ==
    /\ digest.at = "reserve"
    /\ IF day[digest.day] = "free"
       THEN /\ day' = [day EXCEPT ![digest.day] = "reserved"]
            /\ DigestMoves([digest EXCEPT !.at = "slack"])
       ELSE DigestMoves(NoDigest) /\ UNCHANGED day
    /\ UNCHANGED <<talkVars, sent>>

InboxMessage ==
    /\ Posted("inbox")
    /\ UNCHANGED <<today, members, ready, said, again, events, marked, turns, asked, exercises>>

PostInbox ==
    /\ digest.at = "slack"
    /\ InboxMessage
    /\ sent' = [sent EXCEPT ![digest.day] = @ + 1]
    /\ DigestMoves([digest EXCEPT !.at = "complete", !.ts = Len(posts) + 1])
    /\ UNCHANGED day

(* The call fails, though Slack may have written the message.              *)
PostFails ==
    /\ digest.at = "slack"
    /\ InboxMessage \/ UNCHANGED talkVars
    /\ DigestMoves([digest EXCEPT !.at = "release"])
    /\ UNCHANGED <<day, sent>>

(* The worker stops while Slack answers.                                   *)
PostStops ==
    /\ digest.at = "slack"
    /\ InboxMessage
    /\ sent' = [sent EXCEPT ![digest.day] = @ + 1]
    /\ DigestMoves(NoDigest)
    /\ UNCHANGED day

(* ReleaseInbox, with a context of its own; the run has failed.            *)
ReleaseInbox ==
    /\ digest.at = "release"
    /\ day' = [day EXCEPT ![digest.day] = IF @ = "reserved" THEN "free" ELSE @]
    /\ DigestMoves(NoDigest)
    /\ UNCHANGED <<talkVars, sent>>

CompleteInbox ==
    /\ digest.at = "complete"
    /\ day' = [day EXCEPT ![digest.day] = "posted"]
    /\ DigestMoves([digest EXCEPT !.at = "thread"])
    /\ UNCHANGED <<talkVars, sent>>

SaveInboxThread ==
    /\ digest.at = "thread"
    /\ SaveThread(digest.ts, Owner, Session(Owner, digest.ts))
    /\ DigestMoves(NoDigest)
    /\ UNCHANGED <<today, members, ready, posts, said, again, events, marked, turns, asked,
                   exercises, handled, day, sent>>

(* A task fails for good, or the worker stops, at any other point.         *)
DigestFails ==
    /\ digest.at # "idle"
    /\ DigestMoves(NoDigest)
    /\ UNCHANGED <<talkVars, day, sent>>

InboxNext ==
    \/ InboxDigests \/ DigestStarts \/ CheckInbox \/ DraftInbox \/ ReserveInbox \/ PostInbox
    \/ PostFails \/ PostStops \/ ReleaseInbox \/ CompleteInbox \/ SaveInboxThread \/ DigestFails

-----------------------------------------------------------------------------
InboxTypeOK ==
    /\ due \in Seq(Days) /\ digests \in 0..MaxDigests
    /\ digest.at \in {"idle", "check", "draft", "reserve", "slack", "release", "complete", "thread"}
    /\ digest.day \in Days
    /\ digest.at \in {"complete", "thread"} =>
         /\ digest.ts \in DOMAIN posts /\ posts[digest.ts].channel = "inbox"
         /\ digest.at = "thread" => day[digest.day] = "posted"
    /\ day \in [Days -> {"free", "reserved", "posted"}] /\ sent \in [Days -> Nat]

Once == INSTANCE PostOnce WITH Slots <- Days, mark <- day, sent <- sent

(* A day's digest is posted at most once (inbox_digest.go:322, "a run that *)
(* dies after posting is never replayed into a second post").              *)
PostsOnce == Once!Spec
=============================================================================
