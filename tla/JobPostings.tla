---------------------------- MODULE JobPostings ----------------------------
(***************************************************************************)
(* The job_postings table of the store (memory/store/jobs.go), of one      *)
(* user: every statement is keyed by (user_id, url_hash).  A table is a    *)
(* function from canonical posting URLs (their url hashes) to a status,    *)
(* "none" standing for no row.  Each operator is one SQL statement, which  *)
(* SQLite runs atomically: its WHERE or ON CONFLICT clause is the IF.      *)
(* They take sets of hashes, since ClosePostings takes a list of them in   *)
(* one transaction and callers loop over the others.                       *)
(***************************************************************************)

PostingStatus == {"none", "picked", "published", "failed", "closed", "passed"}

(* Picked and published postings are open: the user has not dealt with     *)
(* them yet.                                                               *)
OpenStatus == {"picked", "published"}

WithStatus(st, S) == {p \in DOMAIN st : st[p] \in S}

(* An INSERT ... ON CONFLICT DO NOTHING with the given status.             *)
InsertNew(st, hs, s) ==
    [p \in DOMAIN st |-> IF p \in hs /\ st[p] = "none" THEN s ELSE st[p]]

(* An UPDATE of the rows of hs whose status is in from.                    *)
UpdateFrom(st, hs, from, s) ==
    [p \in DOMAIN st |-> IF p \in hs /\ st[p] \in from THEN s ELSE st[p]]

(* Faulty variants: repicking whatever the status, and what was closed.    *)
RepickAny(st, hs) == UpdateFrom(st, hs, PostingStatus, "picked")
RepickClosed(st, hs) == UpdateFrom(st, hs, {"passed", "failed", "closed"}, "picked")

PickPosting(st, hs)   == InsertNew(st, hs, "picked")
PassPosting(st, hs)   == InsertNew(st, hs, "passed")
RepickPosting(st, hs) == UpdateFrom(st, hs, {"passed", "failed"}, "picked")
MarkPublished(st, hs) == UpdateFrom(st, hs, {"picked"}, "published")
MarkFailed(st, hs)    == UpdateFrom(st, hs, {"picked"}, "failed")
ClosePostings(st, hs) == UpdateFrom(st, hs, PostingStatus \ {"none", "closed"}, "closed")

(* UnseenPostings keeps the urls with no row.                              *)
UnseenPostings(st, hs) == hs \cap WithStatus(st, {"none"})
=============================================================================
