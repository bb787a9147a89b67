---------------------------- MODULE WebChannel -----------------------------
(***************************************************************************)
(* What the worker's Firestore client (channels/web/web.go) does to one    *)
(* profile's documents: links/{id}, a function from link ids to a status,  *)
(* and applications/{id}, a function from url hashes to a review state.    *)
(* "absent" is a link the user has not added yet, "removed" one they       *)
(* deleted; "none" is an application not written.  The code tells the      *)
(* reviews applied and dismissed apart nowhere: both are "reviewed".  A    *)
(* link that is done has a reason: "inflight" is one whose posting is      *)
(* being drafted (linkInFlight), "done" any other.                         *)
(***************************************************************************)

LinkStatuses == {"absent", "queued", "processing", "inflight", "done", "failed", "removed"}
DoneStatuses == {"inflight", "done"}
NoDocument == {"absent", "removed"}
AppStatuses == {"none", "ready", "reviewed"}

(* Faulty variants: a Set that creates the document, and an application    *)
(* written over the one that is there.                                     *)
SetLinkCreating(lk, ids, s) == [l \in DOMAIN lk |-> IF l \in ids THEN s ELSE lk[l]]
SaveOverwriting(ap, h) == [ap EXCEPT ![h] = "ready"]

(* A Firestore Update fails with NotFound on a document that is not there, *)
(* which SetLink reports as ok = false and its callers ignore.             *)
SetLink(lk, ids, s) ==
    [l \in DOMAIN lk |-> IF l \in ids /\ lk[l] \notin NoDocument THEN s ELSE lk[l]]

(* ClaimLinks, one transaction: the links of the batch still queued, which *)
(* it marks processing.                                                    *)
Claimable(lk, batch) == {l \in batch : lk[l] = "queued"}
ClaimLinks(lk, batch) ==
    [l \in DOMAIN lk |-> IF l \in Claimable(lk, batch) THEN "processing" ELSE lk[l]]

(* LinkStatus of each id, kept when it is processing: what failPending     *)
(* collects before it writes anything.                                     *)
Pending(lk, ids) == {l \in ids : lk[l] = "processing"}

(* SaveApplication is a Create: AlreadyExists is success, so what is there *)
(* stays, and with it the user's review.                                   *)
SaveApplication(ap, h) == IF ap[h] = "none" THEN [ap EXCEPT ![h] = "ready"] ELSE ap
=============================================================================
