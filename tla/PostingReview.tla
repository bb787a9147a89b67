--------------------------- MODULE PostingReview ---------------------------
(***************************************************************************)
(* What the job assistant promises a user about each posting, whatever     *)
(* fails: it is attempted before anything is shown for it, it is shown at  *)
(* most once, one posting at a time, and once it is settled, by the user's *)
(* review or because it disappeared, it is never shown as new again.       *)
(***************************************************************************)
CONSTANT Postings

VARIABLE stage

Stages == {"unseen", "attempted", "ready", "settled"}

ReviewInit == stage = [p \in Postings |-> "unseen"]

Move(S, from, to) ==
    /\ \A p \in S : stage[p] = from
    /\ stage' = [p \in Postings |-> IF p \in S THEN to ELSE stage[p]]

(* A search or a link takes postings up.                                   *)
Attempt(S) == Move(S, "unseen", "attempted")

(* An application becomes ready for the user to review.                    *)
Show(p) == Move({p}, "attempted", "ready")

(* The user reviews, or the search closes what disappeared.                *)
Settle(S) == Move(S, "ready", "settled")

ReviewNext ==
    \/ \E S \in SUBSET Postings : Attempt(S) \/ Settle(S)
    \/ \E p \in Postings : Show(p)

ReviewSpec == ReviewInit /\ [][ReviewNext]_stage
=============================================================================
