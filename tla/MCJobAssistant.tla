-------------------------- MODULE MCJobAssistant ---------------------------
EXTENDS JobAssistant, TLC

CONSTANTS p1, p2, l1, l2, l3

(* Both links lead to the first posting.                                   *)
SameTarget == [l \in Links |-> p1]

(* Each link leads to a posting of its own, the third to none.             *)
OwnTarget == [l \in Links |-> IF l = l1 THEN p1 ELSE IF l = l2 THEN p2 ELSE NoPosting]

Symmetry == Permutations(LinkRuns) \cup Permutations(AppRuns)

(* Two links to one posting differ in nothing else.                        *)
SameSymmetry == Symmetry \cup Permutations(Links)

(* No search runs and no posting disappears: links alone.                   *)
NoHunts == UNCHANGED <<hunt, gone>>

(* No posting disappears: one that can't be read is not read either way.   *)
NothingGone == UNCHANGED gone

(* The cron finds no stale link.                                           *)
NoRequeue == UNCHANGED requeue
=============================================================================
