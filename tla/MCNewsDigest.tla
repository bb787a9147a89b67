--------------------------- MODULE MCNewsDigest ----------------------------
EXTENDS NewsDigest, TLC

CONSTANTS go, tech, r1, r2, e1

(* The first three links are of one interest.                              *)
MCInterestOf == [i \in Items |-> IF i < 4 THEN go ELSE tech]

(* A ranking finds a story worth telling, a smaller item, or nothing.      *)
MCJudged ==
    {[include |-> TRUE, mean |-> 7, story |-> "launch", category |-> "release"],
     [include |-> TRUE, mean |-> 6, story |-> NoName, category |-> "article"],
     [include |-> FALSE, mean |-> 8, story |-> NoName, category |-> NoName]}

MCEventOf == [d \in Deliveries |-> e1]
MCEmojiOf == [e \in {e1} |-> -1]

Symmetry == Permutations(Deliveries)

(* A run reads the interests, the time and the feedback up to PickItems,   *)
(* and is seen only once it has posted: steps of the others before that    *)
(* come to the same when they are taken before the run starts. A link a    *)
(* ranking leaves out is like one it was not given: the last one will do.  *)
(* Why an interest is not active is all the same to a run.                 *)
Reduced ==
    /\ \A j \in run'.judged : ~j.include => j.item = 4
    /\ follow' # follow => run.at = "idle" /\ queue # <<>>
    /\ run'.at = "check" => follow[go] \in {"active", "muted"} /\ follow[tech] \in {"active", "absent"}
    /\ started' # started => run.at = "idle"
    /\ now' # now \/ task' # task => run.at \in {"idle", "complete"}
=============================================================================
