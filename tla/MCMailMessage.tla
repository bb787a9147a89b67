--------------------------- MODULE MCMailMessage ---------------------------
EXTENDS MailMessage

CONSTANTS m1, m2

Task(key, state) == [note |-> "task", kind |-> "task", update |-> FALSE, key |-> key, state |-> state]

Person == [note |-> "person", kind |-> "person", update |-> FALSE, key |-> NoKey, state |-> ""]

(* Nothing, an order and who sent it, or what became of the order.         *)
MCJudgings == {<<>>, <<Task("order", "open"), Person>>, <<Task(NoKey, "done")>>}

MCContact == {<<>>, <<Person>>}

ASSUME KeysApart

(* The script does not see the run: its steps are taken between runs, and  *)
(* while it may still send. A request accepted whose answer is lost is one *)
(* accepted whose label is taken off, unless it was the last try. What a   *)
(* chat does matters to a run before its reads and between its reads and   *)
(* its writes. Chats leave the contact alone, close the order's item as    *)
(* done and save the note's own once. One run at a time waits for a        *)
(* replay, none from its turn, which wrote nothing yet; the second message *)
(* fails at once or not.                                                   *)
Reduced ==
    /\ scriptVars' # scriptVars =>
         run = Idle /\ queue = <<>> /\ (sent < MaxSent \/ trusted' # trusted)
    /\ sent' # sent => fails'[m1] = 0
    /\ fails'[m2] = 0
    /\ dead'[m1] = Idle \/ dead'[m2] = Idle
    /\ \A m \in Mails : dead'[m].at # "relate"
    /\ (run = run' /\ memoryVars' # memoryVars) =>
         /\ \/ run = Idle /\ queue # <<>>
            \/ run.at \in {"write", "row"} /\ Item.note = "task"
         /\ ("person" \in notes' <=> "person" \in notes) /\ "person" \notin chats'
         /\ rows'["task"] # rows["task"] => rows["task"] = NoRow
         /\ rows'["order"] # rows["order"] => rows'["order"].state = "done"
    /\ (run # Idle /\ run' = Idle /\ message' = message) => run.at \notin {"save", "write", "row"}
=============================================================================
