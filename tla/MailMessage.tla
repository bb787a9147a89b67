---------------------------- MODULE MailMessage ----------------------------
(***************************************************************************)
(* A user's mail: the Gmail script that sends it (deploy/apps-script), the *)
(* mail-message runs that read it, one at a time (mail_message.go), and    *)
(* what they leave: the message's row (store/mail.go), notes, the items of *)
(* tasks and events (store/items.go), and a broker's trades, which         *)
(* FinanceReconcile follows from there. The user's chats write and delete  *)
(* notes meanwhile with the tools of Basic Memory (mcp_servers.go), close  *)
(* items and save their own (mcp/tools/items.go).                          *)
(*                                                                         *)
(* A message picked an hour ago is stuck; hours are not measured, so any   *)
(* message a run left as picked may be found stuck. Accounts are connected *)
(* and sign their requests; heartbeats say nothing here. Judgings leaves   *)
(* out items that break the schemas' layout, which are dropped.            *)
(***************************************************************************)
EXTENDS Naturals, Sequences, FiniteSets

CONSTANTS
    Mails,
    Brokers,        \* the mails of a broker's domain
    Notes,          \* by permalink; a note's title is its own
    OwnKeys,        \* keys that are no title: booking or invoice numbers
    Judgings,       \* what a turn may say of a mail: sequences of items
    NoKey, NoRow,
    MaxFails,       \* MAX_FAILS of the script
    MaxSent         \* bound: how many requests the webhook accepts

ASSUME BrokersAssumption == Brokers \subseteq Mails
ASSUME KeysAssumption == NoKey \notin Notes \cup OwnKeys

Keys == Notes \cup OwnKeys
States == {"open", "done", "cancelled"}
Items ==
    [note : Notes, kind : {"task", "event", "person"}, update : BOOLEAN,
     key : Keys \cup {NoKey}, state : States \cup {""}]

ASSUME NoRowAssumption == NoRow \notin [note : Notes, state : States]
ASSUME JudgingsAssumption == Judgings \subseteq Seq(Items)
ASSUME BoundsAssumption == MaxFails \in Nat \ {0} /\ MaxSent \in Nat

VARIABLES
    label,     \* Gmail's: "new", "sent", "skip", "error"
    fails,     \* the days the script failed on each message
    backfill,  \* the user trusts the broker and has its past mail sent
    trusted,   \* the user trusts the broker's domain
    sent,      \* how many requests were accepted
    queue,     \* the requests whose run has not started
    run,       \* the run that has its turn
    dead,      \* of each message, its run that failed last, for a replay
    message,   \* mail_messages: status and category; "none" without a row
    notes,     \* the notes of memory
    rows,      \* items, by key
    ledger,    \* the mails with rows in trade_events
    chats,     \* history: the notes last written, deleted or named by a chat
    promised   \* history: the items saved by the save that finished a mail

scriptVars == <<label, fails, backfill, trusted, sent>>
memoryVars == <<notes, rows, ledger, chats>>
vars == <<label, fails, backfill, trusted, sent, queue, run, dead, message,
              notes, rows, ledger, chats, promised>>

Idle == [at |-> "idle"]

Run(at, m, category, broker, todo, n, saved) ==
    [at |-> at, mail |-> m, category |-> category, broker |-> broker, todo |-> todo,
     n |-> n, saved |-> saved, key |-> NoKey]

Init ==
    /\ label = [m \in Mails |-> "new"] /\ fails = [m \in Mails |-> 0]
    /\ backfill = FALSE /\ trusted = FALSE /\ sent = 0
    /\ queue = <<>> /\ run = Idle /\ dead = [m \in Mails |-> Idle]
    /\ message = [m \in Mails |-> [status |-> "none", category |-> "other"]]
    /\ notes = {} /\ rows = [k \in Keys |-> NoRow] /\ ledger = {} /\ chats = {}
    /\ promised = [m \in Mails |-> {}]

-----------------------------------------------------------------------------
(* The script. It sends a message until the webhook accepts it, or it has  *)
(* failed on MaxFails days.                                                *)

Backfilled(m) == backfill /\ m \in Brokers

Found(m) == label[m] = "new" \/ (Backfilled(m) /\ label[m] = "skip")

Categories(m) ==
    IF Backfilled(m) THEN {"finance"}
    ELSE IF m \in Brokers THEN {"finance", "other"} ELSE {"other"}

ScriptSkips(m) ==
    /\ Found(m) /\ ~Backfilled(m)
    /\ label' = [label EXCEPT ![m] = "skip"]
    /\ fails' = [fails EXCEPT ![m] = 0]
    /\ UNCHANGED <<backfill, trusted, sent, queue, run, dead, message, memoryVars, promised>>

(* Faulty variant: one more day.                                           *)
LastTryLate(m) == fails[m] >= MaxFails

LastTry(m) == fails[m] + 1 >= MaxFails

(* Sorting fails, or the webhook's answer is lost, though it may have      *)
(* accepted the message.                                                   *)
ScriptFails(m) ==
    /\ Found(m)
    /\ IF LastTry(m)
       THEN /\ label' = [label EXCEPT ![m] = "error"]
            /\ fails' = [fails EXCEPT ![m] = 0]
       ELSE /\ fails' = [fails EXCEPT ![m] = @ + 1]
            /\ UNCHANGED label
    /\ \/ UNCHANGED <<sent, queue>>
       \/ \E c \in Categories(m) :
            /\ sent < MaxSent /\ sent' = sent + 1
            /\ queue' = Append(queue, [mail |-> m, category |-> c])
    /\ UNCHANGED <<backfill, trusted, run, dead, message, memoryVars, promised>>

ScriptSends(m) ==
    /\ Found(m) /\ sent < MaxSent
    /\ label' = [label EXCEPT ![m] = "sent"]
    /\ fails' = [fails EXCEPT ![m] = 0]
    /\ sent' = sent + 1
    /\ \E c \in Categories(m) : queue' = Append(queue, [mail |-> m, category |-> c])
    /\ UNCHANGED <<backfill, trusted, run, dead, message, memoryVars, promised>>

(* The webhook refuses the message, which is sent again and never given up.*)
ScriptRefused(m) ==
    /\ Found(m)
    /\ fails' = [fails EXCEPT ![m] = 0]
    /\ UNCHANGED <<label, backfill, trusted, sent, queue, run, dead, message, memoryVars, promised>>

(* The user takes the label off, to send the message again.                *)
RemoveLabel(m) ==
    /\ label[m] = "sent"
    /\ label' = [label EXCEPT ![m] = "new"]
    /\ UNCHANGED <<fails, backfill, trusted, sent, queue, run, dead, message, memoryVars, promised>>

(* trust_mail_sender, in a chat.                                           *)
TrustSender ==
    /\ Brokers # {} /\ ~trusted
    /\ trusted' = TRUE
    /\ UNCHANGED <<label, fails, backfill, sent, queue, run, dead, message, memoryVars, promised>>

(* The user has the script send the broker's past mail as finance mail.    *)
Backfill ==
    /\ trusted /\ ~backfill
    /\ backfill' = TRUE
    /\ label' = [m \in Mails |-> IF m \in Brokers /\ label[m] = "sent" THEN "new" ELSE label[m]]
    /\ UNCHANGED <<fails, trusted, sent, queue, run, dead, message, memoryVars, promised>>

-----------------------------------------------------------------------------
(* The message's row.                                                      *)

(* PickMessage takes a message sent for the first time, one that failed or *)
(* is stuck, and one that now goes to the ledger and did not then.         *)
MayPick(m, category, stuck) ==
    \/ message[m].status \in {"none", "failed"}
    \/ message[m].status = "picked" /\ stuck
    \/ category = "finance" /\ message[m].category # "finance"

PickMessage(m, category) ==
    message' = [message EXCEPT ![m] = [status |-> "picked", category |-> category]]

(* Faulty variant: whatever the message's status.                          *)
FinishAny(m, status) == message' = [message EXCEPT ![m].status = status]

(* Only a picked or failed message is finished.                            *)
FinishMessage(m, status) ==
    message' = IF message[m].status \in {"picked", "failed"}
               THEN [message EXCEPT ![m].status = status] ELSE message

-----------------------------------------------------------------------------
(* A run.                                                                  *)

RunMoves(next) ==
    /\ run' = next
    /\ UNCHANGED <<scriptVars, queue>>

RunStarts ==
    /\ run = Idle /\ queue # <<>>
    /\ run' = Run("check", Head(queue).mail, Head(queue).category, FALSE, <<>>, 1, 0)
    /\ queue' = Tail(queue)
    /\ UNCHANGED <<scriptVars, dead, message, memoryVars, promised>>

(* financeMail: a broker's mail goes to the ledger of a user who trusts    *)
(* it, and nowhere when it is finance mail and they don't. The task's      *)
(* result may be lost after its pick, and the task retried.                *)
CheckMail ==
    /\ run.at = "check"
    /\ LET m == run.mail
           broker == m \in Brokers /\ trusted
           category == IF broker THEN "finance" ELSE run.category
       IN  \/ /\ ~broker /\ category = "finance"
              /\ RunMoves(Idle)
              /\ UNCHANGED message
           \/ /\ broker \/ category # "finance"
              /\ \E stuck \in BOOLEAN :
                   IF MayPick(m, category, stuck)
                   THEN /\ PickMessage(m, category)
                        /\ RunMoves([run EXCEPT !.at = "relate", !.category = category, !.broker = broker])
                   ELSE RunMoves(Idle) /\ UNCHANGED message
           \/ /\ broker \/ category # "finance"
              /\ MayPick(m, category, FALSE)
              /\ PickMessage(m, category)
              /\ RunMoves(run)
    /\ UNCHANGED <<dead, memoryVars, promised>>

(* The turn of a mail, which finds what it is about, or of a broker's,     *)
(* which reads its trades: it has some or none that pass the checks.       *)
Relate ==
    /\ run.at = "relate"
    /\ IF run.broker
       THEN \E at \in {"trades", "finish"} : RunMoves([run EXCEPT !.at = at, !.saved = 0])
       ELSE \E j \in Judgings : RunMoves([run EXCEPT !.at = "save", !.todo = j, !.n = 1, !.saved = 0])
    /\ UNCHANGED <<dead, message, memoryVars, promised>>

(* saveTrades up to FinishMessage.                                         *)
SaveTrades ==
    /\ run.at = "trades"
    /\ ledger' = ledger \cup {run.mail}
    /\ RunMoves([run EXCEPT !.at = "finish", !.saved = 1])
    /\ UNCHANGED <<dead, message, notes, rows, chats, promised>>

(* The item saved next.                                                    *)
Item == run.todo[run.n]

(* A new person whose address a note lists is dropped.                     *)
Dropped(it) == it.kind = "person" /\ ~it.update /\ it.note \in notes

OpenRowsOf(note) == {k \in Keys : rows[k] # NoRow /\ rows[k].note = note /\ rows[k].state = "open"}

(* An item without a key takes that of a row of its note, if the note is   *)
(* there and Items, which lists open rows, has one; else its title.        *)
KeyOf(it) ==
    IF it.key # NoKey THEN {it.key}
    ELSE IF it.note \in notes /\ OpenRowsOf(it.note) # {} THEN OpenRowsOf(it.note)
    ELSE {it.note}

SaveEnds == run.n > Len(run.todo)

(* saveRelated's reads: of the note, the contact and the open items, from  *)
(* which the item's key is.                                                *)
ReadItem ==
    /\ run.at = "save" /\ ~SaveEnds
    /\ IF Dropped(Item)
       THEN RunMoves([run EXCEPT !.n = @ + 1])
       ELSE \E k \in KeyOf(Item) : RunMoves([run EXCEPT !.at = "write", !.key = k])
    /\ UNCHANGED <<dead, message, memoryVars, promised>>

(* Faulty variant: a note that can't be written is left out.               *)
WriteOrNot ==
    /\ run.at = "write"
    /\ \/ notes' = notes \cup {Item.note} /\ chats' = chats \ {Item.note}
       \/ UNCHANGED <<notes, chats>>
    /\ RunMoves([run EXCEPT !.at = "row"])
    /\ UNCHANGED <<dead, message, rows, ledger, promised>>

(* WriteNote: the note's file is there, whatever became of it meanwhile.   *)
WriteNote ==
    /\ run.at = "write"
    /\ notes' = notes \cup {Item.note}
    /\ chats' = chats \ {Item.note}
    /\ RunMoves([run EXCEPT !.at = "row"])
    /\ UNCHANGED <<dead, message, rows, ledger, promised>>

(* PutItem: a mail's item always has a state, a chat's never.              *)
Put(k, note, state) ==
    [rows EXCEPT ![k] = [note |-> note,
                         state |-> IF state # "" THEN state
                                   ELSE IF rows[k] # NoRow THEN rows[k].state ELSE "open"]]

NextItem == [run EXCEPT !.at = "save", !.n = @ + 1, !.saved = @ + 1, !.key = NoKey]

(* Faulty variant: a row that can't be written is left out.                *)
PutOrNot ==
    /\ run.at = "row"
    /\ \/ Item.kind # "person" /\ rows' = Put(run.key, Item.note, Item.state)
       \/ UNCHANGED rows
    /\ RunMoves(NextItem)
    /\ UNCHANGED <<dead, message, notes, ledger, chats, promised>>

PutItem ==
    /\ run.at = "row"
    /\ rows' = IF Item.kind = "person" THEN rows ELSE Put(run.key, Item.note, Item.state)
    /\ RunMoves(NextItem)
    /\ UNCHANGED <<dead, message, notes, ledger, chats, promised>>

Saved == {run.todo[i] : i \in 1..Len(run.todo)}

(* The message is done, or skipped when nothing was saved.                 *)
SaveFinishes ==
    /\ \/ run.at = "finish"
       \/ run.at = "save" /\ SaveEnds
    /\ FinishMessage(run.mail, IF run.saved = 0 THEN "skipped" ELSE "done")
    /\ promised' = IF run.saved = 0 \/ message[run.mail].status \notin {"picked", "failed"} THEN promised
                   ELSE [promised EXCEPT ![run.mail] = Saved]
    /\ RunMoves([run EXCEPT !.at = "finished"])
    /\ UNCHANGED <<dead, memoryVars>>

RunEnds ==
    /\ run.at = "finished"
    /\ RunMoves(Idle)
    /\ UNCHANGED <<dead, message, memoryVars, promised>>

(* Where a retry or a replay of the run's task begins.                     *)
TaskStart ==
    IF run.at \in {"check", "relate"} THEN run
    ELSE IF run.broker THEN [run EXCEPT !.at = "trades", !.saved = 0]
    ELSE [run EXCEPT !.at = "save", !.n = 1, !.saved = 0, !.key = NoKey]

(* save is tried again from its first line, its result lost or a call of   *)
(* it failed. A broker's mail without trades comes to the same again.      *)
SaveRetry ==
    /\ \/ run.at \in {"trades", "save", "write", "row"}
       \/ run.at \in {"finish", "finished"} /\ (run.broker => run.saved > 0)
    /\ RunMoves(TaskStart)
    /\ UNCHANGED <<dead, message, memoryVars, promised>>

(* A task fails for good; OnFailure marks the message failed, or fails too.*)
RunFails ==
    /\ run.at \notin {"idle", "failing"}
    /\ dead' = [dead EXCEPT ![run.mail] = TaskStart]
    /\ RunMoves([run EXCEPT !.at = "failing"])
    /\ UNCHANGED <<message, memoryVars, promised>>

OnFailure ==
    /\ run.at = "failing"
    /\ \/ FinishMessage(run.mail, "failed")
       \/ UNCHANGED message
    /\ RunMoves(Idle)
    /\ UNCHANGED <<dead, memoryVars, promised>>

(* The run is cancelled.                                                   *)
RunCancelled ==
    /\ run.at \notin {"idle", "failing"}
    /\ RunMoves(Idle)
    /\ UNCHANGED <<dead, message, memoryVars, promised>>

(* A failed run is replayed from the task that failed.                     *)
Replay(m) ==
    /\ run = Idle /\ dead[m] # Idle
    /\ run' = dead[m]
    /\ dead' = [dead EXCEPT ![m] = Idle]
    /\ UNCHANGED <<scriptVars, queue, message, memoryVars, promised>>

-----------------------------------------------------------------------------
(* The user's chats. They write notes and delete them, and a note they     *)
(* move is one deleted and one written; save_item stores the item of any   *)
(* note, there or not, under the note's title; close_item.                 *)

ChatWrites(note) ==
    /\ notes' = notes \cup {note}
    /\ chats' = chats \cup {note}
    /\ UNCHANGED <<scriptVars, queue, run, dead, message, rows, ledger, promised>>

ChatDeletes(note) ==
    /\ note \in notes
    /\ notes' = notes \ {note}
    /\ chats' = chats \cup {note}
    /\ UNCHANGED <<scriptVars, queue, run, dead, message, rows, ledger, promised>>

ChatSavesItem(note) ==
    /\ rows' = Put(note, note, "")
    /\ chats' = chats \cup {note}
    /\ UNCHANGED <<scriptVars, queue, run, dead, message, notes, ledger, promised>>

CloseItem(k, state) ==
    /\ rows[k] # NoRow
    /\ rows' = [rows EXCEPT ![k].state = state]
    /\ UNCHANGED <<scriptVars, queue, run, dead, message, notes, ledger, chats, promised>>

-----------------------------------------------------------------------------
RunSteps ==
    \/ RunStarts \/ CheckMail \/ Relate \/ SaveTrades \/ ReadItem \/ WriteNote
    \/ PutItem \/ SaveFinishes \/ RunEnds \/ SaveRetry \/ RunFails \/ OnFailure \/ RunCancelled

Next ==
    \/ \E m \in Mails : \/ ScriptSkips(m) \/ ScriptFails(m) \/ ScriptSends(m)
                        \/ ScriptRefused(m) \/ RemoveLabel(m) \/ Replay(m)
    \/ TrustSender \/ Backfill \/ RunSteps
    \/ \E n \in Notes : ChatWrites(n) \/ ChatDeletes(n) \/ ChatSavesItem(n)
    \/ \E k \in Keys, state \in States : CloseItem(k, state)

Spec == Init /\ [][Next]_vars

-----------------------------------------------------------------------------
TypeOK ==
    /\ label \in [Mails -> {"new", "sent", "skip", "error"}]
    /\ fails \in [Mails -> 0..(MaxFails - 1)] /\ sent \in 0..MaxSent
    /\ backfill \in BOOLEAN /\ trusted \in BOOLEAN
    /\ queue \in Seq([mail : Mails, category : {"finance", "other"}])
    /\ \A r \in {run} \cup {dead[m] : m \in Mails} :
         \/ r = Idle
         \/ /\ r.at \in {"check", "relate", "trades", "save", "write", "row", "finish", "finished", "failing"}
            /\ r.mail \in Mails /\ r.category \in {"finance", "other"}
            /\ r.broker => r.mail \in Brokers
            /\ r.todo \in Judgings \cup {<<>>} /\ r.key \in Keys \cup {NoKey}
            /\ r.n \in 1..(Len(r.todo) + 1)
            /\ r.at \in {"write", "row"} => r.n <= Len(r.todo) /\ r.key # NoKey
    /\ message \in [Mails -> [status : {"none", "picked", "done", "skipped", "failed"},
                              category : {"finance", "other"}]]
    /\ notes \subseteq Notes /\ chats \subseteq Notes /\ ledger \subseteq Brokers
    /\ rows \in [Keys -> [note : Notes, state : States] \cup {NoRow}]

(* No turn gives one key to two notes: PutItem moves the row of a key to   *)
(* the note saved with it last, and DoneHasAll is true only without that.  *)
(* A key is a note's own when it is its title or a turn gives it the note. *)
Owns(n, k) ==
    \/ k = n
    \/ k # NoKey /\ \E j \in Judgings : \E i \in 1..Len(j) : j[i].note = n /\ j[i].key = k
KeysApart == \A k \in Keys : \A n, o \in Notes : Owns(n, k) /\ Owns(o, k) => n = o

(* A message that is done has a note of each of its items, and each task   *)
(* or event a row: whichever task failed half way, was retried, replayed   *)
(* or done over for the message sent again. Only a chat takes a note away. *)
DoneHasAll ==
    \A m \in Mails : message[m].status = "done" /\ message[m].category # "finance" =>
        \A it \in promised[m] :
            /\ it.note \in notes \cup chats
            /\ it.kind # "person" => \E k \in Keys : rows[k] # NoRow /\ rows[k].note = it.note

(* A row names a note that is there, which the digest sends the agent to,  *)
(* unless a chat was the last to deal with the note: it may have deleted   *)
(* it, also between the note's save and the row's, or saved the item of a  *)
(* note it never wrote. No save of a mail leaves a row without its note.   *)
RowHasNote == \A k \in Keys : rows[k] # NoRow => rows[k].note \in notes \cup chats

(* A finished message stays so: no late failure, replay or second sending  *)
(* changes it, but that one read into memory is read into the ledger when  *)
(* its sender is trusted ("a message is read into the ledger once").       *)
FinishedStays ==
    [][\A m \in Mails : message[m].status \in {"done", "skipped"} /\ message'[m] # message[m] =>
          /\ message[m].category # "finance"
          /\ message'[m] = [status |-> "picked", category |-> "finance"]]_message

(* docs/architecture.md:216, "An update with no key keeps the note's row." *)
(* The save of such an item adds no row when its note has one.             *)
UpdateKeepsRow ==
    [][run.at = "row" /\ run' # run /\ Item.key = NoKey =>
          \A k \in Keys : rows[k] = NoRow /\ rows'[k] # NoRow =>
              ~\E l \in Keys : rows[l] # NoRow /\ rows[l].note = Item.note]_rows

(* docs/architecture.md:216, "The message ends done, or skipped when       *)
(* nothing was saved": when the only mail is skipped, the notes are those  *)
(* of chats.                                                               *)
SkippedSavedNothing ==
    \A m \in Mails : Mails = {m} /\ message[m].status = "skipped" => notes \subseteq chats

(* docs/architecture.md:218, the digest "lists the user's messages of the  *)
(* past week whose run failed or is stuck": a message whose run failed has *)
(* a row to be listed from.                                                *)
FailedIsListed ==
    [][run.at = "failing" /\ run'.at = "idle" => message'[run.mail].status # "none"]_vars
=============================================================================
