-------------------------- MODULE FinanceReconcile --------------------------
(***************************************************************************)
(* How what a user's brokers report becomes the trades of their ledger.    *)
(* Broker mails, imported report files and trades told in chat write       *)
(* trade_events (QuestDB), each as a source of its own; a reconcile        *)
(* settles the events into trades (QuestDB), one per day-group, and        *)
(* finance_dirty (SQLite) marks a user whose events changed since.  The    *)
(* two databases share no transaction.                                     *)
(*                                                                         *)
(* Everything is keyed by the user, so one user is the whole system.  What *)
(* a report says of a day-group is abstracted to saying something of it.   *)
(***************************************************************************)
EXTENDS Naturals, FiniteSets

CONSTANTS
    Mails,      \* broker mails, each a source
    Files,      \* report files the user uploaded, each a source by its hash
    Chats,      \* sources that record_trade calls write, one each
    Threads,    \* chat threads whose turns run side by side
    Groups,     \* day-groups: account, ISIN, day and side
    Task,       \* the finance-reconcile task, one run at a time per user
    None,
    MaxWrites,  \* bound: marks set, so writes begun
    MaxRuns     \* bound: runs of the task waiting for their turn

Sources == Mails \cup Files \cup Chats
Writers == Mails \cup Threads
Reconcilers == Threads \cup {Task}

ASSUME ConstantsAssumption ==
    /\ Mails \cap (Files \cup Chats \cup Threads) = {} /\ Files \cap Chats = {}
    /\ Task \notin Writers /\ None \notin Sources
    /\ MaxWrites \in Nat /\ MaxRuns \in Nat \ {0}

VARIABLES
    rows,      \* trade_events: of each source and day-group, the version of its row, 0 for none
    written,   \* the version the latest write took
    trades,    \* trades: of each day-group, the sources its fills come from, {} when blank
    clock,     \* the time the latest mark took
    mark,      \* finance_dirty.since, 0 when there is no row
    imported,  \* finance_uploads: the day-groups of a file's rows, {} when not imported
    writer,    \* what each mail's save task and each thread's turn is doing
    run,       \* the reconcile the task, or a thread's tool call, is in
    waiting,   \* runs of the task waiting for their turn
    trade      \* the trade a chat source tells: its first source (history)

ledger == <<rows, written>>
vars == <<ledger, trades, clock, mark, imported, writer, run, waiting, trade>>

Versions == 0 .. MaxWrites

WriterType ==
    [pc : {"idle", "mark", "add", "insert", "next", "reconcile", "trigger", "end"},
     src : Sources \cup {None}, says : SUBSET Groups, ver : Nat]
RunType ==
    [pc : {"idle", "read", "previous", "put", "clear"}, mark : Versions,
     seen : [Groups -> SUBSET Sources], old : SUBSET Groups]

Nothing == [g \in Groups |-> {}]
NoWrite == [pc |-> "idle", src |-> None, says |-> {}, ver |-> 0]
NoRun == [pc |-> "idle", mark |-> 0, seen |-> Nothing, old |-> {}]

Init ==
    /\ rows = [s \in Sources |-> [g \in Groups |-> 0]] /\ written = 0
    /\ trades = Nothing
    /\ clock = 0 /\ mark = 0
    /\ imported = [f \in Files |-> {}]
    /\ writer = [w \in Writers |-> NoWrite]
    /\ run = [r \in Reconcilers |-> NoRun] /\ waiting = 0
    /\ trade = [s \in Chats |-> None]

-----------------------------------------------------------------------------
(* TradeEvents: of each source, the rows of its latest write among them.   *)
Reports(s) ==
    {g \in Groups : rows[s][g] # 0 /\ \A h \in Groups : rows[s][h] <= rows[s][g]}

(* Reconcile: a trade per day-group, its copies counted once.  The result  *)
(* is a function of the events alone.                                      *)
Settled == [g \in Groups |-> {s \in Sources : g \in Reports(s)}]

(* Trades leaves out the day-groups that are blank.                        *)
Shown == {g \in Groups : trades[g] # {}}

-----------------------------------------------------------------------------
(* The writers: saveTrades of mail-message, and the tools import_report    *)
(* and record_trade.                                                       *)

Becomes(w, pc) == writer' = [writer EXCEPT ![w].pc = pc]

(* Runs of mail-message are serialized across all mails.                   *)
TakeMail(w) ==
    /\ w \in Mails /\ writer[w].pc = "idle"
    /\ \A m \in Mails : writer[m].pc \in {"idle", "end"}
    /\ \E says \in (SUBSET Groups) \ {{}} :
          writer' = [writer EXCEPT ![w] = [pc |-> "mark", src |-> w, says |-> says, ver |-> 0]]
    /\ UNCHANGED <<ledger, trades, clock, mark, imported, run, waiting, trade>>

(* FinanceUploadOf: a file already imported is refused.                    *)
ImportReport(w) ==
    /\ w \in Threads /\ writer[w].pc = "idle"
    /\ \E f \in Files, says \in (SUBSET Groups) \ {{}} :
          /\ imported[f] = {}
          /\ writer' = [writer EXCEPT ![w] = [pc |-> "mark", src |-> f, says |-> says, ver |-> 0]]
    /\ UNCHANGED <<ledger, trades, clock, mark, imported, run, waiting, trade>>

(* Each call of record_trade is a source of its own.  A turn whose call    *)
(* failed may call again for the same trade.                               *)
RecordTrade(w) ==
    /\ w \in Threads /\ writer[w].pc = "idle"
    /\ \E s \in Chats, g \in Groups :
          /\ trade[s] = None
          /\ LET last == writer[w].src
                 again == last \in Chats /\ writer[w].says = {g}
             IN  trade' = [trade EXCEPT ![s] = IF again THEN trade[last] ELSE s]
          /\ writer' = [writer EXCEPT ![w] = [pc |-> "mark", src |-> s, says |-> {g}, ver |-> 0]]
    /\ UNCHANGED <<ledger, trades, clock, mark, imported, run, waiting>>

MarkFinanceDirty(w) ==
    /\ writer[w].pc = "mark" /\ clock < MaxWrites
    /\ clock' = clock + 1 /\ mark' = clock + 1
    /\ Becomes(w, "add")
    /\ UNCHANGED <<ledger, trades, imported, run, waiting, trade>>

(* AddTradeEvents takes a version for the call, then inserts its rows, 50  *)
(* per statement; each row replaces the source's row of its key.           *)
AddTradeEvents(w) ==
    /\ writer[w].pc = "add"
    /\ written' = written + 1
    /\ writer' = [writer EXCEPT ![w].pc = "insert", ![w].ver = written + 1]
    /\ UNCHANGED <<rows, trades, clock, mark, imported, run, waiting, trade>>

Insert(w, gs) ==
    rows' = [rows EXCEPT ![writer[w].src] =
                [g \in Groups |-> IF g \in gs THEN writer[w].ver ELSE @[g]]]

(* Faulty variant: a statement that fails ends the insert without an error.*)
InsertUnchecked(w) ==
    /\ writer[w].pc = "insert"
    /\ \E gs \in SUBSET writer[w].says : gs # {} /\ Insert(w, gs)
    /\ Becomes(w, "next")
    /\ UNCHANGED <<written, trades, clock, mark, imported, run, waiting, trade>>

InsertSome(w) ==
    /\ writer[w].pc = "insert"
    /\ \E gs \in SUBSET writer[w].says : gs # {} /\ Insert(w, gs)
    /\ UNCHANGED <<written, trades, clock, mark, imported, writer, run, waiting, trade>>

InsertAll(w) ==
    /\ writer[w].pc = "insert"
    /\ Insert(w, writer[w].says)
    /\ Becomes(w, "next")
    /\ UNCHANGED <<written, trades, clock, mark, imported, run, waiting, trade>>

(* FinishMessage, after which a mail is never read again; SaveFinanceUpload*)
(* refuses a second row of a file; record_trade goes on to its reconcile.  *)
WriterNext(w) ==
    /\ writer[w].pc = "next"
    /\ LET f == writer[w].src IN
       \/ w \in Mails /\ Becomes(w, "trigger") /\ UNCHANGED imported
       \/ /\ f \in Files /\ imported[f] = {}
          /\ imported' = [imported EXCEPT ![f] = writer[w].says]
          /\ Becomes(w, "reconcile")
       \/ f \in Chats /\ Becomes(w, "reconcile") /\ UNCHANGED imported
    /\ UNCHANGED <<ledger, trades, clock, mark, run, waiting, trade>>

(* A save task that fails is retried, or fails for good; a turn whose call *)
(* failed may call again, or ends.  A worker that stops does the same.     *)
WriterFails(w) ==
    /\ writer[w].pc \in {"mark", "add", "insert", "next", "reconcile"}
    /\ IF w \in Mails THEN Becomes(w, "mark") \/ Becomes(w, "end")
       ELSE Becomes(w, "idle") \/ Becomes(w, "trigger")
    /\ run' = IF w \in Threads THEN [run EXCEPT ![w] = NoRun] ELSE run
    /\ UNCHANGED <<ledger, trades, clock, mark, imported, waiting, trade>>

(* financeTrigger, after a mail's save and after a turn: it starts a run   *)
(* for a user left dirty.  Its errors are only logged.                     *)
FinanceTrigger(w) ==
    /\ writer[w].pc = "trigger"
    /\ waiting' = IF mark # 0 /\ waiting < MaxRuns THEN waiting + 1 ELSE waiting
    /\ writer' = [writer EXCEPT ![w] = IF w \in Mails THEN [@ EXCEPT !.pc = "end"] ELSE NoWrite]
    /\ UNCHANGED <<ledger, trades, clock, mark, imported, run, trade>>

TriggerFails(w) ==
    /\ writer[w].pc = "trigger"
    /\ writer' = [writer EXCEPT ![w] = IF w \in Mails THEN [@ EXCEPT !.pc = "end"] ELSE NoWrite]
    /\ UNCHANGED <<ledger, trades, clock, mark, imported, run, waiting, trade>>

(* Faulty variant: it looks among the users who hold something.            *)
MarketOfHolders ==
    /\ mark # 0 /\ waiting < MaxRuns /\ Shown # {}
    /\ waiting' = waiting + 1
    /\ UNCHANGED <<ledger, trades, clock, mark, imported, writer, run, trade>>

(* The daily finance-market run starts one for a user left dirty.          *)
FinanceMarket ==
    /\ mark # 0 /\ waiting < MaxRuns
    /\ waiting' = waiting + 1
    /\ UNCHANGED <<ledger, trades, clock, mark, imported, writer, run, trade>>

-----------------------------------------------------------------------------
(* ReconcileUser, in the task's run or in a thread's tool call.            *)

FinanceDirty(r) ==
    /\ run[r].pc = "idle"
    /\ \/ r = Task /\ waiting > 0 /\ waiting' = waiting - 1
       \/ r \in Threads /\ writer[r].pc = "reconcile" /\ UNCHANGED waiting
    /\ run' = [run EXCEPT ![r] = [NoRun EXCEPT !.pc = "read", !.mark = mark]]
    /\ UNCHANGED <<ledger, trades, clock, mark, imported, writer, trade>>

ReadEvents(r) ==
    /\ run[r].pc = "read"
    /\ run' = [run EXCEPT ![r].pc = "previous", ![r].seen = Settled]
    /\ UNCHANGED <<ledger, trades, clock, mark, imported, writer, waiting, trade>>

ReadPrevious(r) ==
    /\ run[r].pc = "previous"
    /\ run' = [run EXCEPT ![r].pc = "put", ![r].old = Shown]
    /\ UNCHANGED <<ledger, trades, clock, mark, imported, writer, waiting, trade>>

(* Faulty variant: only the day-groups that have events.                   *)
WritesLive(r) == {g \in Groups : run[r].seen[g] # {}}

(* The day-groups PutTrades writes: those with events, and those that had  *)
(* a trade and are gone.                                                   *)
Writes(r) == {g \in Groups : run[r].seen[g] # {}} \cup run[r].old

Put(r, gs) == trades' = [g \in Groups |-> IF g \in gs THEN run[r].seen[g] ELSE trades[g]]

PutSome(r) ==
    /\ run[r].pc = "put"
    /\ \E gs \in SUBSET Writes(r) : gs # {} /\ Put(r, gs)
    /\ UNCHANGED <<ledger, clock, mark, imported, writer, run, waiting, trade>>

PutTrades(r) ==
    /\ run[r].pc = "put"
    /\ Put(r, Writes(r))
    /\ run' = [run EXCEPT ![r].pc = "clear"]
    /\ UNCHANGED <<ledger, clock, mark, imported, writer, waiting, trade>>

(* A tool call that is done goes back to its turn, which ends; when the    *)
(* wait for the trades to be applied fails, the turn may call again.       *)
Done(r) ==
    /\ run' = [run EXCEPT ![r] = NoRun]
    /\ IF r \in Threads THEN Becomes(r, "trigger") \/ Becomes(r, "idle")
       ELSE UNCHANGED writer

ClearFinanceDirty(r) ==
    /\ run[r].pc = "clear"
    /\ mark' = IF mark = run[r].mark THEN 0 ELSE mark
    /\ Done(r)
    /\ UNCHANGED <<ledger, trades, clock, imported, waiting, trade>>

(* The task fails, or its worker stops: it is retried, or fails for good.  *)
(* Waiting for the trades to be applied, at its end, may fail as well.     *)
TaskFails ==
    /\ run[Task].pc # "idle"
    /\ run' = [run EXCEPT ![Task] = NoRun]
    /\ waiting' \in {waiting, waiting + 1} /\ waiting' <= MaxRuns
    /\ mark' \in {mark} \cup (IF run[Task].pc = "clear" /\ mark = run[Task].mark THEN {0} ELSE {})
    /\ UNCHANGED <<ledger, trades, clock, imported, writer, trade>>

-----------------------------------------------------------------------------
Write(w) ==
    \/ TakeMail(w) \/ ImportReport(w) \/ RecordTrade(w)
    \/ MarkFinanceDirty(w) \/ AddTradeEvents(w) \/ InsertSome(w) \/ InsertAll(w)
    \/ WriterNext(w) \/ WriterFails(w) \/ FinanceTrigger(w) \/ TriggerFails(w)

ReconcileUser(r) ==
    \/ FinanceDirty(r) \/ ReadEvents(r) \/ ReadPrevious(r)
    \/ PutSome(r) \/ PutTrades(r) \/ ClearFinanceDirty(r)

Next ==
    \/ \E w \in Writers : Write(w)
    \/ \E r \in Reconcilers : ReconcileUser(r)
    \/ TaskFails \/ FinanceMarket

Spec == Init /\ [][Next]_vars

(* finance-market runs every day, and of the runs that come again and      *)
(* again some get through each of their calls.  Nothing is assumed of the  *)
(* mails, the turns or the triggers.                                       *)
Fairness ==
    /\ WF_vars(FinanceMarket) /\ WF_vars(FinanceDirty(Task))
    /\ SF_vars(ReadEvents(Task)) /\ SF_vars(ReadPrevious(Task))
    /\ SF_vars(PutTrades(Task)) /\ SF_vars(ClearFinanceDirty(Task))

FairSpec == Spec /\ Fairness
-----------------------------------------------------------------------------
(* Every variable keeps its shape.                                         *)
TypeOK ==
    /\ rows \in [Sources -> [Groups -> Nat]] /\ written \in Nat
    /\ trades \in [Groups -> SUBSET Sources]
    /\ clock \in Versions /\ mark \in Versions
    /\ imported \in [Files -> SUBSET Groups]
    /\ writer \in [Writers -> WriterType]
    /\ run \in [Reconcilers -> RunType] /\ waiting \in 0 .. MaxRuns
    /\ trade \in [Chats -> Chats \cup {None}]

(* While only the task reconciles, a user is called clean only with their  *)
(* trades exactly what one snapshot of their events settles to: nothing    *)
(* half written by an earlier attempt, and no day-group left that is gone. *)
ClearedIsPut == [][mark # 0 /\ mark' = 0 => trades = run[Task].seen]_vars

(* With one turn at a time, an imported report's rows are in the ledger,   *)
(* whole, for good: a file is refused only when nothing of it is missing.  *)
ImportStays == \A f \in Files : imported[f] # {} => Reports(f) = imported[f]

(* A dirty user is reconciled in the end, whatever fails on the way.       *)
DirtyEnds == mark # 0 ~> mark = 0

-----------------------------------------------------------------------------
(* What comments and documents say and the code does not do.               *)

Quiet ==
    /\ \A w \in Writers : writer[w].pc \in {"idle", "trigger", "end"}
    /\ \A r \in Reconcilers : run[r].pc = "idle"
    /\ waiting = 0

(* store/finance.go: the mark is "0 when their trades are up to date".     *)
CleanIsUpToDate == Quiet /\ mark = 0 => trades = Settled

(* reconcile_user.go: "a later run fixes what an overlapping one wrote":   *)
(* a put that makes right trades wrong leaves the user dirty, or a run     *)
(* waiting, or a write under way that will mark them.                      *)
LaterRunFixes ==
    [][trades = Settled /\ trades' # Settled /\ UNCHANGED rows =>
          mark' # 0 \/ waiting' # 0 \/ \E w \in Writers : writer'[w].pc \notin {"idle", "trigger", "end"}]_vars

(* import_report: "The same file is never imported twice".                 *)
ImportedOnce ==
    [][\A f \in Files : imported[f] # {} => rows'[f] = rows[f]]_vars

(* docs/plans/finance-assistant.md: a retried tool call is stopped by the  *)
(* same upsert keys, so what was told once counts once.                    *)
CountedOnce ==
    \A s, t \in Chats :
        s # t /\ trade[s] # None /\ trade[s] = trade[t] => Reports(s) = {} \/ Reports(t) = {}
=============================================================================
