----------------------- MODULE FinanceReconcileProofs -----------------------
(***************************************************************************)
(* What holds of the reconcile for any mails, files, threads and           *)
(* day-groups: types, that a lone task clears the mark only over exactly   *)
(* what a snapshot settles to, and that, with one turn at a time, an       *)
(* imported report stays whole.                                            *)
(***************************************************************************)
EXTENDS FinanceReconcile, TLAPS

(* A settled ledger has the shape of the trades table.                     *)
LEMMA SettledType == Settled \in [Groups -> SUBSET Sources]
  BY DEF Settled

(* A write of rows keeps the shape of trade_events.                        *)
LEMMA InsertType ==
  ASSUME TypeOK, NEW w \in Writers, writer[w].src \in Sources, NEW gs, Insert(w, gs)
  PROVE  rows' \in [Sources -> [Groups -> Nat]]
  <1>1. writer[w].ver \in Nat
    BY DEF TypeOK, WriterType
  <1>2. [g \in Groups |-> IF g \in gs THEN writer[w].ver ELSE rows[writer[w].src][g]] \in [Groups -> Nat]
    BY <1>1 DEF TypeOK
  <1> QED BY <1>2 DEF TypeOK, Insert

(* A write of trades keeps the shape of the trades table.                  *)
LEMMA PutType ==
  ASSUME TypeOK, NEW r \in Reconcilers, NEW gs, Put(r, gs)
  PROVE  trades' \in [Groups -> SUBSET Sources]
  <1>1. run[r].seen \in [Groups -> SUBSET Sources]
    BY DEF TypeOK, RunType
  <1> QED BY <1>1 DEF TypeOK, Put

(* A writer that moves on keeps its shape.                                 *)
LEMMA BecomesType ==
  ASSUME TypeOK, NEW w \in Writers,
         NEW pc \in {"idle", "mark", "add", "insert", "next", "reconcile", "trigger", "end"},
         Becomes(w, pc)
  PROVE  writer' \in [Writers -> WriterType]
<1>1. writer[w] \in WriterType /\ writer \in [Writers -> WriterType]
  BY DEF TypeOK
<1>2. [writer[w] EXCEPT !.pc = pc] \in WriterType
  BY <1>1 DEF WriterType
<1>3. writer' = [writer EXCEPT ![w] = [writer[w] EXCEPT !.pc = pc]]
  BY DEF Becomes
<1> QED BY <1>1, <1>2, <1>3

(* A writer and a reconcile that are reset have their shape.               *)
LEMMA ResetType == NoWrite \in WriterType /\ NoRun \in RunType
  BY ConstantsAssumption DEF NoWrite, NoRun, WriterType, RunType, Versions, Nothing

(* A writer past its beginning writes a source; without this its insert    *)
(* would name none.                                                        *)
WritesSource ==
    \A w \in Writers :
        writer[w].pc \in {"mark", "add", "insert", "next", "reconcile"} => writer[w].src \in Sources

TInv == TypeOK /\ WritesSource

(* Initially the variables have their shape.                               *)
LEMMA InitTInv == Init => TInv
  <1> SUFFICES ASSUME Init PROVE TInv
    OBVIOUS
  <1>1. TypeOK
    BY ResetType, ConstantsAssumption DEF Init, TypeOK, Nothing, Versions
  <1>2. WritesSource
    BY DEF Init, WritesSource, NoWrite
  <1> QED BY <1>1, <1>2 DEF TInv

(* A step of a writer keeps the shapes.                                    *)
LEMMA WriteTInv ==
  ASSUME TInv, NEW w \in Writers, Write(w)
  PROVE  TInv'
  <1> USE DEF TInv
  <1>1. CASE TakeMail(w)
    <2>1. w \in Sources
      BY <1>1 DEF TakeMail, Sources
    <2>2. writer' \in [Writers -> WriterType]
      BY <1>1, <2>1 DEF TakeMail, TypeOK, WriterType
    <2>3. WritesSource'
      BY <1>1, <2>1 DEF TakeMail, WritesSource, TypeOK
    <2> QED BY <1>1, <2>2, <2>3 DEF TakeMail, TypeOK, ledger
  <1>2. CASE ImportReport(w)
    <2>1. PICK f \in Files, says \in (SUBSET Groups) \ {{}} :
             writer' = [writer EXCEPT ![w] = [pc |-> "mark", src |-> f, says |-> says, ver |-> 0]]
      BY <1>2 DEF ImportReport
    <2>2. f \in Sources
      BY DEF Sources
    <2>3. writer' \in [Writers -> WriterType]
      BY <2>1, <2>2 DEF TypeOK, WriterType
    <2>4. WritesSource'
      BY <2>1, <2>2 DEF WritesSource, TypeOK
    <2> QED BY <1>2, <2>3, <2>4 DEF ImportReport, TypeOK, ledger
  <1>3. CASE RecordTrade(w)
    <2>1. PICK s \in Chats, g \in Groups :
             /\ LET last == writer[w].src
                    again == last \in Chats /\ writer[w].says = {g}
                IN  trade' = [trade EXCEPT ![s] = IF again THEN trade[last] ELSE s]
             /\ writer' = [writer EXCEPT ![w] = [pc |-> "mark", src |-> s, says |-> {g}, ver |-> 0]]
      BY <1>3 DEF RecordTrade
    <2>2. s \in Sources
      BY DEF Sources
    <2>3. writer' \in [Writers -> WriterType]
      BY <2>1, <2>2 DEF TypeOK, WriterType
    <2>4. WritesSource'
      BY <2>1, <2>2 DEF WritesSource, TypeOK
    <2>5. trade' \in [Chats -> Chats \cup {None}]
      BY <2>1 DEF TypeOK
    <2> QED BY <1>3, <2>3, <2>4, <2>5 DEF RecordTrade, TypeOK, ledger
  <1>4. CASE MarkFinanceDirty(w)
    <2>1. writer' \in [Writers -> WriterType]
      BY <1>4, BecomesType DEF MarkFinanceDirty
    <2>2. WritesSource'
      BY <1>4 DEF MarkFinanceDirty, Becomes, WritesSource, TypeOK
    <2>3. clock' \in Versions /\ mark' \in Versions
      BY <1>4, ConstantsAssumption DEF MarkFinanceDirty, TypeOK, Versions
    <2> QED BY <1>4, <2>1, <2>2, <2>3 DEF MarkFinanceDirty, TypeOK, ledger
  <1>5. CASE AddTradeEvents(w)
    <2>0. writer[w] \in WriterType /\ written + 1 \in Nat
      BY DEF TypeOK
    <2>1. [writer[w] EXCEPT !.pc = "insert", !.ver = written + 1] \in WriterType
      BY <2>0 DEF WriterType
    <2>2. writer' = [writer EXCEPT ![w] = [writer[w] EXCEPT !.pc = "insert", !.ver = written + 1]]
      BY <1>5 DEF AddTradeEvents, TypeOK, WriterType
    <2>3. writer' \in [Writers -> WriterType]
      BY <2>1, <2>2 DEF TypeOK
    <2>4. WritesSource'
      BY <1>5 DEF AddTradeEvents, WritesSource, TypeOK
    <2> QED BY <1>5, <2>3, <2>4 DEF AddTradeEvents, TypeOK
  <1>6. CASE InsertSome(w)
    <2>1. rows' \in [Sources -> [Groups -> Nat]]
      BY <1>6, InsertType DEF InsertSome, WritesSource
    <2> QED BY <1>6, <2>1 DEF InsertSome, TypeOK, WritesSource
  <1>7. CASE InsertAll(w)
    <2>1. rows' \in [Sources -> [Groups -> Nat]]
      BY <1>7, InsertType DEF InsertAll, WritesSource
    <2>2. writer' \in [Writers -> WriterType]
      BY <1>7, BecomesType DEF InsertAll
    <2>3. WritesSource'
      BY <1>7 DEF InsertAll, Becomes, WritesSource, TypeOK
    <2> QED BY <1>7, <2>1, <2>2, <2>3 DEF InsertAll, TypeOK
  <1>8. CASE WriterNext(w)
    <2>1. PICK pc \in {"trigger", "reconcile"} : Becomes(w, pc)
      BY <1>8 DEF WriterNext
    <2>2. writer' \in [Writers -> WriterType]
      BY <2>1, BecomesType
    <2>3. WritesSource'
      BY <1>8, <2>1 DEF WriterNext, Becomes, WritesSource, TypeOK
    <2>4. writer[w].says \in SUBSET Groups
      BY DEF TypeOK, WriterType
    <2>5. imported' \in [Files -> SUBSET Groups]
      BY <1>8, <2>4 DEF WriterNext, TypeOK
    <2> QED BY <1>8, <2>2, <2>3, <2>5 DEF WriterNext, TypeOK, ledger
  <1>9. CASE WriterFails(w)
    <2>1. PICK pc \in {"mark", "end", "idle", "trigger"} : Becomes(w, pc)
      BY <1>9 DEF WriterFails
    <2>2. writer' \in [Writers -> WriterType]
      BY <2>1, BecomesType
    <2>3. WritesSource'
      BY <1>9, <2>1 DEF WriterFails, Becomes, WritesSource, TypeOK
    <2>4. run' \in [Reconcilers -> RunType]
      BY <1>9, ResetType DEF WriterFails, TypeOK
    <2> QED BY <1>9, <2>2, <2>3, <2>4 DEF WriterFails, TypeOK, ledger
  <1>10. CASE FinanceTrigger(w) \/ TriggerFails(w)
    <2>1. writer' = [writer EXCEPT ![w] = IF w \in Mails THEN [writer[w] EXCEPT !.pc = "end"] ELSE NoWrite]
      BY <1>10 DEF FinanceTrigger, TriggerFails
    <2>2. [writer[w] EXCEPT !.pc = "end"] \in WriterType
      BY DEF TypeOK, WriterType
    <2>3. writer' \in [Writers -> WriterType]
      BY <2>1, <2>2, ResetType DEF TypeOK
    <2>4. writer'[w].pc \in {"end", "idle"}
      BY <2>1, <2>2 DEF TypeOK, NoWrite, WriterType
    <2>5. WritesSource'
      BY <2>1, <2>4 DEF WritesSource, TypeOK
    <2>6. waiting' \in 0 .. MaxRuns
      BY <1>10, ConstantsAssumption DEF FinanceTrigger, TriggerFails, TypeOK
    <2> QED BY <1>10, <2>3, <2>5, <2>6 DEF FinanceTrigger, TriggerFails, TypeOK, ledger
  <1> QED
    BY <1>1, <1>2, <1>3, <1>4, <1>5, <1>6, <1>7, <1>8, <1>9, <1>10 DEF Write

(* A step of a reconcile keeps the shapes.                                 *)
LEMMA ReconcileTInv ==
  ASSUME TInv, NEW r \in Reconcilers, ReconcileUser(r)
  PROVE  TInv'
  <1> USE DEF TInv
  <1>1. CASE FinanceDirty(r)
    <2>1. [NoRun EXCEPT !.pc = "read", !.mark = mark] \in RunType
      BY ResetType DEF TypeOK, RunType
    <2>2. run' \in [Reconcilers -> RunType]
      BY <1>1, <2>1 DEF FinanceDirty, TypeOK
    <2>3. waiting' \in 0 .. MaxRuns
      BY <1>1, ConstantsAssumption DEF FinanceDirty, TypeOK
    <2> QED BY <1>1, <2>2, <2>3 DEF FinanceDirty, TypeOK, ledger, WritesSource
  <1>2. CASE ReadEvents(r)
    <2>0. run[r] \in RunType /\ Settled \in [Groups -> SUBSET Sources]
      BY SettledType DEF TypeOK
    <2>1. [run[r] EXCEPT !.pc = "previous", !.seen = Settled] \in RunType
      BY <2>0 DEF RunType
    <2>2. run' = [run EXCEPT ![r] = [run[r] EXCEPT !.pc = "previous", !.seen = Settled]]
      BY <1>2 DEF ReadEvents, TypeOK, RunType
    <2>3. run' \in [Reconcilers -> RunType]
      BY <2>1, <2>2 DEF TypeOK
    <2> QED BY <1>2, <2>3 DEF ReadEvents, TypeOK, ledger, WritesSource
  <1>3. CASE ReadPrevious(r)
    <2>0. run[r] \in RunType /\ Shown \in SUBSET Groups
      BY DEF TypeOK, Shown
    <2>1. [run[r] EXCEPT !.pc = "put", !.old = Shown] \in RunType
      BY <2>0 DEF RunType
    <2>2. run' = [run EXCEPT ![r] = [run[r] EXCEPT !.pc = "put", !.old = Shown]]
      BY <1>3 DEF ReadPrevious, TypeOK, RunType
    <2>3. run' \in [Reconcilers -> RunType]
      BY <2>1, <2>2 DEF TypeOK
    <2> QED BY <1>3, <2>3 DEF ReadPrevious, TypeOK, ledger, WritesSource
  <1>4. CASE PutSome(r)
    <2>1. trades' \in [Groups -> SUBSET Sources]
      BY <1>4, PutType DEF PutSome
    <2> QED BY <1>4, <2>1 DEF PutSome, TypeOK, ledger, WritesSource
  <1>5. CASE PutTrades(r)
    <2>1. trades' \in [Groups -> SUBSET Sources]
      BY <1>5, PutType DEF PutTrades
    <2>2. run' \in [Reconcilers -> RunType]
      <3>1. run[r] \in RunType
        BY DEF TypeOK
      <3>2. [run[r] EXCEPT !.pc = "clear"] \in RunType
        BY <3>1 DEF RunType
      <3> QED BY <1>5, <3>2 DEF PutTrades, TypeOK
    <2> QED BY <1>5, <2>1, <2>2 DEF PutTrades, TypeOK, ledger, WritesSource
  <1>6. CASE ClearFinanceDirty(r)
    <2>1. run' \in [Reconcilers -> RunType]
      BY <1>6, ResetType DEF ClearFinanceDirty, Done, TypeOK
    <2>2. writer' \in [Writers -> WriterType] /\ WritesSource'
      <3>1. CASE r \in Threads
        <4>1. r \in Writers
          BY <3>1 DEF Writers
        <4>2. PICK pc \in {"trigger", "idle"} : Becomes(r, pc)
          BY <1>6, <3>1 DEF ClearFinanceDirty, Done
        <4>3. writer' \in [Writers -> WriterType]
          BY <4>1, <4>2, BecomesType
        <4>4. WritesSource'
          BY <4>1, <4>2 DEF Becomes, WritesSource, TypeOK
        <4> QED BY <4>3, <4>4
      <3>2. CASE r \notin Threads
        BY <1>6, <3>2 DEF ClearFinanceDirty, Done, TypeOK, WritesSource
      <3> QED BY <3>1, <3>2
    <2>3. mark' \in Versions
      BY <1>6, ConstantsAssumption DEF ClearFinanceDirty, TypeOK, Versions
    <2> QED BY <1>6, <2>1, <2>2, <2>3 DEF ClearFinanceDirty, TypeOK, ledger
  <1> QED
    BY <1>1, <1>2, <1>3, <1>4, <1>5, <1>6 DEF ReconcileUser

(* Every step keeps the shapes.                                            *)
LEMMA NextTInv == TInv /\ [Next]_vars => TInv'
  <1> SUFFICES ASSUME TInv, [Next]_vars PROVE TInv'
    OBVIOUS
  <1>1. CASE \E w \in Writers : Write(w)
    BY <1>1, WriteTInv
  <1>2. CASE \E r \in Reconcilers : ReconcileUser(r)
    BY <1>2, ReconcileTInv
  <1>3. CASE TaskFails
    <2>1. run' \in [Reconcilers -> RunType]
      BY <1>3, ResetType DEF TaskFails, TInv, TypeOK
    <2>2. mark' \in Versions
      BY <1>3, ConstantsAssumption DEF TaskFails, TInv, TypeOK, Versions
    <2>3. waiting' \in 0 .. MaxRuns
      BY <1>3, ConstantsAssumption DEF TaskFails, TInv, TypeOK
    <2> QED BY <1>3, <2>1, <2>2, <2>3 DEF TaskFails, TInv, TypeOK, ledger, WritesSource
  <1>4. CASE FinanceMarket
    BY <1>4, ConstantsAssumption DEF FinanceMarket, TInv, TypeOK, ledger, WritesSource
  <1>5. CASE UNCHANGED vars
    BY <1>5 DEF vars, ledger, TInv, TypeOK, WritesSource
  <1> QED BY <1>1, <1>2, <1>3, <1>4, <1>5 DEF Next

(* Every variable keeps its shape in every reachable state.                *)
THEOREM TypeCorrect == Spec => []TypeOK
  <1>1. TInv => TypeOK
    BY DEF TInv
  <1> QED BY InitTInv, NextTInv, <1>1, PTL DEF Spec

-----------------------------------------------------------------------------
(* A lone task: the trades shown are among those it writes, and once they  *)
(* are written they are what its snapshot settles to.                      *)

PutCovers ==
    run[Task].pc = "put" => \A g \in Groups : trades[g] # {} => g \in Writes(Task)

PutDone == run[Task].pc = "clear" => trades = run[Task].seen

SInv == PutCovers /\ PutDone

(* The task's own steps keep it.                                           *)
LEMMA TaskSInv ==
  ASSUME TypeOK, SInv, ReconcileUser(Task)
  PROVE  SInv'
  <1> USE DEF SInv
  <1>0. Task \in Reconcilers /\ run[Task] \in RunType
    BY DEF Reconcilers, TypeOK
  <1>1. CASE FinanceDirty(Task)
    BY <1>0, <1>1 DEF FinanceDirty, TypeOK, PutCovers, PutDone, NoRun
  <1>2. CASE ReadEvents(Task)
    BY <1>0, <1>2 DEF ReadEvents, TypeOK, PutCovers, PutDone
  <1>3. CASE ReadPrevious(Task)
    <2>1. run'[Task].pc = "put" /\ run'[Task].old = Shown /\ trades' = trades
      BY <1>0, <1>3 DEF ReadPrevious, TypeOK, RunType
    <2> QED BY <2>1 DEF PutCovers, PutDone, Writes, Shown
  <1>4. CASE PutSome(Task)
    <2>1. run' = run /\ run[Task].pc = "put"
      BY <1>4 DEF PutSome
    <2>2. PICK gs \in SUBSET Writes(Task) : Put(Task, gs)
      BY <1>4 DEF PutSome
    <2>3. \A g \in Groups : trades'[g] # {} => g \in Writes(Task)
      BY <2>1, <2>2 DEF Put, PutCovers
    <2> QED BY <2>1, <2>3 DEF PutCovers, PutDone, Writes
  <1>5. CASE PutTrades(Task)
    <2>1. Put(Task, Writes(Task)) /\ run[Task].pc = "put"
      BY <1>5 DEF PutTrades
    <2>2. run'[Task].pc = "clear" /\ run'[Task].seen = run[Task].seen
      BY <1>0, <1>5 DEF PutTrades, TypeOK, RunType
    <2>3. ASSUME NEW g \in Groups PROVE trades'[g] = run[Task].seen[g]
      <3>1. CASE g \in Writes(Task)
        BY <2>1, <3>1 DEF Put
      <3>2. CASE g \notin Writes(Task)
        BY <2>1, <3>2 DEF Put, PutCovers, Writes
      <3> QED BY <3>1, <3>2
    <2>4. run[Task].seen \in [Groups -> SUBSET Sources]
      BY <1>0 DEF RunType
    <2>5. trades' = run[Task].seen
      BY <2>1, <2>3, <2>4 DEF Put
    <2> QED BY <2>2, <2>5 DEF PutCovers, PutDone
  <1>6. CASE ClearFinanceDirty(Task)
    BY <1>0, <1>6 DEF ClearFinanceDirty, Done, TypeOK, PutCovers, PutDone, NoRun
  <1> QED
    BY <1>1, <1>2, <1>3, <1>4, <1>5, <1>6 DEF ReconcileUser

(* Every step keeps it when no thread reconciles.                          *)
LEMMA NextSInv ==
  ASSUME Threads = {}
  PROVE  TInv /\ SInv /\ [Next]_vars => SInv'
  <1> SUFFICES ASSUME TInv, SInv, [Next]_vars PROVE SInv'
    OBVIOUS
  <1>0. TypeOK /\ Reconcilers = {Task}
    BY DEF TInv, Reconcilers
  <1>1. CASE \E w \in Writers : Write(w)
    <2>1. trades' = trades /\ run' = run
      BY <1>1 DEF Write, TakeMail, ImportReport, RecordTrade, MarkFinanceDirty, AddTradeEvents,
         InsertSome, InsertAll, WriterNext, WriterFails, FinanceTrigger, TriggerFails
    <2> QED BY <2>1 DEF SInv, PutCovers, PutDone, Writes
  <1>2. CASE \E r \in Reconcilers : ReconcileUser(r)
    BY <1>0, <1>2, TaskSInv
  <1>3. CASE TaskFails
    BY <1>0, <1>3 DEF TaskFails, SInv, PutCovers, PutDone, TypeOK, NoRun
  <1>4. CASE FinanceMarket
    BY <1>4 DEF FinanceMarket, SInv, PutCovers, PutDone, Writes
  <1>5. CASE UNCHANGED vars
    BY <1>5 DEF vars, SInv, PutCovers, PutDone, Writes
  <1> QED BY <1>1, <1>2, <1>3, <1>4, <1>5 DEF Next

(* The mark is cleared only where the task is at its end.                  *)
LEMMA ClearStep ==
  ASSUME Threads = {}, TInv, SInv, [Next]_vars, mark # 0, mark' = 0
  PROVE  trades = run[Task].seen
  <1>0. Reconcilers = {Task}
    BY DEF Reconcilers
  <1>1. CASE \E w \in Writers : Write(w)
    <2>1. mark' = mark \/ mark' = clock + 1
      BY <1>1 DEF Write, TakeMail, ImportReport, RecordTrade, MarkFinanceDirty, AddTradeEvents,
         InsertSome, InsertAll, WriterNext, WriterFails, FinanceTrigger, TriggerFails
    <2>2. clock \in Nat
      BY DEF TInv, TypeOK, Versions
    <2> QED BY <2>1, <2>2
  <1>2. CASE \E r \in Reconcilers : ReconcileUser(r)
    <2>1. ReconcileUser(Task)
      BY <1>0, <1>2
    <2>2. run[Task].pc = "clear"
      BY <2>1 DEF ReconcileUser, FinanceDirty, ReadEvents, ReadPrevious, PutSome, PutTrades,
         ClearFinanceDirty
    <2> QED BY <2>2 DEF SInv, PutDone
  <1>3. CASE TaskFails
    <2>1. run[Task].pc = "clear"
      BY <1>3 DEF TaskFails
    <2> QED BY <2>1 DEF SInv, PutDone
  <1>4. CASE FinanceMarket
    BY <1>4 DEF FinanceMarket
  <1>5. CASE UNCHANGED vars
    BY <1>5 DEF vars
  <1> QED BY <1>1, <1>2, <1>3, <1>4, <1>5 DEF Next

(* When only the task reconciles, the mark is cleared only with the trades *)
(* exactly what a snapshot of the events settles to.                       *)
THEOREM ClearedIsPutAlways ==
  ASSUME Threads = {}
  PROVE  Spec => ClearedIsPut
  <1>1. Init => SInv
    BY ConstantsAssumption DEF Init, SInv, PutCovers, PutDone, NoRun, Reconcilers
  <1>2. TInv /\ SInv /\ [Next]_vars => TInv' /\ SInv'
    BY NextTInv, NextSInv
  <1>3. TInv /\ SInv /\ [Next]_vars => [mark # 0 /\ mark' = 0 => trades = run[Task].seen]_vars
    BY ClearStep
  <1> QED BY InitTInv, <1>1, <1>2, <1>3, PTL DEF Spec, ClearedIsPut

-----------------------------------------------------------------------------
(* One turn at a time: the thread that imports a file is the only writer   *)
(* of its rows, the file is not imported yet, and what the thread inserts  *)
(* is newer than any row of the file.                                      *)

Active(w) == writer[w].pc \in {"mark", "add", "insert", "next"}

RowsBound ==
    /\ \A s \in Sources, g \in Groups : rows[s][g] <= written
    /\ \A w \in Writers : writer[w].pc = "insert" => writer[w].ver <= written

MailWriter == \A m \in Mails : writer[m].src \in Mails \cup {None}

Inserting(w) ==
    writer[w].pc = "insert" =>
        /\ writer[w].ver > 0
        /\ \A g \in Groups :
              /\ rows[writer[w].src][g] <= writer[w].ver
              /\ rows[writer[w].src][g] = writer[w].ver => g \in writer[w].says

Inserted(w) == writer[w].pc = "next" => Reports(writer[w].src) = writer[w].says

Importing(w) ==
    /\ imported[writer[w].src] = {} /\ writer[w].says # {}
    /\ Inserting(w) /\ Inserted(w)

FileWriter == \A w \in Writers : Active(w) /\ writer[w].src \in Files => Importing(w)

FInv == RowsBound /\ MailWriter /\ FileWriter /\ ImportStays

OneTurn == \A t, u \in Threads : t = u

(* Two writers never import at once.                                       *)
LEMMA OneImporter ==
  ASSUME OneTurn, MailWriter, NEW w \in Writers, NEW u \in Writers,
         writer[w].src \in Files, writer[u].src \in Files
  PROVE  w = u
  <1>1. w \in Threads /\ u \in Threads
    BY ConstantsAssumption DEF Writers, MailWriter, Sources
  <1> QED BY <1>1 DEF OneTurn

(* What a writer may do in a step that leaves the ledger and the imports   *)
(* alone: nothing, stop, turn to another source, begin an import, or go    *)
(* from its mark to its insert.                                            *)
Quietly(u) ==
    \/ writer'[u] = writer[u]
    \/ ~Active(u)' /\ writer'[u].src \in {writer[u].src, None}
    \/ /\ writer'[u].pc # "insert" /\ writer'[u].src \notin Files
       /\ u \in Mails => writer'[u].src \in Mails \cup {None}
    \/ /\ u \in Threads /\ writer'[u].pc = "mark"
       /\ imported[writer'[u].src] = {} /\ writer'[u].says # {}
    \/ /\ Active(u) /\ writer'[u].pc = "add"
       /\ writer'[u].src = writer[u].src /\ writer'[u].says = writer[u].says

(* Such a step keeps FInv.                                                 *)
LEMMA QuietFInv ==
  ASSUME TypeOK, FInv, UNCHANGED <<rows, written, imported>>, \A u \in Writers : Quietly(u)
  PROVE  FInv'
  <1>1. RowsBound'
    BY DEF FInv, RowsBound, Active, Quietly
  <1>2. MailWriter'
    BY ConstantsAssumption DEF FInv, MailWriter, Writers, Quietly
  <1>3. ImportStays'
    BY DEF FInv, ImportStays, Reports
  <1>4. ASSUME NEW u \in Writers, Active(u)', writer'[u].src \in Files
        PROVE  Importing(u)'
    <2>1. CASE writer'[u] = writer[u]
      BY <1>4, <2>1 DEF FInv, FileWriter, Active, Importing, Inserting, Inserted, Reports
    <2>2. CASE /\ u \in Threads /\ writer'[u].pc = "mark"
               /\ imported[writer'[u].src] = {} /\ writer'[u].says # {}
      BY <2>2 DEF Importing, Inserting, Inserted
    <2>3. CASE /\ Active(u) /\ writer'[u].pc = "add"
               /\ writer'[u].src = writer[u].src /\ writer'[u].says = writer[u].says
      BY <1>4, <2>3 DEF FInv, FileWriter, Importing, Inserting, Inserted
    <2> QED BY <1>4, <2>1, <2>2, <2>3 DEF Quietly
  <1>5. FileWriter'
    BY <1>4 DEF FileWriter
  <1> QED BY <1>1, <1>2, <1>3, <1>5 DEF FInv

(* The steps of a writer that are such.                                    *)
LEMMA QuietWrite ==
  ASSUME TInv, FInv, NEW w \in Writers,
         \/ TakeMail(w) \/ ImportReport(w) \/ RecordTrade(w) \/ MarkFinanceDirty(w)
         \/ WriterFails(w) \/ FinanceTrigger(w) \/ TriggerFails(w)
  PROVE  FInv'
  <1>0. TypeOK /\ UNCHANGED <<rows, written, imported>>
    BY DEF TInv, TakeMail, ImportReport, RecordTrade, MarkFinanceDirty, WriterFails,
       FinanceTrigger, TriggerFails, ledger
  <1>1. \A u \in Writers : u # w => writer'[u] = writer[u]
    BY <1>0 DEF TypeOK, TakeMail, ImportReport, RecordTrade, MarkFinanceDirty, WriterFails,
       FinanceTrigger, TriggerFails, Becomes
  <1>2. Quietly(w)
    <2>1. CASE TakeMail(w)
      BY <1>0, <2>1, ConstantsAssumption DEF TakeMail, Quietly, TypeOK
    <2>2. CASE ImportReport(w)
      BY <1>0, <2>2 DEF ImportReport, Quietly, TypeOK
    <2>3. CASE RecordTrade(w)
      <3>1. PICK s \in Chats, g \in Groups :
               writer' = [writer EXCEPT ![w] = [pc |-> "mark", src |-> s, says |-> {g}, ver |-> 0]]
        BY <2>3 DEF RecordTrade
      <3>2. s \notin Files /\ w \notin Mails
        BY <2>3, ConstantsAssumption DEF RecordTrade
      <3> QED BY <1>0, <3>1, <3>2 DEF Quietly, TypeOK
    <2>4. CASE MarkFinanceDirty(w)
      <3>1. writer[w] \in WriterType
        BY <1>0 DEF TypeOK
      <3> QED BY <1>0, <2>4, <3>1 DEF MarkFinanceDirty, Becomes, Quietly, Active, TypeOK, WriterType
    <2>5. CASE WriterFails(w)
      <3>1. writer[w] \in WriterType
        BY <1>0 DEF TypeOK
      <3>2. CASE w \in Mails
        <4>1. writer[w].src \in Mails \cup {None} /\ writer[w].src \notin Files
          BY <3>2, ConstantsAssumption DEF FInv, MailWriter, Sources
        <4>2. PICK pc \in {"mark", "end"} : Becomes(w, pc)
          BY <2>5, <3>2 DEF WriterFails
        <4> QED BY <1>0, <3>1, <4>1, <4>2 DEF Becomes, Quietly, TypeOK, WriterType
      <3>3. CASE w \notin Mails
        <4>1. PICK pc \in {"idle", "trigger"} : Becomes(w, pc)
          BY <2>5, <3>3 DEF WriterFails
        <4> QED BY <1>0, <3>1, <4>1 DEF Becomes, Quietly, Active, TypeOK, WriterType
      <3> QED BY <3>2, <3>3
    <2>6. CASE FinanceTrigger(w) \/ TriggerFails(w)
      <3>1. writer[w] \in WriterType
        BY <1>0 DEF TypeOK
      <3>2. writer'[w] = IF w \in Mails THEN [writer[w] EXCEPT !.pc = "end"] ELSE NoWrite
        BY <1>0, <2>6 DEF FinanceTrigger, TriggerFails, TypeOK
      <3>3. CASE w \in Mails
        BY <3>1, <3>2, <3>3 DEF Quietly, Active, WriterType
      <3>4. CASE w \notin Mails
        BY <3>2, <3>4 DEF Quietly, Active, NoWrite
      <3> QED BY <3>3, <3>4
    <2> QED BY <2>1, <2>2, <2>3, <2>4, <2>5, <2>6
  <1> QED BY <1>0, <1>1, <1>2, QuietFInv DEF Quietly

(* A version that is taken is newer than every row.                        *)
LEMMA AddFInv ==
  ASSUME TInv, FInv, NEW w \in Writers, AddTradeEvents(w)
  PROVE  FInv'
  <1>0. TypeOK
    BY DEF TInv
  <1>1. /\ writer'[w] = [writer[w] EXCEPT !.pc = "insert", !.ver = written + 1]
        /\ \A u \in Writers : u # w => writer'[u] = writer[u]
    BY <1>0 DEF AddTradeEvents, TypeOK, WriterType
  <1>2. writer[w] \in WriterType /\ written \in Nat /\ rows \in [Sources -> [Groups -> Nat]]
    BY <1>0 DEF TypeOK
  <1>3. rows' = rows /\ imported' = imported /\ written' = written + 1
    BY DEF AddTradeEvents
  <1>4. RowsBound'
    <2>1. \A s \in Sources, g \in Groups : rows'[s][g] <= written'
      BY <1>2, <1>3 DEF FInv, RowsBound
    <2>2. ASSUME NEW u \in Writers, writer'[u].pc = "insert" PROVE writer'[u].ver <= written'
      <3>1. writer[u].ver \in Nat
        BY <1>0 DEF TypeOK, WriterType
      <3>2. CASE u = w
        <4>1. writer'[w].ver = written + 1
          BY <1>1, <1>2 DEF WriterType
        <4> QED BY <1>2, <1>3, <3>2, <4>1
      <3>3. CASE u # w
        <4>1. writer'[u] = writer[u]
          BY <1>1, <3>3
        <4>2. writer[u].ver <= written
          BY <2>2, <4>1 DEF FInv, RowsBound
        <4>3. written \in Nat /\ written' = written + 1
          BY <1>2, <1>3
        <4>4. \A v \in Nat : v <= written => v <= written'
          BY <4>3
        <4> QED BY <3>1, <4>1, <4>2, <4>4
      <3> QED BY <3>2, <3>3
    <2> QED BY <2>1, <2>2 DEF RowsBound
  <1>5. MailWriter'
    BY <1>1, <1>2, ConstantsAssumption DEF FInv, MailWriter, Writers, WriterType
  <1>6. ImportStays'
    BY <1>3 DEF FInv, ImportStays, Reports
  <1>7. ASSUME NEW u \in Writers, Active(u)', writer'[u].src \in Files
        PROVE  Importing(u)'
    <2>1. CASE u # w
      BY <1>1, <1>3, <1>7, <2>1 DEF FInv, FileWriter, Active, Importing, Inserting, Inserted, Reports
    <2>2. CASE u = w
      <3>1. writer'[w].src = writer[w].src /\ writer'[w].says = writer[w].says
            /\ writer'[w].pc = "insert" /\ writer'[w].ver = written + 1
        BY <1>1, <1>2 DEF WriterType
      <3>2. Active(w) /\ writer[w].src \in Files /\ writer[w].src \in Sources
        BY <1>7, <2>2, <3>1 DEF AddTradeEvents, Active, Sources
      <3>3. imported[writer[w].src] = {} /\ writer[w].says # {}
        BY <3>2 DEF FInv, FileWriter, Importing
      <3>4. \A g \in Groups : rows[writer[w].src][g] \in Nat /\ rows[writer[w].src][g] <= written
        BY <1>2, <3>2 DEF FInv, RowsBound
      <3> QED BY <1>2, <1>3, <2>2, <3>1, <3>3, <3>4 DEF Importing, Inserting, Inserted
    <2> QED BY <2>1, <2>2
  <1>8. FileWriter'
    BY <1>7 DEF FileWriter
  <1> QED BY <1>4, <1>5, <1>6, <1>8 DEF FInv

(* Rows that are inserted are of the version that was taken.               *)
LEMMA InsertFInv ==
  ASSUME TInv, FInv, OneTurn, NEW w \in Writers,
         NEW gs \in SUBSET writer[w].says, writer[w].pc = "insert", Insert(w, gs),
         UNCHANGED <<written, imported>>,
         \/ writer' = writer
         \/ gs = writer[w].says /\ Becomes(w, "next")
  PROVE  FInv'
  <1>0. TypeOK /\ writer[w].src \in Sources
    BY DEF TInv, WritesSource
  <1>1. /\ writer[w] \in WriterType /\ written \in Nat
        /\ rows \in [Sources -> [Groups -> Nat]]
    BY <1>0 DEF TypeOK
  <1>2. /\ rows'[writer[w].src] =
              [g \in Groups |-> IF g \in gs THEN writer[w].ver ELSE rows[writer[w].src][g]]
        /\ \A s \in Sources : s # writer[w].src => rows'[s] = rows[s]
    BY <1>0, <1>1 DEF Insert
  <1>3. /\ \A u \in Writers : u # w => writer'[u] = writer[u]
        /\ writer'[w].src = writer[w].src /\ writer'[w].says = writer[w].says
        /\ writer'[w].ver = writer[w].ver
        /\ writer'[w].pc = "insert" \/ (gs = writer[w].says /\ writer'[w].pc = "next")
    BY <1>0, <1>1 DEF Becomes, TypeOK, WriterType
  <1>4. writer[w].ver \in Nat /\ writer[w].ver <= written
    BY <1>1 DEF FInv, RowsBound, WriterType
  <1>5. RowsBound'
    <2>1. ASSUME NEW s \in Sources, NEW g \in Groups PROVE rows'[s][g] <= written'
      <3>1. rows[s][g] <= written
        BY DEF FInv, RowsBound
      <3> QED BY <1>2, <1>4, <3>1
    <2>2. ASSUME NEW u \in Writers, writer'[u].pc = "insert" PROVE writer'[u].ver <= written'
      BY <1>3, <1>4, <2>2 DEF FInv, RowsBound
    <2> QED BY <2>1, <2>2 DEF RowsBound
  <1>6. MailWriter'
    BY <1>3, ConstantsAssumption DEF FInv, MailWriter, Writers
  <1>7. ASSUME NEW s \in Sources, s # writer[w].src PROVE Reports(s)' = Reports(s)
    BY <1>2, <1>7 DEF Reports
  <1>8. ImportStays'
    <2> SUFFICES ASSUME NEW f \in Files, imported'[f] # {} PROVE Reports(f)' = imported'[f]
      BY DEF ImportStays
    <2>1. f # writer[w].src
      BY DEF FInv, FileWriter, Active, Importing
    <2>2. f \in Sources
      BY DEF Sources
    <2> QED BY <1>7, <2>1, <2>2 DEF FInv, ImportStays
  <1>9. ASSUME NEW u \in Writers, Active(u)', writer'[u].src \in Files
        PROVE  Importing(u)'
    <2>1. CASE u # w
      <3>1. writer'[u] = writer[u]
        BY <1>3, <2>1
      <3>2. writer[u].src # writer[w].src
        BY <1>9, <2>1, <3>1, OneImporter DEF FInv
      <3>3. writer[u].src \in Sources /\ Importing(u)
        BY <1>9, <3>1 DEF FInv, FileWriter, Active, Sources
      <3>4. rows'[writer[u].src] = rows[writer[u].src]
        BY <1>2, <3>2, <3>3
      <3> QED BY <3>1, <3>3, <3>4 DEF Importing, Inserting, Inserted, Reports
    <2>2. CASE u = w
      <3>1. Importing(w)
        BY <1>3, <1>9, <2>2 DEF FInv, FileWriter, Active
      <3>2. imported'[writer'[w].src] = {} /\ writer'[w].says # {}
        BY <1>3, <3>1 DEF Importing
      <3>3. /\ writer[w].ver > 0
            /\ \A g \in Groups :
                  /\ rows[writer[w].src][g] <= writer[w].ver
                  /\ rows[writer[w].src][g] = writer[w].ver => g \in writer[w].says
        BY <3>1 DEF Importing, Inserting
      <3>4. \A g \in Groups :
              /\ rows'[writer[w].src][g] <= writer[w].ver
              /\ rows'[writer[w].src][g] = writer[w].ver => g \in writer[w].says
        BY <1>2, <1>4, <3>3
      <3>5. Inserting(w)'
        BY <1>3, <3>3, <3>4 DEF Inserting
      <3>6. ASSUME writer'[w].pc = "next"
            PROVE  {g \in Groups : rows'[writer[w].src][g] # 0 /\
                      \A h \in Groups : rows'[writer[w].src][h] <= rows'[writer[w].src][g]} = writer[w].says
        <4>1. gs = writer[w].says
          BY <1>3, <3>6
        <4>2. \A g \in gs : g \in Groups /\ rows'[writer[w].src][g] = writer[w].ver
          BY <1>1, <1>2, <4>1 DEF WriterType
        <4>3. PICK g0 \in gs : TRUE
          BY <3>1, <4>1 DEF Importing
        <4>4. ASSUME NEW g \in Groups
              PROVE  g \in gs <=> /\ rows'[writer[w].src][g] # 0
                                  /\ \A h \in Groups : rows'[writer[w].src][h] <= rows'[writer[w].src][g]
          <5>1. CASE g \in gs
            BY <1>4, <3>3, <3>4, <4>2, <5>1
          <5>2. CASE g \notin gs
            <6>1. rows'[writer[w].src][g] # writer[w].ver
              BY <3>4, <4>1, <5>2
            <6>2. rows'[writer[w].src][g] \in Nat /\ rows'[writer[w].src][g] <= writer[w].ver
              BY <1>0, <1>1, <1>2, <1>4, <3>4
            <6>3. rows'[writer[w].src][g0] = writer[w].ver /\ g0 \in Groups
              BY <4>2, <4>3
            <6> QED BY <1>4, <5>2, <6>1, <6>2, <6>3
          <5> QED BY <5>1, <5>2
        <4> QED BY <4>1, <4>2, <4>4
      <3>7. Inserted(w)'
        BY <1>3, <3>6 DEF Inserted, Reports
      <3> QED BY <2>2, <3>2, <3>5, <3>7 DEF Importing
    <2> QED BY <2>1, <2>2
  <1>10. FileWriter'
    BY <1>9 DEF FileWriter
  <1> QED BY <1>5, <1>6, <1>8, <1>10 DEF FInv

(* A file is recorded as imported with all of its rows in.                 *)
LEMMA RecordFInv ==
  ASSUME TInv, FInv, OneTurn, NEW w \in Writers, WriterNext(w)
  PROVE  FInv'
  <1>0. TypeOK /\ writer[w] \in WriterType
    BY DEF TInv, TypeOK
  <1>1. PICK pc \in {"trigger", "reconcile"} : Becomes(w, pc)
    BY DEF WriterNext
  <1>2. /\ \A u \in Writers : u # w => writer'[u] = writer[u]
        /\ writer'[w].src = writer[w].src /\ ~Active(w)' /\ writer'[w].pc # "insert"
    BY <1>0, <1>1 DEF Becomes, TypeOK, WriterType, Active
  <1>3. CASE imported' = imported
    BY <1>0, <1>2, <1>3, QuietFInv DEF WriterNext, Quietly, ledger
  <1>4. CASE /\ writer[w].src \in Files
             /\ imported' = [imported EXCEPT ![writer[w].src] = writer[w].says]
    <2>1. rows' = rows /\ written' = written /\ writer[w].pc = "next"
      BY DEF WriterNext, ledger
    <2>2. RowsBound'
      BY <1>2, <2>1 DEF FInv, RowsBound
    <2>3. MailWriter'
      BY <1>2, ConstantsAssumption DEF FInv, MailWriter, Writers
    <2>4. Reports(writer[w].src) = writer[w].says
      BY <1>4, <2>1 DEF FInv, FileWriter, Active, Importing, Inserted
    <2>5. ImportStays'
      <3>1. \A f \in Files : imported'[f] = IF f = writer[w].src THEN writer[w].says ELSE imported[f]
        BY <1>0, <1>4 DEF TypeOK
      <3>2. \A f \in Files : Reports(f)' = Reports(f)
        BY <2>1 DEF Reports
      <3> QED BY <2>4, <3>1, <3>2 DEF FInv, ImportStays
    <2>6. ASSUME NEW u \in Writers, Active(u)', writer'[u].src \in Files
          PROVE  Importing(u)'
      <3>1. u # w
        BY <1>2, <2>6
      <3>2. writer'[u] = writer[u]
        BY <1>2, <3>1
      <3>3. FALSE
        BY <1>4, <2>6, <3>1, <3>2, OneImporter DEF FInv
      <3> QED BY <3>3
    <2>7. FileWriter'
      BY <2>6 DEF FileWriter
    <2> QED BY <2>2, <2>3, <2>5, <2>7 DEF FInv
  <1> QED BY <1>3, <1>4 DEF WriterNext

(* Every step keeps FInv when turns come one at a time.                    *)
LEMMA NextFInv ==
  ASSUME OneTurn
  PROVE  TInv /\ FInv /\ [Next]_vars => FInv'
  <1> SUFFICES ASSUME TInv, FInv, [Next]_vars PROVE FInv'
    OBVIOUS
  <1>0. TypeOK
    BY DEF TInv
  <1>1. ASSUME NEW w \in Writers, Write(w) PROVE FInv'
    <2>1. CASE \/ TakeMail(w) \/ ImportReport(w) \/ RecordTrade(w) \/ MarkFinanceDirty(w)
               \/ WriterFails(w) \/ FinanceTrigger(w) \/ TriggerFails(w)
      BY <2>1, QuietWrite
    <2>2. CASE AddTradeEvents(w)
      BY <2>2, AddFInv
    <2>3. CASE InsertSome(w)
      BY <2>3, InsertFInv DEF InsertSome
    <2>4. CASE InsertAll(w)
      BY <2>4, InsertFInv DEF InsertAll
    <2>5. CASE WriterNext(w)
      BY <2>5, RecordFInv
    <2> QED BY <1>1, <2>1, <2>2, <2>3, <2>4, <2>5 DEF Write
  <1>2. ASSUME NEW r \in Reconcilers, ReconcileUser(r) PROVE FInv'
    <2>1. UNCHANGED <<rows, written, imported>>
      BY <1>2 DEF ReconcileUser, FinanceDirty, ReadEvents, ReadPrevious, PutSome, PutTrades,
         ClearFinanceDirty, ledger
    <2>2. \/ writer' = writer
          \/ r \in Threads /\ \E pc \in {"trigger", "idle"} : Becomes(r, pc)
      BY <1>2 DEF ReconcileUser, FinanceDirty, ReadEvents, ReadPrevious, PutSome, PutTrades,
         ClearFinanceDirty, Done
    <2>3. \A u \in Writers : Quietly(u)
      BY <1>0, <2>2 DEF Quietly, Becomes, TypeOK, WriterType, Active
    <2> QED BY <1>0, <2>1, <2>3, QuietFInv
  <1>3. CASE TaskFails \/ FinanceMarket \/ UNCHANGED vars
    <2>1. UNCHANGED <<rows, written, imported, writer>>
      BY <1>3 DEF TaskFails, FinanceMarket, vars, ledger
    <2> QED BY <1>0, <2>1, QuietFInv DEF Quietly
  <1> QED BY <1>1, <1>2, <1>3 DEF Next

(* With one turn at a time, an imported report's rows stay in the ledger,  *)
(* whole, whatever fails or is written beside it.                          *)
THEOREM ImportStaysAlways ==
  ASSUME \A t, u \in Threads : t = u
  PROVE  Spec => []ImportStays
  <1>1. OneTurn
    BY DEF OneTurn
  <1>2. Init => FInv
    BY ConstantsAssumption DEF Init, FInv, RowsBound, MailWriter, FileWriter, ImportStays, Active,
       NoWrite, Writers
  <1>3. TInv /\ FInv /\ [Next]_vars => TInv' /\ FInv'
    BY <1>1, NextTInv, NextFInv
  <1>4. FInv => ImportStays
    BY DEF FInv
  <1> QED BY InitTInv, <1>2, <1>3, <1>4, PTL DEF Spec
=============================================================================
