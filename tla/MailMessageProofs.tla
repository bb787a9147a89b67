------------------------- MODULE MailMessageProofs -------------------------
(***************************************************************************)
(* What MailMessage keeps for any mails, brokers, notes, keys and whatever *)
(* a turn may say of a mail.                                               *)
(***************************************************************************)
EXTENDS MailMessage, SequenceTheorems, TLAPS

-----------------------------------------------------------------------------
(* Types. A broker's run has no items; a run has none before its turn; a   *)
(* run in hand and one that waits for its replay are alike.                *)
Runs ==
    [at : {"check", "relate", "trades", "save", "write", "row", "finish", "finished", "failing"},
     mail : Mails, category : {"finance", "other"}, broker : BOOLEAN, todo : Judgings \cup {<<>>},
     n : Nat, saved : Nat, key : Keys \cup {NoKey}]

RunOK(r) ==
    \/ r = Idle
    \/ /\ r \in Runs
       /\ r.broker => r.mail \in Brokers /\ r.todo = <<>>
       /\ r.n \in 1..(Len(r.todo) + 1)
       /\ r.at \in {"check", "relate"} => r.todo = <<>>
       /\ r.at \in {"trades", "finish"} => r.broker
       /\ r.at \in {"write", "row"} => r.n <= Len(r.todo) /\ r.key # NoKey

(* A run waits for its replay where its task begins.                       *)
DeadOK(r) ==
    /\ RunOK(r)
    /\ r # Idle => r.at \in {"check", "relate", "trades", "save"} /\ (r.at = "save" => r.n = 1)

RunsOK == RunOK(run) /\ \A m \in Mails : DeadOK(dead[m])

Requests == [mail : Mails, category : {"finance", "other"}]

Statuses == [Mails -> [status : {"none", "picked", "done", "skipped", "failed"}, category : {"finance", "other"}]]

Rows == [Keys -> [note : Notes, state : States] \cup {NoRow}]

ScriptOK ==
    /\ label \in [Mails -> {"new", "sent", "skip", "error"}]
    /\ fails \in [Mails -> 0..(MaxFails - 1)] /\ sent \in 0..MaxSent
    /\ backfill \in BOOLEAN /\ trusted \in BOOLEAN
    /\ queue \in Seq(Requests)

MemoryOK == message \in Statuses /\ notes \subseteq Notes /\ chats \subseteq Notes /\ ledger \subseteq Brokers /\ rows \in Rows

TInv == ScriptOK /\ RunsOK /\ MemoryOK /\ dead \in [Mails -> Runs \cup {Idle}]

(* A run's items are items.                                                *)
LEMMA TodoIs ==
    ASSUME NEW r \in Runs
    PROVE  r.todo \in Seq(Items) /\ Len(r.todo) \in Nat /\ \A i \in 1..Len(r.todo) : r.todo[i] \in Items
<1>1. r.todo \in Judgings \cup {<<>>}
  BY DEF Runs
<1>2. r.todo \in Seq(Items)
  BY <1>1, JudgingsAssumption, EmptySeq
<1> QED BY <1>2, LenProperties, ElementOfSeq

(* The shape says what TypeOK does.                                        *)
LEMMA TInvShape == TInv => TypeOK
<1> SUFFICES ASSUME TInv PROVE TypeOK
  OBVIOUS
<1>1. ASSUME NEW r, RunOK(r)
      PROVE  \/ r = Idle
             \/ /\ r.at \in {"check", "relate", "trades", "save", "write", "row", "finish", "finished", "failing"}
                /\ r.mail \in Mails /\ r.category \in {"finance", "other"}
                /\ r.broker => r.mail \in Brokers
                /\ r.todo \in Judgings \cup {<<>>} /\ r.key \in Keys \cup {NoKey}
                /\ r.n \in 1..(Len(r.todo) + 1)
                /\ r.at \in {"write", "row"} => r.n <= Len(r.todo) /\ r.key # NoKey
  BY <1>1 DEF RunOK, Runs
<1>2. \A r \in {run} \cup {dead[m] : m \in Mails} : RunOK(r)
  BY DEF TInv, RunsOK, DeadOK
<1>3. \A r \in {run} \cup {dead[m] : m \in Mails} :
         \/ r = Idle
         \/ /\ r.at \in {"check", "relate", "trades", "save", "write", "row", "finish", "finished", "failing"}
            /\ r.mail \in Mails /\ r.category \in {"finance", "other"}
            /\ r.broker => r.mail \in Brokers
            /\ r.todo \in Judgings \cup {<<>>} /\ r.key \in Keys \cup {NoKey}
            /\ r.n \in 1..(Len(r.todo) + 1)
            /\ r.at \in {"write", "row"} => r.n <= Len(r.todo) /\ r.key # NoKey
  BY <1>1, <1>2
<1> QED BY <1>3 DEF TInv, ScriptOK, MemoryOK, TypeOK, Requests, Statuses, Rows

(* The initial state has the shape.                                        *)
LEMMA InitTInv == Init => TInv
<1> SUFFICES ASSUME Init PROVE TInv
  OBVIOUS
<1>1. ScriptOK
  <2>1. 0 \in 0..(MaxFails - 1) /\ 0 \in 0..MaxSent
    BY BoundsAssumption
  <2>2. queue \in Seq(Requests)
    BY EmptySeq DEF Init
  <2> QED BY <2>1, <2>2 DEF Init, ScriptOK
<1>2. RunsOK /\ dead \in [Mails -> Runs \cup {Idle}]
  BY DEF Init, RunsOK, DeadOK, RunOK
<1>3. MemoryOK
  BY DEF Init, MemoryOK, Statuses, Rows
<1> QED BY <1>1, <1>2, <1>3 DEF TInv

(* What the script, the user's filter and a chat's trust move ...          *)
ScriptSteps ==
    \/ \E m \in Mails : ScriptSkips(m) \/ ScriptFails(m) \/ ScriptSends(m) \/ ScriptRefused(m) \/ RemoveLabel(m)
    \/ TrustSender \/ Backfill

(* ... is nothing of the runs' and memory's.                               *)
LEMMA ScriptFrame ==
    ASSUME ScriptSteps
    PROVE  UNCHANGED <<run, dead, message, memoryVars, promised>>
BY DEF ScriptSteps, ScriptSkips, ScriptFails, ScriptSends, ScriptRefused, RemoveLabel, TrustSender, Backfill

(* The script keeps its days and requests within their bounds.             *)
LEMMA ScriptKeepsShape ==
    ASSUME TInv, ScriptSteps
    PROVE  ScriptOK'
<1>0. /\ label \in [Mails -> {"new", "sent", "skip", "error"}] /\ fails \in [Mails -> 0..(MaxFails - 1)]
      /\ sent \in 0..MaxSent /\ backfill \in BOOLEAN /\ trusted \in BOOLEAN /\ queue \in Seq(Requests)
      /\ MaxFails \in Nat \ {0} /\ MaxSent \in Nat
  BY BoundsAssumption DEF TInv, ScriptOK
<1>1. ASSUME NEW m \in Mails, NEW c \in Categories(m)
      PROVE  Append(queue, [mail |-> m, category |-> c]) \in Seq(Requests)
  <2>1. [mail |-> m, category |-> c] \in Requests
    BY DEF Categories, Requests
  <2> QED BY <1>0, <2>1, AppendProperties
<1>2. ASSUME NEW m \in Mails, ScriptSkips(m) \/ ScriptRefused(m) \/ RemoveLabel(m) PROVE ScriptOK'
  BY <1>0, <1>2 DEF ScriptSkips, ScriptRefused, RemoveLabel, ScriptOK
<1>3. ASSUME NEW m \in Mails, ScriptSends(m) PROVE ScriptOK'
  BY <1>0, <1>1, <1>3 DEF ScriptSends, ScriptOK
<1>4. ASSUME NEW m \in Mails, ScriptFails(m) PROVE ScriptOK'
  <2>1. label' \in [Mails -> {"new", "sent", "skip", "error"}] /\ fails' \in [Mails -> 0..(MaxFails - 1)]
    BY <1>0, <1>4 DEF ScriptFails, LastTry
  <2>2. sent' \in 0..MaxSent /\ queue' \in Seq(Requests)
    <3>1. \/ UNCHANGED <<sent, queue>>
          \/ /\ sent < MaxSent /\ sent' = sent + 1
             /\ \E c \in Categories(m) : queue' = Append(queue, [mail |-> m, category |-> c])
      BY <1>4 DEF ScriptFails
    <3>2. CASE UNCHANGED <<sent, queue>>
      BY <1>0, <3>2
    <3>3. CASE sent < MaxSent /\ sent' = sent + 1
      <4>1. sent' \in 0..MaxSent
        BY <1>0, <3>3
      <4> QED BY <1>0, <1>1, <3>1, <4>1
    <3> QED BY <3>1, <3>2, <3>3
  <2> QED BY <1>0, <1>4, <2>1, <2>2 DEF ScriptFails, ScriptOK
<1>5. CASE TrustSender \/ Backfill
  BY <1>0, <1>5 DEF TrustSender, Backfill, ScriptOK
<1> QED BY <1>2, <1>3, <1>4, <1>5 DEF ScriptSteps

(* A row put is a row, of the note it is given; the others stay.           *)
LEMMA PutIs ==
    ASSUME rows \in Rows, NEW k \in Keys, NEW n \in Notes, NEW state \in States \cup {""}
    PROVE  /\ Put(k, n, state) \in Rows
           /\ Put(k, n, state)[k] # NoRow /\ Put(k, n, state)[k].note = n
           /\ \A l \in Keys : l # k => Put(k, n, state)[l] = rows[l]
<1> DEFINE s == IF state # "" THEN state ELSE IF rows[k] # NoRow THEN rows[k].state ELSE "open"
<1>1. s \in States
  BY DEF Rows, States
<1>2. Put(k, n, state) = [rows EXCEPT ![k] = [note |-> n, state |-> s]]
  BY DEF Put
<1> HIDE DEF s
<1>3. PICK r : r = [note |-> n, state |-> s]
  OBVIOUS
<1>4. r \in [note : Notes, state : States] /\ r.note = n
  BY <1>1, <1>3
<1>5. r # NoRow
  BY <1>4, NoRowAssumption
<1> QED BY <1>2, <1>3, <1>4, <1>5 DEF Rows

(* A key an item may be saved under is a key.                              *)
LEMMA KeyOfIs ==
    ASSUME NEW it \in Items, NEW k \in KeyOf(it)
    PROVE  k \in Keys /\ k # NoKey
<1>1. it.key \in Keys \cup {NoKey} /\ it.note \in Keys /\ NoKey \notin Keys
  BY KeysAssumption DEF Items, Keys
<1> QED BY <1>1 DEF KeyOf, OpenRowsOf

(* Where a task begins is a place a run may be.                            *)
LEMMA TaskStartIs ==
    ASSUME RunOK(run), run # Idle, run.at # "failing"
    PROVE  /\ RunOK(TaskStart) /\ TaskStart \in Runs /\ TaskStart.at \in {"check", "relate", "trades", "save"}
           /\ TaskStart.at = "save" => TaskStart.n = 1
<1>0. run \in Runs /\ Len(run.todo) \in Nat
  BY TodoIs DEF RunOK
<1>1. CASE run.at \in {"check", "relate"}
  BY <1>0, <1>1 DEF TaskStart, RunOK
<1>2. CASE run.at \notin {"check", "relate"} /\ run.broker
  BY <1>0, <1>2 DEF TaskStart, RunOK, Runs
<1>3. CASE run.at \notin {"check", "relate"} /\ ~run.broker
  <2>1. TaskStart = [run EXCEPT !.at = "save", !.n = 1, !.saved = 0, !.key = NoKey]
    BY <1>3 DEF TaskStart
  <2>2. /\ TaskStart \in Runs /\ TaskStart.at = "save" /\ TaskStart.n = 1
        /\ TaskStart.todo = run.todo /\ TaskStart.broker = run.broker
    BY <1>0, <2>1 DEF Runs
  <2> QED BY <1>0, <1>3, <2>2 DEF RunOK
<1> QED BY <1>1, <1>2, <1>3

(* The steps of a run keep what a run is.                                  *)
LEMMA RunStepsKeepRuns ==
    ASSUME TInv, RunSteps
    PROVE  RunsOK' /\ dead' \in [Mails -> Runs \cup {Idle}]
<1>0. /\ RunOK(run) /\ dead \in [Mails -> Runs \cup {Idle}] /\ RunOK(Idle) /\ queue \in Seq(Requests)
      /\ \A m \in Mails : DeadOK(dead[m])
  BY DEF TInv, RunsOK, RunOK, ScriptOK
<1>1. ASSUME run # Idle PROVE run \in Runs /\ Len(run.todo) \in Nat
  BY <1>0, <1>1, TodoIs DEF RunOK
<1>2. ASSUME RunOK(run'), UNCHANGED dead PROVE RunsOK' /\ dead' \in [Mails -> Runs \cup {Idle}]
  BY <1>0, <1>2 DEF RunsOK, RunOK, DeadOK
<1>i. Idle.at = "idle" /\ Idle \notin Runs
  BY DEF Idle, Runs
<1>3. CASE RunStarts
  <2>1. Head(queue) \in Requests
    BY <1>0, <1>3, HeadTailProperties DEF RunStarts
  <2>2. run' = Run("check", Head(queue).mail, Head(queue).category, FALSE, <<>>, 1, 0) /\ UNCHANGED dead
    BY <1>3 DEF RunStarts
  <2>3. Len(<<>>) = 0
    OBVIOUS
  <2>4. RunOK(run')
    BY <2>1, <2>2, <2>3 DEF RunOK, Runs, Run, Requests
  <2> QED BY <1>2, <2>2, <2>4
<1>4. CASE CheckMail
  <2>1. run \in Runs /\ run.at = "check" /\ UNCHANGED dead
    BY <1>1, <1>4, <1>i DEF CheckMail
  <2>2. \/ run' = Idle \/ run' = run
        \/ \E c \in {"finance", "other"}, b \in BOOLEAN :
              /\ run' = [run EXCEPT !.at = "relate", !.category = c, !.broker = b]
              /\ b => run.mail \in Brokers
    BY <1>4, <2>1 DEF CheckMail, RunMoves, Runs
  <2>3. ASSUME NEW c \in {"finance", "other"}, NEW b \in BOOLEAN, b => run.mail \in Brokers,
               run' = [run EXCEPT !.at = "relate", !.category = c, !.broker = b]
        PROVE  RunOK(run')
    <3>1. /\ run' \in Runs /\ run'.at = "relate" /\ run'.todo = run.todo /\ run'.n = run.n
          /\ run'.broker = b /\ run'.mail = run.mail
      BY <2>1, <2>3 DEF Runs
    <3> QED BY <1>0, <2>1, <2>3, <3>1, <1>i DEF RunOK
  <2> QED BY <1>0, <1>2, <2>1, <2>2, <2>3
<1>5. CASE Relate
  <2>1. run \in Runs /\ run.at = "relate" /\ UNCHANGED dead
    BY <1>1, <1>5, <1>i DEF Relate
  <2>2. CASE run.broker
    <3>1. PICK at \in {"trades", "finish"} : run' = [run EXCEPT !.at = at, !.saved = 0]
      BY <1>5, <2>2 DEF Relate, RunMoves
    <3>2. /\ run' \in Runs /\ run'.at = at /\ run'.todo = run.todo /\ run'.n = run.n
          /\ run'.broker = run.broker /\ run'.mail = run.mail
      BY <2>1, <3>1 DEF Runs
    <3>3. RunOK(run')
      BY <1>0, <2>1, <2>2, <3>2, <1>i DEF RunOK
    <3> QED BY <1>2, <2>1, <3>3
  <2>3. CASE ~run.broker
    <3>1. PICK j \in Judgings : run' = [run EXCEPT !.at = "save", !.todo = j, !.n = 1, !.saved = 0]
      BY <1>5, <2>3 DEF Relate, RunMoves
    <3>2. run' \in Runs /\ run'.at = "save" /\ run'.n = 1 /\ run'.broker = run.broker
      BY <2>1, <3>1 DEF Runs
    <3>3. Len(run'.todo) \in Nat
      BY <3>2, TodoIs
    <3>4. RunOK(run')
      BY <2>3, <3>2, <3>3 DEF RunOK
    <3> QED BY <1>2, <2>1, <3>4
  <2> QED BY <2>2, <2>3
<1>6. CASE SaveTrades
  <2>1. run \in Runs /\ run.at = "trades" /\ UNCHANGED dead /\ run' = [run EXCEPT !.at = "finish", !.saved = 1]
    BY <1>1, <1>6, <1>i DEF SaveTrades, RunMoves
  <2>2. /\ run' \in Runs /\ run'.at = "finish" /\ run'.todo = run.todo /\ run'.n = run.n
        /\ run'.broker = run.broker /\ run'.mail = run.mail
    BY <2>1 DEF Runs
  <2>3. RunOK(run')
    BY <1>0, <2>1, <2>2, <1>i DEF RunOK
  <2> QED BY <1>2, <2>1, <2>3
<1>7. CASE ReadItem
  <2>1. run \in Runs /\ run.at = "save" /\ UNCHANGED dead /\ run.n <= Len(run.todo) /\ run.n \in Nat
    <3>1. run \in Runs /\ run.at = "save" /\ UNCHANGED dead /\ ~SaveEnds
      BY <1>1, <1>7, <1>i DEF ReadItem
    <3> QED BY <1>1, <1>i, <3>1 DEF SaveEnds, Runs
  <2>2. Item \in Items
    BY <1>0, <2>1, <1>i, TodoIs DEF Item, RunOK
  <2>3. CASE Dropped(Item)
    <3>1. run' = [run EXCEPT !.n = @ + 1]
      BY <1>7, <2>3 DEF ReadItem, RunMoves
    <3>2. /\ run' \in Runs /\ run'.at = "save" /\ run'.n = run.n + 1 /\ run'.todo = run.todo
          /\ run'.broker = run.broker /\ run'.mail = run.mail
      BY <2>1, <3>1 DEF Runs
    <3>3. RunOK(run')
      BY <1>0, <1>1, <2>1, <3>2, <1>i DEF RunOK
    <3> QED BY <1>2, <2>1, <3>3
  <2>4. CASE ~Dropped(Item)
    <3>1. PICK k \in KeyOf(Item) : run' = [run EXCEPT !.at = "write", !.key = k]
      BY <1>7, <2>4 DEF ReadItem, RunMoves
    <3>2. k \in Keys /\ k # NoKey
      BY <2>2, KeyOfIs
    <3>3. /\ run' \in Runs /\ run'.at = "write" /\ run'.n = run.n /\ run'.todo = run.todo /\ run'.key = k
          /\ run'.broker = run.broker /\ run'.mail = run.mail
      BY <2>1, <3>1, <3>2 DEF Runs
    <3>4. RunOK(run')
      BY <1>0, <2>1, <3>2, <3>3, <1>i DEF RunOK
    <3> QED BY <1>2, <2>1, <3>4
  <2> QED BY <2>3, <2>4
<1>w. CASE WriteNote
  <2>1. run \in Runs /\ run.at = "write" /\ UNCHANGED dead /\ run' = [run EXCEPT !.at = "row"]
    BY <1>1, <1>w, <1>i DEF WriteNote, RunMoves
  <2>2. /\ run' \in Runs /\ run'.at = "row" /\ run'.todo = run.todo /\ run'.n = run.n /\ run'.key = run.key
        /\ run'.broker = run.broker /\ run'.mail = run.mail
    BY <2>1 DEF Runs
  <2>3. RunOK(run')
    BY <1>0, <2>1, <2>2, <1>i DEF RunOK
  <2> QED BY <1>2, <2>1, <2>3
<1>8. CASE PutItem
  <2>1. run \in Runs /\ run.at = "row" /\ UNCHANGED dead /\ run' = NextItem
    BY <1>1, <1>8, <1>i DEF PutItem, RunMoves
  <2>2. /\ run' \in Runs /\ run'.at = "save" /\ run'.n = run.n + 1 /\ run'.todo = run.todo
        /\ run'.broker = run.broker /\ run'.mail = run.mail
    <3>1. run.n + 1 \in Nat /\ run.saved + 1 \in Nat
      BY <2>1 DEF Runs
    <3>2. run' = [run EXCEPT !.at = "save", !.n = run.n + 1, !.saved = run.saved + 1, !.key = NoKey]
      BY <2>1 DEF NextItem
    <3> QED BY <2>1, <3>1, <3>2 DEF Runs
  <2>3. RunOK(run')
    BY <1>0, <1>1, <2>1, <2>2, <1>i DEF RunOK
  <2> QED BY <1>2, <2>1, <2>3
<1>9. CASE SaveFinishes
  <2>1. run \in Runs /\ UNCHANGED dead /\ run' = [run EXCEPT !.at = "finished"]
    BY <1>1, <1>9, <1>i DEF SaveFinishes, RunMoves
  <2>2. /\ run' \in Runs /\ run'.at = "finished" /\ run'.n = run.n /\ run'.todo = run.todo
        /\ run'.broker = run.broker /\ run'.mail = run.mail
    BY <2>1 DEF Runs
  <2>3. RunOK(run')
    BY <1>0, <2>1, <2>2, <1>i DEF RunOK
  <2> QED BY <1>2, <2>1, <2>3
<1>10. CASE RunEnds \/ OnFailure \/ RunCancelled
  BY <1>0, <1>2, <1>10 DEF RunEnds, OnFailure, RunCancelled, RunMoves
<1>11. CASE SaveRetry
  BY <1>0, <1>2, <1>11, <1>i, TaskStartIs DEF SaveRetry, RunMoves
<1>12. CASE RunFails
  <2>1. run \in Runs /\ run.at # "failing" /\ run.mail \in Mails
    BY <1>1, <1>12, <1>i DEF RunFails, Runs
  <2>2. dead' = [dead EXCEPT ![run.mail] = TaskStart] /\ run' = [run EXCEPT !.at = "failing"]
    BY <1>12 DEF RunFails, RunMoves
  <2>3. DeadOK(TaskStart) /\ TaskStart \in Runs
    BY <1>0, <2>1, <1>i, TaskStartIs DEF DeadOK
  <2>4. /\ run' \in Runs /\ run'.at = "failing" /\ run'.n = run.n /\ run'.todo = run.todo
        /\ run'.broker = run.broker /\ run'.mail = run.mail
    BY <2>1, <2>2 DEF Runs
  <2>5. RunOK(run')
    BY <1>0, <2>1, <2>4, <1>i DEF RunOK
  <2>6. dead' \in [Mails -> Runs \cup {Idle}]
    BY <1>0, <2>1, <2>2, <2>3
  <2>7. \A m \in Mails : dead'[m] = dead[m] \/ dead'[m] = TaskStart
    BY <1>0, <2>2
  <2>8. \A m \in Mails : DeadOK(dead'[m])
    BY <1>0, <2>3, <2>7
  <2> QED BY <2>5, <2>6, <2>8 DEF RunsOK, RunOK, DeadOK
<1> QED BY <1>3, <1>4, <1>5, <1>6, <1>7, <1>w, <1>8, <1>9, <1>10, <1>11, <1>12 DEF RunSteps

(* The steps of a run keep the shape of what it leaves.                    *)
LEMMA RunStepsKeepMemory ==
    ASSUME TInv, RunSteps
    PROVE  MemoryOK' /\ ScriptOK'
<1>0. /\ RunOK(run) /\ message \in Statuses /\ notes \subseteq Notes /\ chats \subseteq Notes /\ ledger \subseteq Brokers
      /\ rows \in Rows /\ Idle \notin Runs /\ Idle.at = "idle" /\ queue \in Seq(Requests)
  BY DEF TInv, RunsOK, MemoryOK, ScriptOK, Idle, Runs
<1>s. ScriptOK'
  <2>1. queue # <<>> => Tail(queue) \in Seq(Requests)
    BY <1>0, HeadTailProperties
  <2>2. UNCHANGED scriptVars /\ (queue' = queue \/ (queue # <<>> /\ queue' = Tail(queue)))
    BY DEF RunSteps, RunStarts, CheckMail, Relate, SaveTrades, ReadItem, WriteNote, PutItem, SaveFinishes, RunEnds,
           SaveRetry, RunFails, OnFailure, RunCancelled, RunMoves
  <2> QED BY <1>0, <2>1, <2>2 DEF TInv, ScriptOK, scriptVars
<1>1. ASSUME NEW m \in Mails, NEW s \in {"done", "skipped", "failed"}, FinishMessage(m, s)
      PROVE  message' \in Statuses
  BY <1>0, <1>1 DEF FinishMessage, Statuses
<1>2. ASSUME run # Idle PROVE run \in Runs /\ run.mail \in Mails
  BY <1>0, <1>2 DEF RunOK, Runs
<1>3. CASE CheckMail
  <2>1. run \in Runs /\ run.mail \in Mails /\ run.category \in {"finance", "other"}
    BY <1>0, <1>2, <1>3 DEF CheckMail, Runs
  <2>2. UNCHANGED message \/ \E c \in {"finance", "other"} : PickMessage(run.mail, c)
    BY <1>3, <2>1 DEF CheckMail
  <2>3. message' \in Statuses
    BY <1>0, <2>1, <2>2 DEF PickMessage, Statuses
  <2> QED BY <1>0, <1>3, <1>s, <2>3 DEF CheckMail, memoryVars, MemoryOK
<1>4. CASE SaveTrades
  <2>1. run \in Runs /\ run.at = "trades"
    BY <1>0, <1>2, <1>4 DEF SaveTrades
  <2>2. run.mail \in Brokers
    BY <1>0, <2>1 DEF RunOK
  <2> QED BY <1>0, <1>4, <1>s, <2>2 DEF SaveTrades, MemoryOK
<1>5. CASE WriteNote
  <2>1. run \in Runs /\ run.at = "write" /\ run.n <= Len(run.todo) /\ run.n \in 1..(Len(run.todo) + 1)
    BY <1>0, <1>2, <1>5 DEF WriteNote, RunOK
  <2>2. Item \in Items
    BY <1>0, <2>1, TodoIs DEF Item
  <2>3. notes' \subseteq Notes /\ chats' \subseteq Notes
    BY <1>0, <1>5, <2>2 DEF WriteNote, Items
  <2> QED BY <1>0, <1>5, <1>s, <2>3 DEF WriteNote, MemoryOK
<1>6. CASE PutItem
  <2>1. run \in Runs /\ run.at = "row" /\ run.n <= Len(run.todo) /\ run.n \in 1..(Len(run.todo) + 1)
        /\ run.key \in Keys
    BY <1>0, <1>2, <1>6 DEF PutItem, RunOK, Runs
  <2>2. Item \in Items
    BY <1>0, <2>1, TodoIs DEF Item
  <2>3. Item.note \in Notes /\ Item.state \in States \cup {""}
    BY <2>2 DEF Items
  <2>4. Put(run.key, Item.note, Item.state) \in Rows
    BY <1>0, <2>1, <2>3, PutIs
  <2>5. rows' \in Rows
    BY <1>0, <1>6, <2>4 DEF PutItem
  <2> QED BY <1>0, <1>6, <1>s, <2>5 DEF PutItem, MemoryOK
<1>7. CASE SaveFinishes \/ OnFailure
  <2>1. run \in Runs /\ run.mail \in Mails
    BY <1>0, <1>2, <1>7 DEF SaveFinishes, OnFailure
  <2>2. message' \in Statuses
    BY <1>0, <1>1, <1>7, <2>1 DEF SaveFinishes, OnFailure
  <2> QED BY <1>0, <1>7, <1>s, <2>2 DEF SaveFinishes, OnFailure, memoryVars, MemoryOK
<1>8. CASE RunStarts \/ Relate \/ ReadItem \/ RunEnds \/ SaveRetry \/ RunFails \/ RunCancelled
  BY <1>0, <1>8, <1>s DEF RunStarts, Relate, ReadItem, RunEnds, SaveRetry, RunFails, RunCancelled, memoryVars,
         MemoryOK
<1> QED BY <1>3, <1>4, <1>5, <1>6, <1>7, <1>8 DEF RunSteps

(* Every step keeps the shape.                                             *)
LEMMA NextTInv ==
    ASSUME TInv, [Next]_vars
    PROVE  TInv'
<1>1. CASE RunSteps
  BY <1>1, RunStepsKeepRuns, RunStepsKeepMemory DEF TInv
<1>2. CASE ScriptSteps
  BY <1>2, ScriptKeepsShape, ScriptFrame DEF TInv, RunsOK, RunOK, DeadOK, MemoryOK, memoryVars
<1>3. ASSUME NEW m \in Mails, Replay(m) PROVE TInv'
  <2>1. UNCHANGED <<scriptVars, queue, message, memoryVars>> /\ run' = dead[m] /\ dead' = [dead EXCEPT ![m] = Idle]
    BY <1>3 DEF Replay
  <2>2. dead' \in [Mails -> Runs \cup {Idle}] /\ \A x \in Mails : dead'[x] \in {Idle, dead[x]}
    BY <2>1 DEF TInv
  <2>3. RunOK(run') /\ \A x \in Mails : DeadOK(dead'[x])
    <3>1. \A x \in Mails : DeadOK(dead[x])
      BY DEF TInv, RunsOK
    <3>2. DeadOK(Idle)
      BY DEF RunOK, DeadOK
    <3> QED BY <2>1, <2>2, <3>1, <3>2 DEF DeadOK
  <2>4. RunsOK'
    BY <2>3 DEF RunsOK, RunOK, DeadOK
  <2> QED BY <2>1, <2>2, <2>4 DEF TInv, ScriptOK, MemoryOK, scriptVars, memoryVars
<1>4. ASSUME NEW n \in Notes, ChatWrites(n) \/ ChatDeletes(n) PROVE TInv'
  BY <1>4 DEF ChatWrites, ChatDeletes, TInv, ScriptOK, RunsOK, RunOK, DeadOK, MemoryOK, scriptVars
<1>7. ASSUME NEW n \in Notes, ChatSavesItem(n) PROVE TInv'
  <2>1. n \in Keys /\ "" \in States \cup {""} /\ rows \in Rows
    BY DEF Keys, TInv, MemoryOK
  <2>2. rows' \in Rows
    BY <1>7, <2>1, PutIs DEF ChatSavesItem
  <2> QED BY <1>7, <2>2 DEF ChatSavesItem, TInv, ScriptOK, RunsOK, RunOK, DeadOK, MemoryOK, scriptVars
<1>5. ASSUME NEW k \in Keys, NEW state \in States, CloseItem(k, state) PROVE TInv'
  <2>1. rows' \in Rows
    BY <1>5 DEF CloseItem, TInv, MemoryOK, Rows
  <2> QED BY <1>5, <2>1 DEF CloseItem, TInv, ScriptOK, RunsOK, RunOK, DeadOK, MemoryOK, scriptVars
<1>6. CASE UNCHANGED vars
  BY <1>6 DEF vars, TInv, ScriptOK, RunsOK, RunOK, DeadOK, MemoryOK
<1> QED BY <1>1, <1>2, <1>3, <1>4, <1>5, <1>6, <1>7 DEF Next, ScriptSteps

(* Every variable keeps its shape, for any mails and whatever is judged of *)
(* them: a row is a task's or event's of a note, a broker's mail alone     *)
(* goes to the ledger.                                                     *)
THEOREM TypeCorrect == Spec => []TypeOK
BY InitTInv, NextTInv, TInvShape, PTL DEF Spec

-----------------------------------------------------------------------------
(* What changes a message's row, which is what a finished message stays by.*)
LEMMA MessageMoves ==
    ASSUME TInv, [Next]_vars, NEW m \in Mails, message'[m] # message[m],
           message[m].status \in {"done", "skipped"}
    PROVE  message[m].category # "finance" /\ message'[m] = [status |-> "picked", category |-> "finance"]
<1>0. message \in Statuses
  BY DEF TInv, MemoryOK
<1>1. CASE CheckMail
  <2>1. PICK c \in {"finance", run.category}, stuck \in BOOLEAN :
            PickMessage(run.mail, c) /\ MayPick(run.mail, c, stuck)
    BY <1>1 DEF CheckMail
  <2>2. m = run.mail /\ message'[m] = [status |-> "picked", category |-> c]
    BY <1>0, <2>1 DEF PickMessage, Statuses
  <2> QED BY <2>1, <2>2 DEF MayPick
<1>2. ASSUME NEW x, NEW s, FinishMessage(x, s) PROVE message'[m] = message[m]
  BY <1>0, <1>2 DEF FinishMessage, Statuses
<1>3. CheckMail \/ (\E x, s : FinishMessage(x, s)) \/ UNCHANGED message
  BY DEF Next, RunSteps, RunStarts, CheckMail, Relate, SaveTrades, ReadItem, WriteNote, PutItem, SaveFinishes, RunEnds,
         SaveRetry, RunFails, OnFailure, RunCancelled, Replay, ChatWrites, ChatDeletes, ChatSavesItem,
         CloseItem, ScriptSkips, ScriptFails,
         ScriptSends, ScriptRefused, RemoveLabel, TrustSender, Backfill, vars
<1> QED BY <1>1, <1>2, <1>3

(* A finished message stays so for good, but that one read into memory is  *)
(* read once more, into the ledger, for any mails sent again, runs failed  *)
(* late, retried, cancelled or replayed.                                   *)
THEOREM FinishedStaysAlways == Spec => FinishedStays
<1>1. TInv /\ [Next]_vars =>
        [\A m \in Mails : message[m].status \in {"done", "skipped"} /\ message'[m] # message[m] =>
            /\ message[m].category # "finance"
            /\ message'[m] = [status |-> "picked", category |-> "finance"]]_message
  BY MessageMoves
<1> QED BY <1>1, InitTInv, NextTInv, PTL DEF Spec, FinishedStays

-----------------------------------------------------------------------------
(* Rows and notes. Only a chat takes a note away, and is then the last to  *)
(* have dealt with it; the note of the item a run is about to save a row   *)
(* of was written by the run, or dealt with by a chat since.               *)
WInv == RowHasNote /\ (run.at = "row" => Item.note \in notes \cup chats)

(* The steps that read or write a note or a row, and what the run does then. *)
WriteSteps ==
    \/ ReadItem \/ WriteNote \/ PutItem
    \/ \E n \in Notes : ChatWrites(n) \/ ChatDeletes(n) \/ ChatSavesItem(n)

(* No step takes a note out of those that are there or are the chats'.     *)
LEMMA NotesStay ==
    ASSUME [Next]_vars
    PROVE  notes \cup chats \subseteq (notes \cup chats)'
BY DEF Next, RunSteps, RunStarts, CheckMail, Relate, SaveTrades, ReadItem, WriteNote, PutItem, SaveFinishes,
     RunEnds, SaveRetry, RunFails, OnFailure, RunCancelled, Replay, ChatWrites, ChatDeletes, ChatSavesItem,
     CloseItem, ScriptSkips, ScriptFails, ScriptSends, ScriptRefused, RemoveLabel, TrustSender, Backfill,
     memoryVars, vars

(* The item in hand is one.                                                *)
LEMMA ItemIs ==
    ASSUME TInv, run.at \in {"write", "row"} \/ (run.at = "save" /\ ~SaveEnds)
    PROVE  /\ run \in Runs /\ run.n \in 1..Len(run.todo) /\ Len(run.todo) \in Nat /\ Item \in Items
           /\ run.at \in {"write", "row"} => run.key \in Keys
<1>1. run \in Runs /\ RunOK(run)
  BY DEF TInv, RunsOK, RunOK, Idle
<1>2. Len(run.todo) \in Nat /\ \A i \in 1..Len(run.todo) : run.todo[i] \in Items
  BY <1>1, TodoIs
<1>3. run.n \in 1..(Len(run.todo) + 1) /\ (run.at \in {"write", "row"} => run.n <= Len(run.todo))
  BY <1>1 DEF RunOK, Idle, Runs
<1>4. run.n \in 1..Len(run.todo)
  BY <1>2, <1>3 DEF SaveEnds
<1>5. run.at \in {"write", "row"} => run.key \in Keys
  BY <1>1 DEF RunOK, Idle, Runs
<1> QED BY <1>1, <1>2, <1>4, <1>5 DEF Item

(* All other steps leave the notes and whose the rows are ...              *)
LEMMA OthersKeepRows ==
    ASSUME TInv, [Next]_vars, ~WriteSteps
    PROVE  /\ UNCHANGED <<notes, chats>>
           /\ \A k \in Keys : /\ rows'[k] = NoRow <=> rows[k] = NoRow
                              /\ rows[k] # NoRow => rows'[k].note = rows[k].note
<1>1. CASE \E k \in Keys, state \in States : CloseItem(k, state)
  <2>0. rows \in Rows
    BY DEF TInv, MemoryOK
  <2>1. PICK k \in Keys, state \in States : CloseItem(k, state)
    BY <1>1
  <2>2. UNCHANGED <<notes, chats>> /\ rows' = [rows EXCEPT ![k].state = state] /\ rows[k] # NoRow
    BY <2>1 DEF CloseItem
  <2>3. rows[k] \in [note : Notes, state : States]
    BY <2>0, <2>2 DEF Rows
  <2>4. /\ rows'[k] \in [note : Notes, state : States] /\ rows'[k].note = rows[k].note
        /\ \A l \in Keys : l # k => rows'[l] = rows[l]
    BY <2>0, <2>2, <2>3 DEF Rows
  <2> QED BY <2>2, <2>4, NoRowAssumption
<1>2. CASE ~\E k \in Keys, state \in States : CloseItem(k, state)
  <2>1. UNCHANGED <<notes, chats, rows>>
    BY <1>2 DEF WriteSteps, Next, RunSteps, RunStarts, CheckMail, Relate, SaveTrades, SaveFinishes, RunEnds,
         SaveRetry, RunFails, OnFailure, RunCancelled, Replay, ScriptSkips, ScriptFails, ScriptSends,
         ScriptRefused, RemoveLabel, TrustSender, Backfill, memoryVars, vars
  <2> QED BY <2>1
<1> QED BY <1>1, <1>2

(* ... and none takes a run to a row, or to an item but the first.         *)
LEMMA OthersGo ==
    ASSUME TInv, [Next]_vars, ~WriteSteps
    PROVE  run' = run \/ run'.at \notin {"save", "write", "row"} \/ (run'.at = "save" /\ run'.n = 1)
<1>0. RunOK(run) /\ (\A m \in Mails : DeadOK(dead[m])) /\ Idle.at = "idle" /\ (run = Idle \/ run \in Runs)
  BY DEF TInv, RunsOK, RunOK, Idle
<1>1. CASE RunStarts
  BY <1>1 DEF RunStarts, Run
<1>2. CASE CheckMail
  <2>1. run \in Runs
    BY <1>0, <1>2 DEF CheckMail
  <2>2. \/ run' = Idle \/ run' = run
        \/ \E c, b : run' = [run EXCEPT !.at = "relate", !.category = c, !.broker = b]
    BY <1>2 DEF CheckMail, RunMoves
  <2>3. ASSUME NEW c, NEW b, run' = [run EXCEPT !.at = "relate", !.category = c, !.broker = b]
        PROVE  run'.at = "relate"
    BY <2>1, <2>3 DEF Runs
  <2> QED BY <1>0, <2>2, <2>3
<1>3. CASE Relate
  <2>1. run \in Runs
    BY <1>0, <1>3 DEF Relate
  <2>2. \/ \E at \in {"trades", "finish"} : run' = [run EXCEPT !.at = at, !.saved = 0]
        \/ \E j \in Judgings : run' = [run EXCEPT !.at = "save", !.todo = j, !.n = 1, !.saved = 0]
    BY <1>3 DEF Relate, RunMoves
  <2>3. ASSUME NEW at \in {"trades", "finish"}, run' = [run EXCEPT !.at = at, !.saved = 0]
        PROVE  run'.at \notin {"save", "write", "row"}
    BY <2>1, <2>3 DEF Runs
  <2>4. ASSUME NEW j \in Judgings, run' = [run EXCEPT !.at = "save", !.todo = j, !.n = 1, !.saved = 0]
        PROVE  run'.at = "save" /\ run'.n = 1
    BY <2>1, <2>4 DEF Runs
  <2> QED BY <2>2, <2>3, <2>4
<1>4. ASSUME NEW at \in {"finished", "failing"}, run' = [run EXCEPT !.at = at], run \in Runs
      PROVE  run'.at \notin {"save", "write", "row"}
  BY <1>4 DEF Runs
<1>5. CASE SaveTrades
  <2>1. run \in Runs /\ run' = [run EXCEPT !.at = "finish", !.saved = 1]
    BY <1>0, <1>5 DEF SaveTrades, RunMoves
  <2> QED BY <2>1 DEF Runs
<1>6. CASE SaveFinishes \/ RunFails
  BY <1>0, <1>4, <1>6 DEF SaveFinishes, RunFails, RunMoves
<1>7. CASE RunEnds \/ OnFailure \/ RunCancelled
  BY <1>0, <1>7 DEF RunEnds, OnFailure, RunCancelled, RunMoves
<1>8. CASE SaveRetry
  <2>1. run # Idle /\ run.at # "failing" /\ run' = TaskStart
    BY <1>0, <1>8 DEF SaveRetry, RunMoves
  <2> QED BY <1>0, <2>1, TaskStartIs
<1>9. ASSUME NEW m \in Mails, Replay(m) PROVE run'.at \notin {"save", "write", "row"} \/ (run'.at = "save" /\ run'.n = 1)
  BY <1>0, <1>9 DEF Replay, DeadOK
<1>10. CASE UNCHANGED run
  BY <1>10
<1>11. ScriptSteps => UNCHANGED run
  BY ScriptFrame
<1> QED BY <1>1, <1>2, <1>3, <1>5, <1>6, <1>7, <1>8, <1>9, <1>10, <1>11
        DEF WriteSteps, Next, RunSteps, ScriptSteps, CloseItem, vars

(* Every step keeps each row its note.                                     *)
LEMMA NextWInv ==
    ASSUME TInv, WInv, [Next]_vars
    PROVE  WInv'
<1>0. rows \in Rows
  BY DEF TInv, MemoryOK
<1>p. ASSUME NEW k \in Keys, NEW n \in Notes, NEW state \in States \cup {""}, rows' = Put(k, n, state)
      PROVE  rows'[k].note = n /\ \A l \in Keys : l # k => rows'[l] = rows[l]
  <2>1. Put(k, n, state)[k].note = n
    BY <1>0, PutIs
  <2>2. \A l \in Keys : l # k => Put(k, n, state)[l] = rows[l]
    BY <1>0, PutIs
  <2> QED BY <1>p, <2>1, <2>2
<1>1. CASE ~WriteSteps
  <2>1. RowHasNote'
    BY <1>1, OthersKeepRows DEF WInv, RowHasNote
  <2>2. run'.at = "row" => run' = run
    BY <1>1, OthersGo
  <2> QED BY <1>1, <2>1, <2>2, OthersKeepRows DEF WInv, Item
<1>c. notes \cup chats \subseteq (notes \cup chats)'
  BY NotesStay
<1>r. ASSUME UNCHANGED rows PROVE RowHasNote'
  BY <1>c, <1>r DEF WInv, RowHasNote
<1>5. CASE ReadItem
  <2>1. run \in Runs /\ run.at = "save" /\ UNCHANGED rows
    BY <1>5, ItemIs DEF ReadItem, memoryVars
  <2>2. run' = [run EXCEPT !.n = @ + 1] \/ \E k : run' = [run EXCEPT !.at = "write", !.key = k]
    BY <1>5 DEF ReadItem, RunMoves
  <2>3. run'.at # "row"
    BY <2>1, <2>2 DEF Runs
  <2> QED BY <1>r, <2>1, <2>3 DEF WInv
<1>2. CASE WriteNote
  <2>1. run \in Runs /\ UNCHANGED rows /\ notes' = notes \cup {Item.note} /\ run' = [run EXCEPT !.at = "row"]
    BY <1>2, ItemIs DEF WriteNote, RunMoves
  <2>2. run'.todo = run.todo /\ run'.n = run.n
    BY <2>1 DEF Runs
  <2>3. Item' \in {Item}
    BY <2>2 DEF Item
  <2>4. Item'.note \in notes'
    BY <2>1, <2>3
  <2> QED BY <1>r, <2>1, <2>4 DEF WInv
<1>3. CASE PutItem
  <2>1. run \in Runs /\ run.at = "row" /\ Item \in Items /\ run.key \in Keys /\ UNCHANGED <<notes, chats>>
        /\ run' = NextItem
    BY <1>3, ItemIs DEF PutItem, RunMoves
  <2>2. run'.at = "save"
    BY <2>1 DEF NextItem, Runs
  <2>3. RowHasNote'
    <3>1. CASE Item.kind = "person"
      BY <1>3, <2>1, <3>1 DEF PutItem, WInv, RowHasNote
    <3>2. CASE Item.kind # "person"
      <4>1. rows' = Put(run.key, Item.note, Item.state)
        BY <1>3, <3>2 DEF PutItem
      <4>2. Item.note \in Notes /\ Item.state \in States \cup {""}
        BY <2>1 DEF Items
      <4>3. rows'[run.key].note = Item.note /\ \A l \in Keys : l # run.key => rows'[l] = rows[l]
        BY <1>p, <2>1, <4>1, <4>2
      <4> QED BY <2>1, <4>3 DEF WInv, RowHasNote
    <3> QED BY <3>1, <3>2
  <2> QED BY <2>2, <2>3 DEF WInv
<1>4. ASSUME NEW n \in Notes, ChatWrites(n) \/ ChatDeletes(n) PROVE WInv'
  <2>1. UNCHANGED <<rows, run>>
    BY <1>4 DEF ChatWrites, ChatDeletes
  <2> QED BY <1>c, <1>r, <2>1 DEF WInv, Item
<1>6. ASSUME NEW n \in Notes, ChatSavesItem(n) PROVE WInv'
  <2>1. rows' = Put(n, n, "") /\ n \in chats' /\ UNCHANGED run /\ n \in Keys
    BY <1>6 DEF ChatSavesItem, Keys
  <2>2. rows'[n].note = n /\ \A l \in Keys : l # n => rows'[l] = rows[l]
    BY <1>p, <2>1
  <2> QED BY <1>c, <2>1, <2>2 DEF WInv, RowHasNote, Item
<1> QED BY <1>1, <1>2, <1>3, <1>4, <1>5, <1>6 DEF WriteSteps

(* Every row of a task or event names a note that is there or that a chat  *)
(* dealt with last, whatever keys and notes the turns name and wherever    *)
(* saves stop: only chats leave rows without their notes.                  *)
THEOREM RowHasNoteAlways == Spec => []RowHasNote
<1>1. Init => WInv
  BY DEF Init, WInv, RowHasNote, Idle
<1>2. WInv => RowHasNote
  BY DEF WInv
<1> QED BY <1>1, <1>2, InitTInv, NextTInv, NextWInv, PTL DEF Spec

-----------------------------------------------------------------------------
(* What a finished message promised.                                       *)
HasRow(n) == \E k \in Keys : rows[k] # NoRow /\ rows[k].note = n

Kept(it) == it.note \in notes \cup chats /\ (it.kind # "person" => HasRow(it.note))

RowsOwned == \A k \in Keys : rows[k] # NoRow => Owns(rows[k].note, k)

SavedSoFar ==
    /\ run.at \in {"write", "row"} => Owns(Item.note, run.key)
    /\ run.at \in {"save", "write", "row"} => \A i \in 1..(run.n - 1) : \A it : it = run.todo[i] => Kept(it)

PromisesKept == DOMAIN promised = Mails /\ \A m \in Mails : \A it \in promised[m] : Kept(it)

KInv == RowsOwned /\ SavedSoFar /\ PromisesKept

(* A row put under a key of its note's takes no other note's row.          *)
LEMMA PutKeepsRows ==
    ASSUME KeysApart, rows \in Rows, RowsOwned, NEW k \in Keys, NEW n \in Notes, NEW state \in States \cup {""},
           Owns(n, k), rows' = Put(k, n, state)
    PROVE  RowsOwned' /\ HasRow(n)' /\ \A o : HasRow(o) => HasRow(o)'
<1>1. rows'[k] # NoRow /\ rows'[k].note = n
  <2>1. Put(k, n, state)[k] # NoRow /\ Put(k, n, state)[k].note = n
    BY PutIs
  <2> QED BY <2>1
<1>2. \A l \in Keys : l # k => rows'[l] = rows[l]
  <2>1. \A l \in Keys : l # k => Put(k, n, state)[l] = rows[l]
    BY PutIs
  <2> QED BY <2>1
<1>3. RowsOwned'
  BY <1>1, <1>2 DEF RowsOwned
<1>4. ASSUME NEW o, HasRow(o) PROVE HasRow(o)'
  <2>1. PICK l \in Keys : rows[l] # NoRow /\ rows[l].note = o
    BY <1>4 DEF HasRow
  <2>2. CASE l # k
    BY <1>2, <2>1, <2>2 DEF HasRow
  <2>3. CASE l = k
    <3>1. o \in Notes /\ Owns(o, k)
      BY <2>1, <2>3 DEF Rows, RowsOwned
    <3>2. o = n
      BY <3>1 DEF KeysApart
    <3> QED BY <1>1, <3>2 DEF HasRow
  <2> QED BY <2>2, <2>3
<1>5. HasRow(n)'
  BY <1>1 DEF HasRow
<1> QED BY <1>3, <1>4, <1>5

(* A key an item may be saved under is its note's.                         *)
LEMMA KeyOfOwned ==
    ASSUME RowsOwned, NEW j \in Judgings, NEW i \in 1..Len(j), NEW k \in KeyOf(j[i])
    PROVE  Owns(j[i].note, k)
<1>1. CASE j[i].key # NoKey
  BY <1>1 DEF KeyOf, Owns
<1>2. CASE j[i].key = NoKey
  <2>1. k \in OpenRowsOf(j[i].note) \/ k = j[i].note
    BY <1>2 DEF KeyOf
  <2>2. CASE k \in OpenRowsOf(j[i].note)
    BY <2>2 DEF OpenRowsOf, RowsOwned
  <2> QED BY <2>1, <2>2 DEF Owns
<1> QED BY <1>1, <1>2

(* An item saved has its note and row, and takes no other's.               *)
LEMMA PutItemKeeps ==
    ASSUME KeysApart, TInv, WInv, KInv, PutItem
    PROVE  RowsOwned' /\ (\A it : Kept(it) => Kept(it)') /\ (\A it : it = Item => Kept(it)')
<1>0. rows \in Rows /\ RowsOwned
  BY DEF TInv, MemoryOK, KInv
<1>1. /\ run.at = "row" /\ Item \in Items /\ run.key \in Keys /\ UNCHANGED <<notes, chats>>
      /\ Item.note \in notes \cup chats
      /\ Owns(Item.note, run.key)
  BY ItemIs DEF PutItem, WInv, KInv, SavedSoFar
<1>2. CASE Item.kind = "person"
  <2>1. UNCHANGED rows
    BY <1>2 DEF PutItem
  <2>2. RowsOwned'
    BY <1>0, <2>1 DEF RowsOwned
  <2>3. \A it : Kept(it) => Kept(it)'
    BY <1>1, <2>1 DEF Kept, HasRow
  <2>4. ASSUME NEW it, it = Item PROVE Kept(it)'
    BY <1>1, <1>2, <2>4 DEF Kept
  <2> QED BY <2>2, <2>3, <2>4
<1>3. CASE Item.kind # "person"
  <2>1. PICK n \in Notes, state \in States \cup {""} : n = Item.note /\ state = Item.state
    BY <1>1 DEF Items
  <2>2. PICK k \in Keys : k = run.key
    BY <1>1
  <2>3. rows' = Put(k, n, state) /\ Owns(n, k)
    BY <1>1, <1>3, <2>1, <2>2 DEF PutItem
  <2>4. RowsOwned' /\ HasRow(n)' /\ \A o : HasRow(o) => HasRow(o)'
    BY <1>0, <2>3, PutKeepsRows
  <2>5. \A it : Kept(it) => Kept(it)'
    BY <1>1, <2>4 DEF Kept
  <2>6. ASSUME NEW it, it = Item PROVE Kept(it)'
    <3>1. it.note \in (notes \cup chats)' /\ it.note = n
      BY <1>1, <2>1, <2>6
    <3> QED BY <2>4, <3>1 DEF Kept
  <2> QED BY <2>4, <2>5, <2>6
<1> QED BY <1>2, <1>3

(* No step but a chat's takes a note away, none a note's last row.         *)
LEMMA KeptStays ==
    ASSUME KeysApart, TInv, WInv, KInv, [Next]_vars
    PROVE  RowsOwned' /\ \A it : Kept(it) => Kept(it)'
<1>0. rows \in Rows /\ RowsOwned
  BY DEF TInv, MemoryOK, KInv
<1>c. notes \cup chats \subseteq (notes \cup chats)'
  BY NotesStay
<1>1. CASE ~WriteSteps
  <2>1. RowsOwned'
    BY <1>0, <1>1, OthersKeepRows DEF RowsOwned
  <2>2. \A o : HasRow(o) => HasRow(o)'
    BY <1>1, OthersKeepRows DEF HasRow
  <2> QED BY <1>c, <2>1, <2>2 DEF Kept
<1>2. CASE UNCHANGED rows
  <2>1. RowsOwned'
    BY <1>0, <1>2 DEF RowsOwned
  <2>2. \A it : Kept(it) => Kept(it)'
    BY <1>c, <1>2 DEF Kept, HasRow
  <2> QED BY <2>1, <2>2
<1>3. CASE PutItem
  BY <1>3, PutItemKeeps
<1>4. ASSUME NEW n \in Notes, ChatSavesItem(n) PROVE RowsOwned' /\ \A it : Kept(it) => Kept(it)'
  <2>1. rows' = Put(n, n, "") /\ n \in Keys /\ Owns(n, n) /\ "" \in States \cup {""}
    BY <1>4 DEF ChatSavesItem, Keys, Owns
  <2>2. RowsOwned' /\ \A o : HasRow(o) => HasRow(o)'
    BY <1>0, <2>1, PutKeepsRows
  <2> QED BY <1>c, <2>1, <2>2 DEF Kept
<1>5. WriteSteps => UNCHANGED rows \/ PutItem \/ \E n \in Notes : ChatSavesItem(n)
  BY DEF WriteSteps, ReadItem, WriteNote, ChatWrites, ChatDeletes, memoryVars
<1>6. CASE \E n \in Notes : ChatSavesItem(n)
  <2>1. PICK n \in Notes : ChatSavesItem(n)
    BY <1>6
  <2> QED BY <1>4, <2>1
<1> QED BY <1>1, <1>2, <1>3, <1>5, <1>6

(* What SaveFinishes promises was saved, item by item.                     *)
LEMMA SavedIsKept ==
    ASSUME TInv, KInv, SaveFinishes
    PROVE  \A it \in Saved : Kept(it)
<1>1. run \in Runs /\ RunOK(run) /\ run.at \in {"finish", "save"}
  BY DEF SaveFinishes, TInv, RunsOK, RunOK, Idle
<1>2. Len(run.todo) \in Nat
  BY <1>1, TodoIs
<1>3. CASE run.at = "finish"
  <2>1. run.todo = <<>>
    BY <1>1, <1>3 DEF RunOK, Idle, Runs
  <2> QED BY <2>1, EmptySeq DEF Saved
<1>4. CASE run.at = "save"
  <2>1. SaveEnds /\ run.n \in Nat
    BY <1>1, <1>4 DEF SaveFinishes, Runs
  <2>2. \A i \in 1..Len(run.todo) : i \in 1..(run.n - 1)
    BY <1>2, <2>1 DEF SaveEnds
  <2> QED BY <1>4, <2>2 DEF Saved, KInv, SavedSoFar
<1> QED BY <1>1, <1>3, <1>4

(* Every step keeps the promises.                                          *)
LEMMA NextKInv ==
    ASSUME KeysApart, TInv, WInv, KInv, [Next]_vars
    PROVE  KInv'
<1>0. RowsOwned' /\ \A it : Kept(it) => Kept(it)'
  BY KeptStays
<1>1. PromisesKept'
  <2>1. CASE UNCHANGED promised
    BY <1>0, <2>1 DEF KInv, PromisesKept
  <2>2. CASE SaveFinishes
    <3>1. DOMAIN promised' = Mails /\ \A m \in Mails : promised'[m] = promised[m] \/ promised'[m] = Saved
      BY <2>2 DEF SaveFinishes, KInv, PromisesKept
    <3>2. \A m \in Mails : \A it \in promised'[m] : Kept(it)
      BY <2>2, <3>1, SavedIsKept DEF KInv, PromisesKept
    <3> QED BY <1>0, <3>1, <3>2 DEF PromisesKept
  <2>3. UNCHANGED promised \/ SaveFinishes
    BY DEF Next, RunSteps, RunStarts, CheckMail, Relate, SaveTrades, ReadItem, WriteNote, PutItem, RunEnds,
         SaveRetry, RunFails, OnFailure, RunCancelled, Replay, ChatWrites, ChatDeletes, ChatSavesItem,
         CloseItem, ScriptSkips, ScriptFails,
         ScriptSends, ScriptRefused, RemoveLabel, TrustSender, Backfill, vars
  <2> QED BY <2>1, <2>2, <2>3
<1>2. CASE ~WriteSteps
  <2>1. SavedSoFar'
    <3>1. run' = run \/ run'.at \notin {"save", "write", "row"} \/ (run'.at = "save" /\ run'.n = 1)
      BY <1>2, OthersGo
    <3>2. CASE run' = run
      BY <1>0, <3>2 DEF KInv, SavedSoFar, Item
    <3>3. CASE run'.at \notin {"save", "write", "row"}
      BY <3>3 DEF SavedSoFar
    <3>4. CASE run'.at = "save" /\ run'.n = 1
      BY <3>4 DEF SavedSoFar
    <3> QED BY <3>1, <3>2, <3>3, <3>4
  <2> QED BY <1>0, <1>1, <2>1 DEF KInv
<1>3. CASE ReadItem
  <2>1. /\ run \in Runs /\ run.n \in 1..Len(run.todo) /\ Len(run.todo) \in Nat /\ run.at = "save"
        /\ Item = run.todo[run.n]
    BY <1>3, ItemIs DEF ReadItem, Item
  <2>2. \A i \in 1..(run.n - 1) : Kept(run.todo[i])
    BY <2>1 DEF KInv, SavedSoFar
  <2>3. CASE Dropped(Item)
    <3>1. run' = [run EXCEPT !.n = @ + 1]
      BY <1>3, <2>3 DEF ReadItem, RunMoves
    <3>2. run'.at = "save" /\ run'.n = run.n + 1 /\ run'.todo = run.todo
      BY <2>1, <3>1 DEF Runs
    <3>3. Kept(run.todo[run.n])
      BY <2>1, <2>3 DEF Dropped, Kept
    <3>4. \A i \in 1..(run'.n - 1) : \A it : it = run'.todo[i] => Kept(it)
      <4>1. \A i \in 1..(run'.n - 1) : i \in 1..(run.n - 1) \/ i = run.n
        BY <2>1, <3>2
      <4> QED BY <2>2, <3>2, <3>3, <4>1
    <3> QED BY <1>0, <1>1, <3>2, <3>4 DEF KInv, SavedSoFar
  <2>4. CASE ~Dropped(Item)
    <3>1. PICK k \in KeyOf(Item) : run' = [run EXCEPT !.at = "write", !.key = k]
      BY <1>3, <2>4 DEF ReadItem, RunMoves
    <3>2. run'.at = "write" /\ run'.n = run.n /\ run'.todo = run.todo /\ run'.key = k
      BY <2>1, <3>1 DEF Runs
    <3>3. Owns(run.todo[run.n].note, k)
      <4>1. run.todo \in Judgings
        BY <2>1 DEF Runs
      <4> QED BY <2>1, <3>1, <4>1, KeyOfOwned DEF KInv
    <3>4. Item' = run.todo[run.n]
      BY <3>2 DEF Item
    <3> QED BY <1>0, <1>1, <2>2, <3>2, <3>3, <3>4 DEF KInv, SavedSoFar
  <2> QED BY <2>3, <2>4
<1>6. CASE WriteNote
  <2>1. run \in Runs /\ run.at = "write" /\ run' = [run EXCEPT !.at = "row"]
    BY <1>6, ItemIs DEF WriteNote, RunMoves
  <2>2. run'.at = "row" /\ run'.n = run.n /\ run'.todo = run.todo /\ run'.key = run.key
    BY <2>1 DEF Runs
  <2>3. Item' = Item
    BY <2>2 DEF Item
  <2>4. Owns(Item.note, run.key) /\ \A i \in 1..(run.n - 1) : \A it : it = run.todo[i] => Kept(it)
    BY <2>1 DEF KInv, SavedSoFar
  <2>5. \A i \in 1..(run'.n - 1) : \A it : it = run'.todo[i] => Kept(it)'
    BY <1>0, <2>2, <2>4
  <2>6. Owns(Item.note, run.key)'
    BY <2>2, <2>3, <2>4 DEF Owns
  <2> QED BY <1>0, <1>1, <2>2, <2>5, <2>6 DEF KInv, SavedSoFar
<1>4. CASE PutItem
  <2>1. /\ run \in Runs /\ run.n \in 1..Len(run.todo) /\ Len(run.todo) \in Nat /\ run.at = "row"
        /\ Item = run.todo[run.n] /\ run' = NextItem
    BY <1>4, ItemIs DEF PutItem, RunMoves, Item
  <2>2. run'.at = "save" /\ run'.n = run.n + 1 /\ run'.todo = run.todo
    <3>1. run' = [run EXCEPT !.at = "save", !.n = run.n + 1, !.saved = run.saved + 1, !.key = NoKey]
      BY <2>1 DEF NextItem
    <3> QED BY <2>1, <3>1 DEF Runs
  <2>3. \A i \in 1..(run'.n - 1) : \A it : it = run'.todo[i] => Kept(it)'
    <3>1. \A i \in 1..(run.n - 1) : Kept(run.todo[i])
      BY <2>1 DEF KInv, SavedSoFar
    <3>2. ASSUME NEW i \in 1..(run'.n - 1), NEW it, it = run.todo[i] PROVE Kept(it)'
      <4>1. CASE i = run.n
        BY <1>4, <2>1, <3>2, <4>1, PutItemKeeps
      <4>2. CASE i # run.n
        <5>1. i \in 1..(run.n - 1)
          BY <2>1, <2>2, <4>2
        <5> QED BY <1>0, <3>1, <3>2, <5>1
      <4> QED BY <4>1, <4>2
    <3> QED BY <2>2, <3>2
  <2> QED BY <1>0, <1>1, <2>2, <2>3 DEF KInv, SavedSoFar
<1>5. ASSUME NEW n \in Notes, ChatWrites(n) \/ ChatDeletes(n) \/ ChatSavesItem(n) PROVE KInv'
  <2>1. UNCHANGED run
    BY <1>5 DEF ChatWrites, ChatDeletes, ChatSavesItem
  <2>2. SavedSoFar'
    BY <1>0, <2>1 DEF KInv, SavedSoFar, Item
  <2> QED BY <1>0, <1>1, <2>2 DEF KInv
<1> QED BY <1>2, <1>3, <1>4, <1>5, <1>6 DEF WriteSteps

(* A message that is done has a note of each of its items and a row of     *)
(* each task and event, for any mails and judgings in which no two notes   *)
(* share a key, wherever a save stops, is retried or replayed; notes only  *)
(* chats take away.                                                        *)
THEOREM DoneHasAllApart ==
    ASSUME KeysApart
    PROVE  Spec => []DoneHasAll
<1>1. Init => KInv
  BY DEF Init, KInv, RowsOwned, SavedSoFar, PromisesKept, Idle
<1>2. Init => WInv
  BY DEF Init, WInv, RowHasNote, Idle
<1>3. KInv => DoneHasAll
  BY DEF KInv, PromisesKept, Kept, HasRow, DoneHasAll
<1>4. TInv /\ WInv /\ KInv /\ [Next]_vars => KInv'
  BY NextKInv
<1> QED BY <1>1, <1>2, <1>3, <1>4, InitTInv, NextTInv, NextWInv, PTL DEF Spec
=============================================================================
