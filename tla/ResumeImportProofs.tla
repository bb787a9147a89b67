------------------------- MODULE ResumeImportProofs -------------------------
(***************************************************************************)
(* Theorems about ResumeImport, for any number of uploads, snapshots and   *)
(* waiting runs.                                                           *)
(*                                                                         *)
(* That memory never goes back to an older resume rests on one order: what *)
(* is in memory is no newer than the run that has its turn, that run than  *)
(* those waiting, those than what the listener is doing, that than the     *)
(* snapshots it is behind, and those than the profile.  Behind(x) says     *)
(* where a generation stands in that line.                                 *)
(***************************************************************************)
EXTENDS ResumeImport, TLAPS

(* x is no newer than anything the listener may still start a run for.     *)
Behind(x) ==
    /\ x <= gen
    /\ heard.pc # "idle" => x <= heard.gen
    /\ \A k \in 1 .. Len(snaps) : x <= snaps[k].gen

BehindQueue(x) == Behind(x) /\ \A i \in 1 .. Len(queue) : x <= queue[i]

GenMade == gen <= uploads

SnapsInOrder ==
    \A j \in 1 .. Len(snaps) :
        /\ snaps[j].gen <= gen
        /\ \A i \in 1 .. j : snaps[i].gen <= snaps[j].gen

HeardFirst ==
    heard.pc # "idle" =>
        /\ heard.gen \in Generations /\ heard.gen <= gen
        /\ \A k \in 1 .. Len(snaps) : heard.gen <= snaps[k].gen

QueueInOrder ==
    \A j \in 1 .. Len(queue) :
        /\ Behind(queue[j])
        /\ \A i \in 1 .. j : queue[i] <= queue[j]

RunFirst == run.pc # "idle" => run.gen \in Generations /\ BehindQueue(run.gen)

ResumeFirst == BehindQueue(resume) /\ (run.pc # "idle" => resume <= run.gen)

(* What a run has behind it when it says done and deletes the upload.      *)
RunHasNote == run.pc \in {"done", "delete"} => self
RunHasTold == run.pc = "delete" => run.gen \in told

IInv ==
    /\ TypeOK
    /\ GenMade /\ SnapsInOrder /\ HeardFirst /\ QueueInOrder
    /\ RunFirst /\ ResumeFirst
    /\ RunHasNote /\ RunHasTold /\ DoneHasNote /\ TurnHasFile

-----------------------------------------------------------------------------
(* What the proofs use of snapshots: a write of the profile adds one or    *)
(* replaces the latest.                                                    *)
LEMMA BringsSnap ==
    ASSUME TypeOK, NEW s \in SnapType, Brings(s)
    PROVE  /\ snaps' \in Seq(SnapType) /\ Len(snaps') <= MaxSnaps
           /\ Len(snaps') > 0 /\ snaps'[Len(snaps')] = s
           /\ Len(snaps) <= Len(snaps')
           /\ \A k \in 1 .. Len(snaps') - 1 : k \in 1 .. Len(snaps) /\ snaps'[k] = snaps[k]
<1>1. CASE Len(snaps) < MaxSnaps /\ snaps' = Append(snaps, s)
  BY <1>1, BoundAssumption DEF TypeOK
<1>2. CASE snaps # <<>> /\ snaps' = [snaps EXCEPT ![Len(snaps)] = s]
  <2>1. Len(snaps) \in Nat /\ Len(snaps) > 0 /\ Len(snaps) \in 1 .. Len(snaps)
    BY <1>2 DEF TypeOK
  <2>2. snaps' \in Seq(SnapType) /\ Len(snaps') = Len(snaps)
    BY <1>2, <2>1 DEF TypeOK
  <2>3. snaps'[Len(snaps)] = s
    BY <1>2, <2>1 DEF TypeOK
  <2>4. \A k \in 1 .. Len(snaps) - 1 : k \in 1 .. Len(snaps) /\ snaps'[k] = snaps[k]
    BY <1>2, <2>1 DEF TypeOK
  <2>5. Len(snaps) <= MaxSnaps
    BY DEF TypeOK
  <2> QED BY <2>1, <2>2, <2>3, <2>4, <2>5
<1> QED BY <1>1, <1>2 DEF Brings

(* The listener goes on with the generation it has, or becomes idle.       *)
HeardKept == heard'.pc # "idle" => heard.pc # "idle" /\ heard'.gen = heard.gen

(* A snapshot is of the profile as it is, so it stands last in the line.   *)
LEMMA BringsBehind ==
    ASSUME TypeOK, SnapsInOrder, HeardFirst, NEW s \in SnapType, Brings(s), s.gen = gen',
           gen' \in Nat, gen' >= gen
    PROVE  /\ SnapsInOrder'
           /\ HeardKept => HeardFirst'
           /\ \A x \in Nat : Behind(x) /\ HeardKept => Behind(x)'
<1>1. /\ snaps' \in Seq(SnapType) /\ Len(snaps') > 0 /\ snaps'[Len(snaps')] = s
      /\ Len(snaps) <= Len(snaps') /\ Len(snaps') \in Nat
      /\ \A k \in 1 .. Len(snaps') - 1 : k \in 1 .. Len(snaps) /\ snaps'[k] = snaps[k]
  BY BringsSnap
<1>2. \A k \in 1 .. Len(snaps) : snaps[k].gen \in Nat
  <2>1. \A k \in 1 .. Len(snaps) : snaps[k] \in SnapType
    BY DEF TypeOK
  <2> QED BY <2>1, BoundAssumption DEF SnapType
<1>3. gen \in Nat /\ s.gen \in Nat /\ heard.gen \in Nat
  BY BoundAssumption DEF TypeOK, SnapType, HeardType
<1>4. SnapsInOrder'
  <2> SUFFICES ASSUME NEW j \in 1 .. Len(snaps')
               PROVE  /\ snaps'[j].gen <= gen'
                      /\ \A i \in 1 .. j : snaps'[i].gen <= snaps'[j].gen
    BY DEF SnapsInOrder
  <2>1. CASE j = Len(snaps')
    BY <1>1, <1>2, <1>3, <2>1 DEF SnapsInOrder
  <2>2. CASE j # Len(snaps')
    <3>1. j \in 1 .. Len(snaps') - 1
      BY <1>1, <2>2
    <3>2. \A i \in 1 .. j : i \in 1 .. Len(snaps) /\ snaps'[i] = snaps[i]
      BY <1>1, <3>1
    <3>3. j \in 1 .. Len(snaps) /\ snaps'[j] = snaps[j]
      BY <1>1, <3>1
    <3>4. snaps[j].gen <= gen /\ \A i \in 1 .. j : snaps[i].gen <= snaps[j].gen
      BY <3>3 DEF SnapsInOrder
    <3>5. snaps'[j].gen <= gen'
      BY <1>2, <1>3, <3>3, <3>4
    <3> QED BY <3>2, <3>3, <3>4, <3>5
  <2> QED BY <2>1, <2>2
<1>5. ASSUME NEW x \in Nat, x <= gen, \A k \in 1 .. Len(snaps) : x <= snaps[k].gen
      PROVE  x <= gen' /\ \A k \in 1 .. Len(snaps') : x <= snaps'[k].gen
  <2>1. x <= gen'
    BY <1>3, <1>5
  <2>2. ASSUME NEW k \in 1 .. Len(snaps') PROVE x <= snaps'[k].gen
    <3>1. CASE k = Len(snaps')
      BY <1>1, <1>3, <2>1, <3>1
    <3>2. CASE k # Len(snaps')
      <4>1. k \in 1 .. Len(snaps') - 1
        BY <1>1, <3>2
      <4> QED BY <1>1, <1>5, <4>1
    <3> QED BY <3>1, <3>2
  <2> QED BY <2>1, <2>2
<1>6. HeardKept => HeardFirst'
  BY <1>3, <1>5 DEF HeardFirst, HeardKept
<1>7. \A x \in Nat : Behind(x) /\ HeardKept => Behind(x)'
  BY <1>5 DEF Behind, HeardKept
<1> QED BY <1>4, <1>6, <1>7

-----------------------------------------------------------------------------
(* Each part of the line is kept by every step.                            *)
LineOK == GenMade /\ SnapsInOrder /\ HeardFirst

(* What a step of the listener does to the snapshots it has not handled.   *)
LEMMA TailOfSnaps ==
    ASSUME TypeOK, snaps # <<>>, snaps' = Tail(snaps)
    PROVE  /\ snaps' \in Seq(SnapType) /\ Len(snaps') = Len(snaps) - 1
           /\ Len(snaps) \in Nat /\ Len(snaps) > 0
           /\ \A k \in 1 .. Len(snaps') : k + 1 \in 1 .. Len(snaps) /\ snaps'[k] = snaps[k + 1]
BY DEF TypeOK

(* What is written to the profile is a snapshot of it.                     *)
LEMMA SetImportBehind ==
    ASSUME TypeOK, LineOK, NEW st \in Statuses, NEW g \in Generations,
           SetResumeImport(st, g), UNCHANGED <<uploads, gen>>
    PROVE  /\ import' \in ImportType /\ told' \subseteq Generations
           /\ snaps' \in Seq(SnapType) /\ Len(snaps') <= MaxSnaps
           /\ SnapsInOrder' /\ GenMade'
           /\ HeardKept => HeardFirst'
           /\ \A x \in Nat : Behind(x) /\ HeardKept => Behind(x)'
<1> DEFINE s == [gen |-> gen, imported |-> g]
<1>1. s \in SnapType /\ s.gen = gen' /\ gen' \in Nat /\ gen' >= gen
  BY BoundAssumption DEF TypeOK, SnapType, Generations
<1>2. Brings(s)
  BY DEF SetResumeImport
<1>3. import' \in ImportType /\ told' \subseteq Generations
  BY BoundAssumption DEF SetResumeImport, Import, ImportType, Generations, TypeOK
<1>4. GenMade'
  BY DEF LineOK, GenMade
<1> HIDE DEF s
<1> QED BY <1>1, <1>2, <1>3, <1>4, BringsSnap, BringsBehind DEF LineOK

(* Taking a snapshot up: what was behind it is behind what the listener    *)
(* does with it.                                                           *)
LEMMA OnProfileBehind ==
    ASSUME TypeOK, LineOK, OnProfile
    PROVE  /\ snaps' \in Seq(SnapType) /\ Len(snaps') <= MaxSnaps /\ heard' \in HeardType
           /\ SnapsInOrder' /\ HeardFirst'
           /\ \A x \in Nat : Behind(x) => Behind(x)'
<1>1. /\ snaps' \in Seq(SnapType) /\ Len(snaps') = Len(snaps) - 1
      /\ Len(snaps) \in Nat /\ Len(snaps) > 0
      /\ \A k \in 1 .. Len(snaps') : k + 1 \in 1 .. Len(snaps) /\ snaps'[k] = snaps[k + 1]
  BY TailOfSnaps DEF OnProfile
<1>2. \A k \in 1 .. Len(snaps) : snaps[k].gen \in 0 .. MaxUploads
  <2>1. \A k \in 1 .. Len(snaps) : snaps[k] \in SnapType
    BY DEF TypeOK
  <2> QED BY <2>1 DEF SnapType
<1>3. gen' = gen /\ gen \in Nat /\ Head(snaps) = snaps[1] /\ 1 \in 1 .. Len(snaps) /\ Len(snaps) <= MaxSnaps
  BY <1>1, BoundAssumption DEF TypeOK, OnProfile
<1>4. SnapsInOrder'
  <2> SUFFICES ASSUME NEW j \in 1 .. Len(snaps')
               PROVE  snaps'[j].gen <= gen' /\ \A i \in 1 .. j : snaps'[i].gen <= snaps'[j].gen
    BY DEF SnapsInOrder
  <2>1. j + 1 \in 1 .. Len(snaps) /\ snaps'[j] = snaps[j + 1]
    BY <1>1
  <2>2. \A i \in 1 .. j : i + 1 \in 1 .. j + 1 /\ snaps'[i] = snaps[i + 1]
    BY <1>1
  <2>3. snaps[j + 1].gen <= gen /\ \A i \in 1 .. j + 1 : snaps[i].gen <= snaps[j + 1].gen
    BY <2>1 DEF LineOK, SnapsInOrder
  <2> QED BY <1>3, <2>1, <2>2, <2>3
<1>0. Len(snaps') <= MaxSnaps
  BY <1>1, <1>3, BoundAssumption
<1>5. CASE /\ Head(snaps).gen # 0 /\ heard' = [pc |-> "mark", gen |-> Head(snaps).gen]
  <2>1. snaps[1].gen \in Generations /\ snaps[1].gen <= gen
    BY <1>2, <1>3, <1>5, BoundAssumption DEF Generations, LineOK, SnapsInOrder
  <2>2. heard' \in HeardType
    BY <1>3, <1>5, <2>1, BoundAssumption DEF HeardType, Generations
  <2>3. \A k \in 1 .. Len(snaps') : snaps[1].gen <= snaps'[k].gen
    <3> SUFFICES ASSUME NEW k \in 1 .. Len(snaps') PROVE snaps[1].gen <= snaps'[k].gen
      OBVIOUS
    <3>1. k + 1 \in 1 .. Len(snaps) /\ snaps'[k] = snaps[k + 1] /\ 1 \in 1 .. k + 1
      BY <1>1
    <3> QED BY <3>1 DEF LineOK, SnapsInOrder
  <2>4. HeardFirst'
    BY <1>3, <1>5, <2>1, <2>3 DEF HeardFirst
  <2>5. \A x \in Nat : Behind(x) => Behind(x)'
    BY <1>1, <1>3, <1>5 DEF Behind
  <2> QED BY <1>0, <1>1, <1>4, <2>2, <2>4, <2>5
<1>6. CASE UNCHANGED heard
  <2>1. HeardFirst' /\ heard' \in HeardType
    BY <1>6 DEF HeardFirst, OnProfile, TypeOK
  <2>2. \A x \in Nat : Behind(x) => Behind(x)'
    BY <1>1, <1>3, <1>6 DEF Behind
  <2> QED BY <1>0, <1>1, <1>4, <2>1, <2>2
<1> QED BY <1>5, <1>6 DEF OnProfile

-----------------------------------------------------------------------------
(* The line holds at every step, and no generation falls out of it.        *)
LEMMA LineKept ==
    ASSUME TypeOK, LineOK, RunFirst, Next
    PROVE  /\ snaps' \in Seq(SnapType) /\ Len(snaps') <= MaxSnaps /\ heard' \in HeardType
           /\ import' \in ImportType /\ told' \subseteq Generations
           /\ LineOK'
           /\ \A x \in Nat : Behind(x) => Behind(x)'
<1>1. CASE Upload
  <2>1. /\ UNCHANGED <<gen, snaps, heard, import, told>>
        /\ uploads \in Nat /\ gen \in Nat /\ uploads' = uploads + 1
    BY <1>1, BoundAssumption DEF Upload, TypeOK, memory
  <2>2. GenMade'
    BY <2>1 DEF LineOK, GenMade
  <2>3. SnapsInOrder' /\ HeardFirst' /\ \A x \in Nat : Behind(x) => Behind(x)'
    BY <2>1 DEF LineOK, SnapsInOrder, HeardFirst, Behind
  <2> QED BY <2>1, <2>2, <2>3 DEF LineOK, TypeOK
<1>2. CASE SaveGeneration
  <2> DEFINE s == [gen |-> uploads, imported |-> import.gen]
  <2>1. s \in SnapType /\ s.gen = gen' /\ gen' \in Nat /\ gen' >= gen
    BY <1>2, BoundAssumption DEF SaveGeneration, SnapType, ImportType, TypeOK, LineOK, GenMade
  <2>2. Brings(s) /\ UNCHANGED <<heard, uploads, import, told>>
    BY <1>2 DEF SaveGeneration, storage
  <2>3. GenMade'
    BY <1>2, BoundAssumption DEF SaveGeneration, GenMade, TypeOK, storage
  <2> HIDE DEF s
  <2> QED BY <2>1, <2>2, <2>3, BringsSnap, BringsBehind DEF LineOK, TypeOK, HeardKept
<1>3. CASE EditProfile
  <2> DEFINE s == [gen |-> gen, imported |-> import.gen]
  <2>1. s \in SnapType /\ s.gen = gen' /\ gen' \in Nat /\ gen' >= gen
    BY <1>3, BoundAssumption DEF EditProfile, SnapType, ImportType, TypeOK
  <2>2. Brings(s) /\ UNCHANGED <<heard, gen, uploads, import, told>>
    BY <1>3 DEF EditProfile, storage
  <2>3. GenMade'
    BY <2>2 DEF LineOK, GenMade
  <2> HIDE DEF s
  <2> QED BY <2>1, <2>2, <2>3, BringsSnap, BringsBehind DEF LineOK, TypeOK, HeardKept
<1>4. CASE OnProfile
  <2>1. UNCHANGED <<gen, uploads, import, told>>
    BY <1>4 DEF OnProfile, storage
  <2> QED BY <1>4, <2>1, OnProfileBehind DEF LineOK, GenMade, TypeOK
<1>5. CASE ListenAgain
  <2>1. /\ snaps' = <<[gen |-> gen, imported |-> import.gen]>> /\ heard' = Idle
        /\ UNCHANGED <<gen, uploads, import, told>>
    BY <1>5 DEF ListenAgain, storage
  <2>2. gen \in 0 .. MaxUploads /\ import.gen \in 0 .. MaxUploads
    BY DEF TypeOK, ImportType
  <2>3. snaps' \in Seq(SnapType) /\ Len(snaps') = 1 /\ snaps'[1].gen = gen
    BY <2>1, <2>2 DEF SnapType
  <2>4. heard' \in HeardType /\ heard'.pc = "idle"
    BY <2>1, BoundAssumption DEF HeardType, Idle
  <2>5. SnapsInOrder' /\ HeardFirst' /\ GenMade'
    BY <2>1, <2>2, <2>3, <2>4, BoundAssumption DEF SnapsInOrder, HeardFirst, GenMade, LineOK
  <2>6. \A x \in Nat : Behind(x) => Behind(x)'
    BY <2>1, <2>2, <2>3, <2>4 DEF Behind
  <2> QED BY <2>1, <2>3, <2>4, <2>5, <2>6, BoundAssumption DEF LineOK, TypeOK
<1>6. ASSUME NEW st \in Statuses, NEW g \in Generations, SetResumeImport(st, g),
             UNCHANGED <<uploads, gen>>, HeardKept, heard' \in HeardType
      PROVE  /\ snaps' \in Seq(SnapType) /\ Len(snaps') <= MaxSnaps /\ heard' \in HeardType
             /\ import' \in ImportType /\ told' \subseteq Generations
             /\ LineOK'
             /\ \A x \in Nat : Behind(x) => Behind(x)'
  BY <1>6, SetImportBehind DEF LineOK
<1>7. ASSUME UNCHANGED <<uploads, gen, snaps, import, told>>, HeardKept, heard' \in HeardType
      PROVE  /\ snaps' \in Seq(SnapType) /\ Len(snaps') <= MaxSnaps /\ heard' \in HeardType
             /\ import' \in ImportType /\ told' \subseteq Generations
             /\ LineOK'
             /\ \A x \in Nat : Behind(x) => Behind(x)'
  BY <1>7 DEF TypeOK, LineOK, GenMade, SnapsInOrder, HeardFirst, HeardKept, Behind
<1>8. /\ heard \in HeardType /\ Idle \in HeardType /\ Idle.pc = "idle"
      /\ heard.pc # "idle" => heard.gen \in Generations
      /\ \A pc \in {"start", "tell"} : [heard EXCEPT !.pc = pc] \in HeardType
      /\ {"queued", "running", "done", "failed"} \subseteq Statuses
  BY BoundAssumption DEF TypeOK, LineOK, HeardFirst, HeardType, Idle, Statuses
<1>9. CASE MarkQueued
  <2>1. HeardKept /\ heard' \in HeardType /\ heard.gen \in Generations /\ UNCHANGED <<uploads, gen>>
    BY <1>8, <1>9 DEF MarkQueued, HeardKept, HeardType, storage
  <2>2. CASE SetResumeImport("queued", heard.gen)
    BY <1>6, <1>8, <2>1, <2>2
  <2>3. CASE UNCHANGED <<import, snaps, told>>
    BY <1>7, <2>1, <2>3
  <2> QED BY <1>9, <2>2, <2>3 DEF MarkQueued
<1>10. CASE StartImport
  <2>1. HeardKept /\ heard' \in HeardType /\ UNCHANGED <<uploads, gen, snaps, import, told>>
    BY <1>8, <1>10 DEF StartImport, HeardKept, HeardType, storage
  <2> QED BY <1>7, <2>1
<1>11. CASE TellNotStarted
  <2>1. HeardKept /\ heard' \in HeardType /\ heard.gen \in Generations /\ UNCHANGED <<uploads, gen>>
    BY <1>8, <1>11 DEF TellNotStarted, HeardKept, HeardType, storage
  <2>2. CASE SetResumeImport("failed", heard.gen)
    BY <1>6, <1>8, <2>1, <2>2
  <2>3. CASE UNCHANGED <<import, snaps, told>>
    BY <1>7, <2>1, <2>3
  <2> QED BY <1>11, <2>2, <2>3 DEF TellNotStarted
<1>12. CASE RunMemory \/ RunDone \/ (RunFailed /\ SetResumeImport("failed", run.gen))
  <2>1. UNCHANGED <<heard, uploads, gen>> /\ run.gen \in Generations
    BY <1>12 DEF RunMemory, RunDone, RunFailed, RunFirst, storage
  <2>2. HeardKept /\ heard' \in HeardType
    BY <1>8, <2>1 DEF HeardKept
  <2>3. \E st \in Statuses : SetResumeImport(st, run.gen)
    BY <1>8, <1>12 DEF RunMemory, RunDone
  <2> QED BY <1>6, <2>1, <2>2, <2>3
<1>13. CASE \/ Turn \/ RunFetch \/ RunTurn \/ RunDelete \/ RunRetry \/ RunFails
            \/ RunFailed /\ UNCHANGED <<import, snaps, told>>
  <2>1. UNCHANGED <<heard, uploads, gen, snaps, import, told>>
    BY <1>13 DEF Turn, RunFetch, RunTurn, RunDelete, RunRetry, RunFails, RunFailed, storage
  <2> QED BY <1>7, <1>8, <2>1 DEF HeardKept
<1>14. RunFailed => SetResumeImport("failed", run.gen) \/ UNCHANGED <<import, snaps, told>>
  BY DEF RunFailed
<1> QED BY <1>1, <1>2, <1>3, <1>4, <1>5, <1>9, <1>10, <1>11, <1>12, <1>13, <1>14
        DEF Next, User, Listener, Run

-----------------------------------------------------------------------------
(* Taking the first of the waiting runs.                                   *)
LEMMA TailOfQueue ==
    ASSUME TypeOK, queue # <<>>, queue' = Tail(queue)
    PROVE  /\ queue' \in Seq(Generations) /\ Len(queue') = Len(queue) - 1
           /\ Len(queue) \in Nat /\ Len(queue) > 0 /\ Len(queue') <= MaxQueue
           /\ Head(queue) = queue[1] /\ Head(queue) \in Generations
           /\ \A k \in 1 .. Len(queue') : k + 1 \in 1 .. Len(queue) /\ queue'[k] = queue[k + 1]
<1>1. Len(queue) <= MaxQueue
  BY DEF TypeOK
<1>2. /\ queue' \in Seq(Generations) /\ Len(queue') = Len(queue) - 1
      /\ Len(queue) \in Nat /\ Len(queue) > 0
      /\ Head(queue) = queue[1] /\ Head(queue) \in Generations
      /\ \A k \in 1 .. Len(queue') : k + 1 \in 1 .. Len(queue) /\ queue'[k] = queue[k + 1]
  BY DEF TypeOK
<1> QED BY <1>1, <1>2, BoundAssumption

(* The variables keep their shape and bounds.                              *)
LEMMA TypeKept ==
    ASSUME TypeOK, LineOK, RunFirst, Next
    PROVE  TypeOK'
<1>1. /\ snaps' \in Seq(SnapType) /\ Len(snaps') <= MaxSnaps /\ heard' \in HeardType
      /\ import' \in ImportType /\ told' \subseteq Generations
  BY LineKept
<1>2. uploads' \in 0 .. MaxUploads /\ upload' \in 0 .. MaxUploads /\ gen' \in 0 .. MaxUploads
  BY BoundAssumption DEF Next, User, Listener, Run, Upload, SaveGeneration, EditProfile, OnProfile,
     MarkQueued, StartImport, TellNotStarted, ListenAgain, Turn, RunMemory, RunFetch, RunTurn, RunDone,
     RunDelete, DeleteResume, RunRetry, RunFails, RunFailed, TypeOK, storage
<1>3. queue' \in Seq(Generations) /\ Len(queue') <= MaxQueue
  <2>1. CASE Turn
    BY <2>1, TailOfQueue DEF Turn
  <2>2. CASE StartImport
    <3>1. heard.gen \in Generations /\ queue \in Seq(Generations) /\ Len(queue) <= MaxQueue
      BY <2>2 DEF StartImport, TypeOK, LineOK, HeardFirst
    <3>2. UNCHANGED queue \/ (Len(queue) < MaxQueue /\ queue' = Append(queue, heard.gen))
      BY <2>2 DEF StartImport
    <3> QED BY <3>1, <3>2, BoundAssumption
  <2>3. CASE UNCHANGED queue
    BY <2>3 DEF TypeOK
  <2> QED BY <2>1, <2>2, <2>3 DEF Next, User, Listener, Run, Upload, SaveGeneration, EditProfile, OnProfile,
     MarkQueued, TellNotStarted, ListenAgain, RunMemory, RunFetch, RunTurn, RunDone,
     RunDelete, RunRetry, RunFails, RunFailed
<1>4. run' \in RunType
  <2>1. CASE Turn
    BY <2>1, TailOfQueue, BoundAssumption DEF Turn, RunType, Generations
  <2>2. CASE ~Turn
    BY <2>2, BoundAssumption DEF Next, User, Listener, Run, Upload, SaveGeneration, EditProfile, OnProfile,
     MarkQueued, StartImport, TellNotStarted, ListenAgain, RunMemory, RunFetch, RunTurn, RunDone,
     RunDelete, RunRetry, RunFails, RunFailed, TypeOK, RunType, Idle
  <2> QED BY <2>1, <2>2
<1>5. files' \subseteq Generations /\ self' \in BOOLEAN /\ resume' \in 0 .. MaxUploads
  <2>1. CASE RunFetch
    BY <2>1 DEF RunFetch, TypeOK, RunFirst
  <2>2. CASE RunTurn
    BY <2>2 DEF RunTurn, TypeOK, RunType
  <2>3. CASE UNCHANGED memory
    BY <2>3 DEF TypeOK, memory
  <2> QED BY <2>1, <2>2, <2>3 DEF Next, User, Listener, Run, Upload, SaveGeneration, EditProfile, OnProfile,
     MarkQueued, StartImport, TellNotStarted, ListenAgain, Turn, RunMemory, RunDone,
     RunDelete, RunRetry, RunFails, RunFailed
<1> QED BY <1>1, <1>2, <1>3, <1>4, <1>5 DEF TypeOK

(* Where a generation stands after a step.                                 *)
BehindNext(x) ==
    /\ x <= gen'
    /\ heard'.pc # "idle" => x <= heard'.gen
    /\ \A k \in 1 .. Len(snaps') : x <= snaps'[k].gen

(* The waiting runs, the one that has its turn and the resume in memory    *)
(* keep their order.                                                       *)
LEMMA QueueKept ==
    ASSUME TypeOK, LineOK, QueueInOrder, RunFirst, ResumeFirst, Next
    PROVE  QueueInOrder' /\ RunFirst' /\ ResumeFirst' /\ resume' >= resume
<1>1. \A x \in Nat : Behind(x) => BehindNext(x)
  BY LineKept DEF Behind, BehindNext
<1>2. /\ \A j \in 1 .. Len(queue) : queue[j] \in Generations /\ queue[j] \in Nat
      /\ resume \in Nat /\ run.gen \in Nat /\ heard.gen \in Nat
      /\ Generations \subseteq Nat /\ Len(queue) \in Nat
  <2>1. \A j \in 1 .. Len(queue) : queue[j] \in Generations
    BY DEF TypeOK
  <2> QED BY <2>1, BoundAssumption DEF TypeOK, Generations, RunType, HeardType
<1>3. /\ \A j \in 1 .. Len(queue) : BehindNext(queue[j]) /\ \A i \in 1 .. j : queue[i] <= queue[j]
      /\ \A j \in 1 .. Len(queue) : resume <= queue[j]
      /\ BehindNext(resume)
      /\ run.pc # "idle" => /\ run.gen \in Generations /\ resume <= run.gen /\ BehindNext(run.gen)
                            /\ \A j \in 1 .. Len(queue) : run.gen <= queue[j]
  BY <1>1, <1>2 DEF QueueInOrder, RunFirst, ResumeFirst, BehindQueue
<1>4. /\ QueueInOrder' <=> \A j \in 1 .. Len(queue') :
             BehindNext(queue'[j]) /\ \A i \in 1 .. j : queue'[i] <= queue'[j]
      /\ RunFirst' <=> (run'.pc # "idle" =>
             /\ run'.gen \in Generations /\ BehindNext(run'.gen)
             /\ \A j \in 1 .. Len(queue') : run'.gen <= queue'[j])
      /\ ResumeFirst' <=>
             /\ BehindNext(resume') /\ \A j \in 1 .. Len(queue') : resume' <= queue'[j]
             /\ run'.pc # "idle" => resume' <= run'.gen
  BY DEF QueueInOrder, RunFirst, ResumeFirst, Behind, BehindQueue, BehindNext
<1>5. CASE Turn
  <2>1. /\ Len(queue') = Len(queue) - 1 /\ Len(queue) > 0
        /\ Head(queue) = queue[1] /\ 1 \in 1 .. Len(queue)
        /\ \A k \in 1 .. Len(queue') : k + 1 \in 1 .. Len(queue) /\ queue'[k] = queue[k + 1]
    BY <1>5, <1>2, TailOfQueue DEF Turn
  <2>2. run' = [pc |-> "memory", gen |-> queue[1]] /\ resume' = resume
    BY <1>5, <2>1 DEF Turn, memory
  <2>3. \A j \in 1 .. Len(queue') :
           /\ BehindNext(queue'[j]) /\ queue[1] <= queue'[j] /\ resume <= queue'[j]
           /\ \A i \in 1 .. j : queue'[i] <= queue'[j]
    <3> SUFFICES ASSUME NEW j \in 1 .. Len(queue')
                 PROVE  /\ BehindNext(queue'[j]) /\ queue[1] <= queue'[j] /\ resume <= queue'[j]
                        /\ \A i \in 1 .. j : queue'[i] <= queue'[j]
      OBVIOUS
    <3>1. j + 1 \in 1 .. Len(queue) /\ queue'[j] = queue[j + 1] /\ 1 \in 1 .. j + 1
      BY <2>1
    <3>2. \A i \in 1 .. j : i + 1 \in 1 .. j + 1 /\ queue'[i] = queue[i + 1]
      BY <2>1
    <3> QED BY <1>3, <3>1, <3>2
  <2> QED BY <1>2, <1>3, <1>4, <2>1, <2>2, <2>3
<1>6. CASE StartImport /\ ~UNCHANGED queue
  <2>0. heard.pc # "idle" /\ queue' = Append(queue, heard.gen)
    BY <1>6 DEF StartImport
  <2>1. heard.gen \in Generations /\ heard.pc # "idle" /\ queue' = Append(queue, heard.gen)
    BY <2>0 DEF LineOK, HeardFirst
  <2>2. /\ Len(queue') = Len(queue) + 1 /\ queue'[Len(queue) + 1] = heard.gen
        /\ \A j \in 1 .. Len(queue) : queue'[j] = queue[j]
    BY <2>1, <1>2 DEF TypeOK
  <2>3. BehindNext(heard.gen)
    BY SMTT(30), <1>1, <1>2, <2>1 DEF LineOK, HeardFirst, Behind
  <2>4. /\ \A j \in 1 .. Len(queue) : queue[j] <= heard.gen
        /\ resume <= heard.gen /\ (run.pc # "idle" => run.gen <= heard.gen)
    BY <2>1 DEF QueueInOrder, RunFirst, ResumeFirst, BehindQueue, Behind
  <2>5. UNCHANGED <<run, resume>>
    BY <1>6 DEF StartImport, memory
  <2>6. ASSUME NEW j \in 1 .. Len(queue')
        PROVE  /\ BehindNext(queue'[j]) /\ resume <= queue'[j]
               /\ run.pc # "idle" => run.gen <= queue'[j]
               /\ \A i \in 1 .. j : queue'[i] <= queue'[j]
    <3>1. CASE j = Len(queue) + 1
      BY <1>2, <2>2, <2>3, <2>4, <3>1
    <3>2. CASE j \in 1 .. Len(queue)
      <4>1. \A i \in 1 .. j : i \in 1 .. Len(queue)
        BY <3>2
      <4> QED BY <1>3, <2>2, <3>2, <4>1
    <3> QED BY <1>2, <2>2, <3>1, <3>2
  <2> QED BY <1>2, <1>3, <1>4, <2>5, <2>6
<1>7. CASE UNCHANGED <<queue, resume>> /\ (run'.pc # "idle" => run.pc # "idle" /\ run'.gen = run.gen)
  BY <1>2, <1>3, <1>4, <1>7
<1>8. CASE RunTurn
  <2>1. /\ run.pc # "idle" /\ run'.pc # "idle" /\ run'.gen = run.gen
        /\ UNCHANGED queue /\ resume' \in {resume, run.gen}
    BY <1>8 DEF RunTurn, TypeOK, RunType
  <2> QED BY <1>2, <1>3, <1>4, <2>1
<1>9. CASE User \/ Listener \/ ListenAgain
  <2>1. UNCHANGED <<run, resume>>
    BY <1>9 DEF User, Listener, Upload, SaveGeneration, EditProfile, OnProfile, MarkQueued,
       StartImport, TellNotStarted, ListenAgain, memory
  <2>2. UNCHANGED queue \/ StartImport
    BY <1>9 DEF User, Listener, Upload, SaveGeneration, EditProfile, OnProfile, MarkQueued,
       TellNotStarted, ListenAgain
  <2> QED BY <1>6, <1>7, <2>1, <2>2
<1>10. CASE RunMemory \/ RunFetch \/ RunDone \/ RunDelete \/ RunRetry \/ RunFails \/ RunFailed
  <2>1. UNCHANGED <<queue, resume>> /\ run.pc # "idle"
    BY <1>10 DEF RunMemory, RunFetch, RunDone, RunDelete, RunRetry, RunFails, RunFailed, memory
  <2>2. run'.pc # "idle" => run'.gen = run.gen
    BY <1>10 DEF RunMemory, RunFetch, RunDone, RunDelete, RunRetry, RunFails, RunFailed,
       Idle, TypeOK, RunType
  <2> QED BY <1>7, <2>1, <2>2
<1> QED BY <1>5, <1>8, <1>9, <1>10 DEF Next, Run

(* Nothing is said to be done, and no upload deleted, without a note.      *)
LEMMA NoteKept ==
    ASSUME TypeOK, RunHasNote, RunHasTold, DoneHasNote, TurnHasFile, Next
    PROVE  /\ RunHasNote' /\ RunHasTold' /\ DoneHasNote' /\ TurnHasFile'
           /\ upload # 0 /\ upload' = 0 => upload \in told
<1> USE DEF RunHasNote, RunHasTold, DoneHasNote, TurnHasFile
<1>1. CASE User \/ ListenAgain
  BY <1>1 DEF User, Upload, SaveGeneration, EditProfile, ListenAgain, memory, storage, TypeOK
<1>2. CASE Listener
  BY <1>2 DEF Listener, OnProfile, MarkQueued, StartImport, TellNotStarted, SetResumeImport, Import,
     memory, storage
<1>3. CASE Turn \/ RunMemory \/ RunFailed
  BY <1>3 DEF Turn, RunMemory, RunFailed, SetResumeImport, Import, Idle, TypeOK, RunType, memory, storage
<1>4. CASE RunFetch
  BY <1>4 DEF RunFetch, TypeOK, RunType, storage
<1>5. CASE RunTurn
  BY <1>5 DEF RunTurn, TypeOK, RunType, storage
<1>6. CASE RunDone
  BY <1>6 DEF RunDone, SetResumeImport, Import, TypeOK, RunType, memory, storage
<1>7. CASE RunDelete \/ RunRetry \/ RunFails
  BY <1>7 DEF RunDelete, DeleteResume, RunRetry, RunFails, Idle, TypeOK, RunType, memory, storage
<1> QED BY <1>1, <1>2, <1>3, <1>4, <1>5, <1>6, <1>7 DEF Next, Run

-----------------------------------------------------------------------------
(* The inductive invariant holds at first.                                 *)
LEMMA Initially == Init => IInv
<1> SUFFICES ASSUME Init PROVE IInv
  OBVIOUS
<1>1. TypeOK
  BY BoundAssumption DEF Init, TypeOK, Import, ImportType, Statuses, Idle, HeardType, RunType
<1>2. GenMade /\ SnapsInOrder /\ HeardFirst /\ QueueInOrder /\ RunFirst /\ ResumeFirst
  BY DEF Init, Idle, GenMade, SnapsInOrder, HeardFirst, QueueInOrder, RunFirst, ResumeFirst,
     Behind, BehindQueue
<1>3. RunHasNote /\ RunHasTold /\ DoneHasNote /\ TurnHasFile
  BY DEF Init, Idle, Import, RunHasNote, RunHasTold, DoneHasNote, TurnHasFile
<1> QED BY <1>1, <1>2, <1>3 DEF IInv

(* Every step keeps it.                                                    *)
LEMMA Inductive == IInv /\ [Next]_vars => IInv'
<1> SUFFICES ASSUME IInv, [Next]_vars PROVE IInv'
  OBVIOUS
<1>1. CASE Next
  BY <1>1, LineKept, TypeKept, QueueKept, NoteKept DEF IInv, LineOK
<1>2. CASE UNCHANGED vars
  BY <1>2 DEF vars, storage, memory, IInv, TypeOK, GenMade, SnapsInOrder, HeardFirst, QueueInOrder,
     RunFirst, ResumeFirst, Behind, BehindQueue, RunHasNote, RunHasTold, DoneHasNote, TurnHasFile
<1> QED BY <1>1, <1>2

(* So it always holds.                                                     *)
LEMMA Invariance == Spec => []IInv
BY Initially, Inductive, PTL DEF Spec

(* Every variable keeps its shape and its bounds.                          *)
THEOREM TypeCorrect == Spec => []TypeOK
<1>1. IInv => TypeOK
  BY DEF IInv
<1> QED BY <1>1, Invariance, PTL

(* The web app says done only of an import that left a self note.          *)
THEOREM DoneHasNoteAlways == Spec => []DoneHasNote
<1>1. IInv => DoneHasNote
  BY DEF IInv
<1> QED BY <1>1, Invariance, PTL

(* A run updates the note only with its PDF in the workspace.              *)
THEOREM TurnHasFileAlways == Spec => []TurnHasFile
<1>1. IInv => TurnHasFile
  BY DEF IInv
<1> QED BY <1>1, Invariance, PTL

(* An upload leaves Storage only after the user was told that this very    *)
(* upload was imported.                                                    *)
THEOREM DeletedWhenToldAlways == Spec => DeletedWhenTold
<1>1. IInv /\ [Next]_vars => [upload # 0 /\ upload' = 0 => upload \in told]_vars
  BY NoteKept DEF IInv
<1> QED BY <1>1, Invariance, PTL DEF Spec, DeletedWhenTold

(* Memory never goes back to an older resume.                              *)
THEOREM NeverOlderAlways == Spec => NeverOlder
<1>1. IInv /\ [Next]_vars => [resume' >= resume]_vars
  BY QueueKept DEF IInv, LineOK
<1> QED BY <1>1, Invariance, PTL DEF Spec, NeverOlder
=============================================================================
