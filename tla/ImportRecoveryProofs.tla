------------------------ MODULE ImportRecoveryProofs ------------------------
(***************************************************************************)
(* For any number of workers, batches, requests and crashes: the recorded  *)
(* progress and a COMPLETED import stand for voters that were imported, no *)
(* batch is imported more often than the gaps of the locking allow, and a  *)
(* queued import has its task.  What is recorded only ever moves forward   *)
(* in one respect: voters, a cancellation and a deletion stay; so a row    *)
(* that a session has read long ago still says something true.             *)
(***************************************************************************)
EXTENDS ImportRecovery, TLAPS

-----------------------------------------------------------------------------
(* The invariant *)

AllImported(app) == \A b \in Batch : app[b] >= 1
Stopped(row) == row.cancelled \/ row.status = "ABSENT"

\* What a row, old or new, says of the serial engine's voters app and the
\* committed row now.
Sound(row, app, now) ==
  /\ \A b \in Batch : b <= row.done => app[b] >= 1
  /\ row.exhausted => AllImported(app) \/ Stopped(now)
  /\ row.cancelled => Stopped(now)
RowsSound ==
  /\ Sound(job, applied, job)
  /\ \A w \in Worker : Sound(view[w], applied, job)
ResultTrue == job.status = "COMPLETED" => \A b \in Batch : Imported(b)

\* The labels of a task that has claimed the lock.
Claimed == Working \cup {"import", "recover"}
Placed(w) ==
  /\ pc[w] \in {"down", "idle"} => task[w] = NoTask
  /\ pc[w] \in {"import", "scan_file"} => task[w] = ImportTask
  /\ pc[w] \in {"chunk", "chunk_end", "settle"} => task[w].kind = "chunk"
  /\ pc[w] \in Claimed => lock = w
WorkersPlaced == \A w \in Worker : Placed(w)

\* A flushed row is the only one, and differs from the committed one only in
\* what ImportStart writes.
FlushedBy(w) == pending[w] # NoRow =>
  /\ pc[w] \in {"scan_file", "engine", "batch", "finish"}
  /\ ~Gone
  /\ pending[w].status \in {job.status, "PROCESSING"}
  /\ pending[w].done = job.done /\ pending[w].cancelled = job.cancelled
  /\ pending[w].exhausted => job.exhausted
  /\ \A v \in Worker : v # w => pending[v] = NoRow
Flushed == \A w \in Worker : FlushedBy(w)

\* How far the engine of a worker is.
EngineAt(w) ==
  /\ pc[w] = "batch" => pos[w] < Batches
  /\ pc[w] \in {"batch", "refresh"} => \A b \in Batch : b <= pos[w] => applied[b] >= 1
  /\ pc[w] \in {"finish", "result"} => AllImported(applied) \/ Stopped(job)
  /\ pc[w] = "result_commit" => AllImported(applied) \/ view[w].cancelled
Engines == \A w \in Worker : EngineAt(w)

\* The rows of a split that was made are there, those of a later one are not,
\* and what ended as COMPLETED was imported.
ChunksSay ==
  /\ \A p \in Part :
       /\ chunk[p] = "COMPLETED" => chunked[p] >= 1
       /\ p[1] > splits => chunk[p] = "ABSENT" /\ chunked[p] = 0
       /\ ~Gone /\ p[1] <= splits => chunk[p] # "ABSENT"
  /\ \A w \in Worker : pc[w] = "chunk_end" => chunked[task[w].part] >= 1

\* A worker that will take the import out of QUEUED.
Takes(w) ==
  /\ task[w] = ImportTask
  /\ \/ pc[w] = "load"
     \/ pc[w] \in {"claim", "import"} /\ view[w].status = "QUEUED"
     \/ pending[w].status = "PROCESSING"
SavedAsk == \E a \in BagToSet(ask) : a.at = "saved"
QueuedIsTaken ==
  job.status = "QUEUED" /\ ~stranded =>
    queue.import > 0 \/ (\E w \in Worker : Takes(w)) \/ SavedAsk

\* A task of the chunks; ChunkRun(w) is one of its steps on its chunk.
ChunkTasks(w) == task[w].kind = "chunk"
ChunkRun(w) == ChunkCancelled(w) \/ ChunkBatch(w) \/ ChunkEnd(w) \/ ChunkFail(w)

\* Each chunk has one task, which commits its batch once.
ChunkTasksApart ==
  /\ \A p \in queue.chunks : p[1] <= splits /\ chunked[p] = 0
  /\ \A w \in Worker : ChunkTasks(w) =>
       /\ task[w].part \notin queue.chunks
       /\ task[w].part[1] <= splits
       /\ pc[w] \in {"load", "chunk"} => chunked[task[w].part] = 0
  /\ \A v, w \in Worker : ChunkTasks(v) /\ ChunkTasks(w) /\ v # w => task[v].part # task[w].part
  /\ \A p \in Part : chunked[p] <= 1

\* How often the engine may have committed batch b where the first n count as
\* done.
Times(b, n) == outdated + (IF b <= n THEN 1 ELSE 0)
Counted(n) == \A b \in Batch : applied[b] <= Times(b, n)
TimesAt(w) ==
  /\ pc[w] \in {"import", "recover", "scan_file", "engine"} => Counted(view[w].done)
  /\ pc[w] \in {"batch", "refresh"} => Counted(pos[w])
TimesBounded ==
  /\ ~Gone => Counted(job.done) /\ \A w \in Worker : TimesAt(w)
  /\ Gone => \A b \in Batch : applied[b] <= outdated + 1

IInv ==
  /\ TypeOK /\ RowsSound /\ ResultTrue /\ WorkersPlaced /\ Flushed /\ Engines
  /\ ChunksSay /\ QueuedIsTaken /\ ChunkTasksApart /\ TimesBounded

-----------------------------------------------------------------------------
(* Rows, bags and sessions *)

AskRow == [op: Op, saw: Status \cup {"ABSENT"}, at: {"read", "saved"}]

\* What the updates of a row leave a row.
LEMMA RowUpdates ==
  /\ NewRow \in Row /\ NoRow \in Row
  /\ \A row \in Row :
       /\ Read(row) \in Row /\ Old(row) \in Row
       /\ [row EXCEPT !.progress = "fresh"] \in Row
       /\ \A s \in Status : /\ [row EXCEPT !.status = s] \in Row
                            /\ [row EXCEPT !.status = s, !.progress = "fresh"] \in Row
                            /\ [row EXCEPT !.status = s, !.cancelled = TRUE] \in Row
       /\ \A n \in 0..Batches : [row EXCEPT !.done = n, !.progress = "fresh"] \in Row
       /\ [row EXCEPT !.exhausted = TRUE, !.progress = "fresh"] \in Row
       /\ \A s \in Status \cup {"ABSENT"}, e \in BOOLEAN :
            [row EXCEPT !.status = s, !.exhausted = e, !.progress = "fresh"] \in Row
  <1>1. NewRow \in Row /\ NoRow \in Row
    <2>1. 0 \in 0..Batches
      BY RecoveryAssumption
    <2>2. NewRow \in Row
      BY <2>1 DEF NewRow, Row, Status
    <2>3. NoRow \in Row
      BY <2>2 DEF NoRow, Row
    <2> QED BY <2>2, <2>3
  <1>2. ASSUME NEW row \in Row PROVE Read(row) \in Row /\ Old(row) \in Row
    BY <1>2 DEF Row, Read, Old
  <1>3. ASSUME NEW row \in Row
        PROVE  /\ [row EXCEPT !.progress = "fresh"] \in Row
               /\ [row EXCEPT !.exhausted = TRUE, !.progress = "fresh"] \in Row
               /\ \A n \in 0..Batches : [row EXCEPT !.done = n, !.progress = "fresh"] \in Row
    BY <1>3 DEF Row
  <1>4. ASSUME NEW row \in Row, NEW s \in Status
        PROVE  /\ [row EXCEPT !.status = s] \in Row
               /\ [row EXCEPT !.status = s, !.progress = "fresh"] \in Row
               /\ [row EXCEPT !.status = s, !.cancelled = TRUE] \in Row
    BY <1>4 DEF Row
  <1>5. ASSUME NEW row \in Row, NEW s \in Status \cup {"ABSENT"}, NEW e \in BOOLEAN
        PROVE  [row EXCEPT !.status = s, !.exhausted = e, !.progress = "fresh"] \in Row
    BY <1>5 DEF Row
  <1> QED BY <1>1, <1>2, <1>3, <1>4, <1>5

\* What is added to a bag, and what is taken from it.
LEMMA BagAdd ==
  ASSUME NEW B, IsABag(B), NEW x
  PROVE  LET C == B (+) SetToBag({x})
         IN  IsABag(C) /\ BagToSet(C) = BagToSet(B) \cup {x}
  BY DEF IsABag, BagToSet, SetToBag, (+)

LEMMA BagDrop ==
  ASSUME NEW B, IsABag(B), NEW x \in BagToSet(B)
  PROVE  LET C == B (-) SetToBag({x})
         IN  /\ IsABag(C) /\ BagToSet(B) \ {x} \subseteq BagToSet(C)
             /\ BagToSet(C) \subseteq BagToSet(B)
  BY DEF IsABag, BagToSet, SetToBag, (-)

\* No worker is called free or dead.
LEMMA WorkersAreNamed == \A w \in Worker : w # "free" /\ w # "dead"
  BY RecoveryAssumption

Sessions ==
  /\ lock \in Worker \cup {"free", "dead"}
  /\ pc \in [Worker -> Labels]
  /\ task \in [Worker -> Task]
  /\ view \in [Worker -> Row]
  /\ pending \in [Worker -> Row]
  /\ pos \in [Worker -> 0..Batches]
ChunkStatus == {"ABSENT", "OPEN", "COMPLETED", "CANCELLED", "FAILED"}
Queue == [import: Nat, recover: Nat, chunks: SUBSET Part]
Split ==
  /\ chunk \in [Part -> ChunkStatus]
  /\ splits \in 0..Splits
  /\ chunked \in [Part -> Nat]
Stored ==
  /\ job \in Row
  /\ large \in BOOLEAN
  /\ Split
  /\ queue \in Queue
  /\ IsABag(ask)
  /\ BagToSet(ask) \subseteq AskRow
  /\ asks \in Nat /\ recoveries \in Nat /\ crashes \in Nat /\ failures \in Nat
  /\ applied \in [Batch -> Nat]
  /\ outdated \in Nat
  /\ stranded \in BOOLEAN

LEMMA TypeParts == TypeOK <=> Sessions /\ Stored
  BY DEF TypeOK, Sessions, Stored, Split, ChunkStatus, Queue, AskRow

\* A task of worker w touches no other session.
Others(w) == \A v \in Worker : v # w =>
  /\ pc'[v] = pc[v] /\ task'[v] = task[v] /\ view'[v] = view[v]
  /\ pending'[v] = pending[v] /\ pos'[v] = pos[v]

LEMMA Closes ==
  ASSUME Sessions, NEW w \in Worker, Close(w)
  PROVE  /\ Sessions' /\ Others(w)
         /\ pc'[w] = "idle" /\ task'[w] = NoTask /\ view'[w] = NoRow
         /\ pending'[w] = NoRow /\ pos'[w] = 0
         /\ lock' = IF lock = w THEN "free" ELSE lock
  <1>1. NoRow \in Row /\ 0 \in 0..Batches /\ "idle" \in Labels
    <2>1. 0 \in 0..Batches
      BY RecoveryAssumption
    <2> QED BY <2>1, RowUpdates DEF Labels
  <1>2. NoTask \in Task
    BY DEF NoTask, Task
  <1> QED BY <1>1, <1>2 DEF Close, Sessions, Others, Goto, EndSession, Released

\* What ImportStart makes of a row, where the session holds held.
Started(row, held) ==
  [row EXCEPT !.status = Set(row.status, held.status, "PROCESSING"),
              !.exhausted = Set(row.exhausted, held.exhausted, FALSE),
              !.progress = "fresh"]
Advanced(row, n) == [row EXCEPT !.done = n, !.progress = "fresh"]

LEMMA StartedRow ==
  ASSUME NEW row \in Row, NEW held \in Row
  PROVE  LET new == Started(row, held)
         IN  /\ new \in Row
             /\ new.done = row.done /\ new.cancelled = row.cancelled
             /\ new.status \in {row.status, "PROCESSING"}
             /\ held.status # "PROCESSING" => new.status = "PROCESSING"
             /\ new.exhausted => row.exhausted
  <1>1. /\ Set(row.status, held.status, "PROCESSING") \in {row.status, "PROCESSING"}
        /\ held.status # "PROCESSING" => Set(row.status, held.status, "PROCESSING") = "PROCESSING"
        /\ Set(row.exhausted, held.exhausted, FALSE) \in {row.exhausted, FALSE}
    BY DEF Set
  <1>2. "PROCESSING" \in Status
    BY DEF Status
  <1>3. Started(row, held) \in Row
    BY <1>1, <1>2 DEF Started, Row
  <1> QED BY <1>1, <1>3 DEF Started, Row

LEMMA ImportStarts ==
  ASSUME Sessions, Stored, NEW w \in Worker, ImportStart(w)
  PROVE  /\ pending' = [pending EXCEPT ![w] = Started(job, view[w])]
         /\ view' = [view EXCEPT ![w] = Read(Started(view[w], view[w]))]
  BY DEF ImportStart, Started, Sessions

LEMMA BatchCommits ==
  ASSUME Sessions, Stored, NEW w \in Worker, BatchCommit(w)
  PROVE  /\ job' = Advanced(Base(w), pos[w] + 1)
         /\ view' = [view EXCEPT ![w] = Read(Advanced(view[w], pos[w] + 1))]
  BY DEF BatchCommit, Advanced, Sessions, Commit

\* What a worker's step does to the sessions and the lock.
LEMMA LocalStep ==
  ASSUME TypeOK, WorkersPlaced, Engines, NEW w \in Worker, WorkerStep(w) \/ Crash(w)
  PROVE  /\ Sessions' /\ Others(w)
         /\ \/ lock' = lock
            \/ lock = w /\ lock' \in {"free", "dead"}
            \/ Claim(w) /\ lock' = w
  <1>1. Sessions /\ Stored
    BY TypeParts
  <1>2. /\ {"down", "idle", "load", "claim", "import", "recover", "chunk", "chunk_end", "settle",
            "scan_file", "engine", "batch", "refresh", "finish", "result", "result_commit"} \subseteq Labels
        /\ NoRow \in Row
    BY RowUpdates DEF Labels, Working
  <1>3. view[w] \in Row /\ pos[w] \in 0..Batches /\ pos[w] \in Nat /\ Batches \in Nat
    BY <1>1, RecoveryAssumption DEF Sessions
  <1> DEFINE Goal == /\ Sessions' /\ Others(w)
                     /\ \/ lock' = lock
                        \/ lock = w /\ lock' \in {"free", "dead"}
                        \/ Claim(w) /\ lock' = w
  <1>4. Close(w) => Goal
    BY <1>1, Closes
  <1>5. ASSUME NEW row \in Row, view' = [view EXCEPT ![w] = row]
        PROVE  view' \in [Worker -> Row] /\ \A v \in Worker : v # w => view'[v] = view[v]
    BY <1>1, <1>5 DEF Sessions
  <1>6. ASSUME NEW row \in Row, pending' = [pending EXCEPT ![w] = row]
        PROVE  pending' \in [Worker -> Row] /\ \A v \in Worker : v # w => pending'[v] = pending[v]
    BY <1>1, <1>6 DEF Sessions
  <1>7. /\ job \in Row /\ Read(job) \in Row /\ Read(view[w]) \in Row
        /\ Read(Started(view[w], view[w])) \in Row /\ Started(job, view[w]) \in Row
        /\ \A n \in 0..Batches : Read(Advanced(view[w], n)) \in Row
    <2>1. job \in Row
      BY <1>1 DEF Stored
    <2> QED BY <1>3, <2>1, RowUpdates, StartedRow DEF Advanced
  <1>8. CASE Start(w)
    BY <1>1, <1>2, <1>8 DEF Start, Goto, session, Sessions, Others
  <1>9. CASE Fetch(w)
    <2>1. PICK t \in Task : task' = [task EXCEPT ![w] = t]
      <3>1. ImportTask \in Task /\ RecoverTask \in Task
        BY DEF ImportTask, RecoverTask, Task
      <3>2. \A p \in queue.chunks : ChunkTask(p) \in Task
        BY <1>1 DEF ChunkTask, Task, Stored, Queue
      <3> QED BY <1>9, <3>1, <3>2 DEF Fetch
    <2>2. UNCHANGED <<lock, view, pending, pos>> /\ Goto(w, "load")
      BY <1>9 DEF Fetch
    <2> QED BY <1>1, <1>2, <2>1, <2>2 DEF Goto, Sessions, Others
  <1>10. CASE Crash(w)
    <2>1. NoTask \in Task /\ 0 \in 0..Batches
      BY <1>3 DEF NoTask, Task
    <2> QED BY <1>1, <1>2, <1>10, <2>1 DEF Crash, Goto, EndSession, Sessions, Others
  <1>11. CASE Load(w) \/ ChunkLoad(w)
    <2>1. CASE Close(w)
      BY <1>4, <2>1
    <2>2. CASE ~Close(w)
      <3>1. /\ UNCHANGED <<lock, task, pending, pos>>
            /\ \/ view' = [view EXCEPT ![w] = job] \/ view' = [view EXCEPT ![w] = Read(job)]
            /\ \/ Goto(w, "claim") \/ Goto(w, "chunk")
        BY <1>11, <2>2 DEF Load, ChunkLoad
      <3>2. view' \in [Worker -> Row] /\ \A v \in Worker : v # w => view'[v] = view[v]
        BY <1>5, <1>7, <3>1
      <3> QED BY <1>1, <1>2, <3>1, <3>2 DEF Goto, Sessions, Others
    <2> QED BY <2>1, <2>2
  <1>12. CASE Claim(w)
    <2>1. \/ Goto(w, "import") \/ Goto(w, "recover")
      BY <1>12 DEF Claim
    <2> QED BY <1>1, <1>2, <1>12, <2>1 DEF Claim, Goto, session, Sessions, Others
  <1>13. CASE ImportStart(w)
    <2>1. /\ pending' \in [Worker -> Row] /\ \A v \in Worker : v # w => pending'[v] = pending[v]
          /\ view' \in [Worker -> Row] /\ \A v \in Worker : v # w => view'[v] = view[v]
      BY <1>1, <1>5, <1>6, <1>7, <1>13, ImportStarts
    <2> QED BY <1>1, <1>2, <1>13, <2>1 DEF ImportStart, Goto, Sessions, Others
  <1>14. CASE ImportResume(w) \/ ImportSerial(w)
    BY <1>1, <1>2, <1>14 DEF ImportResume, ImportSerial, Goto, session, Sessions, Others
  <1>15. CASE RecoverStart(w)
    <2>1. /\ view' = [view EXCEPT ![w] = Read(view[w])] /\ pending' = [pending EXCEPT ![w] = NoRow]
          /\ \/ Goto(w, "result") \/ Goto(w, "engine")
      BY <1>1, <1>15 DEF RecoverStart, Commit, Sessions
    <2>2. /\ pending' \in [Worker -> Row] /\ \A v \in Worker : v # w => pending'[v] = pending[v]
          /\ view' \in [Worker -> Row] /\ \A v \in Worker : v # w => view'[v] = view[v]
      BY <1>2, <1>5, <1>6, <1>7, <2>1
    <2> QED BY <1>1, <1>2, <1>15, <2>1, <2>2 DEF RecoverStart, Goto, Sessions, Others
  <1>16. CASE EngineBegin(w)
    <2>1. /\ UNCHANGED pending \/ pending' = [pending EXCEPT ![w] = NoRow]
          /\ pos' = [pos EXCEPT ![w] = view[w].done]
          /\ \/ Goto(w, "batch") \/ Goto(w, "finish")
      BY <1>16 DEF EngineBegin, Commit, ResumeFrom
    <2>2. pending' \in [Worker -> Row] /\ \A v \in Worker : v # w => pending'[v] = pending[v]
      BY <1>1, <1>2, <1>6, <2>1 DEF Sessions
    <2>3. view[w].done \in 0..Batches
      BY <1>3 DEF Row
    <2> QED BY <1>1, <1>2, <1>16, <2>1, <2>2, <2>3 DEF EngineBegin, Goto, Sessions, Others
  <1>17. CASE BatchCommit(w)
    <2>1. pos[w] + 1 \in 0..Batches
      BY <1>3, <1>17 DEF BatchCommit, At, Engines, EngineAt
    <2>2. /\ pending' = [pending EXCEPT ![w] = NoRow]
          /\ pos' = [pos EXCEPT ![w] = pos[w] + 1]
      BY <1>17 DEF BatchCommit, Commit
    <2>3. /\ pending' \in [Worker -> Row] /\ \A v \in Worker : v # w => pending'[v] = pending[v]
          /\ view' \in [Worker -> Row] /\ \A v \in Worker : v # w => view'[v] = view[v]
      BY <1>1, <1>2, <1>5, <1>6, <1>7, <1>17, <2>1, <2>2, BatchCommits
    <2> QED BY <1>1, <1>2, <1>17, <2>1, <2>2, <2>3 DEF BatchCommit, Goto, Sessions, Others
  <1>18. CASE EngineRefresh(w) \/ ResultRefresh(w)
    <2>1. /\ view' = [view EXCEPT ![w] = Read(job)] /\ UNCHANGED <<lock, task, pending, pos>>
          /\ \/ Goto(w, "batch") \/ Goto(w, "finish") \/ Goto(w, "result_commit")
      BY <1>18 DEF EngineRefresh, ResultRefresh, AfterBatch
    <2>2. view' \in [Worker -> Row] /\ \A v \in Worker : v # w => view'[v] = view[v]
      BY <1>5, <1>7, <2>1
    <2> QED BY <1>1, <1>2, <2>1, <2>2 DEF Goto, Sessions, Others
  <1>19. CASE EngineFinish(w)
    <2>1. pending' = [pending EXCEPT ![w] = NoRow]
      BY <1>19 DEF EngineFinish, Commit
    <2>2. pending' \in [Worker -> Row] /\ \A v \in Worker : v # w => pending'[v] = pending[v]
      BY <1>2, <1>6, <2>1
    <2> QED BY <1>1, <1>2, <1>19, <2>2 DEF EngineFinish, Goto, Sessions, Others
  <1>20. CASE ChunkRun(w)
    BY <1>1, <1>2, <1>20 DEF ChunkRun, ChunkCancelled, ChunkBatch, ChunkEnd, ChunkFail, EndChunk, Goto, session, Sessions, Others
  <1>21. CASE \/ ClaimRefused(w) \/ ImportCancelled(w) \/ ImportSplit(w) \/ RecoverSkip(w)
              \/ ResultCommit(w) \/ TaskFail(w) \/ TaskGone(w) \/ ChunkSettle(w) \/ ChunkGone(w)
    <2>1. Close(w)
      BY <1>21 DEF ClaimRefused, ImportCancelled, ImportSplit, RecoverSkip, ResultCommit, TaskFail,
                   TaskGone, ChunkSettle, ChunkGone
    <2> QED BY <1>4, <2>1
  <1> QED BY <1>8, <1>9, <1>10, <1>11, <1>12, <1>13, <1>14, <1>15, <1>16, <1>17, <1>18, <1>19,
             <1>20, <1>21, ZenonT(60) DEF WorkerStep, TaskStep, ChunkRun

\* The requests, the clock and the server leave the workers where they are.
LEMMA AsideStep ==
  ASSUME TypeOK, [Next]_vars, \A w \in Worker : ~WorkerStep(w) /\ ~Crash(w)
  PROVE  /\ Sessions'
         /\ UNCHANGED <<large, pc, task, pending, pos, applied, outdated>>
         /\ \A w \in Worker : view'[w] \in {view[w], Old(view[w])}
         /\ lock' = lock \/ (lock = "dead" /\ lock' = "free")
  <1>1. Sessions /\ Stored
    BY TypeParts
  <1>2. CASE Aging
    <2>1. UNCHANGED <<file, queue, lock, pc, task, pending, pos, client, faults, history>>
      BY <1>2 DEF Aging
    <2>2. /\ view' \in [Worker -> Row]
          /\ \A w \in Worker : view'[w] \in {view[w], Old(view[w])}
      <3>1. \A w \in Worker : view[w] \in Row /\ Old(view[w]) \in Row
        BY <1>1, RowUpdates DEF Sessions
      <3>2. CASE view' = [w \in Worker |-> Old(view[w])]
        BY <3>1, <3>2
      <3>3. CASE \E w \in Worker : view' = [view EXCEPT ![w] = Old(@)]
        <4>1. PICK w \in Worker : view' = [view EXCEPT ![w] = Old(view[w])]
          BY <1>1, <3>3 DEF Sessions
        <4> QED BY <1>1, <3>1, <4>1 DEF Sessions
      <3> QED BY <1>2, <3>2, <3>3 DEF Aging
    <2> QED BY <1>1, <2>1, <2>2 DEF Sessions, history, file, file, faults
  <1>3. CASE ServerNotices
    BY <1>1, <1>3 DEF ServerNotices, file, session, history, Sessions
  <1>4. ASSUME NEW op \in Op, Ask(op)
        PROVE  UNCHANGED <<large, lock, pc, task, view, pending, pos, applied, outdated>>
    BY <1>4 DEF Ask, session, history, file, faults
  <1>5. ASSUME NEW a \in BagToSet(ask), AnswerStep(a)
        PROVE  UNCHANGED <<large, lock, pc, task, view, pending, pos, applied, outdated>>
    BY <1>5 DEF AnswerStep, AskGone, DetectColumns, ConfirmCommit, ConfirmDefer, ConfirmRefused,
                CancelImport, DeleteImport, session, history, file, faults
  <1>6. CASE UNCHANGED <<large, lock, pc, task, view, pending, pos, applied, outdated>>
    BY <1>1, <1>6 DEF Sessions
  <1>7. CASE UNCHANGED vars
    BY <1>6, <1>7 DEF vars, session, history, file, faults
  <1>8. CASE DeferRecovery
    BY <1>6, <1>8 DEF DeferRecovery, session, history, file, faults
  <1> QED BY <1>2, <1>3, <1>4, <1>5, <1>6, <1>7, <1>8 DEF Next

\* A flushed row as it is committed.
LEMMA BaseRow ==
  ASSUME TypeOK, Flushed, NEW w \in Worker
  PROVE  /\ Base(w) \in Row
         /\ Base(w).status \in {job.status, "PROCESSING"}
         /\ pending[w].status = "PROCESSING" => Base(w).status = "PROCESSING"
         /\ Base(w).done = job.done /\ Base(w).cancelled = job.cancelled
         /\ Base(w).exhausted => job.exhausted
  <1>1. job \in Row /\ pending[w] \in Row
    BY DEF TypeOK
  <1>2. NoRow.status = "ABSENT"
    BY DEF NoRow, NewRow
  <1>3. CASE pending[w] = NoRow
    BY <1>1, <1>2, <1>3 DEF Base
  <1>4. CASE pending[w] # NoRow
    BY <1>1, <1>4 DEF Base, Flushed, FlushedBy
  <1> QED BY <1>3, <1>4

\* The result of a settled import, from the chunks of all its splits: a
\* COMPLETED one has a split all of whose chunks were imported.
LEMMA VerdictSays ==
  ASSUME TypeOK, ChunksSay, ~Gone, Settled
  PROVE  /\ Verdict \in {"CANCELLED", "COMPLETED", "FAILED", "COMPLETED_WITH_ERRORS"}
         /\ Verdict = "COMPLETED" => \A b \in Batch : Imported(b)
  <1>1. ASSUME Verdict = "COMPLETED", NEW b \in Batch PROVE Imported(b)
    <2>1. Ended("FAILED") = {} /\ Ended("CANCELLED") = {} /\ Ended("OPEN") = {}
      BY <1>1 DEF Verdict, Settled
    <2>2. PICK p \in Part : chunk[p] # "ABSENT"
      BY DEF Settled, Chunks
    <2>3. p[1] \in 1..Splits /\ <<p[1], b>> \in Part
      BY <2>2 DEF Part
    <2>4. p[1] <= splits
      BY <2>2, <2>3, RecoveryAssumption DEF ChunksSay, TypeOK
    <2> DEFINE q == <<p[1], b>>
    <2>5. q \in Part /\ q[1] = p[1] /\ q[2] = b
      BY <2>3
    <2> HIDE DEF q
    <2>6. chunk[q] # "ABSENT"
      BY <2>4, <2>5 DEF ChunksSay
    <2>7. chunk[q] \in {"ABSENT", "OPEN", "COMPLETED", "CANCELLED", "FAILED"}
      BY <2>5 DEF TypeOK
    <2>8. chunk[q] = "COMPLETED"
      BY <2>1, <2>5, <2>6, <2>7 DEF Ended, Chunks
    <2>9. chunked[q] >= 1
      BY <2>5, <2>8 DEF ChunksSay
    <2> QED BY <2>5, <2>9 DEF Imported
  <1> QED BY <1>1 DEF Verdict

\* What a worker that writes the row writes: never over a flushed one.
Written(w) ==
  /\ ~Gone /\ job' \in Row /\ job'.status # "ABSENT"
  /\ \A v \in Worker : pending'[v] = NoRow
  /\ job'.cancelled = job.cancelled
  /\ job'.done = job.done \/ (BatchCommit(w) /\ job'.done = pos[w] + 1)
  /\ job'.exhausted => job.exhausted \/ EngineFinish(w)
  /\ \/ job'.status = job.status /\ pending[w].status # "PROCESSING"
     \/ job'.status \in {"PROCESSING", "FAILED", "CANCELLED", "COMPLETED_WITH_ERRORS"}
     \/ /\ job'.status = "COMPLETED"
        /\ \/ job.status = "COMPLETED"
           \/ ResultCommit(w) /\ ~view[w].cancelled
           \/ ChunkSettle(w) /\ \A b \in Batch : Imported(b)

LEMMA JobWritten ==
  ASSUME TypeOK, WorkersPlaced, Flushed, Engines, ChunksSay, NEW w \in Worker, WorkerStep(w) \/ Crash(w)
  PROVE  job' = job \/ Written(w)
  <1>1. Sessions /\ Stored
    BY TypeParts
  <1>2. job \in Row /\ view[w] \in Row /\ pos[w] \in Nat /\ Batches \in Nat
    BY <1>1, RecoveryAssumption DEF Sessions, Stored
  <1> DEFINE base == Base(w)
  <1>3. /\ base \in Row /\ base.status \in {job.status, "PROCESSING"}
        /\ pending[w].status = "PROCESSING" => base.status = "PROCESSING"
        /\ base.done = job.done /\ base.cancelled = job.cancelled
        /\ base.exhausted => job.exhausted
    BY BaseRow
  <1> HIDE DEF base
  <1>4. RowFree(w) /\ pending'[w] = NoRow /\ Others(w) => \A v \in Worker : pending'[v] = NoRow
    BY DEF RowFree, Others
  <1>5. Others(w)
    BY LocalStep
  <1>6. ASSUME NEW row, Commit(w, row)
        PROVE  ~Gone /\ job' = row /\ \A v \in Worker : pending'[v] = NoRow
    BY <1>1, <1>4, <1>5, <1>6 DEF Commit, Sessions
  <1>7. ASSUME Close(w), RowFree(w) PROVE \A v \in Worker : pending'[v] = NoRow
    BY <1>1, <1>4, <1>5, <1>7, Closes
  <1>8. CASE ImportCancelled(w)
    <2>1. ~Gone /\ job' = [base EXCEPT !.status = "CANCELLED"] /\ \A v \in Worker : pending'[v] = NoRow
      BY <1>7, <1>8 DEF ImportCancelled, base
    <2> QED BY <1>2, <1>3, <2>1 DEF Written, Row, Status, Finished
  <1>9. CASE ImportSplit(w)
    <2>1. ~Gone /\ job' = [base EXCEPT !.progress = "fresh"] /\ \A v \in Worker : pending'[v] = NoRow
      BY <1>7, <1>9 DEF ImportSplit, base
    <2> QED BY <1>2, <1>3, <2>1 DEF Written, Row, Gone
  <1>10. CASE RecoverStart(w)
    <2>1. ~Gone /\ job' = [job EXCEPT !.progress = "fresh"] /\ \A v \in Worker : pending'[v] = NoRow
      BY <1>6, <1>10 DEF RecoverStart
    <2>2. pending[w].status # "PROCESSING"
      BY <1>10 DEF RecoverStart, At, Flushed, FlushedBy, NoRow, NewRow
    <2> QED BY <1>2, <2>1, <2>2 DEF Written, Row, Gone
  <1>11. CASE EngineBegin(w)
    <2>1. CASE view[w].done = 0
      <3>1. ~Gone /\ job' = [base EXCEPT !.progress = "fresh"] /\ \A v \in Worker : pending'[v] = NoRow
        BY <1>6, <1>11, <2>1 DEF EngineBegin, base
      <3> QED BY <1>2, <1>3, <3>1 DEF Written, Row, Gone
    <2>2. CASE view[w].done # 0
      BY <1>11, <2>2 DEF EngineBegin
    <2> QED BY <2>1, <2>2
  <1>12. CASE BatchCommit(w)
    <2>1. pos[w] + 1 \in 0..Batches
      BY <1>2, <1>12 DEF BatchCommit, At, Engines, EngineAt
    <2>2. job' = Advanced(base, pos[w] + 1)
      BY <1>1, <1>12, BatchCommits DEF base
    <2>3. ~Gone /\ \A v \in Worker : pending'[v] = NoRow
      <3>1. PICK row : Commit(w, row)
        BY <1>12 DEF BatchCommit
      <3> QED BY <1>6, <3>1
    <2> QED BY <1>2, <1>3, <1>12, <2>1, <2>2, <2>3 DEF Written, Row, Gone, Advanced
  <1>13. CASE EngineFinish(w)
    <2>1. ~Gone /\ job' = [base EXCEPT !.exhausted = TRUE, !.progress = "fresh"]
            /\ \A v \in Worker : pending'[v] = NoRow
      BY <1>6, <1>13 DEF EngineFinish, base
    <2> QED BY <1>2, <1>3, <1>13, <2>1 DEF Written, Row, Gone
  <1>14. CASE ResultCommit(w)
    <2>1. /\ ~Gone /\ \A v \in Worker : pending'[v] = NoRow
          /\ job' = [job EXCEPT !.status = Set(job.status, view[w].status, Result(view[w])),
                                !.progress = "fresh"]
      BY <1>2, <1>7, <1>14 DEF ResultCommit
    <2>2. Set(job.status, view[w].status, Result(view[w])) \in {job.status, Result(view[w])}
      BY DEF Set
    <2>3. Result(view[w]) = IF view[w].cancelled THEN "CANCELLED" ELSE "COMPLETED"
      BY DEF Result
    <2>4. pending[w].status # "PROCESSING"
      BY <1>14 DEF ResultCommit, At, Flushed, FlushedBy, NoRow, NewRow
    <2> QED BY <1>2, <1>14, <2>1, <2>2, <2>3, <2>4 DEF Written, Row, Gone, Status, Finished
  <1>15. CASE TaskFail(w)
    <2>1. /\ ~Gone /\ \A v \in Worker : pending'[v] = NoRow
          /\ job' = [job EXCEPT !.status = "FAILED", !.progress = "fresh"]
      BY <1>7, <1>15 DEF TaskFail
    <2> QED BY <1>2, <2>1 DEF Written, Row, Gone, Status, Finished
  <1>16. CASE ChunkSettle(w)
    <2>1. CASE RowFree(w) /\ ~Gone /\ Settled
                 /\ job' = [job EXCEPT !.status = Verdict, !.progress = "fresh"]
      <3> DEFINE verdict == Verdict
      <3>1. /\ \A v \in Worker : pending'[v] = NoRow
            /\ job' = [job EXCEPT !.status = verdict, !.progress = "fresh"]
        BY <1>7, <1>16, <2>1 DEF ChunkSettle
      <3>2. /\ verdict \in {"CANCELLED", "COMPLETED", "FAILED", "COMPLETED_WITH_ERRORS"}
            /\ verdict = "COMPLETED" => \A b \in Batch : Imported(b)
        BY <2>1, VerdictSays
      <3> HIDE DEF verdict
      <3> QED BY <1>2, <1>16, <2>1, <3>1, <3>2 DEF Written, Row, Gone, Status, Finished
    <2>2. CASE UNCHANGED job
      BY <2>2
    <2> QED BY <1>16, <2>1, <2>2 DEF ChunkSettle
  <1>17. CASE \/ Start(w) \/ Fetch(w) \/ Crash(w) \/ Load(w) \/ Claim(w) \/ ClaimRefused(w)
              \/ ImportStart(w) \/ ImportResume(w) \/ ImportSerial(w) \/ RecoverSkip(w)
              \/ EngineRefresh(w) \/ ResultRefresh(w) \/ TaskGone(w)
              \/ ChunkLoad(w) \/ ChunkRun(w) \/ ChunkGone(w)
    BY <1>17 DEF Start, Fetch, Crash, Load, Claim, ClaimRefused, ImportStart, ImportResume,
                 ImportSerial, RecoverSkip, EngineRefresh, ResultRefresh, TaskGone,
                 ChunkLoad, ChunkRun, ChunkCancelled, ChunkBatch, ChunkEnd, ChunkFail, EndChunk, ChunkGone
  <1> QED BY <1>8, <1>9, <1>10, <1>11, <1>12, <1>13, <1>14, <1>15, <1>16, <1>17, ZenonT(60)
          DEF WorkerStep, TaskStep, ChunkRun

\* What is written when no worker does: no row is flushed then.
Answered ==
  /\ job' \in Row
  /\ \A w \in Worker : pending[w] = NoRow
  /\ \/ job' = NoRow
     \/ /\ job'.done = job.done /\ job'.exhausted = job.exhausted
        /\ job.cancelled => job'.cancelled
        /\ \/ job'.status = job.status
           \/ ~Gone /\ job'.status = "UPLOADED"
           \/ ~Gone /\ job'.status = "QUEUED" /\ \E a \in BagToSet(ask) : ConfirmCommit(a)
           \/ ~Gone /\ job'.status = "CANCELLING"

LEMMA JobAnswered ==
  ASSUME TypeOK, [Next]_vars, \A w \in Worker : ~WorkerStep(w) /\ ~Crash(w)
  PROVE  job' = job \/ Answered
  <1>1. job \in Row
    BY DEF TypeOK
  <1>2. CASE Aging
    <2>1. Old(job) \in Row
      BY <1>1, RowUpdates
    <2>2. CASE job' = Old(job) /\ \A w \in Worker : pending[w] = NoRow
      BY <1>1, <2>1, <2>2 DEF Old, Row, Answered
    <2> QED BY <1>2, <2>2 DEF Aging
  <1>3. ASSUME NEW a \in BagToSet(ask), AnswerStep(a) PROVE job' = job \/ Answered
    <2>1. CASE DetectColumns(a)
      <3>1. Set(job.status, a.saw, "UPLOADED") \in {job.status, "UPLOADED"}
        BY DEF Set
      <3>2. "UPLOADED" \in Status
        BY DEF Status
      <3> QED BY <1>1, <2>1, <3>1, <3>2 DEF DetectColumns, RowUnlocked, Answered, Row
    <2>2. CASE ConfirmCommit(a)
      <3>1. "QUEUED" \in Status
        BY DEF Status
      <3>2. ~Gone /\ job' = [job EXCEPT !.status = "QUEUED"] /\ \A w \in Worker : pending[w] = NoRow
        BY <2>2 DEF ConfirmCommit, RowUnlocked
      <3>3. \E c \in BagToSet(ask) : ConfirmCommit(c)
        BY <2>2
      <3> QED BY <1>1, <3>1, <3>2, <3>3 DEF Answered, Row
    <2>3. CASE CancelImport(a)
      <3>1. "CANCELLING" \in Status
        BY DEF Status
      <3> QED BY <1>1, <2>3, <3>1 DEF CancelImport, RowUnlocked, Answered, Row
    <2>4. CASE DeleteImport(a)
      BY <2>4, RowUpdates DEF DeleteImport, RowUnlocked, Answered
    <2>5. CASE AskGone(a) \/ ConfirmDefer(a) \/ ConfirmRefused(a)
      BY <2>5 DEF AskGone, ConfirmDefer, ConfirmRefused
    <2> QED BY <1>3, <2>1, <2>2, <2>3, <2>4, <2>5 DEF AnswerStep
  <1>4. CASE ServerNotices \/ DeferRecovery \/ (\E op \in Op : Ask(op)) \/ UNCHANGED vars
    BY <1>4 DEF ServerNotices, DeferRecovery, Ask, vars
  <1> QED BY <1>2, <1>3, <1>4 DEF Next

\* Voters stay, and so does the end of an import.
LEMMA Onwards ==
  ASSUME TypeOK, WorkersPlaced, Flushed, Engines, ChunksSay, [Next]_vars
  PROVE  /\ job' \in Row /\ applied' \in [Batch -> Nat]
         /\ \A b \in Batch : applied'[b] >= applied[b]
         /\ Stopped(job) => Stopped(job')
         /\ Gone => Gone'
  <1>1. job \in Row /\ applied \in [Batch -> Nat] /\ Sessions
    BY TypeParts DEF Stored
  <1>2. NoRow.status = "ABSENT"
    BY DEF NoRow, NewRow
  <1>3. ASSUME NEW w \in Worker, WorkerStep(w) \/ Crash(w)
        PROVE  /\ job' \in Row
               /\ Stopped(job) => Stopped(job')
               /\ Gone => Gone'
    BY <1>1, <1>3, JobWritten DEF Written, Stopped, Gone
  <1>4. CASE \A w \in Worker : ~WorkerStep(w) /\ ~Crash(w)
    <2>1. UNCHANGED applied
      BY <1>4, AsideStep
    <2>2. /\ job' \in Row
          /\ Stopped(job) => Stopped(job')
          /\ Gone => Gone'
      BY <1>1, <1>2, <1>4, JobAnswered DEF Answered, Stopped, Gone
    <2> QED BY <1>1, <2>1, <2>2
  <1>5. ASSUME NEW w \in Worker, WorkerStep(w) \/ Crash(w)
        PROVE  \/ UNCHANGED applied
               \/ \E b \in Batch : applied' = [applied EXCEPT ![b] = applied[b] + 1]
    <2>1. CASE BatchCommit(w)
      <3>1. pos[w] + 1 \in Batch
        BY <1>1, <2>1, RecoveryAssumption DEF BatchCommit, At, Engines, EngineAt, Sessions, Batch
      <3> QED BY <1>1, <2>1, <3>1 DEF BatchCommit
    <2>2. CASE ~BatchCommit(w)
      <3>1. CASE Start(w) \/ Fetch(w) \/ Crash(w)
        BY <3>1 DEF Start, Fetch, Crash, history
      <3>2. CASE TaskStep(w)
        BY <2>2, <3>2 DEF TaskStep, Load, Claim, ClaimRefused, ImportStart, ImportResume, ImportSerial,
           ImportCancelled, ImportSplit, RecoverSkip, RecoverStart, EngineBegin, EngineRefresh,
           EngineFinish, ResultRefresh, ResultCommit, TaskFail, TaskGone, ChunkLoad, ChunkSettle,
           ChunkGone, ChunkRun, ChunkCancelled, ChunkBatch, ChunkEnd, ChunkFail, EndChunk, history
      <3> QED BY <1>5, <3>1, <3>2 DEF WorkerStep
    <2> QED BY <2>1, <2>2
  <1>6. ASSUME NEW w \in Worker, WorkerStep(w) \/ Crash(w)
        PROVE  applied' \in [Batch -> Nat] /\ \A b \in Batch : applied'[b] >= applied[b]
    BY <1>1, <1>5, <1>6
  <1> QED BY <1>3, <1>4, <1>6

\* What a row says stays true.
LEMMA SoundStays ==
  ASSUME NEW row, NEW app \in [Batch -> Nat], NEW app2 \in [Batch -> Nat], NEW now, NEW now2,
         Sound(row, app, now), \A b \in Batch : app2[b] >= app[b], Stopped(now) => Stopped(now2)
  PROVE  Sound(row, app2, now2)
  <1>1. AllImported(app) => AllImported(app2)
    BY DEF AllImported
  <1> QED BY <1>1 DEF Sound

\* What rows that are derived from a row say.
LEMMA SoundRows ==
  ASSUME NEW row \in Row, NEW held \in Row, NEW app, NEW now, Sound(row, app, now)
  PROVE  /\ Sound(Read(row), app, now) /\ Sound(Old(row), app, now)
         /\ Sound(Started(row, held), app, now) /\ Sound(NoRow, app, now)
  <1>1. Sound(Read(row), app, now) /\ Sound(Old(row), app, now)
    BY DEF Sound, Read, Old, Row
  <1>2. Sound(Started(row, held), app, now)
    BY StartedRow DEF Sound
  <1>3. Sound(NoRow, app, now)
    BY RecoveryAssumption DEF Sound, NoRow, NewRow, Batch
  <1> QED BY <1>1, <1>2, <1>3

\* Where a session's view comes from.
LEMMA ViewTaken ==
  ASSUME TypeOK, NEW w \in Worker, WorkerStep(w) \/ Crash(w)
  PROVE  \/ view'[w] \in {view[w], NoRow, job, Read(job), Read(view[w])}
         \/ ImportStart(w) /\ view'[w] = Read(Started(view[w], view[w]))
         \/ BatchCommit(w) /\ view'[w] = Read(Advanced(view[w], pos[w] + 1))
  <1>1. Sessions /\ Stored
    BY TypeParts
  <1>2. Close(w) \/ EndSession(w) => view'[w] = NoRow
    BY <1>1 DEF Close, EndSession, Sessions
  <1>3. CASE ImportStart(w) \/ BatchCommit(w)
    BY <1>1, <1>3, ImportStarts, BatchCommits DEF Sessions
  <1>4. CASE Load(w) \/ ChunkLoad(w) \/ EngineRefresh(w) \/ ResultRefresh(w) \/ RecoverStart(w)
    BY <1>1, <1>2, <1>4 DEF Load, ChunkLoad, EngineRefresh, ResultRefresh, RecoverStart, Sessions
  <1>5. CASE Crash(w)
    BY <1>2, <1>5 DEF Crash
  <1>6. CASE \/ ClaimRefused(w) \/ ImportCancelled(w) \/ ImportSplit(w) \/ RecoverSkip(w)
             \/ ResultCommit(w) \/ TaskFail(w) \/ TaskGone(w) \/ ChunkSettle(w) \/ ChunkGone(w)
    BY <1>2, <1>6 DEF ClaimRefused, ImportCancelled, ImportSplit, RecoverSkip, ResultCommit, TaskFail,
                      TaskGone, ChunkSettle, ChunkGone
  <1>7. CASE \/ Start(w) \/ Fetch(w) \/ Claim(w) \/ ImportResume(w) \/ ImportSerial(w)
             \/ EngineBegin(w) \/ EngineFinish(w) \/ ChunkRun(w)
    BY <1>7 DEF Start, Fetch, Claim, ImportResume, ImportSerial, EngineBegin, EngineFinish, ChunkRun, ChunkCancelled, ChunkBatch, ChunkEnd, ChunkFail, EndChunk,
                session
  <1> QED BY <1>3, <1>4, <1>5, <1>6, <1>7, ZenonT(60) DEF WorkerStep, TaskStep, ChunkRun

-----------------------------------------------------------------------------
(* What rows, engines and chunks stand for *)

\* What a batch's commit makes of a row.
LEMMA SoundAdvance ==
  ASSUME TypeOK, Engines, Flushed, RowsSound, NEW w \in Worker, BatchCommit(w),
         NEW row \in Row, Sound(row, applied, job)
  PROVE  Sound(Advanced(row, pos[w] + 1), applied', job)
  <1>1. applied \in [Batch -> Nat] /\ pos[w] \in Nat /\ pc[w] = "batch"
    BY RecoveryAssumption DEF TypeOK, BatchCommit, At
  <1>2. pos[w] < Batches /\ \A b \in Batch : b <= pos[w] => applied[b] >= 1
    BY <1>1 DEF Engines, EngineAt
  <1>3. pos[w] + 1 \in Batch /\ applied' = [applied EXCEPT ![pos[w] + 1] = applied[pos[w] + 1] + 1]
    BY <1>1, <1>2, RecoveryAssumption DEF BatchCommit, Batch
  <1>4. \A b \in Batch : b <= pos[w] + 1 => applied'[b] >= 1
    BY <1>1, <1>2, <1>3, RecoveryAssumption DEF Batch
  <1>5. AllImported(applied) => AllImported(applied')
    BY <1>1, <1>3 DEF AllImported
  <1>6. LET new == Advanced(row, pos[w] + 1)
        IN  /\ new.done = pos[w] + 1 /\ new.exhausted = row.exhausted
            /\ new.cancelled = row.cancelled /\ new.status = row.status
    BY DEF Advanced, Row
  <1> QED BY <1>4, <1>5, <1>6 DEF Sound

\* What a session has read of the row, however long ago, still holds.
LEMMA RowsStep ==
  ASSUME TypeOK, WorkersPlaced, Flushed, Engines, ChunksSay, RowsSound, [Next]_vars
  PROVE  RowsSound'
  <1>1. /\ job \in Row /\ job' \in Row
        /\ applied \in [Batch -> Nat] /\ applied' \in [Batch -> Nat]
        /\ \A w \in Worker : view[w] \in Row /\ pos[w] \in Nat
    BY Onwards, RecoveryAssumption DEF TypeOK
  <1>2. (\A b \in Batch : applied'[b] >= applied[b]) /\ (Stopped(job) => Stopped(job'))
    BY Onwards
  <1>3. \A row : Sound(row, applied, job) => Sound(row, applied', job')
    BY <1>1, <1>2, SoundStays
  <1>4. Sound(job, applied, job) /\ \A w \in Worker : Sound(view[w], applied, job)
    BY DEF RowsSound
  <1>5. \A row \in Row : Sound(row, applied, job) =>
          /\ Sound(Read(row), applied, job) /\ Sound(Old(row), applied, job)
          /\ Sound(Started(row, row), applied, job) /\ Sound(NoRow, applied, job)
          /\ Read(row) \in Row /\ Started(row, row) \in Row
    BY SoundRows, RowUpdates, StartedRow
  <1>6. AllImported(applied) => AllImported(applied')
    BY <1>1, <1>2 DEF AllImported
  <1>7. ASSUME NEW w \in Worker, WorkerStep(w) \/ Crash(w) PROVE Sound(job', applied', job')
    <2>1. CASE job' = job
      BY <1>3, <1>4, <2>1
    <2>2. CASE Written(w)
      <3>1. \A b \in Batch : b <= job'.done => applied'[b] >= 1
        <4>1. CASE BatchCommit(w) /\ job'.done = pos[w] + 1
          <5>1. Sound(Advanced(job, pos[w] + 1), applied', job)
            BY <1>1, <1>4, <4>1, SoundAdvance
          <5>2. Advanced(job, pos[w] + 1).done = pos[w] + 1
            BY <1>1 DEF Advanced, Row
          <5> QED BY <4>1, <5>1, <5>2 DEF Sound
        <4>2. CASE job'.done = job.done
          BY <1>3, <1>4, <4>2 DEF Sound
        <4> QED BY <2>2, <4>1, <4>2 DEF Written
      <3>2. job'.exhausted => AllImported(applied') \/ Stopped(job')
        <4>1. CASE EngineFinish(w)
          BY <1>2, <1>6, <4>1 DEF EngineFinish, At, Engines, EngineAt
        <4>2. CASE job.exhausted
          BY <1>3, <1>4, <4>2 DEF Sound
        <4> QED BY <2>2, <4>1, <4>2 DEF Written
      <3>3. job'.cancelled => Stopped(job')
        BY DEF Stopped
      <3> QED BY <3>1, <3>2, <3>3 DEF Sound
    <2> QED BY <1>7, <2>1, <2>2, JobWritten
  <1>8. ASSUME NEW w \in Worker, WorkerStep(w) \/ Crash(w)
        PROVE  \A v \in Worker : Sound(view'[v], applied', job')
    <2>1. \A v \in Worker : v # w => view'[v] = view[v]
      BY <1>8, LocalStep DEF Others
    <2>2. Sound(view'[w], applied', job')
      <3>1. CASE view'[w] \in {view[w], NoRow, job, Read(job), Read(view[w])}
        <4>1. Sound(view'[w], applied, job)
          BY <1>1, <1>4, <1>5, <3>1
        <4> QED BY <1>3, <4>1
      <3>2. CASE view'[w] = Read(Started(view[w], view[w]))
        <4>1. Sound(view'[w], applied, job)
          BY <1>1, <1>4, <1>5, <3>2
        <4> QED BY <1>3, <4>1
      <3>3. CASE BatchCommit(w) /\ view'[w] = Read(Advanced(view[w], pos[w] + 1))
        <4> DEFINE row == Advanced(view[w], pos[w] + 1)
        <4>1. Sound(row, applied', job)
          BY <1>1, <1>4, <3>3, SoundAdvance
        <4>2. row \in Row
          <5>1. pos[w] + 1 \in 0..Batches
            BY <1>1, <3>3, RecoveryAssumption DEF BatchCommit, At, Engines, EngineAt
          <5> QED BY <1>1, <5>1, RowUpdates DEF Advanced
        <4> HIDE DEF row
        <4>3. Sound(Read(row), applied', job)
          BY <4>1, <4>2, SoundRows
        <4>4. Sound(Read(row), applied', job')
          BY <1>1, <1>2, <4>3, SoundStays
        <4> QED BY <3>3, <4>4 DEF row
      <3> QED BY <1>8, <3>1, <3>2, <3>3, ViewTaken
    <2> QED BY <1>3, <1>4, <2>1, <2>2
  <1>9. CASE \A w \in Worker : ~WorkerStep(w) /\ ~Crash(w)
    <2>1. UNCHANGED applied
      BY <1>9, AsideStep
    <2>2. Sound(job', applied', job')
      <3>1. CASE job' = job
        BY <1>3, <1>4, <3>1
      <3>2. CASE job' = NoRow
        BY <1>1, <1>3, <1>4, <1>5, <3>2
      <3>3. CASE job' # NoRow /\ Answered
        <4>1. job'.done = job.done /\ job'.exhausted = job.exhausted
          BY <3>3 DEF Answered
        <4>2. Sound(job, applied', job')
          BY <1>3, <1>4
        <4> QED BY <4>1, <4>2 DEF Sound, Stopped
      <3> QED BY <1>9, <3>1, <3>2, <3>3, JobAnswered
    <2>3. \A w \in Worker : Sound(view'[w], applied', job')
      <3>1. \A w \in Worker : view'[w] \in {view[w], Old(view[w])}
        BY <1>9, AsideStep
      <3>2. \A w \in Worker : Sound(view'[w], applied, job)
        BY <1>1, <1>4, <1>5, <3>1
      <3> QED BY <1>3, <3>2
    <2> QED BY <2>2, <2>3 DEF RowsSound
  <1> QED BY <1>7, <1>8, <1>9 DEF RowsSound

\* Only a split and a chunk's task change the chunks.
LEMMA ChunkKept ==
  ASSUME NEW w \in Worker, WorkerStep(w) \/ Crash(w), ~ImportSplit(w), ~ChunkRun(w)
  PROVE  UNCHANGED <<chunk, chunked, splits>>
  <1>1. CASE Start(w) \/ Fetch(w) \/ Crash(w)
    BY <1>1 DEF Start, Fetch, Crash, file, history
  <1>2. CASE TaskStep(w)
    BY <1>2 DEF TaskStep, Load, Claim, ClaimRefused, ImportStart, ImportResume, ImportSerial,
       ImportCancelled, RecoverSkip, RecoverStart, EngineBegin, BatchCommit, EngineRefresh,
       EngineFinish, ResultRefresh, ResultCommit, TaskFail, TaskGone, ChunkLoad, ChunkSettle, ChunkGone,
       ChunkRun, file, history
  <1> QED BY <1>1, <1>2 DEF WorkerStep

\* What a step of a chunk's task does: it commits the batch, or ends the chunk.
LEMMA ChunkRuns ==
  ASSUME TypeOK, WorkersPlaced, NEW w \in Worker, ChunkRun(w)
  PROVE  /\ ~Gone /\ ChunkTasks(w) /\ task[w].part \in Part
         /\ UNCHANGED <<job, splits, queue, task, applied, outdated>>
         /\ \/ /\ pc[w] = "chunk" /\ pc'[w] = "chunk_end" /\ UNCHANGED chunk
               /\ chunked' = [chunked EXCEPT ![task[w].part] = chunked[task[w].part] + 1]
            \/ /\ pc'[w] = "settle" /\ UNCHANGED chunked
               /\ \E outcome \in {"COMPLETED", "CANCELLED", "FAILED"} :
                    /\ chunk' = [chunk EXCEPT ![task[w].part] = outcome]
                    /\ outcome = "COMPLETED" => pc[w] = "chunk_end"
  <1>1. Sessions /\ Stored
    BY TypeParts
  <1>2. pc[w] \in {"chunk", "chunk_end"}
    BY DEF ChunkRun, ChunkCancelled, ChunkBatch, ChunkEnd, ChunkFail, At
  <1>3. ChunkTasks(w) /\ task[w].part \in Part
    <2>1. ChunkTasks(w) /\ task[w] \in Task
      BY <1>1, <1>2 DEF WorkersPlaced, Placed, ChunkTasks, Sessions
    <2> QED BY <2>1 DEF Task, ChunkTasks
  <1>4. ASSUME NEW outcome \in {"COMPLETED", "CANCELLED", "FAILED"}, EndChunk(w, outcome)
        PROVE  /\ ~Gone /\ UNCHANGED <<job, splits, queue, task, applied, outdated, chunked>>
               /\ pc'[w] = "settle" /\ chunk' = [chunk EXCEPT ![task[w].part] = outcome]
    BY <1>1, <1>4 DEF EndChunk, Goto, session, history, Sessions
  <1>5. CASE ChunkCancelled(w)
    BY <1>3, <1>4, <1>5 DEF ChunkCancelled
  <1>6. CASE ChunkBatch(w)
    BY <1>1, <1>3, <1>6 DEF ChunkBatch, At, Goto, session, file, Sessions
  <1>7. CASE ChunkEnd(w)
    BY <1>3, <1>4, <1>7 DEF ChunkEnd, At
  <1>8. CASE ChunkFail(w)
    BY <1>3, <1>4, <1>8 DEF ChunkFail
  <1> QED BY <1>5, <1>6, <1>7, <1>8 DEF ChunkRun

\* Who changes the chunks.
LEMMA ChunksTaken ==
  ASSUME [Next]_vars
  PROVE  \/ UNCHANGED <<chunk, chunked, splits>>
         \/ \E w \in Worker : ImportSplit(w)
         \/ \E w \in Worker : ChunkRun(w)
         \/ /\ chunk' = [p \in Part |-> "ABSENT"] /\ job' = NoRow
            /\ UNCHANGED <<chunked, splits, pc, task>>
  <1>1. ASSUME NEW w \in Worker, WorkerStep(w) \/ Crash(w), ~ImportSplit(w), ~ChunkRun(w)
        PROVE  UNCHANGED <<chunk, chunked, splits>>
    BY <1>1, ChunkKept
  <1>2. ASSUME NEW a \in BagToSet(ask), AnswerStep(a)
        PROVE  \/ UNCHANGED <<chunk, chunked, splits>>
               \/ /\ chunk' = [p \in Part |-> "ABSENT"] /\ job' = NoRow
                  /\ UNCHANGED <<chunked, splits, pc, task>>
    BY <1>2 DEF AnswerStep, AskGone, DetectColumns, ConfirmCommit, ConfirmDefer, ConfirmRefused,
                CancelImport, DeleteImport, session, file, history
  <1>3. CASE Aging \/ ServerNotices \/ DeferRecovery \/ (\E op \in Op : Ask(op)) \/ UNCHANGED vars
    BY <1>3 DEF Aging, ServerNotices, DeferRecovery, Ask, vars, file, history
  <1> QED BY <1>1, <1>2, <1>3 DEF Next

\* A split adds the chunks of its own number.
LEMMA SplitsAdd ==
  ASSUME TypeOK, WorkersPlaced, NEW w \in Worker, ImportSplit(w)
  PROVE  /\ ~Gone
         /\ task'[w] = NoTask /\ pc'[w] = "idle"
         /\ splits < Splits /\ splits' = splits + 1
         /\ UNCHANGED <<chunked, applied, outdated>>
         /\ chunk' = [p \in Part |-> IF p[1] = splits + 1 THEN "OPEN" ELSE chunk[p]]
         /\ queue' = [queue EXCEPT !.chunks = queue.chunks \cup {p \in Part : p[1] = splits + 1}]
  <1>1. Sessions /\ Close(w) /\ ~Gone
    BY TypeParts DEF ImportSplit
  <1> QED BY <1>1, Closes DEF ImportSplit, NewPart, client, history

\* What the chunks' tasks have imported stays.
LEMMA ChunkedOn ==
  ASSUME TypeOK, WorkersPlaced, [Next]_vars
  PROVE  /\ chunked' \in [Part -> Nat]
         /\ \A p \in Part : chunked'[p] >= chunked[p]
  <1>1. chunked \in [Part -> Nat]
    BY DEF TypeOK
  <1>2. ASSUME NEW w \in Worker, ImportSplit(w) PROVE UNCHANGED chunked
    BY <1>2, SplitsAdd
  <1>3. ASSUME NEW w \in Worker, ChunkRun(w)
        PROVE  chunked' \in [Part -> Nat] /\ \A p \in Part : chunked'[p] >= chunked[p]
    BY <1>1, <1>3, ChunkRuns
  <1>4. CASE UNCHANGED chunked
    BY <1>1, <1>4
  <1> QED BY <1>2, <1>3, <1>4, ChunksTaken

\* COMPLETED means that every batch was imported, by the engine or in a split.
LEMMA ResultStep ==
  ASSUME TypeOK, WorkersPlaced, Flushed, Engines, ChunksSay, RowsSound, ResultTrue, [Next]_vars
  PROVE  ResultTrue'
  <1>1. \A b \in Batch : Imported(b) => Imported(b)'
    <2>1. /\ \A b \in Batch : applied[b] \in Nat /\ applied'[b] \in Nat /\ applied'[b] >= applied[b]
          /\ \A p \in Part : chunked[p] \in Nat /\ chunked'[p] \in Nat /\ chunked'[p] >= chunked[p]
      BY Onwards, ChunkedOn DEF TypeOK
    <2>2. ASSUME NEW b \in Batch, applied[b] >= 1 PROVE applied'[b] >= 1
      BY <2>1, <2>2
    <2>3. ASSUME NEW p \in Part, chunked[p] >= 1 PROVE chunked'[p] >= 1
      BY <2>1, <2>3
    <2> QED BY <2>2, <2>3 DEF Imported
  <1>2. AllImported(applied) => \A b \in Batch : Imported(b)
    BY DEF AllImported, Imported
  <1>3. ASSUME NEW w \in Worker, WorkerStep(w) \/ Crash(w), job'.status = "COMPLETED"
        PROVE  \A b \in Batch : Imported(b)'
    <2>1. CASE job.status = "COMPLETED"
      BY <1>1, <2>1 DEF ResultTrue
    <2>2. CASE ResultCommit(w) /\ ~view[w].cancelled
      <3>1. AllImported(applied)
        BY <2>2 DEF ResultCommit, At, Engines, EngineAt
      <3> QED BY <1>1, <1>2, <3>1
    <2>3. CASE \A b \in Batch : Imported(b)
      BY <1>1, <2>3
    <2> QED BY <1>3, <2>1, <2>2, <2>3, JobWritten DEF Written
  <1>4. ASSUME \A w \in Worker : ~WorkerStep(w) /\ ~Crash(w), job'.status = "COMPLETED"
        PROVE  job.status = "COMPLETED"
    BY <1>4, JobAnswered DEF Answered, NoRow, NewRow
  <1> QED BY <1>1, <1>3, <1>4 DEF ResultTrue

\* Labels, tasks and the lock agree.
LEMMA PlacedStep ==
  ASSUME TypeOK, WorkersPlaced, Engines, [Next]_vars
  PROVE  WorkersPlaced'
  <1>1. Sessions /\ Stored
    BY TypeParts
  <1>2. ASSUME NEW w \in Worker, WorkerStep(w) \/ Crash(w) PROVE WorkersPlaced'
    <2>1. Others(w)
      BY <1>2, LocalStep
    <2>2. ASSUME NEW v \in Worker, v # w, pc[v] \in Claimed PROVE lock' = v
      <3>1. lock = v
        BY <2>2 DEF WorkersPlaced, Placed
      <3>2. CASE Claim(w)
        BY <2>2, <3>1, <3>2, WorkersAreNamed DEF Claim, LockTaken
      <3> QED BY <1>2, <2>2, <3>1, <3>2, LocalStep
    <2>3. \A v \in Worker : v # w => Placed(v)'
      BY <2>1, <2>2 DEF Others, WorkersPlaced, Placed
    <2>4. Placed(w)
      BY DEF WorkersPlaced
    <2>5. Close(w) => Placed(w)'
      BY <1>1, Closes DEF Placed, Claimed, Working
    <2>6. CASE Close(w)
      BY <2>3, <2>5, <2>6 DEF WorkersPlaced
    <2>7. Placed(w)'
      <3>1. CASE Start(w) \/ Crash(w)
        <4>1. pc'[w] \in {"idle", "down"} /\ task'[w] = NoTask
          BY <1>1, <2>4, <3>1 DEF Start, Crash, EndSession, Goto, At, session, Sessions, Placed
        <4> QED BY <4>1 DEF Placed, Claimed, Working
      <3>2. CASE Fetch(w)
        <4>1. pc'[w] = "load"
          BY <1>1, <3>2 DEF Fetch, Goto, Sessions
        <4> QED BY <4>1 DEF Placed, Claimed, Working
      <3>3. CASE Load(w) \/ ChunkLoad(w)
        <4>1. CASE ~Close(w)
          <5>1. \/ pc'[w] = "claim"
                \/ pc'[w] = "chunk" /\ task'[w].kind = "chunk"
            BY <1>1, <3>3, <4>1 DEF Load, ChunkLoad, Goto, Sessions
          <5> QED BY <5>1 DEF Placed, Claimed, Working
        <4> QED BY <2>5, <4>1
      <3>4. CASE Claim(w)
        <4>1. /\ lock' = w /\ task'[w] = task[w]
              /\ pc'[w] = IF task[w] = ImportTask THEN "import" ELSE "recover"
          BY <1>1, <3>4 DEF Claim, Goto, session, Sessions
        <4> QED BY <4>1 DEF Placed, Claimed, Working
      <3>5. CASE \/ ImportStart(w) \/ ImportResume(w) \/ ImportSerial(w) \/ RecoverStart(w)
                 \/ EngineBegin(w) \/ BatchCommit(w) \/ EngineRefresh(w) \/ EngineFinish(w)
                 \/ ResultRefresh(w)
        <4>1. /\ pc[w] \in Claimed /\ pc'[w] \in Working /\ UNCHANGED <<lock, task>>
              /\ pc'[w] = "scan_file" => pc[w] = "import"
          BY <1>1, <3>5 DEF ImportStart, ImportResume, ImportSerial, RecoverStart, EngineBegin,
             BatchCommit, EngineRefresh, EngineFinish, ResultRefresh, AfterBatch, At, Goto, session,
             Sessions, Claimed, Working
        <4> QED BY <2>4, <4>1 DEF Placed, Claimed, Working
      <3>6. CASE ChunkRun(w)
        <4>1. pc[w] \in {"chunk", "chunk_end"} /\ pc'[w] \in {"chunk_end", "settle"} /\ UNCHANGED task
          BY <1>1, <3>6 DEF ChunkRun, ChunkCancelled, ChunkBatch, ChunkEnd, ChunkFail, EndChunk, At, Goto, session, Sessions
        <4> QED BY <2>4, <4>1 DEF Placed, Claimed, Working
      <3>7. CASE \/ ClaimRefused(w) \/ ImportCancelled(w) \/ ImportSplit(w) \/ RecoverSkip(w)
                 \/ ResultCommit(w) \/ TaskFail(w) \/ TaskGone(w) \/ ChunkSettle(w) \/ ChunkGone(w)
        BY <2>5, <3>7 DEF ClaimRefused, ImportCancelled, ImportSplit, RecoverSkip, ResultCommit,
                          TaskFail, TaskGone, ChunkSettle, ChunkGone
      <3> QED BY <1>2, <3>1, <3>2, <3>3, <3>4, <3>5, <3>6, <3>7, ZenonT(60) DEF WorkerStep, TaskStep, ChunkRun
    <2> QED BY <2>3, <2>7 DEF WorkersPlaced
  <1>3. CASE \A w \in Worker : ~WorkerStep(w) /\ ~Crash(w)
    <2>1. UNCHANGED <<pc, task>> /\ (lock' = lock \/ lock = "dead")
      BY <1>3, AsideStep
    <2> QED BY <2>1, WorkersAreNamed DEF WorkersPlaced, Placed
  <1> QED BY <1>2, <1>3

\* The engine has imported what lies behind it, and ends where it may.
LEMMA EnginesStep ==
  ASSUME TypeOK, WorkersPlaced, Flushed, Engines, ChunksSay, RowsSound, [Next]_vars
  PROVE  Engines'
  <1>1. Sessions /\ Stored
    BY TypeParts
  <1>2. /\ job \in Row /\ applied \in [Batch -> Nat] /\ applied' \in [Batch -> Nat]
        /\ \A w \in Worker : view[w] \in Row /\ pos[w] \in 0..Batches /\ pos[w] \in Nat
        /\ Batches \in Nat
    BY Onwards, RecoveryAssumption DEF TypeOK
  <1>3. (\A b \in Batch : applied'[b] >= applied[b]) /\ (Stopped(job) => Stopped(job'))
    BY Onwards
  <1>4. /\ AllImported(applied) => AllImported(applied')
        /\ \A b \in Batch : applied[b] >= 1 => applied'[b] >= 1
    BY <1>2, <1>3 DEF AllImported
  <1>5. ASSUME NEW w \in Worker, pc'[w] = pc[w], pos'[w] = pos[w],
               view'[w] = view[w] \/ view'[w] = Old(view[w])
        PROVE  EngineAt(w)'
    <2>1. view'[w].cancelled = view[w].cancelled
      BY <1>2, <1>5 DEF Old, Row
    <2> QED BY <1>3, <1>4, <1>5, <2>1 DEF Engines, EngineAt
  <1>6. ASSUME NEW w \in Worker, pc'[w] \notin {"batch", "refresh", "finish", "result", "result_commit"}
        PROVE  EngineAt(w)'
    BY <1>6 DEF EngineAt
  <1>7. ASSUME NEW w \in Worker, WorkerStep(w) \/ Crash(w) PROVE EngineAt(w)'
    <2>1. EngineAt(w) /\ Sound(view[w], applied, job)
      BY DEF Engines, RowsSound
    <2>2. CASE RecoverStart(w)
      <3>1. pc'[w] = IF view[w].exhausted THEN "result" ELSE "engine"
        BY <1>1, <2>2 DEF RecoverStart, Goto, Sessions
      <3> QED BY <1>3, <1>4, <2>1, <3>1 DEF Sound, EngineAt
    <2>3. CASE EngineBegin(w)
      <3>1. /\ pos'[w] = view[w].done
            /\ pc'[w] = IF view[w].done < Batches THEN "batch" ELSE "finish"
        BY <1>1, <2>3 DEF EngineBegin, Goto, Sessions, ResumeFrom
      <3>2. \A b \in Batch : b <= view[w].done => applied'[b] >= 1
        BY <1>4, <2>1 DEF Sound
      <3>3. view[w].done >= Batches => AllImported(applied')
        BY <1>2, <3>2 DEF AllImported, Batch, Row
      <3>4. view[w].done \in Nat
        BY <1>2 DEF Row
      <3> QED BY <1>2, <3>1, <3>2, <3>3, <3>4 DEF EngineAt
    <2>4. CASE BatchCommit(w)
      <3>1. pc[w] = "batch" /\ pc'[w] = "refresh" /\ pos'[w] = pos[w] + 1
        BY <1>1, <2>4 DEF BatchCommit, Goto, At, Sessions
      <3>2. Sound(Advanced(job, pos[w] + 1), applied', job)
        BY <1>2, <2>4, SoundAdvance DEF RowsSound
      <3>3. Advanced(job, pos[w] + 1).done = pos[w] + 1
        BY <1>2 DEF Advanced, Row
      <3> QED BY <3>1, <3>2, <3>3 DEF EngineAt, Sound
    <2>5. CASE EngineRefresh(w)
      <3>1. /\ pc[w] = "refresh" /\ UNCHANGED <<pos, job, applied>>
            /\ pc'[w] = IF job.cancelled \/ pos[w] = Batches THEN "finish" ELSE "batch"
        BY <1>1, <2>5 DEF EngineRefresh, Goto, At, Sessions, AfterBatch, history, file, faults
      <3>2. pos[w] = Batches => AllImported(applied)
        BY <1>2, <2>1, <3>1 DEF EngineAt, AllImported, Batch
      <3> QED BY <1>2, <2>1, <3>1, <3>2 DEF EngineAt, Stopped
    <2>6. CASE EngineFinish(w)
      <3>1. pc[w] = "finish" /\ pc'[w] = "result"
        BY <1>1, <2>6 DEF EngineFinish, Goto, At, Sessions
      <3> QED BY <1>3, <1>4, <2>1, <3>1 DEF EngineAt
    <2>7. CASE ResultRefresh(w)
      <3>1. /\ pc[w] = "result" /\ pc'[w] = "result_commit" /\ view'[w] = Read(job) /\ ~Gone
        BY <1>1, <2>7 DEF ResultRefresh, Goto, At, Sessions
      <3>2. view'[w].cancelled = job.cancelled
        BY <1>2, <3>1 DEF Read, Row
      <3> QED BY <1>4, <2>1, <3>1, <3>2 DEF EngineAt, Stopped, Gone
    <2>8. Close(w) => EngineAt(w)'
      BY <1>1, <1>6, Closes
    <2>9. CASE \/ ClaimRefused(w) \/ ImportCancelled(w) \/ ImportSplit(w) \/ RecoverSkip(w)
               \/ ResultCommit(w) \/ TaskFail(w) \/ TaskGone(w) \/ ChunkSettle(w) \/ ChunkGone(w)
      BY <2>8, <2>9 DEF ClaimRefused, ImportCancelled, ImportSplit, RecoverSkip, ResultCommit,
                        TaskFail, TaskGone, ChunkSettle, ChunkGone
    <2>10. CASE \/ Start(w) \/ Crash(w) \/ Fetch(w) \/ Claim(w) \/ ImportStart(w) \/ ImportResume(w)
                \/ ImportSerial(w) \/ ChunkRun(w)
      <3>1. pc'[w] \in {"idle", "down", "load", "import", "recover", "scan_file", "engine", "chunk_end",
                      "settle"}
        BY <1>1, <2>10 DEF Start, Crash, Fetch, Claim, ImportStart, ImportResume, ImportSerial,
           ChunkRun, ChunkCancelled, ChunkBatch, ChunkEnd, ChunkFail, EndChunk, Goto, Sessions
      <3> QED BY <1>6, <3>1
    <2>11. CASE Load(w) \/ ChunkLoad(w)
      <3>1. CASE ~Close(w)
        <4>1. pc'[w] \in {"claim", "chunk"}
          BY <1>1, <2>11, <3>1 DEF Load, ChunkLoad, Goto, Sessions
        <4> QED BY <1>6, <4>1
      <3> QED BY <2>8, <3>1
    <2> QED BY <1>7, <2>2, <2>3, <2>4, <2>5, <2>6, <2>7, <2>9, <2>10, <2>11, ZenonT(60)
            DEF WorkerStep, TaskStep, ChunkRun
  <1>8. ASSUME NEW w \in Worker, WorkerStep(w) \/ Crash(w) PROVE Engines'
    BY <1>5, <1>7, <1>8, LocalStep DEF Others, Engines
  <1>9. CASE \A w \in Worker : ~WorkerStep(w) /\ ~Crash(w)
    BY <1>5, <1>9, AsideStep DEF Engines
  <1> QED BY <1>8, <1>9

\* A flushed row is committed, dropped or kept; only ImportStart flushes one.
LEMMA PendingTaken ==
  ASSUME TypeOK, Flushed, NEW w \in Worker, WorkerStep(w) \/ Crash(w)
  PROVE  \/ pending'[w] = NoRow
         \/ /\ ImportStart(w) /\ pending[w] = NoRow
            /\ pending'[w] = Started(job, view[w]) /\ pc'[w] = "scan_file"
         \/ /\ pending'[w] = pending[w]
            /\ pending[w] # NoRow => pc'[w] \in {"engine", "batch", "finish"}
  <1>1. Sessions /\ Stored
    BY TypeParts
  <1>2. pending[w] # NoRow => pc[w] \in {"scan_file", "engine", "batch", "finish"}
    BY DEF Flushed, FlushedBy
  <1>3. Close(w) => pending'[w] = NoRow
    BY <1>1, Closes
  <1>4. CASE ImportStart(w)
    BY <1>1, <1>2, <1>4, ImportStarts DEF ImportStart, At, Goto, Sessions
  <1>5. CASE RecoverStart(w) \/ BatchCommit(w) \/ EngineFinish(w) \/ Crash(w)
    BY <1>1, <1>5 DEF RecoverStart, BatchCommit, EngineFinish, Crash, Commit, Sessions
  <1>6. CASE EngineBegin(w)
    <2>1. pc'[w] \in {"batch", "finish"} /\ (pending' = pending \/ pending' = [pending EXCEPT ![w] = NoRow])
      BY <1>1, <1>6 DEF EngineBegin, Commit, Goto, Sessions
    <2> QED BY <1>1, <2>1 DEF Sessions
  <1>7. CASE ImportSerial(w)
    BY <1>1, <1>7 DEF ImportSerial, Goto, session, Sessions
  <1>8. CASE \/ Start(w) \/ Fetch(w) \/ Claim(w) \/ ImportResume(w)
             \/ EngineRefresh(w) \/ ResultRefresh(w) \/ ChunkRun(w)
    <2>1. UNCHANGED pending /\ pc[w] \notin {"scan_file", "engine", "batch", "finish"}
      BY <1>8 DEF Start, Fetch, Claim, ImportResume, EngineRefresh, ResultRefresh, ChunkRun, ChunkCancelled, ChunkBatch, ChunkEnd, ChunkFail, EndChunk, At, session
    <2> QED BY <1>2, <2>1
  <1>9. CASE Load(w) \/ ChunkLoad(w)
    <2>1. CASE ~Close(w)
      <3>1. UNCHANGED pending /\ pc[w] = "load"
        BY <1>9, <2>1 DEF Load, ChunkLoad, At
      <3> QED BY <1>2, <3>1
    <2> QED BY <1>3, <2>1
  <1>10. CASE \/ ClaimRefused(w) \/ ImportCancelled(w) \/ ImportSplit(w) \/ RecoverSkip(w)
              \/ ResultCommit(w) \/ TaskFail(w) \/ TaskGone(w) \/ ChunkSettle(w) \/ ChunkGone(w)
    BY <1>3, <1>10 DEF ClaimRefused, ImportCancelled, ImportSplit, RecoverSkip, ResultCommit, TaskFail,
                       TaskGone, ChunkSettle, ChunkGone
  <1> QED BY <1>4, <1>5, <1>6, <1>7, <1>8, <1>9, <1>10, ZenonT(60) DEF WorkerStep, TaskStep, ChunkRun

\* One row is flushed at a time, and nobody writes the committed one meanwhile.
LEMMA FlushedStep ==
  ASSUME TypeOK, WorkersPlaced, Flushed, Engines, ChunksSay, [Next]_vars
  PROVE  Flushed'
  <1>1. job \in Row /\ \A w \in Worker : view[w] \in Row /\ pending[w] \in Row
    BY DEF TypeOK
  <1>2. ASSUME NEW w \in Worker, WorkerStep(w) \/ Crash(w) PROVE Flushed'
    <2>1. CASE Written(w)
      BY <2>1 DEF Written, Flushed, FlushedBy
    <2>2. CASE job' = job
      <3>1. Others(w)
        BY <1>2, LocalStep
      <3>2. CASE ImportStart(w) /\ pending'[w] = Started(job, view[w]) /\ pc'[w] = "scan_file"
        <4>1. ~Gone /\ \A v \in Worker : v # w => pending'[v] = NoRow
          BY <3>1, <3>2 DEF ImportStart, RowFree, Others
        <4>2. FlushedBy(w)'
          BY <1>1, <2>2, <3>2, <4>1, StartedRow DEF FlushedBy, Gone
        <4> QED BY <4>1, <4>2 DEF Flushed, FlushedBy
      <3>3. CASE pending'[w] = NoRow \/ (pending'[w] = pending[w] /\
                   (pending[w] # NoRow => pc'[w] \in {"engine", "batch", "finish"}))
        <4>1. \A v \in Worker : pending'[v] = NoRow \/ pending'[v] = pending[v]
          BY <3>1, <3>3 DEF Others
        <4>2. ASSUME NEW v \in Worker, pending'[v] # NoRow PROVE FlushedBy(v)'
          <5>1. pending'[v] = pending[v] /\ FlushedBy(v)
            BY <4>1, <4>2 DEF Flushed
          <5>2. pc'[v] \in {"scan_file", "engine", "batch", "finish"}
            BY <3>1, <3>3, <4>2, <5>1 DEF Others, FlushedBy
          <5>3. \A u \in Worker : u # v => pending'[u] = NoRow
            BY <4>1, <4>2, <5>1 DEF FlushedBy
          <5> QED BY <2>2, <4>2, <5>1, <5>2, <5>3 DEF FlushedBy, Gone
        <4> QED BY <4>2 DEF Flushed, FlushedBy
      <3> QED BY <1>2, <3>2, <3>3, PendingTaken
    <2> QED BY <1>2, <2>1, <2>2, JobWritten
  <1>3. CASE \A w \in Worker : ~WorkerStep(w) /\ ~Crash(w)
    <2>1. UNCHANGED <<pc, pending>>
      BY <1>3, AsideStep
    <2>2. CASE job' = job
      BY <2>1, <2>2 DEF Flushed, FlushedBy, Gone
    <2>3. CASE Answered
      BY <2>1, <2>3 DEF Answered, Flushed, FlushedBy
    <2> QED BY <1>3, <2>2, <2>3, JobAnswered
  <1> QED BY <1>2, <1>3

\* Whether a worker runs a chunk.
LEMMA EndEntered ==
  ASSUME TypeOK, NEW w \in Worker, WorkerStep(w) \/ Crash(w), ~ChunkRun(w)
  PROVE  /\ pc'[w] # "chunk_end"
         /\ pc'[w] = "chunk" => ChunkLoad(w) /\ pc[w] = "load" /\ UNCHANGED task
         /\ pc'[w] = "load" => Fetch(w)
  <1>1. Sessions
    BY TypeParts
  <1>2. CASE Close(w)
    BY <1>1, <1>2, Closes
  <1>3. \A l \in Labels : Goto(w, l) => pc'[w] = l
    BY <1>1 DEF Goto, Sessions
  <1>4. CASE ~Close(w) /\ ChunkLoad(w)
    <2>1. pc[w] = "load" /\ Goto(w, "chunk") /\ UNCHANGED task
      BY <1>4 DEF ChunkLoad, At
    <2> QED BY <1>3, <1>4, <2>1 DEF Labels
  <1>5. CASE Fetch(w)
    <2>1. Goto(w, "load")
      BY <1>5 DEF Fetch
    <2> QED BY <1>3, <1>5, <2>1 DEF Labels
  <1>6. CASE \/ ClaimRefused(w) \/ ImportCancelled(w) \/ ImportSplit(w) \/ RecoverSkip(w)
             \/ ResultCommit(w) \/ TaskFail(w) \/ TaskGone(w) \/ ChunkSettle(w) \/ ChunkGone(w)
    <2>1. Close(w)
      BY <1>6 DEF ClaimRefused, ImportCancelled, ImportSplit, RecoverSkip, ResultCommit, TaskFail,
                  TaskGone, ChunkSettle, ChunkGone
    <2> QED BY <1>2, <2>1
  <1>7. CASE /\ ~Close(w)
             /\ \/ Start(w) \/ Crash(w) \/ Load(w) \/ Claim(w) \/ ImportStart(w)
                \/ ImportResume(w) \/ ImportSerial(w) \/ RecoverStart(w)
                \/ EngineBegin(w) \/ BatchCommit(w) \/ EngineRefresh(w) \/ EngineFinish(w)
                \/ ResultRefresh(w)
    <2>1. \E l \in {"idle", "down", "claim", "import", "recover", "scan_file", "engine", "result",
                    "batch", "finish", "refresh", "result_commit"} : Goto(w, l)
      BY <1>7 DEF Start, Crash, Load, Claim, ImportStart, ImportResume, ImportSerial,
         RecoverStart, EngineBegin, BatchCommit, EngineRefresh, EngineFinish, ResultRefresh, AfterBatch
    <2> QED BY <1>3, <2>1 DEF Labels, Working
  <1> QED BY <1>2, <1>4, <1>5, <1>6, <1>7, ZenonT(60) DEF WorkerStep, TaskStep, ChunkRun

\* A chunk that has ended as COMPLETED was imported.
LEMMA ChunksSayStep ==
  ASSUME TypeOK, WorkersPlaced, Flushed, Engines, ChunksSay, ChunkTasksApart, [Next]_vars
  PROVE  ChunksSay'
  <1>1. /\ chunk \in [Part -> ChunkStatus] /\ chunked \in [Part -> Nat]
        /\ splits \in Nat /\ \A p \in Part : p[1] \in Nat
    BY TypeParts, RecoveryAssumption DEF Stored, Split, Part
  <1>2. Gone => Gone'
    BY Onwards
  <1>3. Sessions
    BY TypeParts
  <1>4. ASSUME NEW w \in Worker, ImportSplit(w) PROVE ChunksSay'
    <2>1. ASSUME NEW v \in Worker, pc'[v] = "chunk_end"
          PROVE  chunked'[task'[v].part] >= 1
      <3>1. v # w
        BY <1>4, <2>1, SplitsAdd
      <3>2. pc'[v] = pc[v] /\ task'[v] = task[v]
        BY <1>4, <3>1, LocalStep DEF Others, WorkerStep, TaskStep
      <3> QED BY <1>4, <2>1, <3>2, SplitsAdd DEF ChunksSay
    <2> QED BY <1>1, <1>4, <2>1, SplitsAdd DEF ChunksSay, Gone
  <1>5. ASSUME NEW w \in Worker, ChunkRun(w) PROVE ChunksSay'
    <2> DEFINE c == task[w].part
    <2>1. /\ c \in Part /\ c[1] <= splits /\ ChunkTasks(w) /\ ~Gone /\ ~Gone' /\ splits' = splits
      BY <1>5, ChunkRuns DEF ChunkTasksApart, Gone
    <2>2. \A v \in Worker : v # w => pc'[v] = pc[v] /\ task'[v] = task[v]
      BY <1>5, LocalStep DEF Others, WorkerStep, TaskStep, ChunkRun
    <2>3. task'[w] = task[w]
      BY <1>5, ChunkRuns
    <2>4. \A v \in Worker : pc[v] = "chunk_end" => task[v].part \in Part
      <3>1. \A v \in Worker : pc[v] = "chunk_end" => task[v].kind = "chunk" /\ task[v] \in Task
        BY <1>3 DEF WorkersPlaced, Placed, Sessions
      <3> QED BY <3>1 DEF Task
    <2> HIDE DEF c
    <2>5. CASE pc[w] = "chunk" /\ pc'[w] = "chunk_end" /\ UNCHANGED chunk
                 /\ chunked' = [chunked EXCEPT ![c] = chunked[c] + 1]
      <3>1. chunked'[c] >= 1 /\ \A p \in Part : p # c => chunked'[p] = chunked[p]
        BY <1>1, <2>1, <2>5
      <3>2. \A p \in Part : chunked'[p] >= chunked[p] /\ chunked[p] \in Nat /\ chunked'[p] \in Nat
        BY <1>1, <2>1, <2>5
      <3>3. ASSUME NEW p \in Part
            PROVE  /\ chunk'[p] = "COMPLETED" => chunked'[p] >= 1
                   /\ p[1] > splits' => chunk'[p] = "ABSENT" /\ chunked'[p] = 0
                   /\ ~Gone' /\ p[1] <= splits' => chunk'[p] # "ABSENT"
        BY <1>1, <2>1, <2>5, <3>1, <3>2, <3>3 DEF ChunksSay
      <3>4. ASSUME NEW v \in Worker, pc'[v] = "chunk_end" PROVE chunked'[task'[v].part] >= 1
        <4>1. CASE v = w
          BY <2>3, <3>1, <4>1 DEF c
        <4>2. CASE v # w
          BY <2>2, <2>4, <3>2, <3>4, <4>2 DEF ChunksSay
        <4> QED BY <4>1, <4>2
      <3> QED BY <3>3, <3>4 DEF ChunksSay
    <2>6. ASSUME pc'[w] = "settle", UNCHANGED chunked, NEW outcome \in {"COMPLETED", "CANCELLED", "FAILED"},
                 chunk' = [chunk EXCEPT ![c] = outcome], outcome = "COMPLETED" => pc[w] = "chunk_end"
          PROVE  ChunksSay'
      <3>1. outcome = "COMPLETED" => chunked[c] >= 1
        BY <2>6 DEF ChunksSay, c
      <3>2. ASSUME NEW p \in Part
            PROVE  /\ chunk'[p] = "COMPLETED" => chunked'[p] >= 1
                   /\ p[1] > splits' => chunk'[p] = "ABSENT" /\ chunked'[p] = 0
                   /\ ~Gone' /\ p[1] <= splits' => chunk'[p] # "ABSENT"
        BY <1>1, <2>1, <2>6, <3>1, <3>2 DEF ChunksSay
      <3>3. ASSUME NEW v \in Worker, pc'[v] = "chunk_end" PROVE chunked'[task'[v].part] >= 1
        BY <2>2, <2>6, <3>3 DEF ChunksSay
      <3> QED BY <3>2, <3>3 DEF ChunksSay
    <2> QED BY <1>5, <2>5, <2>6, ChunkRuns DEF c
  <1>6. CASE chunk' = [p \in Part |-> "ABSENT"] /\ job' = NoRow /\ UNCHANGED <<chunked, splits, pc, task>>
    BY <1>6 DEF ChunksSay, Gone, NoRow, NewRow
  <1>7. CASE UNCHANGED <<chunk, chunked, splits>> /\ \A w \in Worker : ~ImportSplit(w) /\ ~ChunkRun(w)
    <2>1. ASSUME NEW w \in Worker, pc'[w] = "chunk_end" PROVE pc[w] = "chunk_end" /\ task'[w] = task[w]
      <3>1. CASE WorkerStep(w) \/ Crash(w)
        BY <1>7, <2>1, <3>1, EndEntered
      <3>2. ASSUME NEW v \in Worker, v # w, WorkerStep(v) \/ Crash(v)
            PROVE  pc[w] = "chunk_end" /\ task'[w] = task[w]
        BY <2>1, <3>2, LocalStep DEF Others
      <3>3. CASE \A v \in Worker : ~WorkerStep(v) /\ ~Crash(v)
        BY <2>1, <3>3, AsideStep
      <3> QED BY <3>1, <3>2, <3>3
    <2> QED BY <1>2, <1>7, <2>1 DEF ChunksSay
  <1> QED BY <1>4, <1>5, <1>6, <1>7, ChunksTaken

-----------------------------------------------------------------------------
(* Types *)

\* A worker's step takes at most a task from the queue, or puts some there.
LEMMA QueueTaken ==
  ASSUME TypeOK, NEW w \in Worker, WorkerStep(w) \/ Crash(w)
  PROVE  /\ UNCHANGED <<large, ask, asks, recoveries>>
         /\ \/ UNCHANGED queue
            \/ Start(w) /\ queue' = [queue EXCEPT !.recover = queue.recover + 1]
            \/ Fetch(w)
            \/ ImportSplit(w)
  <1>1. CASE Start(w) \/ Crash(w) \/ Fetch(w)
    BY <1>1 DEF Start, Crash, Fetch, client, file
  <1>2. CASE TaskStep(w)
    BY <1>2 DEF TaskStep, Load, Claim, ClaimRefused, ImportStart, ImportResume, ImportSerial,
       ImportCancelled, ImportSplit, RecoverSkip, RecoverStart, EngineBegin, BatchCommit,
       EngineRefresh, EngineFinish, ResultRefresh, ResultCommit, TaskFail, TaskGone, ChunkLoad,
       ChunkRun, ChunkCancelled, ChunkBatch, ChunkEnd, ChunkFail, EndChunk, ChunkSettle, ChunkGone, client, file
  <1> QED BY <1>1, <1>2 DEF WorkerStep

LEMMA Fetches ==
  ASSUME TypeOK, NEW w \in Worker, Fetch(w)
  PROVE  /\ pc[w] = "idle" /\ pc'[w] = "load"
         /\ \/ /\ queue.import > 0 /\ task'[w] = ImportTask
               /\ queue' = [queue EXCEPT !.import = queue.import - 1]
            \/ /\ queue.recover > 0 /\ task'[w] = RecoverTask
               /\ queue' = [queue EXCEPT !.recover = queue.recover - 1]
            \/ \E p \in queue.chunks :
                 /\ task'[w] = ChunkTask(p)
                 /\ queue' = [queue EXCEPT !.chunks = queue.chunks \ {p}]
  BY DEF Fetch, At, Goto, TypeOK

LEMMA SplitStep ==
  ASSUME TypeOK, WorkersPlaced, [Next]_vars
  PROVE  Split'
  <1>1. Sessions /\ Stored /\ Split
    BY TypeParts DEF Stored
  <1>2. ASSUME NEW w \in Worker, ImportSplit(w) PROVE Split'
    <2>1. splits \in 0..Splits /\ Splits \in Nat
      BY <1>1, RecoveryAssumption DEF Split
    <2>2. splits' \in 0..Splits
      BY <1>2, <2>1, SplitsAdd
    <2> QED BY <1>1, <1>2, <2>2, SplitsAdd DEF Split, ChunkStatus
  <1>3. ASSUME NEW w \in Worker, ChunkRun(w) PROVE Split'
    BY <1>1, <1>3, ChunkRuns DEF Split, ChunkStatus
  <1>4. CASE chunk' = [p \in Part |-> "ABSENT"] /\ UNCHANGED <<chunked, splits>>
    BY <1>1, <1>4 DEF Split, ChunkStatus
  <1>5. CASE UNCHANGED <<chunk, chunked, splits>>
    BY <1>1, <1>5 DEF Split
  <1> QED BY <1>2, <1>3, <1>4, <1>5, ChunksTaken

LEMMA StoredStep ==
  ASSUME TypeOK, WorkersPlaced, Flushed, Engines, ChunksSay, [Next]_vars
  PROVE  Stored'
  <1>1. Sessions /\ Stored
    BY TypeParts
  <1>2. job' \in Row /\ applied' \in [Batch -> Nat]
    BY Onwards
  <1>3. Split'
    BY SplitStep
  <1>4. ASSUME NEW w \in Worker, WorkerStep(w) \/ Crash(w) PROVE Stored'
    <2>1. /\ crashes' \in Nat /\ failures' \in Nat /\ outdated' \in Nat /\ stranded' \in BOOLEAN
      <3>1. /\ crashes' = crashes \/ (crashes > 0 /\ crashes' = crashes - 1)
            /\ failures' = failures \/ (failures > 0 /\ failures' = failures - 1)
            /\ stranded' = stranded \/ stranded' = TRUE
            /\ outdated' = outdated \/ outdated' = outdated + 1
        <4>1. CASE Start(w) \/ Crash(w) \/ Fetch(w)
          BY <4>1 DEF Start, Crash, Fetch, faults, history
        <4>2. CASE Claim(w)
          BY <4>2 DEF Claim, faults
        <4>3. CASE TaskStep(w) /\ ~Claim(w)
          BY <4>3 DEF TaskStep, Load, ClaimRefused, ImportStart, ImportResume, ImportSerial,
             ImportCancelled, ImportSplit, RecoverSkip, RecoverStart, EngineBegin, BatchCommit,
             EngineRefresh, EngineFinish, ResultRefresh, ResultCommit, TaskFail, TaskGone, ChunkLoad,
             ChunkCancelled, ChunkBatch, ChunkEnd, ChunkFail, EndChunk, ChunkSettle, ChunkGone, faults,
             history
        <4> QED BY <1>4, <4>1, <4>2, <4>3 DEF WorkerStep
      <3>2. crashes \in Nat /\ failures \in Nat /\ outdated \in Nat /\ stranded \in BOOLEAN
        BY <1>1 DEF Stored
      <3>3. crashes' \in Nat /\ failures' \in Nat /\ outdated' \in Nat
        BY <3>1, <3>2
      <3> QED BY <3>1, <3>2, <3>3
    <2>2. queue' \in Queue
      <3>1. queue \in Queue
        BY <1>1 DEF Stored
      <3>2. CASE Fetch(w)
        BY <3>1, <3>2, Fetches DEF Queue
      <3>3. CASE queue' = [queue EXCEPT !.recover = queue.recover + 1]
        BY <3>1, <3>3 DEF Queue
      <3>4. CASE ImportSplit(w)
        BY <3>1, <3>4, SplitsAdd DEF Queue
      <3> QED BY <1>4, <3>1, <3>2, <3>3, <3>4, QueueTaken
    <2> QED BY <1>1, <1>2, <1>3, <1>4, <2>1, <2>2, QueueTaken DEF Stored
  <1>5. \A a \in BagToSet(ask) : a \in AskRow /\ Saved(a) \in AskRow
    BY <1>1 DEF Stored, AskRow, Saved
  <1>6. ASSUME NEW a \in BagToSet(ask), Answer(a)
        PROVE  IsABag(ask') /\ BagToSet(ask') \subseteq AskRow /\ UNCHANGED <<asks, recoveries>>
    <2>1. ask' = ask (-) SetToBag({a}) /\ UNCHANGED <<asks, recoveries>>
      BY <1>6 DEF Answer
    <2> QED BY <1>1, <1>6, <2>1, BagDrop DEF Stored
  <1>7. ASSUME NEW a \in BagToSet(ask), AnswerStep(a) PROVE Stored'
    <2>1. /\ IsABag(ask') /\ BagToSet(ask') \subseteq AskRow /\ UNCHANGED <<asks, recoveries>>
      <3>1. CASE ConfirmCommit(a)
        <4> DEFINE B == ask (-) SetToBag({a})
        <4>1. ask' = B (+) SetToBag({Saved(a)}) /\ UNCHANGED <<asks, recoveries>>
          BY <3>1 DEF ConfirmCommit
        <4>2. IsABag(B) /\ BagToSet(B) \subseteq AskRow
          BY <1>1, BagDrop DEF Stored
        <4> HIDE DEF B
        <4>3. /\ IsABag(B (+) SetToBag({Saved(a)}))
              /\ BagToSet(B (+) SetToBag({Saved(a)})) = BagToSet(B) \cup {Saved(a)}
          BY <4>2, BagAdd, Zenon
        <4> QED BY <1>5, <4>1, <4>2, <4>3
      <3>2. CASE ~ConfirmCommit(a)
        <4>1. Answer(a)
          BY <1>7, <3>2 DEF AnswerStep, AskGone, DetectColumns, ConfirmDefer, ConfirmRefused,
                CancelImport, DeleteImport
        <4> QED BY <1>6, <4>1
      <3> QED BY <3>1, <3>2
    <2>2. /\ queue' \in Queue
          /\ stranded' \in BOOLEAN /\ UNCHANGED <<large, crashes, failures, outdated>>
      <3>1. /\ queue' = queue \/ queue' = [queue EXCEPT !.import = 1]
            /\ stranded' = stranded \/ stranded' = TRUE
            /\ UNCHANGED <<large, crashes, failures, outdated>>
        <4>1. CASE ConfirmDefer(a)
          BY <4>1 DEF ConfirmDefer, history, file, faults
        <4>2. CASE ConfirmRefused(a)
          BY <4>2 DEF ConfirmRefused, file, faults
        <4>3. CASE AskGone(a) \/ DetectColumns(a) \/ ConfirmCommit(a)
          BY <4>3 DEF AskGone, DetectColumns, ConfirmCommit, history, file, faults
        <4>4. CASE CancelImport(a) \/ DeleteImport(a)
          BY <4>4 DEF CancelImport, DeleteImport, history, file, faults
        <4> QED BY <1>7, <4>1, <4>2, <4>3, <4>4 DEF AnswerStep
      <3>2. queue \in Queue /\ stranded \in BOOLEAN
        BY <1>1 DEF Stored
      <3>3. queue' \in Queue
        BY <3>1, <3>2 DEF Queue
      <3> QED BY <3>1, <3>2, <3>3
    <2> QED BY <1>1, <1>2, <1>3, <2>1, <2>2 DEF Stored
  <1>8. ASSUME NEW op \in Op, Ask(op) PROVE Stored'
    <2>1. Request(op, job.status) \in AskRow
      BY <1>1 DEF Request, Saw, AskRow, Stored, Row
    <2>2. ask' = ask (+) SetToBag({Request(op, job.status)})
      BY <1>8 DEF Ask
    <2>3. IsABag(ask') /\ BagToSet(ask') = BagToSet(ask) \cup {Request(op, job.status)}
      BY <1>1, <2>2, BagAdd, Zenon DEF Stored
    <2>4. asks' \in Nat
      BY <1>1, <1>8 DEF Ask, Stored
    <2> QED BY <1>1, <1>2, <1>3, <1>8, <2>1, <2>3, <2>4 DEF Ask, Stored, history, file, faults
  <1>9. CASE DeferRecovery
    <2>1. queue' \in Queue /\ recoveries' \in Nat
      BY <1>1, <1>9 DEF DeferRecovery, Stored, Queue
    <2> QED BY <1>1, <1>2, <1>3, <1>9, <2>1 DEF DeferRecovery, Stored, history, file, faults
  <1>10. CASE Aging \/ ServerNotices \/ UNCHANGED vars
    BY <1>1, <1>2, <1>3, <1>10 DEF Aging, ServerNotices, vars, client, history, file, faults, Stored
  <1> QED BY <1>4, <1>7, <1>8, <1>9, <1>10 DEF Next

-----------------------------------------------------------------------------
(* The import task of a queued import *)

\* A confirmation that has been committed stays until it is answered.
LEMMA SavedStays ==
  ASSUME TypeOK, [Next]_vars, SavedAsk,
         \A a \in BagToSet(ask) : ~ConfirmDefer(a) /\ ~ConfirmRefused(a)
  PROVE  SavedAsk'
  <1>1. IsABag(ask) /\ BagToSet(ask) \subseteq AskRow
    BY TypeParts DEF Stored
  <1>2. PICK s \in BagToSet(ask) : s.at = "saved"
    BY DEF SavedAsk
  <1>3. CASE UNCHANGED ask
    BY <1>3 DEF SavedAsk
  <1>4. ASSUME NEW op \in Op, Ask(op) PROVE SavedAsk'
    <2>1. ask' = ask (+) SetToBag({Request(op, job.status)})
      BY <1>4 DEF Ask
    <2>2. BagToSet(ask') = BagToSet(ask) \cup {Request(op, job.status)}
      BY <1>1, <2>1, BagAdd, Zenon
    <2> QED BY <1>2, <2>2 DEF SavedAsk
  <1>5. ASSUME NEW a \in BagToSet(ask), AnswerStep(a) PROVE SavedAsk'
    <2> DEFINE B == ask (-) SetToBag({a})
    <2>1. a.at = "read" /\ (ask' = B \/ ask' = B (+) SetToBag({Saved(a)}))
      BY <1>5 DEF AnswerStep, AskGone, DetectColumns, ConfirmCommit, CancelImport, DeleteImport, Reads,
                  Answer
    <2>2. IsABag(B) /\ BagToSet(ask) \ {a} \subseteq BagToSet(B)
      BY <1>1, BagDrop
    <2>3. s \in BagToSet(B)
      BY <1>2, <2>1, <2>2
    <2> HIDE DEF B
    <2>4. BagToSet(B (+) SetToBag({Saved(a)})) = BagToSet(B) \cup {Saved(a)}
      BY <2>2, BagAdd, Zenon
    <2> QED BY <1>2, <2>1, <2>3, <2>4 DEF SavedAsk
  <1>6. ASSUME NEW w \in Worker, WorkerStep(w) \/ Crash(w) PROVE UNCHANGED ask
    BY <1>6, QueueTaken
  <1>7. CASE Aging \/ ServerNotices \/ DeferRecovery \/ UNCHANGED vars
    BY <1>3, <1>7 DEF Aging, ServerNotices, DeferRecovery, vars, client
  <1> QED BY <1>3, <1>4, <1>5, <1>6, <1>7 DEF Next

\* A stranded import stays one; losing a task strands it.
LEMMA StrandedStays ==
  ASSUME TypeOK, [Next]_vars, ~stranded'
  PROVE  /\ ~stranded
         /\ \A a \in BagToSet(ask) : ~ConfirmRefused(a)
         /\ \A w \in Worker : task[w] = ImportTask => ~Crash(w) /\ ~ClaimRefused(w)
  <1>1. \A a \in BagToSet(ask) : ~ConfirmRefused(a)
    BY DEF ConfirmRefused
  <1>2. \A w \in Worker : task[w] = ImportTask => ~Crash(w) /\ ~ClaimRefused(w)
    BY DEF Crash, ClaimRefused
  <1>3. ASSUME NEW w \in Worker, WorkerStep(w) \/ Crash(w) PROVE ~stranded
    <2>1. CASE Start(w) \/ Fetch(w) \/ Crash(w)
      BY <2>1 DEF Start, Fetch, Crash, history, file, faults
    <2>2. CASE TaskStep(w)
      BY <2>2 DEF TaskStep, Load, Claim, ClaimRefused, ImportStart, ImportResume, ImportSerial,
         ImportCancelled, ImportSplit, RecoverSkip, RecoverStart, EngineBegin, BatchCommit,
         EngineRefresh, EngineFinish, ResultRefresh, ResultCommit, TaskFail, TaskGone, ChunkLoad,
         ChunkRun, ChunkCancelled, ChunkBatch, ChunkEnd, ChunkFail, EndChunk, ChunkSettle, ChunkGone, history, file, faults
    <2> QED BY <1>3, <2>1, <2>2 DEF WorkerStep
  <1>4. ASSUME NEW a \in BagToSet(ask), AnswerStep(a) PROVE ~stranded
    BY <1>1, <1>4 DEF AnswerStep, AskGone, DetectColumns, ConfirmCommit, ConfirmDefer, CancelImport,
                      DeleteImport, history, file, faults
  <1>5. CASE Aging \/ ServerNotices \/ DeferRecovery \/ (\E op \in Op : Ask(op)) \/ UNCHANGED vars
    <2>1. UNCHANGED stranded
      BY <1>5 DEF Aging, ServerNotices, DeferRecovery, Ask, vars, history, file, faults
    <2> QED BY <1>1, <1>2, <2>1
  <1> QED BY <1>1, <1>2, <1>3, <1>4, <1>5 DEF Next

\* A worker that will take the import out of QUEUED goes on to do so.
LEMMA TakesOn ==
  ASSUME TypeOK, WorkersPlaced, Flushed, NEW w \in Worker, WorkerStep(w), Takes(w),
         job.status = "QUEUED", job'.status = "QUEUED", ~ClaimRefused(w)
  PROVE  Takes(w)'
  <1>1. Sessions /\ Stored
    BY TypeParts
  <1>2. job \in Row /\ view[w] \in Row /\ pending[w] \in Row /\ ~Gone
    BY <1>1 DEF Sessions, Stored, Gone
  <1>3. NoRow.status = "ABSENT" /\ task[w] = ImportTask /\ ImportTask.kind # "chunk" /\ ImportTask # RecoverTask
    BY DEF NoRow, NewRow, Takes, ImportTask, RecoverTask
  <1>4. CASE pc[w] = "load"
    <2>1. Load(w)
      BY <1>3, <1>4 DEF WorkerStep, TaskStep, Start, Fetch, Load, Claim, ClaimRefused, ImportStart,
         ImportResume, ImportSerial, ImportCancelled, ImportSplit, RecoverSkip, RecoverStart,
         EngineBegin, BatchCommit, EngineRefresh, EngineFinish, ResultRefresh, ResultCommit, TaskFail,
         TaskGone, ChunkLoad, ChunkRun, ChunkCancelled, ChunkBatch, ChunkEnd, ChunkFail, EndChunk, ChunkSettle, ChunkGone, At, Working
    <2>2. ~StopsAt(task[w], job)
      BY <1>2, <1>3 DEF StopsAt, Gone
    <2>3. /\ view' = [view EXCEPT ![w] = Read(job)] /\ pc' = [pc EXCEPT ![w] = "claim"]
          /\ UNCHANGED task
      BY <1>3, <2>1, <2>2 DEF Load, Goto
    <2>4. view'[w].status = "QUEUED" /\ pc'[w] = "claim"
      BY <1>1, <1>2, <2>3 DEF Sessions, Read, Row
    <2> QED BY <1>3, <2>3, <2>4 DEF Takes
  <1>5. CASE pc[w] = "claim" /\ view[w].status = "QUEUED"
    <2>1. Claim(w)
      BY <1>3, <1>5 DEF WorkerStep, TaskStep, Start, Fetch, Load, Claim, ClaimRefused, ImportStart,
         ImportResume, ImportSerial, ImportCancelled, ImportSplit, RecoverSkip, RecoverStart,
         EngineBegin, BatchCommit, EngineRefresh, EngineFinish, ResultRefresh, ResultCommit, TaskFail,
         TaskGone, ChunkLoad, ChunkRun, ChunkCancelled, ChunkBatch, ChunkEnd, ChunkFail, EndChunk, ChunkSettle, ChunkGone, At, Working
    <2>2. pc' = [pc EXCEPT ![w] = "import"] /\ UNCHANGED <<task, view>>
      BY <1>3, <2>1 DEF Claim, Goto, session
    <2> QED BY <1>1, <1>3, <1>5, <2>2 DEF Takes, Sessions
  <1>6. CASE pc[w] = "import" /\ view[w].status = "QUEUED"
    <2>1. ImportStart(w) \/ ImportResume(w) \/ TaskFail(w) \/ TaskGone(w)
      BY <1>6 DEF WorkerStep, TaskStep, Start, Fetch, Load, Claim, ClaimRefused, ImportStart,
         ImportResume, ImportSerial, ImportCancelled, ImportSplit, RecoverSkip, RecoverStart,
         EngineBegin, BatchCommit, EngineRefresh, EngineFinish, ResultRefresh, ResultCommit, TaskFail,
         TaskGone, ChunkLoad, ChunkRun, ChunkCancelled, ChunkBatch, ChunkEnd, ChunkFail, EndChunk, ChunkSettle, ChunkGone, At, Working
    <2>2. ~ImportResume(w) /\ ~TaskGone(w)
      BY <1>2, <1>6 DEF ImportResume, IsResume, TaskGone
    <2>3. ~TaskFail(w)
      BY <1>2 DEF TaskFail, Row
    <2>4. ImportStart(w) /\ UNCHANGED task
      BY <2>1, <2>2, <2>3 DEF ImportStart
    <2>5. pending' = [pending EXCEPT ![w] = Started(job, view[w])]
      BY <1>1, <2>4, ImportStarts
    <2>6. Started(job, view[w]).status = "PROCESSING"
      BY <1>2, <1>6, StartedRow
    <2>7. pending'[w].status = "PROCESSING"
      BY <1>1, <2>5, <2>6 DEF Sessions
    <2> QED BY <1>3, <2>4, <2>7 DEF Takes
  <1>7. CASE pending[w].status = "PROCESSING"
    <2>1. pending[w] # NoRow /\ pc[w] \in {"scan_file", "engine", "batch", "finish"}
      BY <1>3, <1>7 DEF Flushed, FlushedBy
    <2>2. /\ Base(w) \in Row /\ Base(w).status = "PROCESSING"
      BY <1>7, BaseRow
    <2>3. \/ ImportSerial(w) \/ EngineBegin(w)
          \/ ImportCancelled(w) \/ ImportSplit(w) \/ BatchCommit(w) \/ EngineFinish(w)
          \/ TaskFail(w) \/ TaskGone(w)
      BY <2>1 DEF WorkerStep, TaskStep, Start, Fetch, Load, Claim, ClaimRefused, ImportStart,
         ImportResume, ImportSerial, ImportCancelled, ImportSplit, RecoverSkip, RecoverStart,
         EngineBegin, BatchCommit, EngineRefresh, EngineFinish, ResultRefresh, ResultCommit, TaskFail,
         TaskGone, ChunkLoad, ChunkRun, ChunkCancelled, ChunkBatch, ChunkEnd, ChunkFail, EndChunk, ChunkSettle, ChunkGone, At, Working
    <2>4. ~TaskGone(w) /\ ~TaskFail(w)
      BY <1>2 DEF TaskGone, TaskFail, Row
    <2>5. ~ImportCancelled(w) /\ ~ImportSplit(w)
      BY <2>2 DEF ImportCancelled, ImportSplit, Row
    <2>6. ~EngineFinish(w)
      BY <2>2 DEF EngineFinish, Commit, Row
    <2>7. ~BatchCommit(w)
      BY <1>1, <2>2, BatchCommits DEF Advanced, Row
    <2>8. CASE ImportSerial(w)
      BY <1>3, <1>7, <2>8 DEF ImportSerial, session, Takes
    <2>9. CASE EngineBegin(w)
      <3>1. UNCHANGED task
        BY <2>9 DEF EngineBegin
      <3>2. view[w].done # 0
        BY <2>2, <2>9 DEF EngineBegin, Commit, Row
      <3>3. UNCHANGED pending
        BY <2>9, <3>2 DEF EngineBegin
      <3> QED BY <1>3, <1>7, <3>1, <3>3 DEF Takes
    <2> QED BY <2>3, <2>4, <2>5, <2>6, <2>7, <2>8, <2>9
  <1> QED BY <1>4, <1>5, <1>6, <1>7 DEF Takes

\* What the requests, the clock, the server and a recovery by hand leave of the
\* queue.
LEMMA QueueAside ==
  ASSUME TypeOK, [Next]_vars, \A w \in Worker : ~WorkerStep(w) /\ ~Crash(w)
  PROVE  \/ UNCHANGED queue
         \/ queue' = [queue EXCEPT !.recover = queue.recover + 1]
         \/ /\ \E a \in BagToSet(ask) : ConfirmDefer(a)
            /\ queue.import = 0 /\ queue' = [queue EXCEPT !.import = 1]
  <1>1. ASSUME NEW a \in BagToSet(ask), AnswerStep(a)
        PROVE  \/ UNCHANGED queue
               \/ ConfirmDefer(a) /\ queue.import = 0 /\ queue' = [queue EXCEPT !.import = 1]
    BY <1>1 DEF AnswerStep, AskGone, DetectColumns, ConfirmCommit, ConfirmDefer, ConfirmRefused,
                CancelImport, DeleteImport
  <1>2. CASE DeferRecovery
    BY <1>2 DEF DeferRecovery
  <1>3. CASE Aging \/ ServerNotices \/ (\E op \in Op : Ask(op)) \/ UNCHANGED vars
    BY <1>3 DEF Aging, ServerNotices, Ask, vars
  <1> QED BY <1>1, <1>2, <1>3 DEF Next

\* A queued import keeps its task.
LEMMA QueuedStep ==
  ASSUME TypeOK, WorkersPlaced, Flushed, Engines, ChunksSay, QueuedIsTaken, [Next]_vars
  PROVE  QueuedIsTaken'
  <1> SUFFICES ASSUME job'.status = "QUEUED", ~stranded'
               PROVE  queue'.import > 0 \/ (\E w \in Worker : Takes(w)') \/ SavedAsk'
    BY DEF QueuedIsTaken
  <1>1. /\ ~stranded
        /\ \A a \in BagToSet(ask) : ~ConfirmRefused(a)
        /\ \A w \in Worker : task[w] = ImportTask => ~Crash(w) /\ ~ClaimRefused(w)
    BY StrandedStays
  <1>2. Sessions /\ Stored
    BY TypeParts
  <1>3. ASSUME NEW w \in Worker, WorkerStep(w) \/ Crash(w)
        PROVE  queue'.import > 0 \/ (\E v \in Worker : Takes(v)') \/ SavedAsk'
    <2>1. job.status = "QUEUED"
      BY <1>3, JobWritten DEF Written
    <2>2. UNCHANGED ask /\ Others(w)
      BY <1>3, QueueTaken, LocalStep
    <2>3. CASE SavedAsk
      BY <2>2, <2>3 DEF SavedAsk
    <2>4. CASE queue.import > 0
      <3>1. CASE Fetch(w)
        <4>1. CASE task'[w] = ImportTask
          BY <3>1, <4>1, Fetches DEF Takes
        <4>2. CASE task'[w] # ImportTask
          BY <1>2, <2>4, <3>1, <4>2, Fetches DEF Stored, Queue
        <4> QED BY <4>1, <4>2
      <3>2. CASE ~Fetch(w)
        BY <1>2, <1>3, <2>4, <3>2, QueueTaken, SplitsAdd DEF Stored, Queue
      <3> QED BY <3>1, <3>2
    <2>5. ASSUME NEW v \in Worker, Takes(v) PROVE \E u \in Worker : Takes(u)'
      <3>1. CASE v # w
        BY <2>2, <2>5, <3>1 DEF Others, Takes
      <3>2. CASE v = w
        <4>1. WorkerStep(w) /\ ~ClaimRefused(w)
          BY <1>1, <1>3, <2>5, <3>2 DEF Takes
        <4> QED BY <2>1, <2>5, <3>2, <4>1, TakesOn
      <3> QED BY <3>1, <3>2
    <2> QED BY <1>1, <2>1, <2>3, <2>4, <2>5 DEF QueuedIsTaken
  <1>4. CASE \A w \in Worker : ~WorkerStep(w) /\ ~Crash(w)
    <2>1. CASE \E a \in BagToSet(ask) : ConfirmCommit(a)
      <3>1. PICK a \in BagToSet(ask) : ConfirmCommit(a)
        BY <2>1
      <3>2. a.at = "read"
        BY <3>1 DEF ConfirmCommit, Reads
      <3>3. SavedAsk'
        <4>1. Saved(a) \in BagToSet(ask') /\ Saved(a).at = "saved"
          <5> DEFINE B == ask (-) SetToBag({a})
          <5>1. ask' = B (+) SetToBag({Saved(a)})
            BY <3>1 DEF ConfirmCommit
          <5>2. IsABag(B) /\ a \in AskRow
            BY <1>2, BagDrop DEF Stored
          <5> HIDE DEF B
          <5>3. BagToSet(ask') = BagToSet(B) \cup {Saved(a)}
            BY <5>1, <5>2, BagAdd, Zenon
          <5> QED BY <5>2, <5>3 DEF Saved, AskRow
        <4> QED BY <4>1 DEF SavedAsk
      <3> QED BY <3>3
    <2>2. CASE \E a \in BagToSet(ask) : ConfirmDefer(a)
      <3>1. queue' = [queue EXCEPT !.import = 1]
        BY <2>2 DEF ConfirmDefer
      <3> QED BY <1>2, <3>1 DEF Stored, Queue
    <2>3. CASE ~(\E a \in BagToSet(ask) : ConfirmCommit(a)) /\ ~\E a \in BagToSet(ask) : ConfirmDefer(a)
      <3>1. job.status = "QUEUED"
        BY <1>4, <2>3, JobAnswered DEF Answered, NoRow, NewRow
      <3>2. SavedAsk => SavedAsk'
        BY <1>1, <2>3, SavedStays
      <3>3. queue'.import = queue.import
        BY <1>2, <1>4, <2>3, QueueAside DEF Stored, Queue
      <3>4. ASSUME NEW w \in Worker, Takes(w) PROVE Takes(w)'
        <4>1. UNCHANGED <<pc, task, pending>> /\ view'[w] \in {view[w], Old(view[w])}
          BY <1>4, AsideStep
        <4>2. view'[w].status = view[w].status
          BY <1>2, <4>1 DEF Old, Row, Sessions
        <4> QED BY <3>4, <4>1, <4>2 DEF Takes
      <3> QED BY <1>1, <3>1, <3>2, <3>3, <3>4 DEF QueuedIsTaken
    <2> QED BY <2>1, <2>2, <2>3
  <1> QED BY <1>3, <1>4

-----------------------------------------------------------------------------
(* Each chunk has one task, which runs it once *)

\* A task ends or stays, unless another one is fetched.
LEMMA TaskTaken ==
  ASSUME TypeOK, NEW w \in Worker, WorkerStep(w) \/ Crash(w), ~Fetch(w)
  PROVE  task'[w] \in {task[w], NoTask}
  <1>1. Sessions /\ Stored
    BY TypeParts
  <1>2. Close(w) \/ EndSession(w) => task'[w] = NoTask
    BY <1>1 DEF Close, EndSession, Sessions
  <1>3. CASE Start(w) \/ Crash(w)
    BY <1>2, <1>3 DEF Start, Crash, session
  <1>4. CASE \/ ClaimRefused(w) \/ ImportCancelled(w) \/ ImportSplit(w) \/ RecoverSkip(w)
             \/ ResultCommit(w) \/ TaskFail(w) \/ TaskGone(w) \/ ChunkSettle(w) \/ ChunkGone(w)
    BY <1>2, <1>4 DEF ClaimRefused, ImportCancelled, ImportSplit, RecoverSkip, ResultCommit, TaskFail,
                      TaskGone, ChunkSettle, ChunkGone
  <1>5. CASE Load(w) \/ ChunkLoad(w)
    BY <1>2, <1>5 DEF Load, ChunkLoad
  <1>6. CASE \/ Claim(w) \/ ImportStart(w) \/ ImportResume(w) \/ ImportSerial(w) \/ RecoverStart(w)
             \/ EngineBegin(w) \/ BatchCommit(w) \/ EngineRefresh(w) \/ EngineFinish(w)
             \/ ResultRefresh(w) \/ ChunkRun(w)
    BY <1>6 DEF Claim, ImportStart, ImportResume, ImportSerial, RecoverStart, EngineBegin, BatchCommit,
                EngineRefresh, EngineFinish, ResultRefresh, ChunkRun, ChunkCancelled, ChunkBatch, ChunkEnd, ChunkFail, EndChunk, session
  <1> QED BY <1>3, <1>4, <1>5, <1>6, ZenonT(60) DEF WorkerStep, TaskStep, ChunkRun

\* No chunk has two tasks, and the one it has commits its batch once.
LEMMA ChunkTasksStep ==
  ASSUME TypeOK, WorkersPlaced, Engines, ChunksSay, ChunkTasksApart, [Next]_vars
  PROVE  ChunkTasksApart'
  <1>1. /\ queue \in Queue /\ chunked \in [Part -> Nat] /\ splits \in Nat
        /\ \A p \in Part : p[1] \in Nat
        /\ \A w \in Worker : task[w] \in Task
    BY TypeParts, RecoveryAssumption DEF Sessions, Stored, Split, Part
  <1>2. NoTask.kind # "chunk" /\ ImportTask.kind # "chunk" /\ RecoverTask.kind # "chunk"
    BY DEF NoTask, ImportTask, RecoverTask
  <1>3. queue.chunks \subseteq Part /\ \A w \in Worker : ChunkTasks(w) => task[w].part \in Part
    BY <1>1 DEF Queue, Task, ChunkTasks
  <1>4. ASSUME NEW w \in Worker, WorkerStep(w) \/ Crash(w) PROVE ChunkTasksApart'
    <2>1. \A v \in Worker : v # w => task'[v] = task[v] /\ pc'[v] = pc[v]
      BY <1>4, LocalStep DEF Others
    <2>2. CASE ImportSplit(w)
      <3>1. /\ task'[w] = NoTask /\ splits' = splits + 1 /\ UNCHANGED chunked
            /\ queue'.chunks = queue.chunks \cup {p \in Part : p[1] = splits + 1}
        BY <1>1, <2>2, SplitsAdd DEF Queue
      <3>2. ASSUME NEW p \in queue'.chunks PROVE p[1] <= splits' /\ chunked'[p] = 0
        BY <1>1, <1>3, <3>1, <3>2 DEF ChunkTasksApart, ChunksSay
      <3>3. ASSUME NEW v \in Worker, ChunkTasks(v)'
            PROVE  /\ v # w /\ ChunkTasks(v) /\ task'[v] = task[v] /\ pc'[v] = pc[v]
                   /\ task[v].part \notin queue'.chunks /\ task[v].part[1] <= splits'
        <4>1. v # w
          BY <1>2, <3>1, <3>3 DEF ChunkTasks
        <4>2. task'[v] = task[v] /\ pc'[v] = pc[v] /\ ChunkTasks(v)
          BY <2>1, <3>3, <4>1 DEF ChunkTasks
        <4>3. task[v].part \in Part /\ task[v].part[1] <= splits /\ task[v].part \notin queue.chunks
          BY <1>3, <4>2 DEF ChunkTasksApart
        <4> QED BY <1>1, <3>1, <4>1, <4>2, <4>3
      <3> QED BY <3>1, <3>2, <3>3 DEF ChunkTasksApart
    <2>3. CASE Fetch(w)
      <3>1. pc'[w] = "load" /\ UNCHANGED <<splits, chunked>>
        BY <2>3, Fetches DEF Fetch, file, history
      <3>2. ASSUME NEW p \in queue.chunks, task'[w] = ChunkTask(p),
                   queue' = [queue EXCEPT !.chunks = queue.chunks \ {p}]
            PROVE  ChunkTasksApart'
        <4>1. queue'.chunks = queue.chunks \ {p} /\ task'[w].part = p
          BY <1>1, <3>2 DEF ChunkTask, Queue
        <4>2. ASSUME NEW v \in Worker, ChunkTasks(v)', v # w PROVE ChunkTasks(v) /\ task'[v].part # p
          BY <2>1, <3>2, <4>2 DEF ChunkTasksApart, ChunkTasks
        <4>3. p[1] <= splits /\ chunked[p] = 0
          BY <3>2 DEF ChunkTasksApart
        <4> QED BY <2>1, <3>1, <4>1, <4>2, <4>3 DEF ChunkTasksApart
      <3>3. ASSUME task'[w].kind # "chunk", queue'.chunks = queue.chunks PROVE ChunkTasksApart'
        BY <2>1, <3>1, <3>3 DEF ChunkTasksApart, ChunkTasks
      <3>4. \/ \E p \in queue.chunks : task'[w] = ChunkTask(p)
                                         /\ queue' = [queue EXCEPT !.chunks = queue.chunks \ {p}]
            \/ task'[w].kind # "chunk" /\ queue'.chunks = queue.chunks
        BY <1>1, <1>2, <2>3, Fetches DEF Queue
      <3> QED BY <3>2, <3>3, <3>4
    <2>4. CASE ChunkRun(w)
      <3> DEFINE c == task[w].part
      <3>1. c \in Part /\ ChunkTasks(w) /\ UNCHANGED <<task, queue, splits>>
              /\ pc'[w] \notin {"load", "chunk"}
        BY <2>4, ChunkRuns
      <3>2. \/ UNCHANGED chunked
            \/ pc[w] = "chunk" /\ chunked' = [chunked EXCEPT ![c] = chunked[c] + 1]
        BY <2>4, ChunkRuns
      <3> HIDE DEF c
      <3>3. /\ chunked'[c] <= 1
            /\ \A p \in Part : p # c => chunked'[p] = chunked[p]
        <4>1. pc[w] = "chunk" => chunked[c] = 0
          BY <3>1 DEF ChunkTasksApart, c
        <4>2. chunked[c] <= 1
          BY <3>1 DEF ChunkTasksApart
        <4> QED BY <1>1, <3>1, <3>2, <4>1, <4>2
      <3>4. \A p \in queue.chunks : p # c
        BY <3>1 DEF ChunkTasksApart, c
      <3>5. \A v \in Worker : v # w /\ ChunkTasks(v) => task[v].part # c
        BY <3>1 DEF ChunkTasksApart, c
      <3>6. \A p \in Part : chunked'[p] <= 1
        BY <3>3 DEF ChunkTasksApart
      <3>7. \A p \in queue.chunks : p[1] <= splits /\ chunked'[p] = 0
        BY <1>3, <3>3, <3>4 DEF ChunkTasksApart
      <3>8. ASSUME NEW v \in Worker, ChunkTasks(v), pc'[v] \in {"load", "chunk"}
            PROVE  chunked'[task[v].part] = 0
        BY <1>3, <2>1, <3>1, <3>3, <3>5, <3>8 DEF ChunkTasksApart
      <3> QED BY <3>1, <3>6, <3>7, <3>8 DEF ChunkTasksApart, ChunkTasks
    <2>5. CASE ~Fetch(w) /\ ~ImportSplit(w) /\ ~ChunkRun(w)
      <3>1. queue'.chunks = queue.chunks /\ UNCHANGED <<chunked, splits>>
        BY <1>1, <1>4, <2>5, QueueTaken, ChunkKept DEF Queue
      <3>2. task'[w] \in {task[w], NoTask}
        BY <1>4, <2>5, TaskTaken
      <3>3. \A v \in Worker : ChunkTasks(v)' => ChunkTasks(v) /\ task'[v] = task[v]
        BY <1>2, <2>1, <3>2 DEF ChunkTasks
      <3>4. pc'[w] \in {"load", "chunk"} => pc[w] = "load"
        BY <1>4, <2>5, EndEntered
      <3>5. \A v \in Worker : pc'[v] \in {"load", "chunk"} => pc[v] \in {"load", "chunk"}
        BY <2>1, <3>4
      <3> QED BY <3>1, <3>3, <3>5 DEF ChunkTasksApart
    <2> QED BY <2>2, <2>3, <2>4, <2>5
  <1>5. CASE \A w \in Worker : ~WorkerStep(w) /\ ~Crash(w)
    <2>1. task' = task /\ pc' = pc /\ queue'.chunks = queue.chunks
      BY <1>1, <1>5, AsideStep, QueueAside DEF Queue
    <2>2. UNCHANGED <<chunked, splits>>
      <3>1. \A w \in Worker : ~ImportSplit(w) /\ ~ChunkRun(w)
        BY <1>5 DEF WorkerStep, TaskStep, ChunkRun
      <3> QED BY <3>1, ChunksTaken
    <2> QED BY <2>1, <2>2 DEF ChunkTasksApart, ChunkTasks
  <1> QED BY <1>4, <1>5

-----------------------------------------------------------------------------
(* How often a batch is imported *)

\* Who imports voters, and who counts a claim as outdated.
LEMMA AppliedTaken ==
  ASSUME NEW w \in Worker, WorkerStep(w) \/ Crash(w), ~BatchCommit(w), ~Claim(w)
  PROVE  UNCHANGED <<applied, outdated>>
  <1>1. CASE Start(w) \/ Fetch(w) \/ Crash(w)
    BY <1>1 DEF Start, Fetch, Crash, history, file, faults
  <1>2. CASE TaskStep(w)
    BY <1>2 DEF TaskStep, Load, ClaimRefused, ImportStart, ImportResume, ImportSerial, ImportCancelled,
       ImportSplit, RecoverSkip, RecoverStart, EngineBegin, EngineRefresh, EngineFinish, ResultRefresh,
       ResultCommit, TaskFail, TaskGone, ChunkLoad, ChunkSettle, ChunkGone,
       ChunkCancelled, ChunkBatch, ChunkEnd, ChunkFail, EndChunk, history, file, faults
  <1> QED BY <1>1, <1>2 DEF WorkerStep

\* The count stays right, whatever part of the file n stands for.
LEMMA CountedStays ==
  ASSUME TypeOK, WorkersPlaced, Engines, [Next]_vars,
         \A w \in Worker : ~BatchCommit(w),
         NEW n, Counted(n)
  PROVE  Counted(n)'
  <1>1. applied \in [Batch -> Nat] /\ outdated \in Nat
    BY DEF TypeOK
  <1>2. CASE applied' = applied /\ (outdated' = outdated \/ outdated' = outdated + 1)
    BY <1>1, <1>2 DEF Counted, Times
  <1>3. ASSUME NEW w \in Worker, WorkerStep(w) \/ Crash(w) PROVE Counted(n)'
    <2>1. CASE Claim(w)
      BY <1>2, <2>1 DEF Claim
    <2>2. CASE ~Claim(w)
      BY <1>2, <1>3, <2>2, AppliedTaken
    <2> QED BY <2>1, <2>2
  <1>4. CASE \A w \in Worker : ~WorkerStep(w) /\ ~Crash(w)
    BY <1>2, <1>4, AsideStep
  <1> QED BY <1>3, <1>4

\* A batch's commit counts the batch it imports.
LEMMA CountedOn ==
  ASSUME TypeOK, WorkersPlaced, Engines, TimesBounded, [Next]_vars,
         NEW w \in Worker, BatchCommit(w), NEW n, n = pos[w] + 1
  PROVE  Counted(n)'
  <1>1. /\ applied \in [Batch -> Nat] /\ outdated \in Nat /\ pos[w] \in Nat
    BY RecoveryAssumption DEF TypeOK
  <1>2. pc[w] = "batch" /\ ~Gone
    <2>1. PICK row : Commit(w, row)
      BY DEF BatchCommit
    <2> QED BY <2>1 DEF BatchCommit, At, Commit
  <1>3. \A b \in Batch : applied[b] <= Times(b, pos[w])
    BY <1>2 DEF TimesBounded, TimesAt, Counted
  <1>4. /\ n \in Batch /\ applied' = [applied EXCEPT ![n] = applied[n] + 1]
        /\ outdated' = outdated
    <2>1. pos[w] < Batches
      BY <1>2 DEF Engines, EngineAt
    <2>2. pos[w] + 1 \in Batch
      BY <1>1, <2>1, RecoveryAssumption DEF Batch
    <2> QED BY <1>1, <2>2 DEF BatchCommit
  <1>5. ASSUME NEW b \in Batch PROVE applied'[b] <= Times(b, n)'
    <2>1. b \in Nat /\ applied[b] <= Times(b, pos[w])
      BY <1>3, RecoveryAssumption DEF Batch
    <2>2. CASE b = n
      BY <1>1, <1>4, <2>1, <2>2 DEF Times
    <2>3. CASE b # n
      BY <1>1, <1>4, <2>1, <2>3 DEF Times
    <2> QED BY <2>2, <2>3
  <1> QED BY <1>5 DEF Counted

\* Where the count of a session that holds the lock comes from.
LEMMA CountTaken ==
  ASSUME TypeOK, WorkersPlaced, NEW w \in Worker, WorkerStep(w) \/ Crash(w), ~BatchCommit(w), ~Claim(w)
  PROVE  /\ pc'[w] \in {"import", "recover", "scan_file", "engine"} =>
              /\ pc[w] \in {"import", "recover", "scan_file", "engine"}
              /\ view'[w].done = view[w].done
         /\ pc'[w] \in {"batch", "refresh"} =>
              \/ pc[w] = "engine" /\ pos'[w] = view[w].done
              \/ pc[w] = "refresh" /\ pos'[w] = pos[w]
  <1>1. Sessions /\ Stored
    BY TypeParts
  <1>2. view[w] \in Row
    BY <1>1 DEF Sessions
  <1>3. CASE pc'[w] \in {"idle", "down", "load", "claim", "chunk", "chunk_end", "settle", "finish",
                         "result", "result_commit"}
    BY <1>3
  <1>4. CASE ImportStart(w)
    <2>1. Started(view[w], view[w]) \in Row /\ Started(view[w], view[w]).done = view[w].done
      BY <1>2, StartedRow
    <2>2. view'[w].done = view[w].done
      BY <1>1, <1>4, <2>1, ImportStarts DEF Sessions, Read, Row
    <2> QED BY <1>1, <1>4, <2>2 DEF ImportStart, At, Goto, Sessions
  <1>5. CASE ImportResume(w) \/ ImportSerial(w)
    BY <1>1, <1>5 DEF ImportResume, ImportSerial, At, Goto, session, Sessions
  <1>6. CASE RecoverStart(w)
    <2>1. view'[w] = Read(view[w]) /\ pc[w] = "recover" /\ pc'[w] \in {"result", "engine"}
      BY <1>1, <1>6 DEF RecoverStart, At, Goto, Sessions
    <2> QED BY <1>2, <2>1 DEF Read, Row
  <1>7. CASE EngineBegin(w)
    BY <1>1, <1>7 DEF EngineBegin, ResumeFrom, At, Goto, Sessions
  <1>8. CASE EngineRefresh(w)
    BY <1>1, <1>8 DEF EngineRefresh, AfterBatch, At, Goto, Sessions
  <1>9. CASE \/ Start(w) \/ Fetch(w) \/ Crash(w) \/ EngineFinish(w) \/ ResultRefresh(w) \/ ChunkRun(w)
    <2>1. pc'[w] \in {"idle", "load", "down", "result", "result_commit", "chunk_end", "settle"}
      BY <1>1, <1>9 DEF Start, Fetch, Crash, EngineFinish, ResultRefresh, ChunkRun, ChunkCancelled, ChunkBatch, ChunkEnd, ChunkFail, EndChunk, Goto, Sessions
    <2> QED BY <2>1
  <1>10. Close(w) => pc'[w] = "idle"
    BY <1>1, Closes
  <1>11. CASE Load(w) \/ ChunkLoad(w)
    <2>1. pc'[w] \in {"idle", "claim", "chunk"}
      BY <1>1, <1>10, <1>11 DEF Load, ChunkLoad, Goto, Sessions
    <2> QED BY <2>1
  <1>12. CASE \/ ClaimRefused(w) \/ ImportCancelled(w) \/ ImportSplit(w) \/ RecoverSkip(w)
              \/ ResultCommit(w) \/ TaskFail(w) \/ TaskGone(w) \/ ChunkSettle(w) \/ ChunkGone(w)
    <2>1. Close(w)
      BY <1>12 DEF ClaimRefused, ImportCancelled, ImportSplit, RecoverSkip, ResultCommit, TaskFail,
                   TaskGone, ChunkSettle, ChunkGone
    <2> QED BY <1>10, <2>1
  <1> QED BY <1>4, <1>5, <1>6, <1>7, <1>8, <1>9, <1>11, <1>12, ZenonT(60) DEF WorkerStep, TaskStep, ChunkRun

\* What a claim on an outdated view may repeat, outdated counts.
LEMMA ClaimCounted ==
  ASSUME TypeOK, TimesBounded, ~Gone, NEW w \in Worker, Claim(w)
  PROVE  Counted(view[w].done)' /\ view'[w].done = view[w].done
  <1>1. /\ applied \in [Batch -> Nat] /\ outdated \in Nat
        /\ UNCHANGED <<applied, view>>
        /\ outdated' = IF view[w].done # job.done THEN outdated + 1 ELSE outdated
    BY DEF TypeOK, Claim, session
  <1>2. ASSUME NEW b \in Batch PROVE applied'[b] <= Times(b, view[w].done)'
    <2>1. applied[b] <= Times(b, job.done)
      BY DEF TimesBounded, Counted
    <2> QED BY <1>1, <2>1 DEF Times
  <1> QED BY <1>1, <1>2 DEF Counted

\* No batch is imported more often than the gaps allow.
LEMMA TimesStep ==
  ASSUME TypeOK, WorkersPlaced, Flushed, Engines, ChunksSay, TimesBounded, [Next]_vars
  PROVE  TimesBounded'
  <1>1. /\ applied \in [Batch -> Nat] /\ outdated \in Nat
        /\ \A w \in Worker : view[w] \in Row
    BY DEF TypeOK
  <1>2. Gone => Gone'
    BY Onwards
  <1>3. ASSUME Gone' PROVE TimesBounded'
    <2>1. ASSUME NEW w \in Worker, WorkerStep(w) \/ Crash(w)
          PROVE  Gone /\ applied' = applied /\ (outdated' = outdated \/ outdated' = outdated + 1)
      <3>1. Gone
        BY <1>3, <2>1, JobWritten DEF Written, Gone
      <3>2. ~BatchCommit(w)
        BY <3>1 DEF BatchCommit, Commit
      <3>3. CASE Claim(w)
        BY <3>1, <3>3 DEF Claim
      <3> QED BY <2>1, <3>1, <3>2, <3>3, AppliedTaken
    <2>2. CASE \A w \in Worker : ~WorkerStep(w) /\ ~Crash(w)
      <3>1. UNCHANGED <<applied, outdated>>
        BY <2>2, AsideStep
      <3>2. CASE Gone
        BY <1>3, <3>1, <3>2 DEF TimesBounded
      <3>3. CASE ~Gone
        <4>1. \A b \in Batch : applied[b] <= Times(b, job.done)
          BY <3>3 DEF TimesBounded, Counted
        <4>2. \A b \in Batch : applied[b] <= outdated + 1
          BY <1>1, <4>1 DEF Times
        <4> QED BY <1>3, <3>1, <4>2 DEF TimesBounded
      <3> QED BY <3>2, <3>3
    <2>3. ASSUME NEW w \in Worker, WorkerStep(w) \/ Crash(w) PROVE TimesBounded'
      <3>1. \A b \in Batch : applied[b] <= outdated + 1
        BY <2>1, <2>3 DEF TimesBounded
      <3> QED BY <1>1, <1>3, <2>1, <2>3, <3>1 DEF TimesBounded
    <2> QED BY <2>2, <2>3
  <1>4. ASSUME ~Gone' PROVE Counted(job.done)'
    <2>1. CASE \E w \in Worker : BatchCommit(w)
      <3>1. PICK w \in Worker : BatchCommit(w)
        BY <2>1
      <3>2. PICK n : n = pos[w] + 1
        OBVIOUS
      <3>3. Counted(n)'
        BY <1>4, <3>1, <3>2, CountedOn
      <3>4. job'.done = n
        BY <3>1, <3>2, BatchCommits, BaseRow, TypeParts DEF Advanced, Row
      <3> QED BY <3>3, <3>4 DEF Counted, Times
    <2>2. CASE \A w \in Worker : ~BatchCommit(w)
      <3>1. PICK n : n = job.done
        OBVIOUS
      <3>2. Counted(n)
        BY <1>2, <1>4, <3>1 DEF TimesBounded
      <3>3. Counted(n)'
        BY <2>2, <3>2, CountedStays
      <3>4. job'.done = n
        <4>1. ASSUME NEW w \in Worker, WorkerStep(w) \/ Crash(w) PROVE job'.done = job.done
          BY <2>2, <4>1, JobWritten DEF Written
        <4>2. CASE \A w \in Worker : ~WorkerStep(w) /\ ~Crash(w)
          <5>1. job' = job \/ job'.done = job.done \/ job' = NoRow
            BY <4>2, JobAnswered DEF Answered
          <5>2. job' # NoRow
            BY <1>4 DEF Gone, NoRow, NewRow
          <5> QED BY <3>1, <5>1, <5>2
        <4> QED BY <3>1, <4>1, <4>2
      <3> QED BY <3>3, <3>4 DEF Counted, Times
    <2> QED BY <2>1, <2>2
  <1>5. ASSUME \A w \in Worker : ~BatchCommit(w), NEW v \in Worker, TimesAt(v),
               pc'[v] = pc[v], pos'[v] = pos[v], view'[v].done = view[v].done
        PROVE  TimesAt(v)'
    <2>1. PICK n : n = view[v].done
      OBVIOUS
    <2>2. PICK m : m = pos[v]
      OBVIOUS
    <2>3. (Counted(n) => Counted(n)') /\ (Counted(m) => Counted(m)')
      BY <1>5, CountedStays
    <2> QED BY <1>5, <2>1, <2>2, <2>3 DEF TimesAt, Counted, Times
  <1>6. ASSUME ~Gone', NEW w \in Worker, WorkerStep(w) \/ Crash(w) PROVE TimesAt(w)'
    <2>1. CASE BatchCommit(w)
      <3>1. PICK n : n = pos[w] + 1
        OBVIOUS
      <3>2. Counted(n)'
        BY <2>1, <3>1, CountedOn
      <3>3. pos'[w] = n /\ pc'[w] = "refresh"
        BY <2>1, <3>1 DEF BatchCommit, Goto, TypeOK
      <3> QED BY <3>2, <3>3 DEF TimesAt, Counted, Times
    <2>2. CASE Claim(w)
      <3>1. Counted(view[w].done)' /\ pc'[w] \in {"import", "recover"}
        <4>1. pc'[w] \in {"import", "recover"}
          BY <2>2 DEF Claim, Goto, TypeOK
        <4> QED BY <1>2, <1>6, <2>2, <4>1, ClaimCounted
      <3> QED BY <3>1 DEF TimesAt
    <2>3. CASE ~BatchCommit(w) /\ ~Claim(w)
      <3>1. \A v \in Worker : ~BatchCommit(v)
        <4>1. ASSUME NEW v \in Worker, v # w, BatchCommit(v) PROVE FALSE
          <5>1. pc'[v] = "refresh" /\ pc[v] = "batch"
            BY <4>1 DEF BatchCommit, At, Goto, TypeOK
          <5> QED BY <1>6, <4>1, <5>1, LocalStep DEF Others
        <4> QED BY <2>3, <4>1
      <3>2. TimesAt(w)
        BY <1>2, <1>6 DEF TimesBounded
      <3>3. PICK n : n = view[w].done
        OBVIOUS
      <3>4. PICK m : m = pos[w]
        OBVIOUS
      <3>5. (Counted(n) => Counted(n)') /\ (Counted(m) => Counted(m)')
        BY <3>1, CountedStays
      <3>6. pc'[w] \in {"import", "recover", "scan_file", "engine"} => Counted(n)' /\ view'[w].done = n
        BY <1>6, <2>3, <3>2, <3>3, <3>5, CountTaken DEF TimesAt
      <3>7. pc'[w] \in {"batch", "refresh"} => \/ Counted(n)' /\ pos'[w] = n
                                               \/ Counted(m)' /\ pos'[w] = m
        BY <1>6, <2>3, <3>2, <3>3, <3>4, <3>5, CountTaken DEF TimesAt
      <3> QED BY <3>6, <3>7 DEF TimesAt, Counted, Times
    <2> QED BY <2>1, <2>2, <2>3
  <1>7. ASSUME ~Gone', NEW w \in Worker, WorkerStep(w) \/ Crash(w), NEW v \in Worker, v # w
        PROVE  TimesAt(v)'
    <2>1. pc'[v] = pc[v] /\ pos'[v] = pos[v] /\ view'[v] = view[v]
      BY <1>7, LocalStep DEF Others
    <2>2. TimesAt(v)
      BY <1>2, <1>7 DEF TimesBounded
    <2>3. \A u \in Worker : BatchCommit(u) => u = w /\ lock = w
      <3>1. ASSUME NEW u \in Worker, BatchCommit(u) PROVE u = w /\ lock = w
        <4>1. pc'[u] = "refresh" /\ pc[u] = "batch"
          BY <3>1 DEF BatchCommit, At, Goto, TypeOK
        <4>2. u = w
          BY <1>7, <4>1, LocalStep DEF Others
        <4> QED BY <4>1, <4>2 DEF WorkersPlaced, Placed, Claimed, Working
      <3> QED BY <3>1
    <2>4. CASE \A u \in Worker : ~BatchCommit(u)
      BY <1>5, <1>7, <2>1, <2>2, <2>4
    <2>5. CASE lock = w
      <3>1. pc[v] \notin Claimed
        BY <1>7, <2>5 DEF WorkersPlaced, Placed
      <3> QED BY <2>1, <3>1 DEF TimesAt, Claimed, Working
    <2> QED BY <2>3, <2>4, <2>5
  <1>8. CASE \A w \in Worker : ~WorkerStep(w) /\ ~Crash(w)
    <2>1. UNCHANGED <<pc, pos>> /\ \A w \in Worker : view'[w].done = view[w].done
      <3>1. UNCHANGED <<pc, pos>> /\ \A w \in Worker : view'[w] \in {view[w], Old(view[w])}
        BY <1>8, AsideStep
      <3> QED BY <1>1, <3>1 DEF Old, Row
    <2>2. \A w \in Worker : ~BatchCommit(w)
      BY <1>8 DEF WorkerStep, TaskStep, ChunkRun
    <2>3. ASSUME ~Gone' PROVE \A w \in Worker : TimesAt(w)'
      BY <1>2, <1>5, <2>1, <2>2, <2>3 DEF TimesBounded
    <2> QED BY <1>3, <1>4, <2>3 DEF TimesBounded
  <1>9. ASSUME NEW w \in Worker, WorkerStep(w) \/ Crash(w) PROVE TimesBounded'
    BY <1>3, <1>4, <1>6, <1>7, <1>9 DEF TimesBounded
  <1> QED BY <1>8, <1>9

-----------------------------------------------------------------------------
(* The theorems *)

LEMMA InitInv == Init => IInv
  <1> SUFFICES ASSUME Init PROVE IInv
    OBVIOUS
  <1>1. NoRow \in Row /\ NewRow \in Row /\ 0 \in 0..Batches
    <2>1. NoRow \in Row /\ NewRow \in Row
      BY RowUpdates
    <2>2. 0 \in 0..Batches
      BY RecoveryAssumption
    <2> QED BY <2>1, <2>2
  <1>2. /\ NewRow.status = "PENDING" /\ NewRow.done = 0 /\ ~NewRow.cancelled /\ ~NewRow.exhausted
        /\ NoRow.status = "ABSENT" /\ NoRow.done = 0 /\ ~NoRow.cancelled /\ ~NoRow.exhausted
    BY DEF NewRow, NoRow
  <1>3. NoTask \in Task /\ NoTask.kind = "none" /\ NoTask # ImportTask /\ "down" \in Labels
    BY DEF NoTask, ImportTask, Task, Labels
  <1>4. IsABag(ask) /\ BagToSet(ask) = {}
    BY DEF Init, EmptyBag, SetToBag, IsABag, BagToSet
  <1>5. /\ pc = [w \in Worker |-> "down"] /\ task = [w \in Worker |-> NoTask]
        /\ view = [w \in Worker |-> NoRow] /\ pending = [w \in Worker |-> NoRow]
        /\ applied = [b \in Batch |-> 0] /\ chunk = [p \in Part |-> "ABSENT"]
        /\ chunked = [p \in Part |-> 0] /\ splits = 0
        /\ queue = [import |-> 0, recover |-> 0, chunks |-> {}] /\ outdated = 0 /\ job = NewRow
    BY DEF Init
  <1>6. TypeOK
    <2>1. Sessions
      BY <1>1, <1>3 DEF Init, Sessions
    <2>2. Stored
      <3>1. queue \in Queue
        BY <1>5 DEF Queue
      <3>2. Split
        BY <1>5, RecoveryAssumption DEF Split, ChunkStatus
      <3> QED BY <1>1, <1>4, <3>1, <3>2, RecoveryAssumption DEF Init, Stored
    <2> QED BY <2>1, <2>2, TypeParts
  <1>7. RowsSound
    <2>1. \A b \in Batch : ~(b <= 0)
      BY RecoveryAssumption DEF Batch
    <2> QED BY <1>2, <1>5, <2>1 DEF RowsSound, Sound
  <1>8. WorkersPlaced /\ Flushed /\ Engines
    BY <1>5 DEF WorkersPlaced, Placed, Claimed, Working, Flushed, FlushedBy, Engines, EngineAt
  <1>9. ResultTrue /\ ChunksSay /\ QueuedIsTaken
    <2>1. \A p \in Part : ~(p[1] <= 0)
      BY DEF Part
    <2> QED BY <1>2, <1>5, <2>1 DEF ResultTrue, ChunksSay, QueuedIsTaken
  <1>10. ChunkTasksApart
    BY <1>3, <1>5 DEF ChunkTasksApart, ChunkTasks
  <1>11. TimesBounded
    BY <1>5 DEF TimesBounded, TimesAt, Counted, Times
  <1> QED BY <1>6, <1>7, <1>8, <1>9, <1>10, <1>11 DEF IInv

LEMMA StepInv == IInv /\ [Next]_vars => IInv'
  <1> SUFFICES ASSUME TypeOK, RowsSound, ResultTrue, WorkersPlaced, Flushed, Engines, ChunksSay,
                      QueuedIsTaken, ChunkTasksApart, TimesBounded, [Next]_vars
               PROVE  IInv'
    BY DEF IInv
  <1>1. TypeOK'
    <2>1. Sessions'
      BY LocalStep, AsideStep
    <2>2. (Sessions /\ Stored)' => TypeOK'
      BY TypeParts DEF TypeOK, Sessions, Stored, Split, ChunkStatus, Queue, AskRow
    <2> QED BY <2>1, <2>2, StoredStep
  <1> QED BY <1>1, RowsStep, ResultStep, PlacedStep, FlushedStep, EnginesStep, ChunksSayStep, QueuedStep,
             ChunkTasksStep, TimesStep DEF IInv

LEMMA InvHolds == Spec => []IInv
  BY InitInv, StepInv, PTL DEF Spec

\* Every variable keeps its type, for any number of workers, batches, requests
\* and crashes.
THEOREM TypeCorrect == Spec => []TypeOK
  <1>1. IInv => TypeOK
    BY DEF IInv
  <1> QED BY InvHolds, <1>1, PTL

\* Whichever task resumes, recovers or finishes an import, and however often it
\* was split, last_committed_row never runs ahead of the voters, and COMPLETED
\* means all of them.
THEOREM ProgressIsImported == Spec => []NothingSkipped
  <1>1. IInv => NothingSkipped
    <2> SUFFICES ASSUME IInv PROVE NothingSkipped
      OBVIOUS
    <2>1. Sound(job, applied, job) /\ ResultTrue /\ job.done \in 0..Batches
      BY DEF IInv, RowsSound, TypeOK, Row
    <2>2. \A b \in 1..job.done : b \in Batch /\ b <= job.done
      BY <2>1, RecoveryAssumption DEF Batch
    <2> QED BY <2>1, <2>2 DEF Sound, ResultTrue, NothingSkipped
  <1> QED BY InvHolds, <1>1, PTL

\* An import shown as QUEUED has a task that will take it up, unless the code
\* gave that task away.
THEOREM QueuedNotLost == Spec => []QueuedHasTask
  <1>1. IInv => QueuedHasTask
    BY DEF IInv, QueuedIsTaken, Takes, SavedAsk, QueuedHasTask
  <1> QED BY InvHolds, <1>1, PTL

\* The serial engine commits no batch more often than once, and once more for
\* each claim on an outdated view, and none beyond the recorded progress without
\* such a claim; no chunk's task commits its batch twice.
THEOREM ImportedOnceOnly == Spec => []ImportedOnce
  <1>1. IInv => ImportedOnce
    <2> SUFFICES ASSUME IInv PROVE ImportedOnce
      OBVIOUS
    <2>1. applied \in [Batch -> Nat] /\ outdated \in Nat
      BY DEF IInv, TypeOK
    <2>2. \A p \in Part : chunked[p] <= 1
      BY DEF IInv, ChunkTasksApart
    <2>3. CASE Gone
      BY <2>1, <2>2, <2>3 DEF IInv, TimesBounded, ImportedOnce
    <2>4. CASE ~Gone
      <3>1. \A b \in Batch : applied[b] <= Times(b, job.done)
        BY <2>4 DEF IInv, TimesBounded, Counted
      <3> QED BY <2>1, <2>2, <2>4, <3>1 DEF Times, ImportedOnce
    <2> QED BY <2>3, <2>4
  <1> QED BY InvHolds, <1>1, PTL
=============================================================================
