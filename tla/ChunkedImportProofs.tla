------------------------- MODULE ChunkedImportProofs -------------------------
(***************************************************************************)
(* For every number of chunks, batches, workers and cancel requests, every *)
(* cap and every set of failing steps: types; no task is dispatched twice; *)
(* the cap and a cancellation are heeded; a chunk settles once and, when   *)
(* it is COMPLETED, its work has been applied; the parent is what its      *)
(* chunks add up to; and the import implements ImportOutcome.  Each part   *)
(* has its own invariant, which may use those of the parts before it.      *)
(***************************************************************************)
EXTENDS ChunkedImport, FiniteSetTheorems, TLAPS

-----------------------------------------------------------------------------
(* The inductive invariant *)

ImportLabels == {"import", "import_begin", "split", "split_failed"}
RunLabels    == {"range", "refresh", "range_cancelled", "promote",
                 "promote_commit", "defer"}
ChunkLabels  == {"chunk_begin"} \cup RunLabels
TaskLabels   == {"task_begin", "apply"}
EndLabels    == {"complete", "finalize", "summarize", "closing"}
Loaded       == {"load_job"} \cup ChunkLabels \cup TaskLabels \cup EndLabels

\* A worker's place in the code and the task it runs agree.
PlaceInv ==
  \A w \in Worker :
    /\ pc[w] = "idle" => task[w] = NoTask
    /\ pc[w] \in ImportLabels <=> task[w] = ImportTask
    /\ pc[w] \in Loaded \cup {"load_chunk"} => task[w] \in Task
    /\ pc[w] \in ChunkLabels => task[w].kind = "chunk"
    /\ pc[w] \in TaskLabels => task[w].kind \in Secondary
    /\ pc[w] \notin {"split", "split_failed", "promote_commit"} => cursor[w] = 0

\* Until the split has committed there are no rows, and only the chunks it
\* has deferred so far have tasks.
SplitInv ==
  /\ Live(ImportTask) => \A c \in Chunk : chunk[c].status = "ABSENT"
  /\ ImportTask \in queue => \A c \in Chunk : ~Live(ChunkTask(c))
  /\ \A w \in Worker : \A c \in Chunk :
       pc[w] \in {"import", "import_begin", "split"} /\ c > cursor[w]
         => ~Live(ChunkTask(c))

\* A worker that has loaded its chunk has a committed row; one past its first
\* commit to it has a row no one promotes.
RowInv ==
  \A w \in Worker :
    /\ pc[w] \in Loaded => chunk[Mine(w)].status # "ABSENT"
    /\ pc[w] \in RunLabels \cup EndLabels =>
         chunk[Mine(w)].status \notin {"ABSENT", "PENDING"}

\* A promoter's row is pending and its own; a pending row has a task only
\* while its promoter still holds it.
PromoteInv ==
  /\ \A w \in Worker : pc[w] = "promote_commit" =>
       /\ cursor[w] \in Chunk
       /\ chunk[cursor[w]].status = "PENDING"
       /\ \A v \in Worker \ {w} : pc[v] = "promote_commit" => cursor[v] # cursor[w]
  /\ \A c \in Chunk :
       chunk[c].status = "PENDING" /\ Live(ChunkTask(c)) => ~Unlocked(c)

\* A chunk has secondary tasks only once its worker has deferred them.
SecondaryInv ==
  /\ \A c \in Chunk : \A k \in Secondary :
       \/ chunk[c].status \in {"ABSENT", "PENDING"}
       \/ ChunkTask(c) \in queue
       \/ \E w \in Worker : /\ task[w] = ChunkTask(c)
                            /\ pc[w] \in {"load_chunk", "load_job", "chunk_begin"}
       => ~Live(SecondaryTask(k, c))
  /\ \A w \in Worker : \A k \in Secondary :
       /\ pc[w] \in RunLabels \ {"defer"} => chunkView[w].task[k] = "PENDING"
       /\ pc[w] \in RunLabels /\ chunkView[w].task[k] = "PENDING"
            => ~Live(SecondaryTask(k, Mine(w)))

DispatchInv ==
  /\ TypeOK
  /\ PlaceInv
  /\ SplitInv
  /\ RowInv
  /\ PromoteInv
  /\ SecondaryInv
  /\ RunOnce

-----------------------------------------------------------------------------
(* Types of what the steps write *)

LEMMA RowTypes ==
  ASSUME NEW row \in ChunkRow
  PROVE  /\ AsCancelled(row) \in ChunkRow
         /\ AsStarted(row) \in ChunkRow
         /\ AsFailed(row) \in ChunkRow
         /\ \A s \in TaskStatus : \A k \in Secondary :
              [row EXCEPT !.task[k] = s] \in ChunkRow
         /\ \A s \in ChunkStatus : [row EXCEPT !.status = s] \in ChunkRow
         /\ row.task \in [Secondary -> TaskStatus]
         /\ row.manifest \in SUBSET Item
         /\ row.imported \in Nat
  BY DEF ChunkRow, AsCancelled, AsStarted, AsFailed, AllTasks, ChunkStatus,
         TerminalChunk, TaskStatus, TerminalTask

LEMMA NoRowType == NoRow \in ChunkRow
  BY DEF NoRow, ChunkRow, TaskStatus

\* The chunk of a worker that runs a chunk or secondary task.
LEMMA MineType ==
  ASSUME TypeOK, PlaceInv, NEW w \in Worker, pc[w] \in Loaded \cup {"load_chunk"}
  PROVE  /\ task[w] \in Task
         /\ Mine(w) \in Chunk
         /\ chunk[Mine(w)] \in ChunkRow
         /\ chunkView[w] \in ChunkRow
  BY DEF TypeOK, PlaceInv, Mine, Task

LEMMA CommitTypes ==
  ASSUME TypeOK, NEW w \in Worker, NEW row \in ChunkRow, NEW view \in ChunkRow,
         CommitChunk(w, row, view)
  PROVE  /\ chunk' \in [Chunk -> ChunkRow]
         /\ chunkView' \in [Worker -> ChunkRow]
  BY DEF TypeOK, CommitChunk

LEMMA CloseTypes ==
  ASSUME TypeOK, NEW w \in Worker, Close(w)
  PROVE  /\ pc' \in [Worker -> Labels]
         /\ task' \in [Worker -> Task \cup {ImportTask, NoTask}]
         /\ jobView' \in [Worker -> JobRow \cup {Expired}]
         /\ chunkView' \in [Worker -> ChunkRow]
         /\ cursor' \in [Worker -> 0..NumChunks]
  <1>1. 0 \in 0..NumChunks
    BY ParametersAssumption
  <1>2. QED
    BY <1>1, NoRowType DEF TypeOK, Close, Goto, Labels

LEMMA JobTypes ==
  ASSUME TypeOK
  PROVE  \A s \in JobStatus : [job EXCEPT !.status = s] \in JobRow
  BY DEF TypeOK, JobRow

LEMMA StatusTypes ==
  /\ \A b : ParentStatus(b) \in JobStatus
  /\ \A view, b : ChunkOutcome(view, b) \in ChunkStatus
  BY DEF ParentStatus, ChunkOutcome, JobStatus, TerminalJob, ChunkStatus,
         TerminalChunk

LEMMA LabelTypes ==
  /\ Labels = {"idle", "load_chunk"} \cup ImportLabels \cup Loaded
  /\ \A parent, row : AfterBatch(parent, row) \in RunLabels
  BY DEF Labels, ImportLabels, Loaded, ChunkLabels, RunLabels, TaskLabels,
         EndLabels, AfterBatch

-----------------------------------------------------------------------------
(* Every step preserves the types *)

LEMMA TypeImport ==
  ASSUME TypeOK, NEW w \in Worker, ImportStep(w)
  PROVE  TypeOK'
  <1> USE CloseTypes, JobTypes DEF shared, history
  <1>1. CASE ImportLoad(w)
    BY <1>1 DEF ImportLoad, TypeOK, Goto, Labels
  <1>2. CASE ImportSkipCancelled(w)
    BY <1>2 DEF ImportSkipCancelled, TypeOK, JobStatus, TerminalJob
  <1>3. CASE ImportBegin(w)
    BY <1>3 DEF ImportBegin, TypeOK, Goto, Labels
  <1>4. CASE SplitDefer(w)
    <2>1. cursor[w] + 1 \in Chunk
      BY <1>4, ParametersAssumption
         DEF SplitDefer, SplitMore, InitialLimit, Smaller, Larger, TypeOK, Chunk
    <2>2. ChunkTask(cursor[w] + 1) \in Task
      BY <2>1 DEF ChunkTask, Task
    <2>3. cursor' \in [Worker -> 0..NumChunks]
      BY <1>4, <2>1, ParametersAssumption DEF SplitDefer, TypeOK, Chunk
    <2>4. QED
      BY <1>4, <2>2, <2>3 DEF SplitDefer, TypeOK
  <1>5. CASE SplitCommit(w)
    <2>1. \A s \in ChunkStatus : [NoRow EXCEPT !.status = s] \in ChunkRow
      BY NoRowType, RowTypes
    <2>2. chunk' \in [Chunk -> ChunkRow]
      BY <1>5, <2>1 DEF SplitCommit, ChunkStatus
    <2>3. QED
      BY <1>5, <2>2 DEF SplitCommit, TypeOK, JobStatus
  <1>6. CASE SplitFail(w)
    BY <1>6 DEF SplitFail, TypeOK, Goto, Labels
  <1>7. CASE ImportFailed(w)
    BY <1>7 DEF ImportFailed, TypeOK, JobStatus, TerminalJob
  <1>8. QED
    BY <1>1, <1>2, <1>3, <1>4, <1>5, <1>6, <1>7 DEF ImportStep

LEMMA TypeFailChunk ==
  ASSUME TypeOK, PlaceInv, NEW w \in Worker, pc[w] \in Loaded, FailChunk(w)
  PROVE  TypeOK'
  <1>1. /\ chunk' \in [Chunk -> ChunkRow]
        /\ chunkView' \in [Worker -> ChunkRow]
    BY MineType, RowTypes, CommitTypes DEF FailChunk
  <1>2. QED
    BY <1>1 DEF FailChunk, TypeOK, Goto, Labels, history

LEMMA TypeChunk ==
  ASSUME TypeOK, PlaceInv, NEW w \in Worker, ChunkStep(w)
  PROVE  TypeOK'
  <1> USE CloseTypes, CommitTypes, MineType, RowTypes
          DEF shared, history, At, Loaded, ChunkLabels, RunLabels
  <1>1. CASE LoadChunk(w)
    BY <1>1 DEF LoadChunk, TypeOK, Goto, Labels
  <1>2. CASE LoadJob(w)
    BY <1>2 DEF LoadJob, TypeOK, Goto, Labels
  <1>3. CASE ChunkSkip(w)
    BY <1>3 DEF ChunkSkip, TypeOK, Goto, Labels
  <1>4. CASE ChunkBegin(w)
    BY <1>4 DEF ChunkBegin, TypeOK, Goto, Labels
  <1>5. CASE BatchCommit(w)
    <2>0. /\ chunk[Mine(w)] \in ChunkRow /\ chunkView[w] \in ChunkRow
          /\ Mine(w) \in Chunk
      BY <1>5 DEF BatchCommit
    <2> DEFINE number == chunkView[w].imported + 1
               grown(found) == chunkView[w].manifest \cup (found \X {number})
               written(found) == IF number = 1 THEN grown(found)
                                 ELSE chunk[Mine(w)].manifest
    <2>1. PICK found \in SUBSET Contents[Mine(w)] :
            /\ CommitChunk(w,
                 [chunk[Mine(w)] EXCEPT !.manifest = written(found), !.imported = number],
                 [chunkView[w] EXCEPT !.manifest = grown(found), !.imported = number])
            /\ owed' = [owed EXCEPT ![Mine(w)] = @ \cup (found \X {number})]
      BY <1>5 DEF BatchCommit
    <2>2. /\ number \in Nat /\ found \X {number} \in SUBSET Item
          /\ grown(found) \in SUBSET Item /\ written(found) \in SUBSET Item
      <3>1. number \in Nat
        BY <2>0
      <3>2. found \X {number} \in SUBSET Item
        <4>1. found \subseteq Secondary
          BY <2>0, <2>1, ParametersAssumption DEF Chunk
        <4>2. QED
          BY <3>1, <4>1 DEF Item
      <3>3. chunkView[w].manifest \in SUBSET Item /\ chunk[Mine(w)].manifest \in SUBSET Item
        BY <2>0
      <3>4. QED
        BY <3>1, <3>2, <3>3
    <2>3. ASSUME NEW row \in ChunkRow, NEW m \in SUBSET Item
          PROVE  [row EXCEPT !.manifest = m, !.imported = number] \in ChunkRow
      BY <2>2 DEF ChunkRow
    <2>4. /\ chunk' \in [Chunk -> ChunkRow]
          /\ chunkView' \in [Worker -> ChunkRow]
      BY <2>0, <2>1, <2>2, <2>3
    <2>5. late' \in [Chunk -> Nat] /\ owed' \in [Chunk -> SUBSET Item]
      BY <1>5, <2>1, <2>2 DEF BatchCommit, TypeOK
    <2>6. QED
      BY <1>5, <2>4, <2>5 DEF BatchCommit, TypeOK, Goto, Labels
  <1>6. CASE RefreshJob(w)
    BY <1>6, LabelTypes DEF RefreshJob, TypeOK, Goto
  <1>7. CASE RangeCancelled(w)
    BY <1>7 DEF RangeCancelled, TypeOK, Goto, Labels
  <1>8. CASE BatchFail(w)
    BY <1>8, TypeFailChunk DEF BatchFail
  <1>9. CASE DecodeFail(w)
    BY <1>9 DEF DecodeFail, TypeOK, Goto, Labels
  <1>10. CASE PromoteDefer(w)
    <2>1. PICK c \in Chunk : /\ cursor' = [cursor EXCEPT ![w] = c]
                             /\ queue' = queue \cup {ChunkTask(c)}
      BY <1>10 DEF PromoteDefer, Foremost, Promotable
    <2>2. ChunkTask(c) \in Task /\ c \in 0..NumChunks
      BY ParametersAssumption DEF ChunkTask, Task, Chunk
    <2>3. QED
      BY <1>10, <2>1, <2>2 DEF PromoteDefer, TypeOK, Goto, Labels
  <1>11. CASE PromoteCommit(w)
    <2>1. ASSUME NEW row \in ChunkRow
          PROVE  [row EXCEPT !.status = "QUEUED"] \in ChunkRow
      BY DEF ChunkStatus
    <2>2. chunk' \in [Chunk -> ChunkRow]
      BY <1>11, <2>1 DEF PromoteCommit, TypeOK
    <2>3. 0 \in 0..NumChunks
      BY ParametersAssumption
    <2>4. QED
      BY <1>11, <2>2, <2>3 DEF PromoteCommit, TypeOK, Goto, Labels
  <1>12. CASE PromoteNone(w)
    BY <1>12 DEF PromoteNone, TypeOK, Goto, Labels
  <1>13. CASE SecondaryDefer(w)
    <2>1. PICK k \in Secondary :
            IF k \in Kinds(chunkView[w].manifest)
            THEN /\ queue' = queue \cup {[kind |-> k, chunk |-> Mine(w)]}
                 /\ chunkView' = [chunkView EXCEPT ![w].task[k] = "QUEUED"]
            ELSE /\ chunkView' = [chunkView EXCEPT ![w].task[k] = "COMPLETED"]
                 /\ UNCHANGED queue
      BY <1>13 DEF SecondaryDefer, SecondaryTask, NextSecondary, Secondary
    <2>2. queue' \subseteq Task \cup {ImportTask}
      <3>1. [kind |-> k, chunk |-> Mine(w)] \in Task
        BY <1>13 DEF SecondaryDefer, Task
      <3>2. QED
        BY <2>1, <3>1 DEF TypeOK
    <2>3. \A s \in {"QUEUED", "COMPLETED"} :
            [chunkView[w] EXCEPT !.task[k] = s] \in ChunkRow
      <3>1. {"QUEUED", "COMPLETED"} \subseteq TaskStatus
        BY DEF TaskStatus, TerminalTask
      <3>2. chunkView[w] \in ChunkRow
        BY DEF TypeOK
      <3>3. QED
        BY <3>1, <3>2
    <2>4. chunkView' \in [Worker -> ChunkRow]
      BY <2>1, <2>3 DEF TypeOK
    <2>5. QED
      BY <1>13, <2>2, <2>4 DEF SecondaryDefer, TypeOK
  <1>14. CASE SecondaryPublish(w)
    <2>1. [chunk[Mine(w)] EXCEPT !.task = chunkView[w].task] \in ChunkRow
      <3>1. chunk[Mine(w)] \in ChunkRow /\ chunkView[w].task \in [Secondary -> TaskStatus]
        BY <1>14 DEF SecondaryPublish
      <3>2. QED
        BY <3>1 DEF ChunkRow
    <2>2. chunk' \in [Chunk -> ChunkRow]
      BY <1>14, <2>1 DEF SecondaryPublish, TypeOK
    <2>3. QED
      BY <1>14, <2>2 DEF SecondaryPublish, TypeOK, Goto, Labels
  <1>15. CASE DeferFail(w)
    BY <1>15, TypeFailChunk DEF DeferFail
  <1>16. QED
    BY <1>1, <1>2, <1>3, <1>4, <1>5, <1>6, <1>7, <1>8, <1>9, <1>10, <1>11,
       <1>12, <1>13, <1>14, <1>15 DEF ChunkStep

LEMMA TypeTask ==
  ASSUME TypeOK, PlaceInv, NEW w \in Worker, TaskStep(w)
  PROVE  TypeOK'
  <1> USE CommitTypes, MineType, RowTypes
          DEF shared, history, At, Loaded, TaskLabels
  <1>1. task[w].kind \in Secondary
    BY DEF TaskStep, SecondaryBegin, SecondaryApply, SecondaryFail, PlaceInv
  <1>2. CASE SecondaryBegin(w)
    BY <1>1, <1>2 DEF SecondaryBegin, CommitTask, TypeOK, Goto, Labels,
                      TaskStatus, TerminalTask
  <1>3. CASE SecondaryApply(w)
    <2>1. ASSUME NEW row \in ChunkRow, NEW items
          PROVE  [row EXCEPT !.task[task[w].kind] = "COMPLETED",
                             !.manifest = @ \ items] \in ChunkRow
      BY <1>1 DEF ChunkRow, TaskStatus, TerminalTask
    <2>2. /\ chunk' \in [Chunk -> ChunkRow]
          /\ chunkView' \in [Worker -> ChunkRow]
      BY <1>3, <2>1 DEF SecondaryApply
    <2>3. owed' \in [Chunk -> SUBSET Item]
      BY <1>3 DEF SecondaryApply, TypeOK
    <2>4. QED
      BY <1>3, <2>2, <2>3 DEF SecondaryApply, TypeOK, Goto, Labels
  <1>4. CASE SecondaryFail(w)
    <2>1. [chunk[Mine(w)] EXCEPT !.task[task[w].kind] = "FAILED"] \in ChunkRow
      BY <1>1, <1>4 DEF SecondaryFail, TaskStatus, TerminalTask
    <2>2. QED
      BY <1>4, <2>1 DEF SecondaryFail, TypeOK, Goto, Labels
  <1>5. QED
    BY <1>2, <1>3, <1>4 DEF TaskStep

LEMMA TypeEnd ==
  ASSUME TypeOK, PlaceInv, NEW w \in Worker, EndStep(w)
  PROVE  TypeOK'
  <1> USE CloseTypes, JobTypes DEF shared, history
  <1>1. CASE NotComplete(w)
    BY <1>1 DEF NotComplete, TypeOK
  <1>2. CASE AlreadyEnded(w)
    BY <1>2 DEF AlreadyEnded, TypeOK, Goto, Labels
  <1>3. CASE CompleteChunk(w)
    BY <1>3, CommitTypes, MineType, RowTypes, StatusTypes
       DEF CompleteChunk, TypeOK, Goto, Labels, At, Loaded, EndLabels
  <1>4. CASE FinalizeGiveUp(w)
    BY <1>4 DEF FinalizeGiveUp, TypeOK
  <1>5. CASE FinalizeLock(w)
    BY <1>5 DEF FinalizeLock, TypeOK, Goto, Labels
  <1>6. CASE Finalize(w)
    <2>1. job' \in JobRow
      BY <1>6, StatusTypes DEF Finalize
    <2>2. QED
      BY <1>6, <2>1 DEF Finalize, TypeOK
  <1>7. CASE FinalizeTooEarly(w)
    BY <1>7 DEF FinalizeTooEarly, TypeOK, Goto, Labels
  <1>8. CASE MergeFail(w)
    BY <1>8 DEF MergeFail, TypeOK
  <1>9. CASE FinalizeClose(w)
    BY <1>9 DEF FinalizeClose, TypeOK
  <1>10. QED
    BY <1>1, <1>2, <1>3, <1>4, <1>5, <1>6, <1>7, <1>8, <1>9 DEF EndStep

LEMMA TypeStart ==
  ASSUME TypeOK, NEW w \in Worker, TakeTask(w)
  PROVE  TypeOK'
  BY DEF TakeTask, TypeOK, Goto, Labels, history

LEMMA TypeCancel ==
  ASSUME TypeOK, NEW r \in Request, CancelCheck(r) \/ CancelCommit(r)
  PROVE  TypeOK'
  <1>1. [status |-> "CANCELLING", cancelled |-> TRUE] \in JobRow
    BY DEF JobRow, JobStatus
  <1>2. CASE CancelCheck(r)
    BY <1>2 DEF CancelCheck, TypeOK, shared, history
  <1>3. CASE CancelCommit(r)
    BY <1>1, <1>3 DEF CancelCommit, TypeOK, history
  <1>4. QED
    BY <1>2, <1>3

LEMMA TypeInit == Init => TypeOK
  <1> SUFFICES ASSUME Init PROVE TypeOK
    OBVIOUS
  <1>1. 0 \in 0..NumChunks
    BY ParametersAssumption
  <1>2. QED
    BY <1>1, NoRowType DEF Init, TypeOK, JobRow, JobStatus, Labels

-----------------------------------------------------------------------------
(* Every step keeps a worker's place and its task in agreement *)

LEMMA TaskTypes ==
  /\ ImportTask \notin Task
  /\ NoTask \notin Task
  /\ ImportTask # NoTask
  /\ \A t \in Task : /\ t.kind = "chunk" \/ t.kind \in Secondary
                     /\ t.chunk \in Chunk
  BY DEF ImportTask, NoTask, Task, Secondary

LEMMA PlaceClose ==
  ASSUME TypeOK, PlaceInv, NEW w \in Worker, Close(w)
  PROVE  PlaceInv'
  BY TaskTypes DEF TypeOK, PlaceInv, Close, Goto, ImportLabels, Loaded,
     ChunkLabels, RunLabels, TaskLabels, EndLabels

LEMMA PlaceMove ==
  ASSUME TypeOK, PlaceInv, NEW w \in Worker, NEW label \in Labels,
         Goto(w, label), UNCHANGED task,
         \A v \in Worker \ {w} : cursor'[v] = cursor[v],
         label # "idle",
         label \in ImportLabels <=> pc[w] \in ImportLabels,
         label \in ChunkLabels => task[w].kind = "chunk",
         label \in TaskLabels => task[w].kind \in Secondary,
         label \notin {"split", "split_failed", "promote_commit"} => cursor'[w] = 0,
         pc[w] # "idle"
  PROVE  PlaceInv'
  <1>1. pc' = [pc EXCEPT ![w] = label]
    BY DEF Goto
  <1>2. task[w] \in Task \/ task[w] = ImportTask
    BY LabelTypes DEF PlaceInv, TypeOK
  <1>3. ASSUME NEW v \in Worker, v # w
        PROVE  pc'[v] = pc[v] /\ cursor'[v] = cursor[v]
    BY <1>1, <1>3 DEF TypeOK
  <1>4. pc'[w] = label
    BY <1>1 DEF TypeOK
  <1>5. label \in Loaded \cup {"load_chunk"} => label \notin ImportLabels
    BY DEF Loaded, ImportLabels, ChunkLabels, RunLabels, TaskLabels, EndLabels
  <1>6. QED
    BY <1>1, <1>2, <1>3, <1>4, <1>5, TaskTypes DEF PlaceInv

LEMMA PlaceImport ==
  ASSUME TypeOK, PlaceInv, NEW w \in Worker, ImportStep(w)
  PROVE  PlaceInv'
  <1> USE PlaceClose, PlaceMove, LabelTypes DEF At, ImportLabels, Loaded, ChunkLabels, RunLabels,
          TaskLabels, EndLabels, Labels
  <1>1. CASE ImportLoad(w)
    BY <1>1 DEF ImportLoad, PlaceInv
  <1>2. CASE ImportSkipCancelled(w)
    BY <1>2 DEF ImportSkipCancelled, PlaceInv
  <1>3. CASE ImportBegin(w)
    BY <1>3 DEF ImportBegin, PlaceInv
  <1>4. CASE SplitDefer(w)
    BY <1>4 DEF SplitDefer, PlaceInv
  <1>5. CASE SplitCommit(w)
    BY <1>5 DEF SplitCommit, PlaceInv
  <1>6. CASE SplitFail(w)
    BY <1>6 DEF SplitFail, PlaceInv
  <1>7. CASE ImportFailed(w)
    BY <1>7 DEF ImportFailed, PlaceInv
  <1>8. QED
    BY <1>1, <1>2, <1>3, <1>4, <1>5, <1>6, <1>7 DEF ImportStep

LEMMA PlaceChunk ==
  ASSUME TypeOK, PlaceInv, NEW w \in Worker, ChunkStep(w)
  PROVE  PlaceInv'
  <1> USE PlaceClose, PlaceMove, LabelTypes DEF At, ImportLabels, Loaded, ChunkLabels, RunLabels,
          TaskLabels, EndLabels, Labels
  <1>1. CASE LoadChunk(w)
    BY <1>1 DEF LoadChunk, PlaceInv
  <1>2. CASE LoadJob(w)
    BY <1>2 DEF LoadJob, Task, Secondary, PlaceInv
  <1>3. CASE ChunkSkip(w)
    BY <1>3 DEF ChunkSkip, PlaceInv
  <1>4. CASE ChunkBegin(w)
    BY <1>4 DEF ChunkBegin, PlaceInv
  <1>5. CASE BatchCommit(w)
    BY <1>5 DEF BatchCommit, PlaceInv
  <1>6. CASE RefreshJob(w)
    BY <1>6 DEF RefreshJob, AfterBatch, PlaceInv
  <1>7. CASE RangeCancelled(w)
    BY <1>7 DEF RangeCancelled, PlaceInv
  <1>8. CASE BatchFail(w)
    BY <1>8 DEF BatchFail, FailChunk, PlaceInv
  <1>9. CASE DecodeFail(w)
    BY <1>9 DEF DecodeFail, PlaceInv
  <1>10. CASE PromoteDefer(w)
    BY <1>10 DEF PromoteDefer, PlaceInv
  <1>11. CASE PromoteCommit(w)
    <2>1. cursor'[w] = 0 /\ \A v \in Worker \ {w} : cursor'[v] = cursor[v]
      BY <1>11 DEF PromoteCommit, TypeOK
    <2>2. QED
      BY <1>11, <2>1 DEF PromoteCommit, PlaceInv
  <1>12. CASE PromoteNone(w)
    BY <1>12 DEF PromoteNone, PlaceInv
  <1>13. CASE SecondaryDefer(w)
    BY <1>13 DEF SecondaryDefer, PlaceInv
  <1>14. CASE SecondaryPublish(w)
    BY <1>14 DEF SecondaryPublish, PlaceInv
  <1>15. CASE DeferFail(w)
    BY <1>15 DEF DeferFail, FailChunk, PlaceInv
  <1>16. QED
    BY <1>1, <1>2, <1>3, <1>4, <1>5, <1>6, <1>7, <1>8, <1>9, <1>10, <1>11, <1>12, <1>13, <1>14, <1>15 DEF ChunkStep

LEMMA PlaceTask ==
  ASSUME TypeOK, PlaceInv, NEW w \in Worker, TaskStep(w)
  PROVE  PlaceInv'
  <1> USE PlaceClose, PlaceMove, LabelTypes DEF At, ImportLabels, Loaded, ChunkLabels, RunLabels,
          TaskLabels, EndLabels, Labels
  <1>1. CASE SecondaryBegin(w)
    BY <1>1 DEF SecondaryBegin, PlaceInv
  <1>2. CASE SecondaryApply(w)
    BY <1>2 DEF SecondaryApply, PlaceInv
  <1>3. CASE SecondaryFail(w)
    BY <1>3 DEF SecondaryFail, PlaceInv
  <1>4. QED
    BY <1>1, <1>2, <1>3 DEF TaskStep

LEMMA PlaceEnd ==
  ASSUME TypeOK, PlaceInv, NEW w \in Worker, EndStep(w)
  PROVE  PlaceInv'
  <1> USE PlaceClose, PlaceMove, LabelTypes DEF At, ImportLabels, Loaded, ChunkLabels, RunLabels,
          TaskLabels, EndLabels, Labels
  <1>1. CASE NotComplete(w)
    BY <1>1 DEF NotComplete, PlaceInv
  <1>2. CASE AlreadyEnded(w)
    BY <1>2 DEF AlreadyEnded, PlaceInv
  <1>3. CASE CompleteChunk(w)
    BY <1>3 DEF CompleteChunk, PlaceInv
  <1>4. CASE FinalizeGiveUp(w)
    BY <1>4 DEF FinalizeGiveUp, PlaceInv
  <1>5. CASE FinalizeLock(w)
    BY <1>5 DEF FinalizeLock, PlaceInv
  <1>6. CASE Finalize(w)
    BY <1>6 DEF Finalize, PlaceInv
  <1>7. CASE FinalizeTooEarly(w)
    BY <1>7 DEF FinalizeTooEarly, PlaceInv
  <1>8. CASE MergeFail(w)
    BY <1>8 DEF MergeFail, PlaceInv
  <1>9. CASE FinalizeClose(w)
    BY <1>9 DEF FinalizeClose, PlaceInv
  <1>10. QED
    BY <1>1, <1>2, <1>3, <1>4, <1>5, <1>6, <1>7, <1>8, <1>9 DEF EndStep

LEMMA PlaceStart ==
  ASSUME TypeOK, PlaceInv, NEW w \in Worker, TakeTask(w)
  PROVE  PlaceInv'
  <1>1. PICK t \in queue : /\ task' = [task EXCEPT ![w] = t]
                           /\ Goto(w, IF t = ImportTask THEN "import" ELSE "load_chunk")
    BY DEF TakeTask
  <1>2. t \in Task \/ t = ImportTask
    BY DEF TypeOK
  <1>3. UNCHANGED cursor /\ pc[w] = "idle"
    BY DEF TakeTask, At
  <1>4. QED
    BY <1>1, <1>2, <1>3, TaskTypes
       DEF TypeOK, PlaceInv, Goto, ImportLabels, Loaded, ChunkLabels, RunLabels,
           TaskLabels, EndLabels

LEMMA PlaceInit == Init => PlaceInv
  BY TaskTypes DEF Init, PlaceInv, ImportLabels, Loaded, ChunkLabels, RunLabels,
     TaskLabels, EndLabels

PlaceTypeInv == TypeOK /\ PlaceInv

LEMMA PlaceTypeStep == PlaceTypeInv /\ [Next]_vars => PlaceTypeInv'
  <1> SUFFICES ASSUME TypeOK, PlaceInv, [Next]_vars
               PROVE  TypeOK' /\ PlaceInv'
    BY DEF PlaceTypeInv
  <1>1. ASSUME NEW w \in Worker, WorkerStep(w)
        PROVE  TypeOK' /\ PlaceInv'
    <2>1. CASE TakeTask(w)
      BY <2>1, TypeStart, PlaceStart
    <2>2. CASE ImportStep(w)
      BY <2>2, TypeImport, PlaceImport
    <2>3. CASE ChunkStep(w)
      BY <2>3, TypeChunk, PlaceChunk
    <2>4. CASE TaskStep(w)
      BY <2>4, TypeTask, PlaceTask
    <2>5. CASE EndStep(w)
      BY <2>5, TypeEnd, PlaceEnd
    <2>6. QED
      BY <1>1, <2>1, <2>2, <2>3, <2>4, <2>5 DEF WorkerStep
  <1>2. ASSUME NEW r \in Request, CancelCheck(r) \/ CancelCommit(r)
        PROVE  TypeOK' /\ PlaceInv'
    <2>1. UNCHANGED <<pc, task, cursor>>
      BY <1>2 DEF CancelCheck, CancelCommit
    <2>2. QED
      BY <1>2, <2>1, TypeCancel DEF PlaceInv
  <1>3. CASE UNCHANGED vars
    BY <1>3 DEF vars, TypeOK, PlaceInv
  <1>4. QED
    BY <1>1, <1>2, <1>3 DEF Next

\* In every reachable state each row, view, task and cursor has its type,
\* whichever step of the import tasks raises and however workers interleave.
THEOREM TypeCorrect == Spec => []TypeOK
  <1>1. Init => PlaceTypeInv
    BY TypeInit, PlaceInit DEF PlaceTypeInv
  <1>2. PlaceTypeInv => TypeOK
    BY DEF PlaceTypeInv
  <1>3. QED
    BY <1>1, <1>2, PlaceTypeStep, PTL DEF Spec

-----------------------------------------------------------------------------
(* Every step keeps the dispatch invariant *)

\* The parts of the dispatch invariant that are not about types and places.
OwnInv == SplitInv /\ RowInv /\ PromoteInv /\ SecondaryInv /\ RunOnce

LEMMA TaskForms ==
  /\ \A c \in Chunk : ChunkTask(c) \in Task /\ ChunkTask(c).chunk = c
  /\ \A c \in Chunk : \A k \in Secondary :
       /\ SecondaryTask(k, c) \in Task
       /\ SecondaryTask(k, c).chunk = c
       /\ SecondaryTask(k, c).kind = k
       /\ \A d \in Chunk : SecondaryTask(k, c) # ChunkTask(d)
       /\ \A d \in Chunk : \A l \in Secondary :
            SecondaryTask(k, c) = SecondaryTask(l, d) => k = l /\ c = d
  /\ \A c, d \in Chunk : ChunkTask(c) = ChunkTask(d) => c = d
  /\ \A t \in Task : /\ t.chunk \in Chunk
                     /\ t.kind = "chunk" => t = ChunkTask(t.chunk)
                     /\ t.kind \in Secondary => t = SecondaryTask(t.kind, t.chunk)
  <1>1. ASSUME NEW t \in Task
        PROVE  /\ t.chunk \in Chunk
               /\ t.kind = "chunk" => t = ChunkTask(t.chunk)
               /\ t.kind \in Secondary => t = SecondaryTask(t.kind, t.chunk)
    BY <1>1 DEF Task, ChunkTask, SecondaryTask
  <1>2. ASSUME NEW c \in Chunk
        PROVE  /\ ChunkTask(c) \in Task
               /\ ChunkTask(c).chunk = c
               /\ ChunkTask(c).kind = "chunk"
    BY DEF Task, ChunkTask
  <1>3. ASSUME NEW c \in Chunk, NEW k \in Secondary
        PROVE  /\ SecondaryTask(k, c) \in Task
               /\ SecondaryTask(k, c).chunk = c
               /\ SecondaryTask(k, c).kind = k
    BY DEF Task, SecondaryTask
  <1>4. "chunk" \notin Secondary
    BY DEF Secondary
  <1>5. ASSUME NEW c \in Chunk, NEW k \in Secondary
        PROVE  /\ \A d \in Chunk : SecondaryTask(k, c) # ChunkTask(d)
               /\ \A d \in Chunk : \A l \in Secondary :
                    SecondaryTask(k, c) = SecondaryTask(l, d) => k = l /\ c = d
    BY <1>2, <1>3, <1>4
  <1>6. \A c, d \in Chunk : ChunkTask(c) = ChunkTask(d) => c = d
    BY <1>2
  <1>7. QED
    BY <1>1, <1>2, <1>3, <1>5, <1>6

\* What a worker that has loaded its chunk runs.
LEMMA MineForms ==
  ASSUME TypeOK, PlaceInv
  PROVE  \A w \in Worker :
           /\ pc[w] \in Loaded \cup {"load_chunk"} =>
                task[w] \in Task /\ Mine(w) \in Chunk /\ task[w] # NoTask
           /\ pc[w] \in ChunkLabels => task[w] = ChunkTask(Mine(w))
           /\ pc[w] \in TaskLabels =>
                \E k \in Secondary : task[w] = SecondaryTask(k, Mine(w))
  BY TaskTypes, TaskForms DEF PlaceInv, Mine, Loaded

EarlyLabels == {"load_chunk", "load_job", "chunk_begin"}

\* A worker in its chunk or secondary task, holding no promotion, moves on and
\* writes no more than its own chunk's row.
LEMMA OwnMove ==
  ASSUME TypeOK, PlaceInv, OwnInv, NEW w \in Worker, NEW label \in Loaded,
         Goto(w, label), UNCHANGED <<queue, task, cursor>>,
         pc[w] \in Loaded \ {"promote_commit"},
         label # "promote_commit",
         label \in EarlyLabels => pc[w] \in EarlyLabels,
         label \in RunLabels =>
           /\ pc[w] \in RunLabels
           /\ chunkView'[w].task = chunkView[w].task
           /\ label # "defer" => pc[w] # "defer",
         \A v \in Worker \ {w} : chunkView'[v] = chunkView[v],
         \A c \in Chunk \ {Mine(w)} : chunk'[c].status = chunk[c].status,
         \/ chunk'[Mine(w)].status = chunk[Mine(w)].status
         \/ /\ chunk[Mine(w)].status \notin {"ABSENT", "PENDING"}
            /\ chunk'[Mine(w)].status \notin {"ABSENT", "PENDING"},
         label \in RunLabels \cup EndLabels =>
           chunk'[Mine(w)].status \notin {"ABSENT", "PENDING"}
  PROVE  OwnInv'
  <1>1. pc'[w] = label /\ \A v \in Worker \ {w} : pc'[v] = pc[v]
    BY DEF Goto, TypeOK
  <1>2. \A c \in Chunk : /\ chunk'[c].status = "ABSENT" <=> chunk[c].status = "ABSENT"
                         /\ chunk'[c].status = "PENDING" <=> chunk[c].status = "PENDING"
    OBVIOUS
  <1>3. \A t : Live(t)' <=> Live(t)
    BY DEF Live
  <1>4. \A v \in Worker : Mine(v)' = Mine(v)
    BY DEF Mine
  <1>5. \A v \in Worker : pc[v] \in Loaded => Mine(v) \in Chunk
    BY MineForms
  <1>6. label \notin ImportLabels /\ label # "idle"
    BY DEF Loaded, ImportLabels, ChunkLabels, RunLabels, TaskLabels, EndLabels
  <1>7. SplitInv'
    BY <1>1, <1>2, <1>3, <1>6 DEF OwnInv, SplitInv, ImportLabels
  <1>8. RowInv'
    BY <1>1, <1>2, <1>4, <1>5 DEF OwnInv, RowInv, Loaded, ChunkLabels
  <1>9. PromoteInv'
    <2>1. \A v \in Worker : pc'[v] = "promote_commit" <=> pc[v] = "promote_commit"
      BY <1>1
    <2>2. \A c \in Chunk : Unlocked(c)' <=> Unlocked(c)
      BY <2>1 DEF Unlocked
    <2>3. QED
      BY <1>2, <1>3, <2>1, <2>2 DEF OwnInv, PromoteInv
  <1>10. SecondaryInv'
    <2>1. \A v \in Worker : pc'[v] \in EarlyLabels => pc[v] \in EarlyLabels
      BY <1>1
    <2>2. \A v \in Worker : pc'[v] \in RunLabels =>
            /\ pc[v] \in RunLabels
            /\ chunkView'[v].task = chunkView[v].task
            /\ pc'[v] # "defer" => pc[v] # "defer"
      BY <1>1
    <2>3. QED
      BY <1>2, <1>3, <1>4, <2>1, <2>2 DEF OwnInv, SecondaryInv, EarlyLabels
  <1>11. RunOnce'
    BY DEF OwnInv, RunOnce
  <1>12. QED
    BY <1>7, <1>8, <1>9, <1>10, <1>11 DEF OwnInv

\* A worker that holds no promotion ends its task and writes no chunk.
LEMMA OwnClose ==
  ASSUME TypeOK, PlaceInv, OwnInv, NEW w \in Worker, Close(w),
         UNCHANGED <<queue, chunk>>, pc[w] # "promote_commit"
  PROVE  OwnInv'
  <1>1. /\ pc'[w] = "idle" /\ task'[w] = NoTask
        /\ \A v \in Worker \ {w} : /\ pc'[v] = pc[v]
                                   /\ task'[v] = task[v]
                                   /\ cursor'[v] = cursor[v]
                                   /\ chunkView'[v] = chunkView[v]
    BY DEF Close, Goto, TypeOK
  <1>2. \A t : t # NoTask /\ Live(t)' => Live(t)
    BY <1>1 DEF Live
  <1>3. \A v \in Worker \ {w} : Mine(v)' = Mine(v)
    BY <1>1 DEF Mine
  <1>4. /\ ImportTask # NoTask
        /\ \A c \in Chunk : ChunkTask(c) # NoTask
        /\ \A c \in Chunk : \A k \in Secondary : SecondaryTask(k, c) # NoTask
    BY TaskTypes, TaskForms
  <1>5. SplitInv'
    BY <1>1, <1>2, <1>4 DEF OwnInv, SplitInv
  <1>6. RowInv'
    BY <1>1, <1>3 DEF OwnInv, RowInv, Loaded, ChunkLabels, RunLabels, TaskLabels,
                      EndLabels
  <1>7. PromoteInv'
    <2>1. \A v \in Worker : pc'[v] = "promote_commit" <=> pc[v] = "promote_commit"
      BY <1>1
    <2>2. \A v \in Worker : pc[v] = "promote_commit" => cursor'[v] = cursor[v]
      BY <1>1
    <2>3. \A c \in Chunk : Unlocked(c)' <=> Unlocked(c)
      BY <2>1, <2>2 DEF Unlocked
    <2>4. QED
      BY <1>2, <1>4, <2>1, <2>2, <2>3 DEF OwnInv, PromoteInv
  <1>8. SecondaryInv'
    <2>1. \A v \in Worker : pc'[v] # "idle" => v # w
      BY <1>1
    <2>2. ASSUME NEW c \in Chunk, NEW k \in Secondary,
                 \/ chunk'[c].status \in {"ABSENT", "PENDING"}
                 \/ ChunkTask(c) \in queue'
                 \/ \E v \in Worker : task'[v] = ChunkTask(c) /\ pc'[v] \in EarlyLabels
          PROVE  ~Live(SecondaryTask(k, c))'
      BY <1>1, <1>2, <1>4, <2>2 DEF OwnInv, SecondaryInv, EarlyLabels
    <2>3. ASSUME NEW v \in Worker, NEW k \in Secondary, pc'[v] \in RunLabels
          PROVE  /\ pc'[v] # "defer" => chunkView'[v].task[k] = "PENDING"
                 /\ chunkView'[v].task[k] = "PENDING"
                      => ~Live(SecondaryTask(k, Mine(v)))'
      <3>1. v # w
        BY <2>3, <1>1 DEF RunLabels
      <3>2. Mine(v) \in Chunk
        BY <3>1, <2>3, <1>1, MineForms DEF Loaded, ChunkLabels
      <3>3. QED
        BY <3>1, <3>2, <2>3, <1>1, <1>2, <1>3, <1>4 DEF OwnInv, SecondaryInv
    <2>4. QED
      BY <2>2, <2>3 DEF SecondaryInv, EarlyLabels
  <1>9. RunOnce'
    BY <1>1 DEF OwnInv, RunOnce
  <1>10. QED
    BY <1>5, <1>6, <1>7, <1>8, <1>9 DEF OwnInv

\* Nothing the dispatch invariant is about changes.
LEMMA OwnStill ==
  ASSUME OwnInv, UNCHANGED <<queue, task, cursor, chunk, chunkView, pc>>
  PROVE  OwnInv'
  BY DEF OwnInv, SplitInv, RowInv, PromoteInv, SecondaryInv, RunOnce,
         Live, Unlocked, Mine

LEMMA OwnFailChunk ==
  ASSUME TypeOK, PlaceInv, OwnInv, NEW w \in Worker, FailChunk(w),
         pc[w] \in RunLabels \ {"promote_commit"}
  PROVE  OwnInv'
  <1>1. Mine(w) \in Chunk
    BY MineForms DEF Loaded, ChunkLabels
  <1>2. chunk[Mine(w)].status \notin {"ABSENT", "PENDING"}
    BY DEF OwnInv, RowInv
  <1>3. chunk'[Mine(w)].status = "FAILED"
    BY <1>1, MineType DEF FailChunk, CommitChunk, AsFailed, TypeOK, ChunkRow
  <1>4. \A c \in Chunk \ {Mine(w)} : chunk'[c] = chunk[c]
    BY DEF FailChunk, CommitChunk, TypeOK
  <1>5. \A v \in Worker \ {w} : chunkView'[v] = chunkView[v]
    BY DEF FailChunk, CommitChunk, TypeOK
  <1>6. /\ Goto(w, "complete")
        /\ UNCHANGED <<queue, task, cursor>>
    BY DEF FailChunk
  <1>7. /\ "complete" \in Loaded
        /\ "complete" \notin EarlyLabels \cup RunLabels
        /\ pc[w] \in Loaded \ {"promote_commit"}
    BY DEF Loaded, ChunkLabels, RunLabels, EarlyLabels, EndLabels
  <1>8. QED
    BY <1>1, <1>2, <1>3, <1>4, <1>5, <1>6, <1>7, OwnMove

\* The import's worker moves on and writes nothing the invariant is about.
LEMMA OwnImportMove ==
  ASSUME TypeOK, PlaceInv, OwnInv, NEW w \in Worker, NEW label \in ImportLabels,
         Goto(w, label), UNCHANGED <<queue, task, cursor, chunk, chunkView>>,
         pc[w] \in {"import", "import_begin", "split"}
  PROVE  OwnInv'
  <1>1. pc'[w] = label /\ \A v \in Worker \ {w} : pc'[v] = pc[v]
    BY DEF Goto, TypeOK
  <1>2. \A t : Live(t)' <=> Live(t)
    BY DEF Live
  <1>3. \A v \in Worker : Mine(v)' = Mine(v)
    BY DEF Mine
  <1>4. label \notin Loaded \cup RunLabels \cup EndLabels \cup EarlyLabels
    BY DEF ImportLabels, Loaded, ChunkLabels, RunLabels, TaskLabels, EndLabels,
           EarlyLabels
  <1>5. label # "promote_commit" /\ pc[w] # "promote_commit"
    BY DEF ImportLabels
  <1>6. SplitInv'
    BY <1>1, <1>2 DEF OwnInv, SplitInv
  <1>7. RowInv'
    BY <1>1, <1>3, <1>4 DEF OwnInv, RowInv
  <1>8. PromoteInv'
    BY <1>1, <1>2, <1>5 DEF OwnInv, PromoteInv, Unlocked
  <1>9. SecondaryInv'
    BY <1>1, <1>2, <1>3, <1>4 DEF OwnInv, SecondaryInv, EarlyLabels
  <1>10. RunOnce'
    BY DEF OwnInv, RunOnce
  <1>11. QED
    BY <1>6, <1>7, <1>8, <1>9, <1>10 DEF OwnInv

\* The worker running the import is the only one with a live task.
LEMMA SplitAlone ==
  ASSUME TypeOK, PlaceInv, OwnInv, NEW w \in Worker, pc[w] \in ImportLabels
  PROVE  /\ task[w] = ImportTask /\ Live(ImportTask) /\ ImportTask \notin queue
         /\ \A v \in Worker \ {w} : task[v] # ImportTask /\ pc[v] \notin ImportLabels
         /\ \A c \in Chunk : chunk[c].status = "ABSENT"
         /\ \A c \in Chunk : \A k \in Secondary : ~Live(SecondaryTask(k, c))
         /\ \A v \in Worker : pc[v] \notin Loaded
  <1>1. task[w] = ImportTask /\ ImportTask # NoTask
    BY TaskTypes DEF PlaceInv
  <1>2. Live(ImportTask)
    BY <1>1 DEF Live
  <1>3. /\ ImportTask \notin queue
        /\ \A v \in Worker \ {w} : task[v] # ImportTask
    BY <1>1 DEF OwnInv, RunOnce
  <1>4. \A c \in Chunk : chunk[c].status = "ABSENT"
    BY <1>2 DEF OwnInv, SplitInv
  <1>5. \A c \in Chunk : \A k \in Secondary : ~Live(SecondaryTask(k, c))
    BY <1>4 DEF OwnInv, SecondaryInv
  <1>6. \A v \in Worker : pc[v] \notin Loaded
    BY <1>4, MineForms DEF OwnInv, RowInv
  <1>7. QED
    BY <1>1, <1>2, <1>3, <1>4, <1>5, <1>6 DEF PlaceInv

LEMMA OwnSplitDefer ==
  ASSUME TypeOK, PlaceInv, OwnInv, NEW w \in Worker, SplitDefer(w)
  PROVE  OwnInv'
  <1> DEFINE c0 == cursor[w] + 1
  <1>1. /\ c0 \in Chunk /\ cursor[w] \in Nat
        /\ \A v \in Worker \ {w} : cursor'[v] = cursor[v]
        /\ cursor'[w] = c0
    BY ParametersAssumption
       DEF SplitDefer, SplitMore, InitialLimit, Smaller, Larger, TypeOK, Chunk
  <1>2. /\ pc[w] = "split" /\ pc[w] \in ImportLabels
        /\ queue' = queue \cup {ChunkTask(c0)}
        /\ UNCHANGED <<pc, task, chunk, chunkView>>
    BY DEF SplitDefer, At, ImportLabels
  <1>3. ~Live(ChunkTask(c0))
    BY <1>1, <1>2 DEF OwnInv, SplitInv, Chunk
  <1>4. \A t : Live(t)' <=> Live(t) \/ t = ChunkTask(c0)
    BY <1>2 DEF Live
  <1>5. ChunkTask(c0) # ImportTask /\ ChunkTask(c0) # NoTask
    BY <1>1, TaskTypes, TaskForms
  <1>6. SplitInv'
    <2>1. \A v \in Worker : pc'[v] \in ImportLabels => v = w
      BY <1>2, SplitAlone
    <2>2. ASSUME NEW c \in Chunk, c > cursor'[w]
          PROVE  ~Live(ChunkTask(c))'
      <3>1. c # c0 /\ c > cursor[w]
        BY <2>2, <1>1 DEF Chunk
      <3>2. ~Live(ChunkTask(c))
        BY <3>1, <1>2 DEF OwnInv, SplitInv
      <3>3. QED
        BY <3>1, <3>2, <1>1, <1>4, TaskForms
    <2>3. QED
      BY <1>2, <1>4, <1>5, <2>1, <2>2, SplitAlone DEF SplitInv, ImportLabels
  <1>7. RowInv'
    BY <1>2 DEF OwnInv, RowInv, Mine
  <1>8. PromoteInv'
    BY <1>2, SplitAlone DEF PromoteInv, Loaded, ChunkLabels, RunLabels
  <1>9. SecondaryInv'
    <2>1. \A c \in Chunk : \A k \in Secondary : ~Live(SecondaryTask(k, c))'
      BY <1>1, <1>2, <1>4, SplitAlone, TaskForms
    <2>2. \A v \in Worker : pc'[v] \notin RunLabels
      BY <1>2, SplitAlone DEF Loaded, ChunkLabels
    <2>3. QED
      BY <2>1, <2>2 DEF SecondaryInv
  <1>10. RunOnce'
    BY <1>2, <1>3 DEF OwnInv, RunOnce, Live
  <1>11. QED
    BY <1>6, <1>7, <1>8, <1>9, <1>10 DEF OwnInv

LEMMA OwnSplitCommit ==
  ASSUME TypeOK, PlaceInv, OwnInv, NEW w \in Worker, SplitCommit(w)
  PROVE  OwnInv'
  <1>1. /\ pc[w] = "split" /\ pc[w] \in ImportLabels
        /\ UNCHANGED queue /\ Close(w)
    BY DEF SplitCommit, At, ImportLabels
  <1>2. /\ pc'[w] = "idle" /\ task'[w] = NoTask
        /\ \A v \in Worker \ {w} : pc'[v] = pc[v] /\ task'[v] = task[v]
    BY <1>1 DEF Close, Goto, TypeOK
  <1>3. \A c \in Chunk : chunk'[c].status =
                           IF c <= cursor[w] THEN "QUEUED" ELSE "PENDING"
    BY DEF SplitCommit, NoRow
  <1>4. ~Live(ImportTask)'
    BY <1>1, <1>2, TaskTypes, SplitAlone DEF Live
  <1>5. \A v \in Worker : pc'[v] \notin Loaded \cup ImportLabels
    BY <1>1, <1>2, SplitAlone
       DEF Loaded, ImportLabels, ChunkLabels, RunLabels, TaskLabels, EndLabels
  <1>6. \A t : t # NoTask /\ Live(t)' => Live(t)
    BY <1>1, <1>2 DEF Live
  <1>7. SplitInv'
    BY <1>4, <1>5 DEF SplitInv, Live, ImportLabels
  <1>8. RowInv'
    BY <1>5 DEF RowInv, Loaded, ChunkLabels
  <1>9. PromoteInv'
    <2>1. ASSUME NEW c \in Chunk, chunk'[c].status = "PENDING"
          PROVE  ~Live(ChunkTask(c))'
      <3>1. cursor[w] \in Int /\ c \in Int
        BY DEF TypeOK, Chunk
      <3>2. c > cursor[w]
        BY <1>3, <2>1, <3>1
      <3>3. ~Live(ChunkTask(c))
        BY <1>1, <3>2 DEF OwnInv, SplitInv
      <3>4. QED
        BY <1>6, <3>3, TaskTypes, TaskForms
    <2>2. \A v \in Worker : pc'[v] # "promote_commit"
      BY <1>5 DEF Loaded, ChunkLabels, RunLabels
    <2>3. QED
      BY <2>1, <2>2 DEF PromoteInv
  <1>10. SecondaryInv'
    <2>1. \A c \in Chunk : \A k \in Secondary : ~Live(SecondaryTask(k, c))'
      BY <1>1, <1>6, SplitAlone, TaskTypes, TaskForms
    <2>2. QED
      BY <2>1, <1>5 DEF SecondaryInv, Loaded, ChunkLabels
  <1>11. RunOnce'
    BY <1>1, <1>2 DEF OwnInv, RunOnce
  <1>12. QED
    BY <1>7, <1>8, <1>9, <1>10, <1>11 DEF OwnInv

LEMMA OwnImport ==
  ASSUME TypeOK, PlaceInv, OwnInv, NEW w \in Worker, ImportStep(w)
  PROVE  OwnInv'
  <1> USE DEF At, shared, ImportLabels
  <1>1. CASE ImportLoad(w)
    BY <1>1, OwnImportMove DEF ImportLoad
  <1>2. CASE ImportSkipCancelled(w)
    BY <1>2, OwnClose DEF ImportSkipCancelled
  <1>3. CASE ImportBegin(w)
    BY <1>3, OwnImportMove DEF ImportBegin
  <1>4. CASE SplitDefer(w)
    BY <1>4, OwnSplitDefer
  <1>5. CASE SplitCommit(w)
    BY <1>5, OwnSplitCommit
  <1>6. CASE SplitFail(w)
    BY <1>6, OwnImportMove DEF SplitFail
  <1>7. CASE ImportFailed(w)
    BY <1>7, OwnClose DEF ImportFailed
  <1>8. QED
    BY <1>1, <1>2, <1>3, <1>4, <1>5, <1>6, <1>7 DEF ImportStep

LEMMA OwnStart ==
  ASSUME TypeOK, PlaceInv, OwnInv, NEW w \in Worker, TakeTask(w)
  PROVE  OwnInv'
  <1>1. PICK t \in queue :
          /\ queue' = queue \ {t}
          /\ task' = [task EXCEPT ![w] = t]
          /\ Goto(w, IF t = ImportTask THEN "import" ELSE "load_chunk")
    BY DEF TakeTask
  <1>2. /\ pc[w] = "idle" /\ task[w] = NoTask
        /\ UNCHANGED <<chunk, chunkView, cursor>>
        /\ cursor[w] = 0
    BY DEF TakeTask, At, PlaceInv
  <1>3. /\ t # NoTask
        /\ t = ImportTask \/ t \in Task
    BY TaskTypes DEF TypeOK
  <1>4. /\ task'[w] = t
        /\ pc'[w] = IF t = ImportTask THEN "import" ELSE "load_chunk"
        /\ \A v \in Worker \ {w} : pc'[v] = pc[v] /\ task'[v] = task[v]
    BY <1>1 DEF Goto, TypeOK
  <1>5. \A u : u # NoTask => (Live(u)' <=> Live(u))
    BY <1>1, <1>2, <1>4 DEF Live
  <1>6. /\ ImportTask # NoTask
        /\ \A c \in Chunk : ChunkTask(c) # NoTask
        /\ \A c \in Chunk : \A k \in Secondary : SecondaryTask(k, c) # NoTask
    BY TaskTypes, TaskForms
  <1>7. \A v \in Worker \ {w} : Mine(v)' = Mine(v)
    BY <1>4 DEF Mine
  <1>8. SplitInv'
    <2>1. \A c \in Chunk : t = ImportTask => ~Live(ChunkTask(c))
      BY DEF OwnInv, SplitInv
    <2>2. QED
      BY <1>1, <1>2, <1>4, <1>5, <1>6, <2>1 DEF OwnInv, SplitInv
  <1>9. RowInv'
    BY <1>2, <1>4, <1>7 DEF OwnInv, RowInv, Loaded, ChunkLabels, RunLabels,
                            TaskLabels, EndLabels
  <1>10. PromoteInv'
    <2>1. \A v \in Worker : pc'[v] = "promote_commit" <=> pc[v] = "promote_commit"
      BY <1>2, <1>4
    <2>2. QED
      BY <1>2, <1>5, <1>6, <2>1 DEF OwnInv, PromoteInv, Unlocked
  <1>11. SecondaryInv'
    <2>1. ASSUME NEW c \in Chunk, NEW k \in Secondary,
                 \/ chunk'[c].status \in {"ABSENT", "PENDING"}
                 \/ ChunkTask(c) \in queue'
                 \/ \E v \in Worker : task'[v] = ChunkTask(c) /\ pc'[v] \in EarlyLabels
          PROVE  ~Live(SecondaryTask(k, c))'
      BY <1>1, <1>2, <1>4, <1>5, <1>6, <2>1 DEF OwnInv, SecondaryInv, EarlyLabels
    <2>2. ASSUME NEW v \in Worker, NEW k \in Secondary, pc'[v] \in RunLabels
          PROVE  /\ pc'[v] # "defer" => chunkView'[v].task[k] = "PENDING"
                 /\ chunkView'[v].task[k] = "PENDING"
                      => ~Live(SecondaryTask(k, Mine(v)))'
      <3>1. v # w
        BY <2>2, <1>4 DEF RunLabels
      <3>2. Mine(v) \in Chunk
        BY <3>1, <2>2, <1>4, MineForms DEF Loaded, ChunkLabels
      <3>3. QED
        BY <3>1, <3>2, <2>2, <1>2, <1>4, <1>5, <1>6, <1>7 DEF OwnInv, SecondaryInv
    <2>3. QED
      BY <2>1, <2>2 DEF SecondaryInv, EarlyLabels
  <1>12. RunOnce'
    BY <1>1, <1>4 DEF OwnInv, RunOnce
  <1>13. QED
    BY <1>8, <1>9, <1>10, <1>11, <1>12 DEF OwnInv

LEMMA OwnLoadChunk ==
  ASSUME TypeOK, PlaceInv, OwnInv, NEW w \in Worker, LoadChunk(w)
  PROVE  OwnInv'
  <1>1. CASE ~Workable(task[w], chunk[Mine(w)])
    BY <1>1, OwnClose DEF LoadChunk, At, shared
  <1>2. CASE Workable(task[w], chunk[Mine(w)])
    <2>1. /\ pc[w] = "load_chunk"
          /\ chunk[Mine(w)].status # "ABSENT"
          /\ Goto(w, "load_job")
          /\ UNCHANGED <<queue, chunk, task, cursor>>
          /\ chunkView' = [chunkView EXCEPT ![w] = chunk[Mine(w)]]
      BY <1>2 DEF LoadChunk, At, Workable, shared
    <2>2. /\ pc'[w] = "load_job"
          /\ \A v \in Worker \ {w} : pc'[v] = pc[v] /\ chunkView'[v] = chunkView[v]
      BY <2>1 DEF Goto, TypeOK
    <2>3. \A t : Live(t)' <=> Live(t)
      BY <2>1 DEF Live
    <2>4. \A v \in Worker : Mine(v)' = Mine(v)
      BY <2>1 DEF Mine
    <2>5. SplitInv'
      BY <2>1, <2>2, <2>3 DEF OwnInv, SplitInv
    <2>6. RowInv'
      BY <2>1, <2>2, <2>4 DEF OwnInv, RowInv, RunLabels, EndLabels
    <2>7. PromoteInv'
      <3>1. \A v \in Worker : pc'[v] = "promote_commit" <=> pc[v] = "promote_commit"
        BY <2>1, <2>2
      <3>2. QED
        BY <2>1, <2>3, <3>1 DEF OwnInv, PromoteInv, Unlocked
    <2>8. SecondaryInv'
      <3>1. \A v \in Worker : pc'[v] \in EarlyLabels <=> pc[v] \in EarlyLabels
        BY <2>1, <2>2 DEF EarlyLabels
      <3>2. \A v \in Worker : pc'[v] \in RunLabels =>
              pc'[v] = pc[v] /\ chunkView'[v] = chunkView[v]
        BY <2>2 DEF RunLabels
      <3>3. QED
        BY <2>1, <2>3, <2>4, <3>1, <3>2 DEF OwnInv, SecondaryInv, EarlyLabels
    <2>9. RunOnce'
      BY <2>1 DEF OwnInv, RunOnce
    <2>10. QED
      BY <2>5, <2>6, <2>7, <2>8, <2>9 DEF OwnInv
  <1>3. QED
    BY <1>1, <1>2

LEMMA OwnChunkBegin ==
  ASSUME TypeOK, PlaceInv, OwnInv, NEW w \in Worker,
         ChunkBegin(w) \/ ChunkSkip(w)
  PROVE  OwnInv'
  <1> DEFINE c0 == Mine(w)
  <1>1. PICK label \in {"range", "complete"} :
          /\ Goto(w, label)
          /\ label = "range" => chunkView' = [chunkView EXCEPT ![w] = AsStarted(chunkView[w])]
    BY DEF ChunkBegin, ChunkSkip, CommitChunk
  <1>2. /\ pc[w] = "chunk_begin" /\ Unlocked(c0)
        /\ UNCHANGED <<queue, task, cursor>>
    BY DEF ChunkBegin, ChunkSkip, At
  <1>3. c0 \in Chunk /\ task[w] = ChunkTask(c0) /\ chunk[c0] \in ChunkRow
    BY <1>2, MineForms, MineType DEF Loaded, ChunkLabels
  <1>4. /\ chunk'[c0].status \notin {"ABSENT", "PENDING"}
        /\ \A c \in Chunk \ {c0} : chunk'[c] = chunk[c]
        /\ \A v \in Worker \ {w} : chunkView'[v] = chunkView[v]
    <2>1. \/ CommitChunk(w, AsStarted(chunk[c0]), AsStarted(chunkView[w]))
          \/ CommitChunk(w, AsCancelled(chunk[c0]), AsCancelled(chunkView[w]))
      BY DEF ChunkBegin, ChunkSkip
    <2>2. /\ AsStarted(chunk[c0]).status \notin {"ABSENT", "PENDING"}
          /\ AsCancelled(chunk[c0]).status \notin {"ABSENT", "PENDING"}
      BY <1>3 DEF AsStarted, AsCancelled, ChunkRow
    <2>3. QED
      BY <1>3, <2>1, <2>2 DEF CommitChunk, TypeOK
  <1>5. chunk[c0].status \notin {"ABSENT", "PENDING"}
    BY <1>2, <1>3 DEF OwnInv, RowInv, PromoteInv, Live, Loaded, ChunkLabels
  <1>6. /\ pc'[w] = label
        /\ \A v \in Worker \ {w} : pc'[v] = pc[v]
    BY <1>1 DEF Goto, TypeOK
  <1>7. \A t : Live(t)' <=> Live(t)
    BY <1>2 DEF Live
  <1>8. \A v \in Worker : Mine(v)' = Mine(v)
    BY <1>2 DEF Mine
  <1>9. \A c \in Chunk :
          /\ chunk'[c].status = "ABSENT" <=> chunk[c].status = "ABSENT"
          /\ chunk'[c].status = "PENDING" <=> chunk[c].status = "PENDING"
    BY <1>4, <1>5
  <1>10. SplitInv'
    BY <1>2, <1>6, <1>7, <1>9 DEF OwnInv, SplitInv
  <1>11. RowInv'
    <2>1. \A v \in Worker : pc[v] \in Loaded => Mine(v) \in Chunk
      BY MineForms
    <2>2. QED
      BY <1>2, <1>3, <1>4, <1>6, <1>8, <1>9, <2>1
         DEF OwnInv, RowInv, Loaded, ChunkLabels, EndLabels
  <1>12. PromoteInv'
    <2>1. \A v \in Worker : pc'[v] = "promote_commit" <=> pc[v] = "promote_commit"
      BY <1>2, <1>6
    <2>2. QED
      BY <1>2, <1>7, <1>9, <2>1 DEF OwnInv, PromoteInv, Unlocked
  <1>13. SecondaryInv'
    <2>1. \A v \in Worker : pc'[v] \in EarlyLabels => pc[v] \in EarlyLabels
      BY <1>2, <1>6 DEF EarlyLabels
    <2>2. \A k \in Secondary : ~Live(SecondaryTask(k, c0))
      BY <1>2, <1>3 DEF OwnInv, SecondaryInv
    <2>3. label = "range" =>
            \A k \in Secondary : chunkView'[w].task[k] = "PENDING"
      <3>1. chunkView[w] \in ChunkRow
        BY DEF TypeOK
      <3>2. \A k \in Secondary : AsStarted(chunkView[w]).task[k] = "PENDING"
        BY <3>1 DEF AsStarted, AllTasks, ChunkRow
      <3>3. QED
        BY <1>1, <3>2 DEF TypeOK
    <2>4. ASSUME NEW c \in Chunk, NEW k \in Secondary,
                 \/ chunk'[c].status \in {"ABSENT", "PENDING"}
                 \/ ChunkTask(c) \in queue'
                 \/ \E v \in Worker : task'[v] = ChunkTask(c) /\ pc'[v] \in EarlyLabels
          PROVE  ~Live(SecondaryTask(k, c))'
      BY <1>2, <1>7, <1>9, <2>1, <2>4 DEF OwnInv, SecondaryInv, EarlyLabels
    <2>5. ASSUME NEW v \in Worker, NEW k \in Secondary, pc'[v] \in RunLabels
          PROVE  /\ pc'[v] # "defer" => chunkView'[v].task[k] = "PENDING"
                 /\ chunkView'[v].task[k] = "PENDING"
                      => ~Live(SecondaryTask(k, Mine(v)))'
      <3>1. CASE v = w
        <4>1. label = "range"
          BY <2>5, <3>1, <1>6 DEF RunLabels
        <4>2. QED
          BY <3>1, <4>1, <1>7, <1>8, <2>2, <2>3
      <3>2. CASE v # w
        BY <3>2, <2>5, <1>4, <1>6, <1>7, <1>8 DEF OwnInv, SecondaryInv
      <3>3. QED
        BY <3>1, <3>2
    <2>6. QED
      BY <2>4, <2>5, <1>8 DEF SecondaryInv, EarlyLabels
  <1>14. RunOnce'
    BY <1>2 DEF OwnInv, RunOnce
  <1>15. QED
    BY <1>10, <1>11, <1>12, <1>13, <1>14 DEF OwnInv

LEMMA OwnPromoteDefer ==
  ASSUME TypeOK, PlaceInv, OwnInv, NEW w \in Worker, PromoteDefer(w)
  PROVE  OwnInv'
  <1>1. PICK c0 \in Chunk :
          /\ chunk[c0].status = "PENDING" /\ Unlocked(c0)
          /\ cursor' = [cursor EXCEPT ![w] = c0]
          /\ queue' = queue \cup {ChunkTask(c0)}
    BY DEF PromoteDefer, Foremost, Promotable
  <1>2. /\ pc[w] = "promote" /\ Goto(w, "promote_commit")
        /\ UNCHANGED <<chunk, task, chunkView>>
    BY DEF PromoteDefer, At
  <1>3. /\ pc'[w] = "promote_commit" /\ cursor'[w] = c0
        /\ \A v \in Worker \ {w} : pc'[v] = pc[v] /\ cursor'[v] = cursor[v]
    BY <1>1, <1>2 DEF Goto, TypeOK
  <1>4. ~Live(ChunkTask(c0))
    BY <1>1 DEF OwnInv, PromoteInv
  <1>5. \A t : Live(t)' <=> Live(t) \/ t = ChunkTask(c0)
    BY <1>1, <1>2 DEF Live
  <1>6. ChunkTask(c0) # ImportTask /\ ChunkTask(c0) # NoTask
    BY TaskTypes, TaskForms
  <1>7. \A v \in Worker : Mine(v)' = Mine(v)
    BY <1>2 DEF Mine
  <1>8. \A v \in Worker : pc[v] \notin ImportLabels
    BY <1>1, SplitAlone
  <1>9. ~Live(ImportTask)
    BY <1>1 DEF OwnInv, SplitInv
  <1>10. SplitInv'
    BY <1>3, <1>5, <1>6, <1>8, <1>9 DEF SplitInv, ImportLabels, Live
  <1>11. RowInv'
    BY <1>2, <1>3, <1>7 DEF OwnInv, RowInv, Loaded, ChunkLabels, RunLabels
  <1>12. PromoteInv'
    <2>1. \A v \in Worker \ {w} : pc[v] = "promote_commit" => cursor[v] # c0
      BY <1>1 DEF Unlocked
    <2>2. \A v \in Worker \ {w} : pc'[v] = "promote_commit" <=> pc[v] = "promote_commit"
      BY <1>3
    <2>3. ASSUME NEW c \in Chunk, chunk'[c].status = "PENDING", Live(ChunkTask(c))'
          PROVE  ~Unlocked(c)'
      <3>1. CASE c = c0
        BY <3>1, <1>3 DEF Unlocked
      <3>2. CASE c # c0
        <4>1. ~Unlocked(c)
          BY <3>2, <2>3, <1>2, <1>5, TaskForms DEF OwnInv, PromoteInv
        <4>2. PICK v \in Worker : pc[v] = "promote_commit" /\ cursor[v] = c
          BY <4>1 DEF Unlocked
        <4>3. QED
          BY <4>2, <1>2, <1>3 DEF Unlocked
      <3>3. QED
        BY <3>1, <3>2
    <2>4. QED
      BY <1>1, <1>2, <1>3, <2>1, <2>2, <2>3 DEF OwnInv, PromoteInv
  <1>13. SecondaryInv'
    <2>1. \A k \in Secondary : ~Live(SecondaryTask(k, c0))
      BY <1>1 DEF OwnInv, SecondaryInv
    <2>2. \A c \in Chunk : \A k \in Secondary :
            Live(SecondaryTask(k, c))' <=> Live(SecondaryTask(k, c))
      BY <1>5, TaskForms
    <2>3. ASSUME NEW c \in Chunk, NEW k \in Secondary,
                 \/ chunk'[c].status \in {"ABSENT", "PENDING"}
                 \/ ChunkTask(c) \in queue'
                 \/ \E v \in Worker : task'[v] = ChunkTask(c) /\ pc'[v] \in EarlyLabels
          PROVE  ~Live(SecondaryTask(k, c))'
      <3>1. CASE c = c0
        BY <3>1, <2>1, <2>2
      <3>2. CASE c # c0
        <4>1. ChunkTask(c) \in queue' => ChunkTask(c) \in queue
          BY <3>2, <1>1, TaskForms
        <4>2. \A v \in Worker : pc'[v] \in EarlyLabels => pc[v] \in EarlyLabels
          BY <1>3 DEF EarlyLabels
        <4>3. QED
          BY <4>1, <4>2, <2>2, <2>3, <1>2 DEF OwnInv, SecondaryInv, EarlyLabels
      <3>3. QED
        BY <3>1, <3>2
    <2>4. ASSUME NEW v \in Worker, NEW k \in Secondary, pc'[v] \in RunLabels
          PROVE  /\ pc'[v] # "defer" => chunkView'[v].task[k] = "PENDING"
                 /\ chunkView'[v].task[k] = "PENDING"
                      => ~Live(SecondaryTask(k, Mine(v)))'
      <3>1. pc[v] \in RunLabels /\ (pc'[v] # "defer" => pc[v] # "defer")
        BY <2>4, <1>2, <1>3 DEF RunLabels
      <3>2. Mine(v) \in Chunk
        BY <3>1, MineForms DEF Loaded, ChunkLabels
      <3>3. QED
        BY <3>1, <3>2, <2>2, <1>2, <1>7 DEF OwnInv, SecondaryInv
    <2>5. QED
      BY <2>3, <2>4, <1>7 DEF SecondaryInv, EarlyLabels
  <1>14. RunOnce'
    BY <1>1, <1>2, <1>4 DEF OwnInv, RunOnce, Live
  <1>15. QED
    BY <1>10, <1>11, <1>12, <1>13, <1>14 DEF OwnInv

LEMMA OwnPromoteCommit ==
  ASSUME TypeOK, PlaceInv, OwnInv, NEW w \in Worker, PromoteCommit(w)
  PROVE  OwnInv'
  <1> DEFINE c0 == cursor[w]
  <1>1. /\ pc[w] = "promote_commit"
        /\ chunk' = [chunk EXCEPT ![cursor[w]].status = "QUEUED"]
        /\ UNCHANGED <<queue, task, chunkView>>
    BY DEF PromoteCommit, At
  <1>2. /\ pc'[w] = "defer"
        /\ \A v \in Worker \ {w} : pc'[v] = pc[v] /\ cursor'[v] = cursor[v]
    BY DEF PromoteCommit, Goto, TypeOK
  <1>3. /\ c0 \in Chunk /\ chunk[c0].status = "PENDING" /\ chunk[c0] \in ChunkRow
        /\ \A v \in Worker \ {w} : pc[v] = "promote_commit" => cursor[v] # c0
    BY <1>1 DEF OwnInv, PromoteInv, TypeOK
  <1>4. /\ chunk'[c0].status = "QUEUED"
        /\ \A c \in Chunk \ {c0} : chunk'[c] = chunk[c]
    <2>1. \A c \in Chunk \ {c0} : chunk'[c] = chunk[c]
      BY <1>1 DEF TypeOK
    <2>2. chunk'[c0] = [chunk[c0] EXCEPT !.status = "QUEUED"]
      BY <1>1, <1>3 DEF TypeOK
    <2>3. QED
      BY <2>1, <2>2, <1>3 DEF ChunkRow
  <1>5. \A t : Live(t)' <=> Live(t)
    BY <1>1 DEF Live
  <1>6. \A v \in Worker : Mine(v)' = Mine(v)
    BY <1>1 DEF Mine
  <1>7. \A v \in Worker : pc[v] \in Loaded => Mine(v) \in Chunk
    BY MineForms
  <1>8. ~Live(ImportTask) /\ \A v \in Worker : pc[v] \notin ImportLabels
    BY <1>3, SplitAlone DEF OwnInv, SplitInv
  <1>9. SplitInv'
    BY <1>1, <1>2, <1>5, <1>8 DEF SplitInv, ImportLabels, Live
  <1>10. RowInv'
    <2>1. Mine(w) # c0
      BY <1>1, <1>3 DEF OwnInv, RowInv, RunLabels
    <2>2. QED
      BY <2>1, <1>1, <1>2, <1>4, <1>6, <1>7
         DEF OwnInv, RowInv, Loaded, ChunkLabels, RunLabels
  <1>11. PromoteInv'
    <2>1. \A v \in Worker : pc'[v] = "promote_commit" <=>
                              v # w /\ pc[v] = "promote_commit"
      BY <1>1, <1>2
    <2>2. \A c \in Chunk \ {c0} : Unlocked(c)' <=> Unlocked(c)
      BY <2>1, <1>2 DEF Unlocked
    <2>3. QED
      BY <1>2, <1>3, <1>4, <1>5, <2>1, <2>2 DEF OwnInv, PromoteInv
  <1>12. SecondaryInv'
    <2>1. \A v \in Worker : pc'[v] \in EarlyLabels => pc[v] \in EarlyLabels
      BY <1>2 DEF EarlyLabels
    <2>2. \A v \in Worker : pc'[v] \in RunLabels =>
            pc[v] \in RunLabels /\ (pc'[v] # "defer" => pc[v] # "defer")
      BY <1>1, <1>2 DEF RunLabels
    <2>3. \A c \in Chunk : chunk'[c].status \in {"ABSENT", "PENDING"}
                             => chunk[c].status \in {"ABSENT", "PENDING"}
      BY <1>4
    <2>4. QED
      BY <1>1, <1>5, <1>6, <2>1, <2>2, <2>3 DEF OwnInv, SecondaryInv, EarlyLabels
  <1>13. RunOnce'
    BY <1>1 DEF OwnInv, RunOnce
  <1>14. QED
    BY <1>9, <1>10, <1>11, <1>12, <1>13 DEF OwnInv

LEMMA OwnSecondaryDefer ==
  ASSUME TypeOK, PlaceInv, OwnInv, NEW w \in Worker, SecondaryDefer(w)
  PROVE  OwnInv'
  <1> DEFINE c0 == Mine(w)
  <1>1. PICK k0 \in Secondary :
          /\ chunkView[w].task[k0] = "PENDING"
          /\ \/ /\ queue' = queue \cup {SecondaryTask(k0, c0)}
                /\ chunkView' = [chunkView EXCEPT ![w].task[k0] = "QUEUED"]
             \/ /\ UNCHANGED queue
                /\ chunkView' = [chunkView EXCEPT ![w].task[k0] = "COMPLETED"]
    BY DEF SecondaryDefer, NextSecondary, Secondary, SecondaryTask
  <1>2. /\ pc[w] = "defer" /\ pc[w] \in RunLabels
        /\ UNCHANGED <<chunk, pc, task, cursor>>
    BY DEF SecondaryDefer, At, RunLabels
  <1>3. c0 \in Chunk /\ task[w] = ChunkTask(c0) /\ task[w] # NoTask
    BY <1>2, MineForms DEF Loaded, ChunkLabels
  <1>4. /\ chunkView'[w].task[k0] # "PENDING"
        /\ \A k \in Secondary \ {k0} : chunkView'[w].task[k] = chunkView[w].task[k]
        /\ \A v \in Worker \ {w} : chunkView'[v] = chunkView[v]
    <2>1. chunkView[w] \in ChunkRow
      BY DEF TypeOK
    <2>2. \/ chunkView'[w] = [chunkView[w] EXCEPT !.task[k0] = "QUEUED"]
          \/ chunkView'[w] = [chunkView[w] EXCEPT !.task[k0] = "COMPLETED"]
      BY <1>1 DEF TypeOK
    <2>3. \A v \in Worker \ {w} : chunkView'[v] = chunkView[v]
      BY <1>1 DEF TypeOK
    <2>4. QED
      BY <2>1, <2>2, <2>3 DEF ChunkRow
  <1>5. ~Live(SecondaryTask(k0, c0))
    BY <1>1, <1>2 DEF OwnInv, SecondaryInv
  <1>6. \A t : Live(t)' => Live(t) \/ t = SecondaryTask(k0, c0)
    BY <1>1, <1>2 DEF Live
  <1>7. \A v \in Worker : Mine(v)' = Mine(v)
    BY <1>2 DEF Mine
  <1>8. \A c \in Chunk : SecondaryTask(k0, c0) # ChunkTask(c)
    BY <1>3, TaskForms
  <1>9. SecondaryTask(k0, c0) # ImportTask
    BY <1>3, TaskTypes, TaskForms
  <1>10. SplitInv'
    <2>1. ImportTask \in queue' => ImportTask \in queue
      BY <1>1, <1>9
    <2>2. QED
      BY <1>2, <1>6, <1>8, <1>9, <2>1 DEF OwnInv, SplitInv
  <1>11. RowInv'
    BY <1>2, <1>7 DEF OwnInv, RowInv
  <1>12. PromoteInv'
    BY <1>2, <1>6, <1>8 DEF OwnInv, PromoteInv, Unlocked
  <1>13. SecondaryInv'
    <2>1. ASSUME NEW c \in Chunk, NEW k \in Secondary,
                 \/ chunk'[c].status \in {"ABSENT", "PENDING"}
                 \/ ChunkTask(c) \in queue'
                 \/ \E v \in Worker : task'[v] = ChunkTask(c) /\ pc'[v] \in EarlyLabels
          PROVE  ~Live(SecondaryTask(k, c))'
      <3>1. \/ chunk[c].status \in {"ABSENT", "PENDING"}
            \/ ChunkTask(c) \in queue
            \/ \E v \in Worker : task[v] = ChunkTask(c) /\ pc[v] \in EarlyLabels
        BY <2>1, <1>1, <1>2, <1>8
      <3>2. c # c0
        <4>1. chunk[c0].status \notin {"ABSENT", "PENDING"}
          BY <1>2 DEF OwnInv, RowInv
        <4>2. ChunkTask(c0) \notin queue /\ \A v \in Worker \ {w} : task[v] # ChunkTask(c0)
          BY <1>3 DEF OwnInv, RunOnce
        <4>3. pc[w] \notin EarlyLabels
          BY <1>2 DEF EarlyLabels
        <4>4. QED
          BY <3>1, <4>1, <4>2, <4>3
      <3>3. ~Live(SecondaryTask(k, c))
        BY <3>1 DEF OwnInv, SecondaryInv, EarlyLabels
      <3>4. QED
        BY <3>2, <3>3, <1>3, <1>6, TaskForms
    <2>2. ASSUME NEW v \in Worker, NEW k \in Secondary, pc'[v] \in RunLabels
          PROVE  /\ pc'[v] # "defer" => chunkView'[v].task[k] = "PENDING"
                 /\ chunkView'[v].task[k] = "PENDING"
                      => ~Live(SecondaryTask(k, Mine(v)))'
      <3>1. CASE v = w
        BY <3>1, <1>2, <1>3, <1>4, <1>6, <1>7, TaskForms DEF OwnInv, SecondaryInv
      <3>2. CASE v # w
        <4>1. Mine(v) \in Chunk /\ task[v] = ChunkTask(Mine(v))
          BY <2>2, <1>2, MineForms DEF Loaded, ChunkLabels
        <4>2. Mine(v) # c0
          BY <3>2, <4>1, <1>3 DEF OwnInv, RunOnce
        <4>3. QED
          BY <3>2, <2>2, <4>1, <4>2, <1>2, <1>3, <1>4, <1>6, <1>7, TaskForms
             DEF OwnInv, SecondaryInv
      <3>3. QED
        BY <3>1, <3>2
    <2>3. QED
      BY <2>1, <2>2, <1>7 DEF SecondaryInv, EarlyLabels
  <1>14. RunOnce'
    BY <1>1, <1>2, <1>5 DEF OwnInv, RunOnce, Live
  <1>15. QED
    BY <1>10, <1>11, <1>12, <1>13, <1>14 DEF OwnInv

\* What a commit leaves alone.
LEMMA CommitFrame ==
  ASSUME TypeOK, NEW w \in Worker, Mine(w) \in Chunk, NEW row, NEW view,
         CommitChunk(w, row, view)
  PROVE  /\ chunk'[Mine(w)] = row /\ chunkView'[w] = view
         /\ \A c \in Chunk \ {Mine(w)} : chunk'[c] = chunk[c]
         /\ \A v \in Worker \ {w} : chunkView'[v] = chunkView[v]
  BY DEF TypeOK, CommitChunk

LEMMA OwnChunk ==
  ASSUME TypeOK, PlaceInv, OwnInv, NEW w \in Worker, ChunkStep(w)
  PROVE  OwnInv'
  <1> USE DEF At, shared, Loaded, ChunkLabels, RunLabels, TaskLabels, EndLabels,
              EarlyLabels
  <1>0. pc[w] \in Loaded =>
          /\ Mine(w) \in Chunk
          /\ chunk[Mine(w)] \in ChunkRow /\ chunkView[w] \in ChunkRow
          /\ pc[w] \in RunLabels => chunk[Mine(w)].status \notin {"ABSENT", "PENDING"}
    BY MineType DEF OwnInv, RowInv
  <1>1. CASE LoadChunk(w)
    BY <1>1, OwnLoadChunk
  <1>2. CASE LoadJob(w)
    BY <1>2, OwnMove DEF LoadJob
  <1>3. CASE ChunkSkip(w)
    BY <1>3, OwnChunkBegin
  <1>4. CASE ChunkBegin(w)
    BY <1>4, OwnChunkBegin
  <1>5. CASE BatchCommit(w)
    <2>1. PICK written, grown, number :
            CommitChunk(w,
              [chunk[Mine(w)] EXCEPT !.manifest = written, !.imported = number],
              [chunkView[w] EXCEPT !.manifest = grown, !.imported = number])
      BY <1>5 DEF BatchCommit
    <2>2. /\ chunk'[Mine(w)].status = chunk[Mine(w)].status
          /\ chunkView'[w].task = chunkView[w].task
          /\ \A c \in Chunk \ {Mine(w)} : chunk'[c] = chunk[c]
          /\ \A v \in Worker \ {w} : chunkView'[v] = chunkView[v]
      <3>1. pc[w] \in Loaded
        BY <1>5 DEF BatchCommit
      <3>2. ASSUME NEW row \in ChunkRow, NEW m, NEW n
            PROVE  /\ [row EXCEPT !.manifest = m, !.imported = n].status = row.status
                   /\ [row EXCEPT !.manifest = m, !.imported = n].task = row.task
        BY DEF ChunkRow
      <3>3. /\ chunk'[Mine(w)] =
                 [chunk[Mine(w)] EXCEPT !.manifest = written, !.imported = number]
            /\ chunkView'[w] =
                 [chunkView[w] EXCEPT !.manifest = grown, !.imported = number]
            /\ \A c \in Chunk \ {Mine(w)} : chunk'[c] = chunk[c]
            /\ \A v \in Worker \ {w} : chunkView'[v] = chunkView[v]
        BY <1>0, <2>1, <3>1, CommitFrame
      <3>4. QED
        BY <1>0, <3>1, <3>2, <3>3
    <2>3. pc[w] = "range" /\ Goto(w, "refresh") /\ UNCHANGED <<queue, task, cursor>>
      BY <1>5 DEF BatchCommit
    <2>4. QED
      BY <1>0, <2>2, <2>3, OwnMove
  <1>6. CASE RefreshJob(w)
    <2>1. PICK label \in {"range", "range_cancelled", "promote"} : Goto(w, label)
      BY <1>6 DEF RefreshJob, AfterBatch
    <2>2. /\ pc[w] = "refresh"
          /\ UNCHANGED <<queue, task, cursor, chunk, chunkView>>
      BY <1>6 DEF RefreshJob
    <2>3. QED
      BY <1>0, <2>1, <2>2, OwnMove
  <1>7. CASE RangeCancelled(w)
    <2>1. /\ pc[w] = "range_cancelled" /\ Goto(w, "complete")
          /\ UNCHANGED <<queue, task, cursor>>
          /\ CommitChunk(w, AsCancelled(chunk[Mine(w)]), AsCancelled(chunkView[w]))
      BY <1>7 DEF RangeCancelled
    <2>2. AsCancelled(chunk[Mine(w)]).status = "CANCELLED"
      BY <1>0, <2>1 DEF AsCancelled, ChunkRow
    <2>3. QED
      BY <1>0, <2>1, <2>2, CommitFrame, OwnMove
  <1>8. CASE BatchFail(w)
    BY <1>8, OwnFailChunk DEF BatchFail
  <1>9. CASE DecodeFail(w)
    <2>1. /\ pc[w] = "range" /\ Goto(w, "complete")
          /\ UNCHANGED <<queue, task, cursor>>
          /\ CommitChunk(w, AsFailed(chunk[Mine(w)]), AsFailed(chunkView[w]))
      BY <1>9 DEF DecodeFail
    <2>2. AsFailed(chunk[Mine(w)]).status = "FAILED"
      BY <1>0, <2>1 DEF AsFailed, ChunkRow
    <2>3. QED
      BY <1>0, <2>1, <2>2, CommitFrame, OwnMove
  <1>10. CASE PromoteDefer(w)
    BY <1>10, OwnPromoteDefer
  <1>11. CASE PromoteCommit(w)
    BY <1>11, OwnPromoteCommit
  <1>12. CASE PromoteNone(w)
    <2>1. /\ pc[w] = "promote" /\ Goto(w, "defer")
          /\ UNCHANGED <<queue, task, cursor, chunk, chunkView>>
      BY <1>12 DEF PromoteNone
    <2>2. QED
      BY <1>0, <2>1, OwnMove
  <1>13. CASE SecondaryDefer(w)
    BY <1>13, OwnSecondaryDefer
  <1>14. CASE SecondaryPublish(w)
    <2>1. /\ pc[w] = "defer" /\ Goto(w, "complete")
          /\ UNCHANGED <<queue, task, cursor, chunkView>>
          /\ chunk' = [chunk EXCEPT ![Mine(w)].task = chunkView[w].task]
      BY <1>14 DEF SecondaryPublish
    <2>2. /\ chunk'[Mine(w)].status = chunk[Mine(w)].status
          /\ \A c \in Chunk \ {Mine(w)} : chunk'[c] = chunk[c]
      BY <1>0, <2>1 DEF TypeOK, ChunkRow
    <2>3. QED
      BY <1>0, <2>1, <2>2, OwnMove
  <1>15. CASE DeferFail(w)
    BY <1>15, OwnFailChunk DEF DeferFail
  <1>16. QED
    BY <1>1, <1>2, <1>3, <1>4, <1>5, <1>6, <1>7, <1>8, <1>9, <1>10, <1>11,
       <1>12, <1>13, <1>14, <1>15 DEF ChunkStep

LEMMA OwnTask ==
  ASSUME TypeOK, PlaceInv, OwnInv, NEW w \in Worker, TaskStep(w)
  PROVE  OwnInv'
  <1> DEFINE c0 == Mine(w)
             k0 == task[w].kind
  <1>0. c0 \in Chunk /\ chunk[c0] \in ChunkRow
    BY MineType DEF TaskStep, SecondaryBegin, SecondaryApply, SecondaryFail, At,
                    TaskLabels, Loaded
  <1>1. /\ \E label \in {"apply", "complete"} : Goto(w, label)
        /\ chunk'[c0].status = chunk[c0].status
        /\ \A c \in Chunk \ {c0} : chunk'[c] = chunk[c]
        /\ \A v \in Worker \ {w} : chunkView'[v] = chunkView[v]
    <2>1. ASSUME NEW s, NEW view, CommitChunk(w, [chunk[c0] EXCEPT !.task[k0] = s], view)
          PROVE  /\ chunk'[c0].status = chunk[c0].status
                 /\ \A c \in Chunk \ {c0} : chunk'[c] = chunk[c]
                 /\ \A v \in Worker \ {w} : chunkView'[v] = chunkView[v]
      BY <1>0, <2>1, CommitFrame DEF ChunkRow
    <2>2. CASE SecondaryBegin(w)
      BY <2>1, <2>2 DEF SecondaryBegin, CommitTask
    <2>3. CASE SecondaryApply(w)
      <3>1. PICK view : CommitChunk(w, [chunk[c0] EXCEPT !.task[k0] = "COMPLETED",
                                                         !.manifest = @ \ OfKind(@, k0)], view)
        BY <2>3 DEF SecondaryApply
      <3>2. /\ chunk'[c0] = [chunk[c0] EXCEPT !.task[k0] = "COMPLETED",
                                             !.manifest = @ \ OfKind(@, k0)]
            /\ \A c \in Chunk \ {c0} : chunk'[c] = chunk[c]
            /\ \A v \in Worker \ {w} : chunkView'[v] = chunkView[v]
        BY <1>0, <3>1, CommitFrame
      <3>3. chunk'[c0].status = chunk[c0].status
        BY <1>0, <3>2 DEF ChunkRow
      <3>4. Goto(w, "complete")
        BY <2>3 DEF SecondaryApply
      <3>5. QED
        BY <3>2, <3>3, <3>4
    <2>4. CASE SecondaryFail(w)
      BY <2>1, <2>4 DEF SecondaryFail
    <2>5. QED
      BY <2>2, <2>3, <2>4 DEF TaskStep
  <1>2. pc[w] \in TaskLabels /\ UNCHANGED <<queue, task, cursor>>
    BY DEF TaskStep, SecondaryBegin, SecondaryApply, SecondaryFail, At, TaskLabels
  <1>3. pc[w] \in Loaded /\ Mine(w) \in Chunk
    BY <1>2, MineForms DEF Loaded
  <1>4. chunk[Mine(w)].status \notin {"ABSENT", "PENDING"}
    <2>1. PICK k \in Secondary : task[w] = SecondaryTask(k, Mine(w))
      BY <1>2, MineForms
    <2>2. Live(SecondaryTask(k, Mine(w)))
      BY <2>1 DEF Live
    <2>3. QED
      BY <1>3, <2>2 DEF OwnInv, SecondaryInv
  <1>5. QED
    BY <1>1, <1>2, <1>3, <1>4, OwnMove
       DEF Loaded, ChunkLabels, RunLabels, TaskLabels, EndLabels, EarlyLabels

LEMMA OwnEnd ==
  ASSUME TypeOK, PlaceInv, OwnInv, NEW w \in Worker, EndStep(w)
  PROVE  OwnInv'
  <1> USE DEF At, shared, Loaded, ChunkLabels, RunLabels, TaskLabels, EndLabels,
              EarlyLabels
  <1>1. CASE NotComplete(w)
    BY <1>1, OwnClose DEF NotComplete
  <1>2. CASE AlreadyEnded(w)
    <2>1. /\ pc[w] = "complete" /\ Goto(w, "finalize")
          /\ UNCHANGED <<queue, task, cursor, chunk, chunkView>>
      BY <1>2 DEF AlreadyEnded
    <2>2. QED
      BY <2>1, OwnMove DEF OwnInv, RowInv
  <1>3. CASE CompleteChunk(w)
    <2>1. /\ pc[w] = "complete" /\ Goto(w, "finalize")
          /\ UNCHANGED <<queue, task, cursor>>
      BY <1>3 DEF CompleteChunk
    <2>2. /\ Mine(w) \in Chunk /\ chunk[Mine(w)] \in ChunkRow
          /\ chunk[Mine(w)].status \notin {"ABSENT", "PENDING"}
      BY <2>1, MineType DEF OwnInv, RowInv
    <2>3. PICK s \in {"FAILED", "CANCELLED", "COMPLETED"} :
            CommitChunk(w, [chunk[Mine(w)] EXCEPT !.status = s],
                           [chunkView[w] EXCEPT !.status = s])
      BY <1>3 DEF CompleteChunk, ChunkOutcome
    <2>4. [chunk[Mine(w)] EXCEPT !.status = s].status = s
      BY <2>2 DEF ChunkRow
    <2>5. /\ chunk'[Mine(w)].status = s
          /\ \A c \in Chunk \ {Mine(w)} : chunk'[c] = chunk[c]
          /\ \A v \in Worker \ {w} : chunkView'[v] = chunkView[v]
      BY <2>2, <2>3, <2>4, CommitFrame
    <2>6. QED
      BY <2>1, <2>2, <2>5, OwnMove
  <1>4. CASE FinalizeGiveUp(w)
    BY <1>4, OwnClose DEF FinalizeGiveUp
  <1>5. CASE FinalizeLock(w)
    <2>1. PICK label \in {"closing", "summarize"} : Goto(w, label)
      BY <1>5 DEF FinalizeLock
    <2>2. pc[w] = "finalize" /\ UNCHANGED <<queue, task, cursor, chunk, chunkView>>
      BY <1>5 DEF FinalizeLock
    <2>3. QED
      BY <2>1, <2>2, OwnMove DEF OwnInv, RowInv
  <1>6. CASE Finalize(w)
    BY <1>6, OwnClose DEF Finalize
  <1>7. CASE FinalizeTooEarly(w)
    <2>1. /\ pc[w] = "summarize" /\ Goto(w, "closing")
          /\ UNCHANGED <<queue, task, cursor, chunk, chunkView>>
      BY <1>7 DEF FinalizeTooEarly
    <2>2. QED
      BY <2>1, OwnMove DEF OwnInv, RowInv
  <1>8. CASE MergeFail(w)
    BY <1>8, OwnClose DEF MergeFail
  <1>9. CASE FinalizeClose(w)
    BY <1>9, OwnClose DEF FinalizeClose
  <1>10. QED
    BY <1>1, <1>2, <1>3, <1>4, <1>5, <1>6, <1>7, <1>8, <1>9 DEF EndStep

LEMMA OwnInit == Init => OwnInv
  <1> SUFFICES ASSUME Init PROVE OwnInv
    OBVIOUS
  <1>1. \A c \in Chunk : chunk[c].status = "ABSENT"
    BY DEF Init, NoRow
  <1>2. \A t : Live(t) => t = ImportTask \/ t = NoTask
    BY DEF Init, Live
  <1>3. \A w \in Worker : pc[w] = "idle" /\ task[w] = NoTask
    BY DEF Init
  <1>4. /\ \A c \in Chunk : ~Live(ChunkTask(c))
        /\ \A c \in Chunk : \A k \in Secondary : ~Live(SecondaryTask(k, c))
    BY <1>2, TaskTypes, TaskForms
  <1>5. QED
    BY <1>1, <1>3, <1>4
       DEF OwnInv, SplitInv, RowInv, PromoteInv, SecondaryInv, RunOnce,
           Loaded, ChunkLabels, RunLabels, TaskLabels, EndLabels

LEMMA OwnStep == TypeOK /\ PlaceInv /\ OwnInv /\ [Next]_vars => OwnInv'
  <1> SUFFICES ASSUME TypeOK, PlaceInv, OwnInv, [Next]_vars
               PROVE  OwnInv'
    OBVIOUS
  <1>1. ASSUME NEW w \in Worker, WorkerStep(w)
        PROVE  OwnInv'
    BY <1>1, OwnStart, OwnImport, OwnChunk, OwnTask, OwnEnd DEF WorkerStep
  <1>2. ASSUME NEW r \in Request, CancelCheck(r) \/ CancelCommit(r)
        PROVE  OwnInv'
    BY <1>2, OwnStill DEF CancelCheck, CancelCommit, shared
  <1>3. CASE UNCHANGED vars
    BY <1>3, OwnStill DEF vars
  <1>4. QED
    BY <1>1, <1>2, <1>3 DEF Next

\* The whole dispatch invariant holds in every reachable state.
THEOREM DispatchCorrect == Spec => []DispatchInv
  <1>1. Init => PlaceTypeInv /\ OwnInv
    BY TypeInit, PlaceInit, OwnInit DEF PlaceTypeInv
  <1>2. PlaceTypeInv /\ OwnInv /\ [Next]_vars => (PlaceTypeInv /\ OwnInv)'
    BY PlaceTypeStep, OwnStep DEF PlaceTypeInv
  <1>3. PlaceTypeInv /\ OwnInv => DispatchInv
    BY DEF PlaceTypeInv, OwnInv, DispatchInv
  <1>4. QED
    BY <1>1, <1>2, <1>3, PTL DEF Spec

\* No step defers a task that is still queued or running, and no two workers
\* run the same task, for any number of chunks, workers and admins and any
\* failing steps: _promote_next_pending_chunk's SKIP LOCKED select and the
\* deferrals before their commits never hand a chunk out twice.
THEOREM DispatchedOnce == Spec => []NoDoubleDispatch
  <1>1. DispatchInv => NoDoubleDispatch
    <2> SUFFICES ASSUME DispatchInv, NEW w \in Worker, NEW t \in Deferring(w)
                 PROVE  ~Live(t)
      BY DEF DispatchInv, NoDoubleDispatch
    <2> USE DEF DispatchInv
    <2>1. CASE At(w, "split") /\ SplitMore(w)
      <3>1. t = ChunkTask(cursor[w] + 1) /\ pc[w] = "split"
        BY <2>1 DEF Deferring, At
      <3>2. cursor[w] \in 0..NumChunks /\ InitialLimit <= NumChunks
        BY ParametersAssumption DEF TypeOK, InitialLimit, Smaller, Larger
      <3>3. cursor[w] + 1 \in Chunk /\ cursor[w] + 1 > cursor[w]
        BY <2>1, <3>2, ParametersAssumption DEF SplitMore, Chunk, InitialLimit,
           Smaller, Larger
      <3>4. QED
        BY <3>1, <3>3 DEF SplitInv
    <2>2. CASE At(w, "promote")
      <3>1. PICK c \in Promotable : t = ChunkTask(c)
        BY <2>2 DEF Deferring, At, Foremost
      <3>2. QED
        BY <3>1 DEF Promotable, PromoteInv
    <2>3. CASE At(w, "defer")
      <3>1. PICK k \in NextSecondary(chunkView[w]) : t = SecondaryTask(k, Mine(w))
        BY <2>3 DEF Deferring, At
      <3>2. k \in Secondary /\ chunkView[w].task[k] = "PENDING"
        BY <3>1 DEF NextSecondary, Secondary
      <3>3. pc[w] \in RunLabels
        BY <2>3 DEF At, RunLabels
      <3>4. QED
        BY <3>1, <3>2, <3>3 DEF SecondaryInv
    <2>4. QED
      BY <2>1, <2>2, <2>3 DEF Deferring
  <1>2. QED
    BY <1>1, DispatchCorrect, PTL

-----------------------------------------------------------------------------
(* How far a chunk may run on: its last batch, and its place under the cap *)

\* Chunk c may commit a batch before its worker looks at the parent again.
BeforeBatch(c) ==
  \/ chunk[c].status \in {"ABSENT", "PENDING"}
  \/ ChunkTask(c) \in queue
  \/ \E w \in Worker : /\ task[w] = ChunkTask(c)
                       /\ pc[w] \in EarlyLabels \cup {"range"}

\* A late batch follows a cancellation, and the chunk's next step sees it.
LateInv ==
  \A c \in Chunk :
    /\ late[c] <= 1
    /\ late[c] > 0 => job.cancelled
    /\ BeforeBatch(c) => late[c] = 0

PaceInv == LateInv /\ WithinCap

PrimaryLabels == EarlyLabels \cup {"range", "refresh", "range_cancelled", "promote"}

LEMMA PrimaryAt == \A w : Primary(w) <=> pc[w] \in PrimaryLabels
  BY DEF Primary, PrimaryLabels, EarlyLabels

LEMMA FlightFinite == IsFiniteSet(InFlight) /\ Cardinality(InFlight) \in Nat
  <1>1. IsFiniteSet(1..NumChunks)
    BY ParametersAssumption, FS_Interval
  <1>2. InFlight \in SUBSET (1..NumChunks)
    BY DEF InFlight, Chunk
  <1>3. IsFiniteSet(InFlight)
    BY <1>1, <1>2, FS_Subset
  <1>4. QED
    BY <1>3, FS_CardinalityType

LEMMA CapType == Larger(MaxChunks, 1) \in Nat \ {0}
  BY ParametersAssumption DEF Larger

\* A step that starts nothing: fewer chunks are in flight and the same or
\* fewer are before a batch.
LEMMA PaceKept ==
  ASSUME PaceInv, TypeOK, TypeOK', UNCHANGED late, job.cancelled => job'.cancelled,
         \A c \in Chunk : BeforeBatch(c)' => BeforeBatch(c) \/ late[c] = 0,
         InFlight' \subseteq InFlight
  PROVE  PaceInv'
  <1>1. LateInv'
    BY DEF PaceInv, LateInv
  <1>2. Cardinality(InFlight') <= Cardinality(InFlight)
    BY FlightFinite, FS_Subset
  <1>3. IsFiniteSet(InFlight') /\ Cardinality(InFlight') \in Nat
    BY FlightFinite, FS_Subset, FS_CardinalityType
  <1>4. WithinCap'
    BY <1>2, <1>3, FlightFinite, CapType DEF PaceInv, WithinCap
  <1>5. QED
    BY <1>1, <1>4 DEF PaceInv

\* No chunk goes back to being absent or pending.
StatusKept ==
  \A c \in Chunk : chunk'[c].status \in {"ABSENT", "PENDING"}
                     => chunk[c].status \in {"ABSENT", "PENDING"}

LEMMA PaceMove ==
  ASSUME PaceInv, TypeOK, TypeOK', NEW w \in Worker, NEW label, Goto(w, label),
         UNCHANGED <<queue, task, late>>, job'.cancelled = job.cancelled,
         label \in EarlyLabels \cup {"range"} => pc[w] \in EarlyLabels \cup {"range"},
         label \in PrimaryLabels => pc[w] \in PrimaryLabels,
         StatusKept
  PROVE  PaceInv'
  <1>1. pc'[w] = label /\ \A v \in Worker \ {w} : pc'[v] = pc[v]
    BY DEF Goto, TypeOK
  <1>2. \A v \in Worker :
          /\ pc'[v] \in EarlyLabels \cup {"range"} => pc[v] \in EarlyLabels \cup {"range"}
          /\ pc'[v] \in PrimaryLabels => pc[v] \in PrimaryLabels
    BY <1>1
  <1>3. \A c \in Chunk : BeforeBatch(c)' => BeforeBatch(c)
    BY <1>2 DEF BeforeBatch, StatusKept
  <1>4. \A v \in Worker : Primary(v)' => Primary(v)
    BY <1>2, PrimaryAt DEF Primary, PrimaryLabels, EarlyLabels
  <1>5. InFlight' \subseteq InFlight
    BY <1>4 DEF InFlight
  <1>6. QED
    BY <1>3, <1>5, PaceKept

LEMMA PaceClose ==
  ASSUME PaceInv, TypeOK, TypeOK', NEW w \in Worker, Close(w),
         UNCHANGED <<queue, late>>, job'.cancelled = job.cancelled, StatusKept
  PROVE  PaceInv'
  <1>1. /\ pc'[w] = "idle"
        /\ \A v \in Worker \ {w} : pc'[v] = pc[v] /\ task'[v] = task[v]
    BY DEF Close, Goto, TypeOK
  <1>2. "idle" \notin PrimaryLabels /\ "idle" \notin EarlyLabels \cup {"range"}
    BY DEF PrimaryLabels, EarlyLabels
  <1>3. \A c \in Chunk : BeforeBatch(c)' => BeforeBatch(c)
    BY <1>1, <1>2 DEF BeforeBatch, StatusKept
  <1>4. ~Primary(w)' /\ \A v \in Worker \ {w} : Primary(v)' => Primary(v)
    BY <1>1 DEF Primary
  <1>5. InFlight' \subseteq InFlight
    BY <1>1, <1>4 DEF InFlight
  <1>6. QED
    BY <1>3, <1>5, PaceKept

LEMMA PaceStart ==
  ASSUME PaceInv, DispatchInv, TypeOK', NEW w \in Worker, TakeTask(w)
  PROVE  PaceInv'
  <1>1. PICK t \in queue :
          /\ queue' = queue \ {t}
          /\ task' = [task EXCEPT ![w] = t]
          /\ Goto(w, IF t = ImportTask THEN "import" ELSE "load_chunk")
    BY DEF TakeTask
  <1>2. /\ task'[w] = t
        /\ \A v \in Worker \ {w} : pc'[v] = pc[v] /\ task'[v] = task[v]
    BY <1>1 DEF Goto, TypeOK, DispatchInv
  <1>3. \A c \in Chunk : BeforeBatch(c)' => BeforeBatch(c)
    BY <1>1, <1>2 DEF BeforeBatch, TakeTask
  <1>4. \A v \in Worker \ {w} : Primary(v)' => Primary(v)
    BY <1>2 DEF Primary
  <1>5. InFlight' \subseteq InFlight
    BY <1>1, <1>2, <1>4 DEF InFlight
  <1>6. QED
    BY <1>3, <1>5, PaceKept DEF TakeTask, DispatchInv, history

\* The split queues no more chunks than the cap allows, and all that are in
\* flight are the ones it has queued.
LEMMA PaceSplitDefer ==
  ASSUME PaceInv, DispatchInv, TypeOK', NEW w \in Worker, SplitDefer(w)
  PROVE  PaceInv'
  <1> DEFINE n == cursor[w] + 1
  <1>1. /\ pc[w] = "split" /\ pc[w] \in ImportLabels
        /\ queue' = queue \cup {ChunkTask(n)}
        /\ UNCHANGED <<job, chunk, pc, task, late>>
    BY DEF SplitDefer, At, ImportLabels, history
  <1>2. cursor[w] \in Nat /\ n \in Nat /\ n <= Larger(MaxChunks, 1)
    BY ParametersAssumption
       DEF SplitDefer, SplitMore, InitialLimit, Smaller, Larger, DispatchInv, TypeOK
  <1>3. \A c \in Chunk : chunk[c].status = "ABSENT"
    BY <1>1, SplitAlone DEF DispatchInv, OwnInv
  <1>4. LateInv'
    BY <1>1, <1>3 DEF PaceInv, LateInv, BeforeBatch
  <1>5. InFlight' \subseteq 1..n
    <2>1. SUFFICES ASSUME NEW c \in InFlight' PROVE c \in 1..n
      OBVIOUS
    <2>2. c \in Chunk /\ (ChunkTask(c) \in queue' \/ \E v \in Worker : task[v] = ChunkTask(c))
      BY <1>1 DEF InFlight
    <2>3. c = n \/ Live(ChunkTask(c))
      <3>1. CASE ChunkTask(c) = ChunkTask(n)
        BY <3>1 DEF ChunkTask
      <3>2. CASE ChunkTask(c) # ChunkTask(n)
        BY <2>2, <3>2, <1>1 DEF Live
      <3>3. QED
        BY <3>1, <3>2
    <2>4. Live(ChunkTask(c)) => ~(c > cursor[w])
      BY <2>2, <1>1 DEF DispatchInv, SplitInv
    <2>5. QED
      BY <2>2, <2>3, <2>4, <1>2 DEF Chunk
  <1>6. IsFiniteSet(1..n) /\ Cardinality(1..n) <= n
    <2> HIDE DEF n
    <2>1. n \in Int /\ n \in Nat
      BY <1>2
    <2>2. /\ IsFiniteSet(1..n)
          /\ Cardinality(1..n) = IF 1 > n THEN 0 ELSE n - 1 + 1
      BY <2>1, FS_Interval
    <2>3. QED
      BY <2>1, <2>2
  <1>7. Cardinality(InFlight') <= Cardinality(1..n) /\ IsFiniteSet(InFlight')
    BY <1>5, <1>6, FS_Subset
  <1>8. WithinCap'
    <2>1. Cardinality(InFlight') \in Nat /\ Cardinality(1..n) \in Nat
      BY <1>6, <1>7, FS_CardinalityType
    <2>2. QED
      BY <2>1, <1>2, <1>6, <1>7, CapType DEF WithinCap
  <1>9. QED
    BY <1>4, <1>8 DEF PaceInv

\* A promotion passes the promoter's own place in flight on.
LEMMA PacePromoteDefer ==
  ASSUME PaceInv, DispatchInv, TypeOK', NEW w \in Worker, PromoteDefer(w)
  PROVE  PaceInv'
  <1>1. PICK d \in Foremost : queue' = queue \cup {ChunkTask(d)}
    BY DEF PromoteDefer
  <1>2. /\ pc[w] = "promote" /\ pc'[w] = "promote_commit"
        /\ \A v \in Worker \ {w} : pc'[v] = pc[v]
        /\ UNCHANGED <<job, chunk, task, late>>
    BY DEF PromoteDefer, At, Goto, DispatchInv, TypeOK, history
  <1>3. d \in Chunk /\ chunk[d].status = "PENDING"
    BY DEF Foremost, Promotable
  <1>4. ASSUME NEW c \in Chunk, BeforeBatch(c)' PROVE BeforeBatch(c)
    <2>1. CASE c = d
      BY <2>1, <1>3 DEF BeforeBatch
    <2>2. CASE c # d
      <3>1. ChunkTask(c) \in queue' => ChunkTask(c) \in queue
        BY <1>1, <1>3, <2>2, TaskForms
      <3>2. \A v \in Worker : pc'[v] \in EarlyLabels \cup {"range"}
                                => pc[v] \in EarlyLabels \cup {"range"}
        BY <1>2 DEF EarlyLabels
      <3>3. QED
        BY <1>2, <1>4, <3>1, <3>2 DEF BeforeBatch
    <2>3. QED
      BY <2>1, <2>2
  <1>5. LateInv'
    BY <1>2, <1>4 DEF PaceInv, LateInv
  <1> DEFINE own == Mine(w)
  <1>6. own \in Chunk /\ task[w] = ChunkTask(own)
    BY <1>2, MineForms DEF DispatchInv, Loaded, ChunkLabels, RunLabels
  <1>7. own \in InFlight
    BY <1>2, <1>6 DEF InFlight, Primary
  <1>8. InFlight' \subseteq (InFlight \ {own}) \cup {d}
    <2>1. SUFFICES ASSUME NEW c \in InFlight', c # d
                   PROVE  c \in InFlight /\ c # own
      OBVIOUS
    <2>2. c \in Chunk
      BY DEF InFlight
    <2>3. ChunkTask(c) \in queue' => ChunkTask(c) \in queue
      BY <1>1, <1>3, <2>1, <2>2, TaskForms
    <2>4. ~Primary(w)' /\ \A v \in Worker \ {w} : Primary(v)' => Primary(v)
      BY <1>2 DEF Primary
    <2>5. \/ ChunkTask(c) \in queue
          \/ \E v \in Worker \ {w} : task[v] = ChunkTask(c) /\ Primary(v)
      BY <1>2, <2>3, <2>4 DEF InFlight
    <2>6. c # own
      <3>1. task[w] # NoTask
        BY <1>6, TaskTypes, TaskForms
      <3>2. QED
        BY <1>6, <2>5, <3>1 DEF DispatchInv, RunOnce
    <2>7. QED
      BY <2>2, <2>5, <2>6 DEF InFlight
  <1>9. Cardinality(InFlight') <= Cardinality(InFlight) /\ IsFiniteSet(InFlight')
    <2>1. /\ IsFiniteSet(InFlight \ {own})
          /\ Cardinality(InFlight \ {own}) = Cardinality(InFlight) - 1
      BY <1>7, FlightFinite, FS_RemoveElement
    <2>2. /\ IsFiniteSet((InFlight \ {own}) \cup {d})
          /\ Cardinality((InFlight \ {own}) \cup {d}) <= Cardinality(InFlight)
      <3>1. Cardinality((InFlight \ {own}) \cup {d}) =
              IF d \in InFlight \ {own} THEN Cardinality(InFlight \ {own})
              ELSE Cardinality(InFlight \ {own}) + 1
        BY <2>1, FS_AddElement
      <3>2. IsFiniteSet((InFlight \ {own}) \cup {d})
        BY <2>1, FS_AddElement
      <3>3. QED
        BY <2>1, <3>1, <3>2, FlightFinite
    <2>3. /\ IsFiniteSet(InFlight')
          /\ Cardinality(InFlight') <= Cardinality((InFlight \ {own}) \cup {d})
      BY <1>8, <2>2, FS_Subset
    <2>4. Cardinality(InFlight') \in Nat /\ Cardinality((InFlight \ {own}) \cup {d}) \in Nat
      BY <2>2, <2>3, FS_CardinalityType
    <2>5. QED
      BY <2>2, <2>3, <2>4, FlightFinite
  <1>10. WithinCap'
    <2>1. Cardinality(InFlight') \in Nat
      BY <1>9, FS_CardinalityType
    <2>2. QED
      BY <1>9, <2>1, FlightFinite, CapType DEF PaceInv, WithinCap
  <1>11. QED
    BY <1>5, <1>10 DEF PaceInv

LEMMA PaceImport ==
  ASSUME PaceInv, DispatchInv, TypeOK', NEW w \in Worker, ImportStep(w)
  PROVE  PaceInv'
  <1> USE PaceMove, PaceClose DEF DispatchInv, At, shared, history, PrimaryLabels,
          EarlyLabels, StatusKept
  <1>1. CASE ImportLoad(w)
    BY <1>1 DEF ImportLoad
  <1>2. CASE ImportSkipCancelled(w)
    BY <1>2 DEF ImportSkipCancelled, TypeOK, JobRow
  <1>3. CASE ImportBegin(w)
    BY <1>3 DEF ImportBegin
  <1>4. CASE SplitDefer(w)
    BY <1>4, PaceSplitDefer
  <1>5. CASE SplitCommit(w)
    <2>1. StatusKept
      BY <1>5, SplitAlone DEF SplitCommit, OwnInv, ImportLabels
    <2>2. job'.cancelled = job.cancelled
      BY <1>5 DEF SplitCommit, TypeOK, JobRow
    <2>3. QED
      BY <1>5, <2>1, <2>2 DEF SplitCommit
  <1>6. CASE SplitFail(w)
    BY <1>6 DEF SplitFail
  <1>7. CASE ImportFailed(w)
    BY <1>7 DEF ImportFailed, TypeOK, JobRow
  <1>8. QED
    BY <1>1, <1>2, <1>3, <1>4, <1>5, <1>6, <1>7 DEF ImportStep

\* A commit to the worker's own chunk does not make it pending again.
LEMMA CommitKeeps ==
  ASSUME TypeOK, PlaceInv, NEW w \in Worker, pc[w] \in Loaded,
         NEW row, NEW view, CommitChunk(w, row, view),
         row.status \in {"ABSENT", "PENDING"}
           => chunk[Mine(w)].status \in {"ABSENT", "PENDING"}
  PROVE  StatusKept
  BY MineForms, CommitFrame DEF StatusKept

LEMMA PaceFailChunk ==
  ASSUME PaceInv, DispatchInv, TypeOK', NEW w \in Worker, FailChunk(w), pc[w] \in Loaded
  PROVE  PaceInv'
  <1>1. AsFailed(chunk[Mine(w)]).status = "FAILED"
    BY MineType DEF DispatchInv, AsFailed, ChunkRow
  <1>2. StatusKept
    BY <1>1, CommitKeeps DEF FailChunk, DispatchInv
  <1>3. QED
    BY <1>2, PaceMove DEF FailChunk, DispatchInv, history, PrimaryLabels, EarlyLabels

\* The only step that counts a late batch: the chunk had none.
LEMMA PaceBatchCommit ==
  ASSUME PaceInv, DispatchInv, TypeOK', NEW w \in Worker, BatchCommit(w)
  PROVE  PaceInv'
  <1>0. PICK c0 : c0 = Mine(w)
    OBVIOUS
  <1>1. /\ pc[w] = "range" /\ pc'[w] = "refresh"
        /\ \A v \in Worker \ {w} : pc'[v] = pc[v]
        /\ UNCHANGED <<job, queue, task>>
        /\ late' = IF job.cancelled THEN [late EXCEPT ![c0] = @ + 1] ELSE late
    BY <1>0 DEF BatchCommit, At, Goto, DispatchInv, TypeOK
  <1>2. c0 \in Chunk /\ task[w] = ChunkTask(c0) /\ task[w] # NoTask /\ pc[w] \in Loaded
    BY <1>0, <1>1, MineForms DEF DispatchInv, Loaded, ChunkLabels, RunLabels
  <1>3. \A c \in Chunk : chunk'[c].status = chunk[c].status
    <2>1. PICK written, grown, number :
            CommitChunk(w,
              [chunk[c0] EXCEPT !.manifest = written, !.imported = number],
              [chunkView[w] EXCEPT !.manifest = grown, !.imported = number])
      BY <1>0 DEF BatchCommit
    <2>2. chunk[c0] \in ChunkRow
      BY <1>2 DEF DispatchInv, TypeOK
    <2>3. [chunk[c0] EXCEPT !.manifest = written, !.imported = number].status
            = chunk[c0].status
      BY <2>2 DEF ChunkRow
    <2>4. /\ chunk'[c0] = [chunk[c0] EXCEPT !.manifest = written, !.imported = number]
          /\ \A c \in Chunk \ {c0} : chunk'[c] = chunk[c]
      BY <1>0, <1>2, <2>1, CommitFrame DEF DispatchInv
    <2>5. QED
      BY <2>3, <2>4
  <1>4. late[c0] = 0
    BY <1>1, <1>2 DEF PaceInv, LateInv, BeforeBatch
  <1>5. ~BeforeBatch(c0)'
    <2>1. ChunkTask(c0) \notin queue /\ \A v \in Worker \ {w} : task[v] # ChunkTask(c0)
      BY <1>2 DEF DispatchInv, RunOnce
    <2>2. chunk[c0].status \notin {"ABSENT", "PENDING"}
      BY <1>0, <1>1 DEF DispatchInv, RowInv, RunLabels
    <2>3. QED
      BY <1>1, <1>2, <1>3, <2>1, <2>2 DEF BeforeBatch, EarlyLabels
  <1>6. \A c \in Chunk : BeforeBatch(c)' => BeforeBatch(c)
    <2>1. \A v \in Worker : pc'[v] \in EarlyLabels \cup {"range"}
                              => pc[v] \in EarlyLabels \cup {"range"}
      BY <1>1 DEF EarlyLabels
    <2>2. QED
      BY <1>1, <1>3, <2>1 DEF BeforeBatch
  <1>7. LateInv'
    <2>1. ASSUME NEW c \in Chunk
          PROVE  /\ late'[c] <= 1
                 /\ late'[c] > 0 => job'.cancelled
                 /\ BeforeBatch(c)' => late'[c] = 0
      <3>1. CASE c = c0
        BY <3>1, <1>1, <1>2, <1>4, <1>5 DEF DispatchInv, TypeOK
      <3>2. CASE c # c0
        BY <3>2, <1>1, <1>2, <1>6 DEF PaceInv, LateInv, DispatchInv, TypeOK
      <3>3. QED
        BY <3>1, <3>2
    <2>2. QED
      BY <2>1 DEF LateInv
  <1>8. InFlight' = InFlight
    <2>1. \A v \in Worker : Primary(v)' <=> Primary(v)
      BY <1>1 DEF Primary
    <2>2. QED
      BY <1>1, <2>1 DEF InFlight
  <1>9. WithinCap'
    BY <1>8 DEF PaceInv, WithinCap
  <1>10. QED
    BY <1>7, <1>9 DEF PaceInv

\* The look at the parent after a batch: a chunk with a late batch is told.
LEMMA PaceRefreshJob ==
  ASSUME PaceInv, DispatchInv, TypeOK', NEW w \in Worker, RefreshJob(w)
  PROVE  PaceInv'
  <1>1. PICK label \in {"range", "range_cancelled", "promote"} :
          Goto(w, label) /\ (label = "range" => ~job.cancelled)
    BY DEF RefreshJob, AfterBatch
  <1>2. /\ pc[w] = "refresh" /\ pc'[w] = label
        /\ \A v \in Worker \ {w} : pc'[v] = pc[v]
        /\ UNCHANGED <<job, queue, task, chunk, late>>
    BY <1>1 DEF RefreshJob, At, Goto, DispatchInv, TypeOK, shared, history
  <1>3. ASSUME NEW c \in Chunk, BeforeBatch(c)', ~BeforeBatch(c)
        PROVE  late[c] = 0
    <2>1. label = "range"
      BY <1>1, <1>2, <1>3 DEF BeforeBatch, EarlyLabels
    <2>2. QED
      BY <1>1, <2>1 DEF PaceInv, LateInv, DispatchInv, TypeOK
  <1>4. \A v \in Worker : Primary(v)' => Primary(v)
    BY <1>2 DEF Primary
  <1>5. InFlight' \subseteq InFlight
    BY <1>2, <1>4 DEF InFlight
  <1>6. QED
    BY <1>2, <1>3, <1>5, PaceKept DEF DispatchInv

LEMMA PaceChunk ==
  ASSUME PaceInv, DispatchInv, TypeOK', NEW w \in Worker, ChunkStep(w)
  PROVE  PaceInv'
  <1> USE PaceMove DEF DispatchInv, At, shared, history, PrimaryLabels, EarlyLabels
  <1>0. pc[w] \in Loaded =>
          /\ Mine(w) \in Chunk
          /\ chunk[Mine(w)] \in ChunkRow /\ chunkView[w] \in ChunkRow
    BY MineType DEF DispatchInv
  <1>1. CASE LoadChunk(w)
    BY <1>1, PaceClose DEF LoadChunk, StatusKept
  <1>2. CASE LoadJob(w)
    BY <1>2 DEF LoadJob, StatusKept
  <1>3. CASE ChunkSkip(w)
    <2>1. pc[w] = "chunk_begin" /\ pc[w] \in Loaded
      BY <1>3 DEF ChunkSkip, Loaded, ChunkLabels
    <2>2. AsCancelled(chunk[Mine(w)]).status = "CANCELLED"
      BY <1>0, <2>1 DEF AsCancelled, ChunkRow
    <2>3. StatusKept
      BY <1>3, <2>1, <2>2, CommitKeeps DEF ChunkSkip
    <2>4. QED
      BY <1>3, <2>3 DEF ChunkSkip
  <1>4. CASE ChunkBegin(w)
    <2>1. pc[w] = "chunk_begin" /\ pc[w] \in Loaded
      BY <1>4 DEF ChunkBegin, Loaded, ChunkLabels
    <2>2. AsStarted(chunk[Mine(w)]).status = "PROCESSING"
      BY <1>0, <2>1 DEF AsStarted, ChunkRow
    <2>3. StatusKept
      BY <1>4, <2>1, <2>2, CommitKeeps DEF ChunkBegin
    <2>4. QED
      BY <1>4, <2>3 DEF ChunkBegin
  <1>5. CASE BatchCommit(w)
    BY <1>5, PaceBatchCommit
  <1>6. CASE RefreshJob(w)
    BY <1>6, PaceRefreshJob
  <1>7. CASE RangeCancelled(w)
    <2>1. pc[w] = "range_cancelled" /\ pc[w] \in Loaded
      BY <1>7 DEF RangeCancelled, Loaded, ChunkLabels, RunLabels
    <2>2. AsCancelled(chunk[Mine(w)]).status = "CANCELLED"
      BY <1>0, <2>1 DEF AsCancelled, ChunkRow
    <2>3. StatusKept
      BY <1>7, <2>1, <2>2, CommitKeeps DEF RangeCancelled
    <2>4. QED
      BY <1>7, <2>3 DEF RangeCancelled
  <1>8. CASE BatchFail(w)
    BY <1>8, PaceFailChunk DEF BatchFail, Loaded, ChunkLabels, RunLabels
  <1>9. CASE DecodeFail(w)
    <2>1. pc[w] = "range" /\ pc[w] \in Loaded
      BY <1>9 DEF DecodeFail, Loaded, ChunkLabels, RunLabels
    <2>2. AsFailed(chunk[Mine(w)]).status = "FAILED"
      BY <1>0, <2>1 DEF AsFailed, ChunkRow
    <2>3. StatusKept
      BY <1>9, <2>1, <2>2, CommitKeeps DEF DecodeFail
    <2>4. QED
      BY <1>9, <2>3 DEF DecodeFail
  <1>10. CASE PromoteDefer(w)
    BY <1>10, PacePromoteDefer
  <1>11. CASE PromoteCommit(w)
    <2>1. StatusKept
      BY <1>11 DEF PromoteCommit, StatusKept, TypeOK, ChunkRow
    <2>2. QED
      BY <1>11, <2>1 DEF PromoteCommit
  <1>12. CASE PromoteNone(w)
    BY <1>12 DEF PromoteNone, StatusKept
  <1>13. CASE SecondaryDefer(w)
    <2>1. /\ pc[w] = "defer" /\ pc[w] \in Loaded
          /\ UNCHANGED <<job, chunk, pc, task, late>>
      BY <1>13 DEF SecondaryDefer, Loaded, ChunkLabels, RunLabels
    <2>2. PICK k \in Secondary :
            queue' \in {queue, queue \cup {SecondaryTask(k, Mine(w))}}
      BY <1>13 DEF SecondaryDefer, NextSecondary, Secondary
    <2>3. \A c \in Chunk : ChunkTask(c) \in queue' => ChunkTask(c) \in queue
      BY <1>0, <2>1, <2>2, TaskForms
    <2>4. \A c \in Chunk : BeforeBatch(c)' => BeforeBatch(c)
      BY <2>1, <2>3 DEF BeforeBatch
    <2>5. InFlight' \subseteq InFlight
      BY <2>1, <2>3 DEF InFlight, Primary
    <2>6. QED
      BY <2>1, <2>4, <2>5, PaceKept
  <1>14. CASE SecondaryPublish(w)
    <2>1. pc[w] = "defer" /\ pc[w] \in Loaded
      BY <1>14 DEF SecondaryPublish, Loaded, ChunkLabels, RunLabels
    <2>2. StatusKept
      BY <1>0, <1>14, <2>1 DEF SecondaryPublish, TypeOK, ChunkRow, StatusKept
    <2>3. QED
      BY <1>14, <2>2 DEF SecondaryPublish
  <1>15. CASE DeferFail(w)
    BY <1>15, PaceFailChunk DEF DeferFail, Loaded, ChunkLabels, RunLabels
  <1>16. QED
    BY <1>1, <1>2, <1>3, <1>4, <1>5, <1>6, <1>7, <1>8, <1>9, <1>10, <1>11,
       <1>12, <1>13, <1>14, <1>15 DEF ChunkStep

LEMMA PaceTask ==
  ASSUME PaceInv, DispatchInv, TypeOK', NEW w \in Worker, TaskStep(w)
  PROVE  PaceInv'
  <1>1. /\ pc[w] \in TaskLabels /\ pc[w] \in Loaded
        /\ \E label \in {"apply", "complete"} : Goto(w, label)
        /\ UNCHANGED <<job, queue, task, late>>
    BY DEF TaskStep, SecondaryBegin, SecondaryApply, SecondaryFail, At, TaskLabels,
           Loaded, history
  <1>2. Mine(w) \in Chunk /\ chunk[Mine(w)] \in ChunkRow
    BY <1>1, MineType DEF DispatchInv
  <1>3. StatusKept
    <2>1. ASSUME NEW row, NEW view, CommitChunk(w, row, view),
                 row.status = chunk[Mine(w)].status
          PROVE  StatusKept
      BY <1>1, <2>1, CommitKeeps DEF DispatchInv
    <2>2. \A s : [chunk[Mine(w)] EXCEPT !.task[task[w].kind] = s].status
                   = chunk[Mine(w)].status
      BY <1>2 DEF ChunkRow
    <2>3. CASE SecondaryBegin(w)
      BY <2>1, <2>2, <2>3 DEF SecondaryBegin, CommitTask
    <2>4. CASE SecondaryApply(w)
      <3>1. PICK view : CommitChunk(w, [chunk[Mine(w)] EXCEPT !.task[task[w].kind] = "COMPLETED",
                             !.manifest = @ \ OfKind(@, task[w].kind)], view)
        BY <2>4 DEF SecondaryApply
      <3>2. [chunk[Mine(w)] EXCEPT !.task[task[w].kind] = "COMPLETED",
               !.manifest = @ \ OfKind(@, task[w].kind)].status = chunk[Mine(w)].status
        BY <1>2 DEF ChunkRow
      <3>3. QED
        BY <2>1, <3>1, <3>2
    <2>5. CASE SecondaryFail(w)
      BY <2>1, <2>2, <2>5 DEF SecondaryFail
    <2>6. QED
      BY <2>3, <2>4, <2>5 DEF TaskStep
  <1>4. QED
    BY <1>1, <1>3, PaceMove DEF DispatchInv, PrimaryLabels, EarlyLabels

LEMMA PaceEnd ==
  ASSUME PaceInv, DispatchInv, TypeOK', NEW w \in Worker, EndStep(w)
  PROVE  PaceInv'
  <1> USE PaceMove, PaceClose DEF DispatchInv, At, shared, history, PrimaryLabels,
          EarlyLabels
  <1>1. CASE NotComplete(w)
    BY <1>1 DEF NotComplete, StatusKept
  <1>2. CASE AlreadyEnded(w)
    BY <1>2 DEF AlreadyEnded, StatusKept
  <1>3. CASE CompleteChunk(w)
    <2>1. pc[w] = "complete" /\ pc[w] \in Loaded
      BY <1>3 DEF CompleteChunk, Loaded, EndLabels
    <2>2. chunk[Mine(w)] \in ChunkRow
      BY <2>1, MineType
    <2>3. PICK s \in {"FAILED", "CANCELLED", "COMPLETED"} :
            CommitChunk(w, [chunk[Mine(w)] EXCEPT !.status = s],
                           [chunkView[w] EXCEPT !.status = s])
      BY <1>3 DEF CompleteChunk, ChunkOutcome
    <2>4. [chunk[Mine(w)] EXCEPT !.status = s].status = s
      BY <2>2 DEF ChunkRow
    <2>5. StatusKept
      BY <2>1, <2>3, <2>4, CommitKeeps
    <2>6. QED
      BY <1>3, <2>5 DEF CompleteChunk
  <1>4. CASE FinalizeGiveUp(w)
    BY <1>4 DEF FinalizeGiveUp, StatusKept
  <1>5. CASE FinalizeLock(w)
    BY <1>5 DEF FinalizeLock, StatusKept
  <1>6. CASE Finalize(w)
    <2>1. job'.cancelled = job.cancelled
      BY <1>6 DEF Finalize, TypeOK, JobRow
    <2>2. QED
      BY <1>6, <2>1 DEF Finalize, StatusKept
  <1>7. CASE FinalizeTooEarly(w)
    BY <1>7 DEF FinalizeTooEarly, StatusKept
  <1>8. CASE MergeFail(w)
    BY <1>8 DEF MergeFail, StatusKept
  <1>9. CASE FinalizeClose(w)
    BY <1>9 DEF FinalizeClose, StatusKept
  <1>10. QED
    BY <1>1, <1>2, <1>3, <1>4, <1>5, <1>6, <1>7, <1>8, <1>9 DEF EndStep

LEMMA PaceStep == PaceInv /\ DispatchInv /\ TypeOK' /\ [Next]_vars => PaceInv'
  <1> SUFFICES ASSUME PaceInv, DispatchInv, TypeOK', [Next]_vars
               PROVE  PaceInv'
    OBVIOUS
  <1>1. ASSUME NEW w \in Worker, WorkerStep(w)
        PROVE  PaceInv'
    BY <1>1, PaceStart, PaceImport, PaceChunk, PaceTask, PaceEnd DEF WorkerStep
  <1>2. ASSUME UNCHANGED <<chunk, queue, task, pc, late>>, job.cancelled => job'.cancelled
        PROVE  PaceInv'
    BY <1>2 DEF PaceInv, LateInv, BeforeBatch, WithinCap, InFlight, Primary
  <1>3. ASSUME NEW r \in Request, CancelCheck(r) \/ CancelCommit(r)
        PROVE  PaceInv'
    BY <1>2, <1>3 DEF CancelCheck, CancelCommit, shared, history
  <1>4. CASE UNCHANGED vars
    BY <1>2, <1>4 DEF vars
  <1>5. QED
    BY <1>1, <1>3, <1>4 DEF Next

LEMMA PaceInit == Init => PaceInv
  <1> SUFFICES ASSUME Init PROVE PaceInv
    OBVIOUS
  <1>1. LateInv
    BY DEF Init, LateInv
  <1>2. InFlight = {}
    <2>1. \A w \in Worker : ~Primary(w)
      BY DEF Init, Primary
    <2>2. \A c \in Chunk : ChunkTask(c) # ImportTask
      BY TaskTypes, TaskForms
    <2>3. QED
      BY <2>1, <2>2 DEF Init, InFlight
  <1>3. Cardinality(InFlight) = 0
    BY <1>2, FS_EmptySet
  <1>4. QED
    BY <1>1, <1>3, CapType DEF PaceInv, WithinCap

THEOREM PaceCorrect == Spec => []PaceInv
  <1>1. PaceInv /\ DispatchInv /\ DispatchInv' /\ [Next]_vars => PaceInv'
    BY PaceStep DEF DispatchInv
  <1>2. QED
    BY <1>1, PaceInit, DispatchCorrect, PTL DEF Spec

\* Never more chunks in their primary work than the cap, whichever workers
\* promote the next ones at the same time: a promoter hands on the place it
\* still holds (_promote_next_pending_chunk, process_import's initial limit).
THEOREM CapIsKept == Spec => []WithinCap
  BY PaceCorrect, PTL DEF PaceInv

\* A cancelled import's chunks each commit one more batch at most, for any
\* number of batches, chunks and workers (process_import_range looks at
\* cancelled_at between any two batches).
THEOREM CancelIsSeen == Spec => []CancelStopsSoon
  <1>1. PaceInv => CancelStopsSoon
    BY DEF PaceInv, LateInv, CancelStopsSoon
  <1>2. QED
    BY <1>1, PaceCorrect, PTL

-----------------------------------------------------------------------------
(* A chunk settles once *)

\* The chunk's primary work has begun, or it has been skipped.
Begun(c) == chunk[c].status \notin {"ABSENT", "PENDING", "QUEUED"}

\* The secondary task k of chunk c has not ended, in the row or in any view
\* that matters: its chunk's worker may still defer it, it is queued, or its
\* worker has not committed how it ended.
Ahead(k, c) ==
  \/ ~Begun(c)
  \/ SecondaryTask(k, c) \in queue
  \/ \E w \in Worker : /\ task[w] = ChunkTask(c)
                       /\ pc[w] \in RunLabels
                       /\ chunkView[w].task[k] # "QUEUED"
  \/ \E w \in Worker : /\ task[w] = SecondaryTask(k, c)
                       /\ pc[w] \in {"load_chunk", "load_job"} \cup TaskLabels

\* Work on a chunk begins once, by the worker of its chunk task, and only then
\* has it secondary tasks.
BegunInv ==
  /\ \A c \in Chunk :
       /\ ~Begun(c) => chunk[c].imported = 0
       /\ ChunkTask(c) \in queue => ~Begun(c)
       /\ \A k \in Secondary : Live(SecondaryTask(k, c)) => Begun(c)
  /\ \A w \in Worker :
       /\ pc[w] \in EarlyLabels /\ task[w].kind = "chunk" => ~Begun(Mine(w))
       /\ pc[w] \in RunLabels \cup EndLabels => Begun(Mine(w))

\* A worker in its chunk's primary work sees the row as it is but for what its
\* secondary tasks did, and the chunk has not ended while one is undeferred.
RunInv ==
  \A w \in Worker : pc[w] \in RunLabels =>
    /\ chunkView[w].status = "PROCESSING"
    /\ chunkView[w].imported = chunk[Mine(w)].imported
    /\ \A k \in Secondary :
         /\ chunkView[w].task[k] \in {"PENDING", "QUEUED", "COMPLETED"}
         /\ chunkView[w].task[k] # "QUEUED" =>
              /\ ~Live(SecondaryTask(k, Mine(w)))
              /\ chunk[Mine(w)].status \notin TerminalChunk

\* Neither the row nor the view of a worker that may complete the chunk shows
\* a secondary task ended before it has.
AheadInv ==
  /\ \A c \in Chunk : \A k \in Secondary :
       chunk[c].task[k] \in TerminalTask => ~Ahead(k, c)
  /\ \A w \in Worker : pc[w] \in Loaded \ RunLabels =>
       \A k \in Secondary :
         chunkView[w].task[k] \in TerminalTask => ~Ahead(k, Mine(w))

\* A worker about to complete its chunk, or one that will be as soon as its
\* own secondary task has ended.
Completer(w) == /\ pc[w] = "complete"
                /\ BothTerminal(chunkView[w])
                /\ chunkView[w].status \notin TerminalChunk
Nearly(w) == /\ pc[w] \in {"load_job"} \cup TaskLabels
             /\ task[w].kind \in Secondary
             /\ chunkView[w].status \notin TerminalChunk
             /\ \A k \in Secondary \ {task[w].kind} :
                  chunkView[w].task[k] \in TerminalTask

\* What a completer's stale view says of the chunk's status is still so, and
\* no other worker is about to complete the chunk as well.
CompleterInv ==
  /\ \A w \in Worker : Completer(w) \/ Nearly(w) =>
       chunk[Mine(w)].status \notin TerminalChunk
  /\ \A w, v \in Worker :
       Completer(w) /\ Completer(v) /\ Mine(w) = Mine(v) => w = v

SettleInv == BegunInv /\ RunInv /\ AheadInv /\ CompleterInv

LEMMA LabelKinds ==
  /\ EarlyLabels \cap (RunLabels \cup EndLabels \cup TaskLabels) = {}
  /\ RunLabels \cap (EndLabels \cup TaskLabels) = {}
  /\ EarlyLabels \cup RunLabels \cup EndLabels \cup TaskLabels
       = Loaded \cup {"load_chunk"}
  /\ "complete" \in EndLabels
  /\ ImportLabels \cap (Loaded \cup {"load_chunk"}) = {}
  BY DEF EarlyLabels, RunLabels, EndLabels, TaskLabels, Loaded, ChunkLabels,
         ImportLabels

\* Two workers never have the same task, and one that runs a chunk's task or a
\* secondary task of the chunk runs a task of one of these forms.
LEMMA Apart ==
  ASSUME DispatchInv
  PROVE  /\ \A w, v \in Worker : task[w] = task[v] /\ task[w] # NoTask => w = v
         /\ \A w \in Worker : pc[w] \in Loaded \cup {"load_chunk"} =>
              /\ Mine(w) \in Chunk
              /\ \/ task[w] = ChunkTask(Mine(w)) /\ task[w].kind = "chunk"
                 \/ \E k \in Secondary : task[w] = SecondaryTask(k, Mine(w))
              /\ task[w].kind \in Secondary =>
                   /\ task[w] = SecondaryTask(task[w].kind, Mine(w))
                   /\ Live(SecondaryTask(task[w].kind, Mine(w)))
              /\ task[w] # NoTask
  <1>1. \A w, v \in Worker : task[w] = task[v] /\ task[w] # NoTask => w = v
    BY DEF DispatchInv, RunOnce
  <1>2. ASSUME NEW w \in Worker, pc[w] \in Loaded \cup {"load_chunk"}
        PROVE  /\ Mine(w) \in Chunk
               /\ \/ task[w] = ChunkTask(Mine(w)) /\ task[w].kind = "chunk"
                  \/ \E k \in Secondary : task[w] = SecondaryTask(k, Mine(w))
               /\ task[w].kind \in Secondary =>
                   /\ task[w] = SecondaryTask(task[w].kind, Mine(w))
                   /\ Live(SecondaryTask(task[w].kind, Mine(w)))
               /\ task[w] # NoTask
    <2>1. task[w] \in Task
      BY <1>2 DEF DispatchInv, PlaceInv
    <2>2. task[w].kind \in Secondary => Live(task[w])
      BY DEF Live
    <2>3. QED
      BY <2>1, <2>2, TaskForms, TaskTypes DEF Mine
  <1>3. QED
    BY <1>1, <1>2

BeforeTaskEnd == {"load_chunk", "load_job"} \cup TaskLabels

\* A worker in its task writes its own chunk's row and its own view: frame.
OwnWrite(w, c0, label) ==
  /\ w \in Worker /\ c0 \in Chunk /\ c0 = Mine(w)
  /\ pc[w] \in Loaded \cup {"load_chunk"} /\ label \in Loaded
  /\ Goto(w, label)
  /\ UNCHANGED <<queue, task>>
  /\ \A v \in Worker \ {w} : chunkView'[v] = chunkView[v]
  /\ \A c \in Chunk \ {c0} : chunk'[c] = chunk[c]

\* It leaves a chunk begun, and only its chunk task begins it.
WriteBegins(w, c0, label) ==
  /\ Begun(c0) => Begun(c0)'
  /\ Begun(c0)' => Begun(c0) \/ task[w] = ChunkTask(c0)
  /\ ~Begun(c0)' => chunk'[c0].imported = 0
  /\ label \in EarlyLabels /\ task[w].kind = "chunk" => ~Begun(c0)'
  /\ label \in RunLabels \cup EndLabels => Begun(c0)'

\* It puts no ended secondary task ahead again, and calls none ended that is.
WriteEnds(w, c0, label) ==
  /\ label \in BeforeTaskEnd => pc[w] \in BeforeTaskEnd
  /\ label \in RunLabels => \/ pc[w] = "chunk_begin"
                           \/ /\ pc[w] \in RunLabels
                              /\ \A k \in Secondary : chunkView'[w].task[k] # "QUEUED"
                                                     => chunkView[w].task[k] # "QUEUED"
  /\ \A k \in Secondary :
       /\ chunk'[c0].task[k] \in TerminalTask =>
            chunk[c0].task[k] \in TerminalTask \/ ~Ahead(k, c0) \/ ~Ahead(k, c0)'
       /\ label \notin RunLabels /\ chunkView'[w].task[k] \in TerminalTask =>
            ~Ahead(k, c0) \/ ~Ahead(k, c0)'

\* What it leaves to the chunk's own worker.
WriteRuns(w, c0, label) ==
  /\ label \in RunLabels =>
       /\ chunkView'[w].status = "PROCESSING"
       /\ chunkView'[w].imported = chunk'[c0].imported
       /\ \A k \in Secondary :
            /\ chunkView'[w].task[k] \in {"PENDING", "QUEUED", "COMPLETED"}
            /\ chunkView'[w].task[k] # "QUEUED" =>
                 /\ ~Live(SecondaryTask(k, c0))
                 /\ chunk'[c0].status \notin TerminalChunk
  /\ task[w] # ChunkTask(c0) => chunk'[c0].imported = chunk[c0].imported

\* It ends the chunk only while no other worker still takes it for open.
WriteCloses(w, c0) ==
  /\ chunk'[c0].status \in TerminalChunk =>
       \/ chunk[c0].status \in TerminalChunk
       \/ \A v \in Worker \ {w} : Mine(v) = c0 =>
            /\ ~Completer(v) /\ ~Nearly(v)
            /\ pc[v] \in RunLabels =>
                 \A k \in Secondary : chunkView[v].task[k] = "QUEUED"
  /\ Completer(w)' \/ Nearly(w)' => chunk'[c0].status \notin TerminalChunk
  /\ Completer(w)' => \A v \in Worker \ {w} : Completer(v) => Mine(v) # c0

LEMMA WriteFrame ==
  ASSUME DispatchInv, NEW w, NEW c0, NEW label, OwnWrite(w, c0, label)
  PROVE  /\ w \in Worker /\ c0 \in Chunk
         /\ pc'[w] = label
         /\ \A v \in Worker \ {w} : pc'[v] = pc[v] /\ chunkView'[v] = chunkView[v]
         /\ \A v \in Worker : Mine(v)' = Mine(v)
         /\ \A t : Live(t)' <=> Live(t)
         /\ \A c \in Chunk \ {c0} : chunk'[c] = chunk[c] /\ (Begun(c)' <=> Begun(c))
  BY DEF DispatchInv, TypeOK, OwnWrite, Goto, Mine, Live, Begun

LEMMA AheadWrite ==
  ASSUME DispatchInv, SettleInv, NEW w, NEW c0, NEW label, OwnWrite(w, c0, label),
         WriteBegins(w, c0, label), WriteEnds(w, c0, label),
         NEW c \in Chunk, NEW k \in Secondary, Ahead(k, c)'
  PROVE  Ahead(k, c)
  <1>1. UNCHANGED <<queue, task>>
    BY DEF OwnWrite
  <1>2. CASE ~Begun(c)'
    <2>1. ~Begun(c)
      BY <1>2, WriteFrame DEF WriteBegins
    <2>2. QED
      BY <2>1 DEF Ahead
  <1>3. CASE SecondaryTask(k, c) \in queue'
    BY <1>1, <1>3 DEF Ahead
  <1>4. ASSUME NEW v \in Worker, task'[v] = ChunkTask(c), pc'[v] \in RunLabels,
               chunkView'[v].task[k] # "QUEUED"
        PROVE  Ahead(k, c)
    <2>1. CASE v = w
      <3>1. c = c0 /\ label \in RunLabels
        BY <1>1, <1>4, <2>1, WriteFrame, TaskForms DEF OwnWrite, Mine
      <3>2. CASE pc[w] = "chunk_begin"
        <4>1. ~Begun(c0)
          <5>1. task[w].kind = "chunk" /\ "chunk_begin" \in EarlyLabels
            BY <3>2, WriteFrame DEF DispatchInv, PlaceInv, ChunkLabels, EarlyLabels
          <5>2. QED
            BY <3>2, <5>1 DEF SettleInv, BegunInv, OwnWrite
        <4>2. QED
          BY <3>1, <4>1 DEF Ahead
      <3>3. CASE pc[w] \in RunLabels /\ chunkView[w].task[k] # "QUEUED"
        BY <1>1, <1>4, <2>1, <3>3 DEF Ahead
      <3>4. QED
        BY <1>4, <2>1, <3>1, <3>2, <3>3 DEF WriteEnds
    <2>2. CASE v # w
      BY <1>1, <1>4, <2>2, WriteFrame DEF Ahead
    <2>3. QED
      BY <2>1, <2>2
  <1>5. ASSUME NEW v \in Worker, task'[v] = SecondaryTask(k, c), pc'[v] \in BeforeTaskEnd
        PROVE  Ahead(k, c)
    <2>1. pc[v] \in BeforeTaskEnd
      BY <1>5, WriteFrame DEF WriteEnds
    <2>2. QED
      BY <1>1, <1>5, <2>1 DEF Ahead, BeforeTaskEnd
  <1>6. QED
    BY <1>2, <1>3, <1>4, <1>5 DEF Ahead, BeforeTaskEnd

LEMMA SettleWrite ==
  ASSUME DispatchInv, DispatchInv', SettleInv, NEW w, NEW c0, NEW label,
         OwnWrite(w, c0, label), WriteBegins(w, c0, label), WriteEnds(w, c0, label),
         WriteRuns(w, c0, label), WriteCloses(w, c0)
  PROVE  SettleInv'
  <1>1. /\ w \in Worker /\ c0 \in Chunk /\ c0 = Mine(w)
        /\ pc[w] \in Loaded \cup {"load_chunk"} /\ label \in Loaded
        /\ UNCHANGED <<queue, task>>
    BY DEF OwnWrite
  <1>2. BegunInv'
    <2>1. ASSUME NEW c \in Chunk
          PROVE  /\ ~Begun(c)' => chunk'[c].imported = 0
                 /\ ChunkTask(c) \in queue' => ~Begun(c)'
                 /\ \A k \in Secondary : Live(SecondaryTask(k, c))' => Begun(c)'
      <3>1. CASE c = c0
        <4>1. task[w] = ChunkTask(c0) => ChunkTask(c0) \notin queue
          BY <1>1, Apart DEF DispatchInv, RunOnce
        <4>2. QED
          BY <1>1, <3>1, <4>1, WriteFrame DEF WriteBegins, SettleInv, BegunInv
      <3>2. CASE c # c0
        BY <1>1, <3>2, WriteFrame DEF SettleInv, BegunInv
      <3>3. QED
        BY <3>1, <3>2
    <2>2. ASSUME NEW v \in Worker
          PROVE  /\ pc'[v] \in EarlyLabels /\ task'[v].kind = "chunk" => ~Begun(Mine(v))'
                 /\ pc'[v] \in RunLabels \cup EndLabels => Begun(Mine(v))'
      <3>1. CASE v = w
        BY <1>1, <3>1, WriteFrame DEF WriteBegins, Mine
      <3>2. CASE v # w /\ Mine(v) = c0
        <4>1. pc'[v] \in EarlyLabels /\ task'[v].kind = "chunk" => ~Begun(c0)'
          <5>1. SUFFICES ASSUME pc[v] \in EarlyLabels, task[v].kind = "chunk"
                         PROVE  ~Begun(c0)'
            BY <1>1, <3>2, WriteFrame
          <5>2. ~Begun(c0)
            BY <3>2, <5>1 DEF SettleInv, BegunInv
          <5>3. task[v] = ChunkTask(c0) /\ task[v] # NoTask
            <6>1. pc[v] \in Loaded \cup {"load_chunk"}
              BY <5>1, LabelKinds
            <6>2. task[v] # SecondaryTask("phones", c0) /\ task[v] # SecondaryTask("geometry", c0)
              BY <5>1 DEF SecondaryTask
            <6>3. QED
              BY <3>2, <6>1, <6>2, Apart DEF Secondary
          <5>4. task[w] # ChunkTask(c0)
            BY <1>1, <3>2, <5>3, Apart
          <5>5. QED
            BY <5>2, <5>4 DEF WriteBegins
        <4>2. pc'[v] \in RunLabels \cup EndLabels => Begun(c0)'
          BY <3>2, WriteFrame DEF WriteBegins, SettleInv, BegunInv
        <4>3. Mine(v)' = c0
          BY <3>2, WriteFrame
        <4>4. QED
          BY <4>1, <4>2, <4>3 DEF Begun
      <3>3. CASE v # w /\ Mine(v) # c0
        <4>1. SUFFICES ASSUME pc[v] \in Loaded \cup {"load_chunk"}
              PROVE /\ pc'[v] \in EarlyLabels /\ task'[v].kind = "chunk" => ~Begun(Mine(v))'
                    /\ pc'[v] \in RunLabels \cup EndLabels => Begun(Mine(v))'
          BY <3>3, WriteFrame, LabelKinds
        <4>2. Mine(v) \in Chunk /\ chunk'[Mine(v)] = chunk[Mine(v)] /\ Mine(v)' = Mine(v)
          BY <3>3, <4>1, Apart, WriteFrame
        <4>3. QED
          BY <1>1, <3>3, <4>2, WriteFrame DEF SettleInv, BegunInv, Begun
      <3>4. QED
        BY <3>1, <3>2, <3>3
    <2>3. QED
      BY <2>1, <2>2 DEF BegunInv
  <1>3. RunInv'
    <2>1. SUFFICES ASSUME NEW v \in Worker, pc'[v] \in RunLabels
          PROVE  /\ chunkView'[v].status = "PROCESSING"
                 /\ chunkView'[v].imported = chunk'[Mine(v)].imported
                 /\ \A k \in Secondary :
                      /\ chunkView'[v].task[k] \in {"PENDING", "QUEUED", "COMPLETED"}
                      /\ chunkView'[v].task[k] # "QUEUED" =>
                           /\ ~Live(SecondaryTask(k, Mine(v)))
                           /\ chunk'[Mine(v)].status \notin TerminalChunk
      BY WriteFrame DEF RunInv
    <2>2. CASE v = w
      BY <1>1, <2>1, <2>2, WriteFrame DEF WriteRuns
    <2>3. CASE v # w
      <3>1. pc[v] \in RunLabels /\ chunkView'[v] = chunkView[v]
        BY <2>1, <2>3, WriteFrame
      <3>2. /\ chunkView[v].status = "PROCESSING"
            /\ chunkView[v].imported = chunk[Mine(v)].imported
            /\ \A k \in Secondary :
                      /\ chunkView[v].task[k] \in {"PENDING", "QUEUED", "COMPLETED"}
                      /\ chunkView[v].task[k] # "QUEUED" =>
                           /\ ~Live(SecondaryTask(k, Mine(v)))
                           /\ chunk[Mine(v)].status \notin TerminalChunk
        BY <3>1 DEF SettleInv, RunInv
      <3>3. Mine(v) \in Chunk /\ task[v] = ChunkTask(Mine(v)) /\ task[v] # NoTask
        BY <3>1, MineForms DEF DispatchInv, ChunkLabels, Loaded
      <3>4. CASE Mine(v) # c0
        BY <3>1, <3>2, <3>3, <3>4, WriteFrame
      <3>5. CASE Mine(v) = c0
        <4>1. task[w] # ChunkTask(c0)
          BY <1>1, <2>3, <3>3, <3>5, Apart
        <4>2. chunk'[c0].imported = chunk[c0].imported
          BY <4>1 DEF WriteRuns
        <4>3. \/ chunk'[c0].status \notin TerminalChunk
              \/ chunk[c0].status \in TerminalChunk
              \/ \A k \in Secondary : chunkView[v].task[k] = "QUEUED"
          BY <2>3, <3>1, <3>5 DEF WriteCloses
        <4>4. QED
          BY <3>1, <3>2, <3>5, <4>2, <4>3
      <3>6. QED
        BY <3>4, <3>5
    <2>4. QED
      BY <2>2, <2>3
  <1>4. AheadInv'
    <2>1. ASSUME NEW c \in Chunk, NEW k \in Secondary, chunk'[c].task[k] \in TerminalTask
          PROVE  ~Ahead(k, c)'
      <3>1. ~Ahead(k, c) => ~Ahead(k, c)'
        BY AheadWrite
      <3>2. CASE c # c0
        BY <2>1, <3>1, <3>2, WriteFrame DEF SettleInv, AheadInv
      <3>3. CASE c = c0
        BY <2>1, <3>1, <3>3 DEF SettleInv, AheadInv, WriteEnds
      <3>4. QED
        BY <3>2, <3>3
    <2>2. ASSUME NEW v \in Worker, pc'[v] \in Loaded \ RunLabels, NEW k \in Secondary,
                 chunkView'[v].task[k] \in TerminalTask
          PROVE  ~Ahead(k, Mine(v))'
      <3>0. PICK c : c = Mine(v)
        OBVIOUS
      <3>1. c \in Chunk /\ Mine(v)' = c
        <4>1. pc[v] \in Loaded \cup {"load_chunk"}
          BY <1>1, <2>2, WriteFrame
        <4>2. QED
          BY <3>0, <4>1, Apart, WriteFrame
      <3>2. ~Ahead(k, c) => ~Ahead(k, c)'
        BY <3>1, AheadWrite
      <3>3. CASE v = w
        BY <1>1, <2>2, <3>0, <3>1, <3>2, <3>3, WriteFrame DEF WriteEnds, Ahead
      <3>4. CASE v # w
        <4>1. ~Ahead(k, c)
          BY <2>2, <3>0, <3>4, WriteFrame DEF SettleInv, AheadInv
        <4>2. QED
          BY <3>1, <3>2, <4>1 DEF Ahead
      <3>5. QED
        BY <3>3, <3>4
    <2>3. QED
      BY <2>1, <2>2 DEF AheadInv
  <1>5. CompleterInv'
    <2>1. \A v \in Worker \ {w} : /\ Completer(v)' <=> Completer(v)
                                  /\ Nearly(v)' <=> Nearly(v)
      BY <1>1, WriteFrame DEF Completer, Nearly, BothTerminal
    <2>2. ASSUME NEW v \in Worker, Completer(v)' \/ Nearly(v)'
          PROVE  chunk'[Mine(v)].status \notin TerminalChunk
      <3>1. CASE v = w
        BY <1>1, <2>2, <3>1 DEF WriteCloses
      <3>2. CASE v # w
        <4>1. chunk[Mine(v)].status \notin TerminalChunk
          BY <2>1, <2>2, <3>2 DEF SettleInv, CompleterInv
        <4>2. pc[v] \in Loaded
          BY <2>1, <2>2, <3>2, LabelKinds DEF Completer, Nearly, Loaded
        <4>3. CASE Mine(v) = c0
          BY <2>1, <2>2, <3>2, <4>1, <4>3 DEF WriteCloses
        <4>4. CASE Mine(v) # c0
          BY <4>1, <4>2, <4>4, Apart, WriteFrame
        <4>5. QED
          BY <4>3, <4>4
      <3>3. QED
        BY <3>1, <3>2
    <2>3. ASSUME NEW v \in Worker, NEW u \in Worker, Completer(v)', Completer(u)',
                 Mine(v) = Mine(u)
          PROVE  v = u
      <3>1. CASE v # w /\ u # w
        BY <2>1, <2>3, <3>1 DEF SettleInv, CompleterInv
      <3>2. CASE v = w \/ u = w
        BY <1>1, <2>1, <2>3, <3>2 DEF WriteCloses
      <3>3. QED
        BY <3>1, <3>2
    <2>4. QED
      BY <2>2, <2>3, WriteFrame DEF CompleterInv
  <1>6. QED
    BY <1>2, <1>3, <1>4, <1>5 DEF SettleInv

\* A worker in its task moves on and writes no chunk and no view.
LEMMA SettleRead ==
  ASSUME DispatchInv, DispatchInv', SettleInv, NEW w \in Worker, NEW label \in Loaded,
         Goto(w, label), UNCHANGED <<queue, task, chunk, chunkView>>,
         pc[w] \in Loaded, label # "complete",
         label \in RunLabels <=> pc[w] \in RunLabels,
         label \in EarlyLabels => pc[w] \in EarlyLabels,
         label \in EndLabels => pc[w] \in EndLabels,
         label \in TaskLabels => pc[w] \in {"load_job"} \cup TaskLabels,
         label # "load_job"
  PROVE  SettleInv'
  <1>1. PICK c0 : c0 = Mine(w)
    OBVIOUS
  <1>2. c0 \in Chunk
    BY <1>1, MineForms DEF DispatchInv
  <1>3. OwnWrite(w, c0, label)
    BY <1>1, <1>2 DEF OwnWrite
  <1>4. Begun(c0)' <=> Begun(c0)
    BY DEF Begun
  <1>5. WriteBegins(w, c0, label)
    <2>1. label \in EarlyLabels /\ task[w].kind = "chunk" => ~Begun(c0)
      BY <1>1 DEF SettleInv, BegunInv
    <2>2. label \in RunLabels \cup EndLabels => Begun(c0)
      BY <1>1 DEF SettleInv, BegunInv
    <2>3. ~Begun(c0) => chunk'[c0].imported = 0
      BY <1>2 DEF SettleInv, BegunInv
    <2>4. QED
      BY <2>1, <2>2, <2>3 DEF WriteBegins, Begun
  <1>6. WriteEnds(w, c0, label)
    <2>1. label \in BeforeTaskEnd => pc[w] \in BeforeTaskEnd
      BY DEF BeforeTaskEnd, EarlyLabels, RunLabels, TaskLabels, EndLabels, Loaded,
             ChunkLabels
    <2>2. \A k \in Secondary :
            label \notin RunLabels /\ chunkView'[w].task[k] \in TerminalTask => ~Ahead(k, c0)
      BY <1>1 DEF SettleInv, AheadInv
    <2>3. QED
      BY <2>1, <2>2 DEF WriteEnds
  <1>7. WriteRuns(w, c0, label)
    BY <1>1 DEF WriteRuns, SettleInv, RunInv
  <1>8. WriteCloses(w, c0)
    <2>1. ~Completer(w)'
      BY <1>3, WriteFrame DEF Completer
    <2>2. Nearly(w)' => Nearly(w)
      BY <1>3, WriteFrame DEF Nearly, TaskLabels
    <2>3. QED
      BY <1>1, <2>1, <2>2 DEF WriteCloses, SettleInv, CompleterInv
  <1>9. QED
    BY <1>3, <1>5, <1>6, <1>7, <1>8, SettleWrite

\* The worker of a chunk task that has deferred no secondary task is the only
\* one with a task of its chunk.
LEMMA SoleWorker ==
  ASSUME DispatchInv, NEW w \in Worker, pc[w] \in ChunkLabels,
         pc[w] \in RunLabels => \A k \in Secondary : chunkView[w].task[k] = "PENDING"
  PROVE  /\ Mine(w) \in Chunk /\ task[w] = ChunkTask(Mine(w)) /\ task[w] # NoTask
         /\ \A k \in Secondary : ~Live(SecondaryTask(k, Mine(w)))
         /\ \A v \in Worker \ {w} : pc[v] \in Loaded \cup {"load_chunk"}
                                     => Mine(v) # Mine(w)
  <1>1. /\ Mine(w) \in Chunk /\ task[w] = ChunkTask(Mine(w)) /\ task[w] # NoTask
    BY MineForms DEF DispatchInv, Loaded
  <1>2. \A k \in Secondary : ~Live(SecondaryTask(k, Mine(w)))
    <2>1. CASE pc[w] = "chunk_begin"
      BY <1>1, <2>1 DEF DispatchInv, SecondaryInv
    <2>2. CASE pc[w] \in RunLabels
      BY <2>2 DEF DispatchInv, SecondaryInv
    <2>3. QED
      BY <2>1, <2>2 DEF ChunkLabels
  <1>3. ASSUME NEW v \in Worker \ {w}, pc[v] \in Loaded \cup {"load_chunk"},
               Mine(v) = Mine(w)
        PROVE  FALSE
    <2>1. task[v] # ChunkTask(Mine(w))
      BY <1>1, Apart
    <2>2. PICK k \in Secondary : task[v] = SecondaryTask(k, Mine(w))
      BY <1>3, <2>1, Apart
    <2>3. QED
      BY <1>2, <2>2 DEF Live
  <1>4. QED
    BY <1>1, <1>2, <1>3

LEMMA SettleSole ==
  ASSUME DispatchInv, DispatchInv', SettleInv, NEW w \in Worker, pc[w] \in ChunkLabels,
         pc[w] \in RunLabels => \A k \in Secondary : chunkView[w].task[k] = "PENDING",
         NEW label \in RunLabels \cup {"complete"}, Goto(w, label),
         UNCHANGED <<queue, task>>, NEW row, NEW view, CommitChunk(w, row, view),
         row.status \notin {"ABSENT", "PENDING", "QUEUED"},
         label = "complete" => view.status \in TerminalChunk,
         label \in RunLabels =>
           /\ view.status = "PROCESSING" /\ row.status = "PROCESSING"
           /\ view.imported = row.imported
           /\ \A k \in Secondary : view.task[k] = "PENDING" /\ row.task[k] \notin TerminalTask
  PROVE  SettleInv'
  <1>0. PICK c0 : c0 = Mine(w)
    OBVIOUS
  <1>1. /\ c0 \in Chunk /\ task[w] = ChunkTask(c0) /\ task[w] # NoTask
        /\ \A k \in Secondary : ~Live(SecondaryTask(k, c0))
        /\ \A v \in Worker \ {w} : pc[v] \in Loaded \cup {"load_chunk"} => Mine(v) # c0
    BY <1>0, SoleWorker
  <1>2. /\ chunk'[c0] = row /\ chunkView'[w] = view
        /\ \A c \in Chunk \ {c0} : chunk'[c] = chunk[c]
        /\ \A v \in Worker \ {w} : chunkView'[v] = chunkView[v]
    BY <1>0, <1>1, CommitFrame DEF DispatchInv
  <1>3. label \in Loaded /\ label \notin EarlyLabels /\ label \notin BeforeTaskEnd
    BY LabelKinds DEF Loaded, ChunkLabels, BeforeTaskEnd, RunLabels, EarlyLabels, TaskLabels
  <1>4. OwnWrite(w, c0, label)
    BY <1>0, <1>1, <1>2, <1>3 DEF OwnWrite, Loaded
  <1>5. Begun(c0)'
    BY <1>2 DEF Begun
  <1>6. WriteBegins(w, c0, label)
    BY <1>1, <1>3, <1>5 DEF WriteBegins
  <1>7. ASSUME NEW k \in Secondary, label = "complete" PROVE ~Ahead(k, c0)'
    <2>1. SecondaryTask(k, c0) \notin queue' /\ \A v \in Worker : task'[v] # SecondaryTask(k, c0)
      BY <1>1 DEF Live
    <2>2. \A v \in Worker : task'[v] = ChunkTask(c0) => v = w
      BY <1>1, Apart
    <2>3. pc'[w] \notin RunLabels
      BY <1>4, <1>7, WriteFrame, LabelKinds
    <2>4. QED
      BY <1>5, <2>1, <2>2, <2>3 DEF Ahead
  <1>8. WriteEnds(w, c0, label)
    <2>1. label \in RunLabels =>
            \/ pc[w] = "chunk_begin"
            \/ /\ pc[w] \in RunLabels
               /\ \A k \in Secondary : chunkView'[w].task[k] # "QUEUED"
                                      => chunkView[w].task[k] # "QUEUED"
      BY DEF ChunkLabels
    <2>2. label \in RunLabels => \A k \in Secondary : row.task[k] \notin TerminalTask
      OBVIOUS
    <2>3. QED
      BY <1>2, <1>3, <1>7, <2>1, <2>2 DEF WriteEnds
  <1>9. WriteRuns(w, c0, label)
    BY <1>1, <1>2 DEF WriteRuns, TerminalChunk
  <1>10. WriteCloses(w, c0)
    <2>1. \A v \in Worker \ {w} : Completer(v) \/ Nearly(v) \/ pc[v] \in RunLabels
                                  => Mine(v) # c0
      BY <1>1, LabelKinds DEF Completer, Nearly, Loaded, ChunkLabels
    <2>2. ~Completer(w)'
      <3>1. Completer(w)' => label = "complete" /\ view.status \notin TerminalChunk
        BY <1>2, <1>4, WriteFrame DEF Completer
      <3>2. QED
        BY <3>1
    <2>3. ~Nearly(w)'
      BY <1>3, <1>4, WriteFrame DEF Nearly, BeforeTaskEnd
    <2>4. QED
      BY <2>1, <2>2, <2>3 DEF WriteCloses
  <1>11. QED
    BY <1>4, <1>6, <1>8, <1>9, <1>10, SettleWrite

\* A chunk fails in its worker's hands before both secondary tasks are
\* deferred: the row's tasks are what the session then holds.
LEMMA SettleFailChunk ==
  ASSUME DispatchInv, DispatchInv', SettleInv, NEW w \in Worker, FailChunk(w),
         pc[w] \in RunLabels, NEW k0 \in Secondary, chunkView[w].task[k0] = "PENDING"
  PROVE  SettleInv'
  <1>0. PICK c0 : c0 = Mine(w)
    OBVIOUS
  <1>1. /\ c0 \in Chunk /\ task[w] = ChunkTask(c0) /\ task[w] # NoTask
        /\ chunk[c0] \in ChunkRow /\ pc[w] \in Loaded
        /\ pc[w] \notin {"load_job"} \cup TaskLabels
    BY <1>0, MineForms, LabelKinds DEF DispatchInv, Loaded, ChunkLabels, TypeOK,
       EarlyLabels
  <1>2. PICK row : row = AsFailed(chunk[c0])
    OBVIOUS
  <1>3. row.status = "FAILED" /\ row.task = chunk[c0].task /\ row.imported = chunk[c0].imported
    BY <1>1, <1>2 DEF AsFailed, ChunkRow
  <1>4. /\ chunk'[c0] = row /\ chunkView'[w] = row
        /\ \A c \in Chunk \ {c0} : chunk'[c] = chunk[c]
        /\ \A v \in Worker \ {w} : chunkView'[v] = chunkView[v]
        /\ Goto(w, "complete") /\ UNCHANGED <<queue, task>>
    BY <1>0, <1>1, <1>2, CommitFrame DEF FailChunk, DispatchInv
  <1> DEFINE label == "complete"
  <1>5. label \in Loaded /\ label \in EndLabels /\ label \notin EarlyLabels \cup RunLabels \cup BeforeTaskEnd
    BY DEF Loaded, BeforeTaskEnd, EarlyLabels, EndLabels, RunLabels, TaskLabels
  <1>6. OwnWrite(w, c0, label)
    BY <1>0, <1>1, <1>4, <1>5 DEF OwnWrite
  <1>7. Begun(c0) /\ Begun(c0)'
    BY <1>0, <1>3, <1>4 DEF Begun, SettleInv, BegunInv
  <1>8. WriteBegins(w, c0, label)
    BY <1>5, <1>7 DEF WriteBegins
  <1>9. WriteEnds(w, c0, label)
    BY <1>1, <1>3, <1>4, <1>5 DEF WriteEnds, SettleInv, AheadInv
  <1>10. WriteRuns(w, c0, label)
    BY <1>1, <1>5 DEF WriteRuns
  <1>11. WriteCloses(w, c0)
    <2>1. Ahead(k0, c0)
      BY <1>1 DEF Ahead
    <2>2. ASSUME NEW v \in Worker \ {w}, Mine(v) = c0
          PROVE  ~Completer(v) /\ ~Nearly(v) /\ pc[v] \notin RunLabels
      <3>1. task[v] # ChunkTask(c0)
        BY <1>1, Apart
      <3>2. pc[v] \notin RunLabels
        BY <2>2, <3>1, MineForms DEF DispatchInv, ChunkLabels
      <3>3. ~Completer(v)
        <4>1. Completer(v) => ~Ahead(k0, c0)
          BY <2>2, LabelKinds DEF Completer, BothTerminal, SettleInv, AheadInv, Loaded
        <4>2. QED
          BY <2>1, <4>1
      <3>4. ~Nearly(v)
        <4>1. SUFFICES ASSUME Nearly(v) PROVE FALSE
          OBVIOUS
        <4>2. pc[v] \in Loaded /\ pc[v] \notin RunLabels /\ task[v].kind \in Secondary
          BY <3>2, <4>1 DEF Nearly, Loaded
        <4>3. CASE k0 # task[v].kind
          <5>1. ~Ahead(k0, c0)
            BY <2>2, <4>1, <4>2, <4>3 DEF Nearly, SettleInv, AheadInv
          <5>2. QED
            BY <2>1, <5>1
        <4>4. CASE k0 = task[v].kind
          <5>1. Live(SecondaryTask(k0, c0))
            BY <2>2, <4>2, <4>4, Apart
          <5>2. QED
            BY <1>0, <5>1 DEF SettleInv, RunInv
        <4>5. QED
          BY <4>3, <4>4
      <3>5. QED
        BY <3>2, <3>3, <3>4
    <2>3. ~Completer(w)'
      BY <1>3, <1>4 DEF Completer, TerminalChunk
    <2>4. ~Nearly(w)'
      BY <1>6, WriteFrame DEF Nearly, TaskLabels
    <2>5. QED
      BY <2>2, <2>3, <2>4 DEF WriteCloses
  <1>12. QED
    BY <1>6, <1>8, <1>9, <1>10, <1>11, SettleWrite

LEMMA SettlePublish ==
  ASSUME DispatchInv, DispatchInv', SettleInv, NEW w \in Worker, SecondaryPublish(w)
  PROVE  SettleInv'
  <1>0. PICK c0 : c0 = Mine(w)
    OBVIOUS
  <1>1. /\ pc[w] = "defer" /\ pc[w] \in RunLabels /\ pc[w] \in Loaded
        /\ UNCHANGED <<queue, task, chunkView>> /\ Goto(w, "complete")
        /\ NextSecondary(chunkView[w]) = {}
        /\ chunk' = [chunk EXCEPT ![c0].task = chunkView[w].task]
    BY <1>0 DEF SecondaryPublish, At, RunLabels, Loaded, ChunkLabels
  <1>2. /\ c0 \in Chunk /\ task[w] = ChunkTask(c0) /\ task[w] # NoTask
        /\ chunk[c0] \in ChunkRow
    BY <1>0, <1>1, MineForms DEF DispatchInv, ChunkLabels, TypeOK
  <1>3. /\ chunk'[c0].status = chunk[c0].status
        /\ chunk'[c0].imported = chunk[c0].imported
        /\ chunk'[c0].task = chunkView[w].task
        /\ \A c \in Chunk \ {c0} : chunk'[c] = chunk[c]
    BY <1>1, <1>2 DEF DispatchInv, TypeOK, ChunkRow
  <1> DEFINE label == "complete"
  <1>5. label \in Loaded /\ label \in EndLabels /\ label \notin EarlyLabels \cup RunLabels \cup BeforeTaskEnd
    BY DEF Loaded, BeforeTaskEnd, EarlyLabels, EndLabels, RunLabels, TaskLabels
  <1>6. OwnWrite(w, c0, label)
    BY <1>0, <1>1, <1>2, <1>3, <1>5 DEF OwnWrite
  <1>7. Begun(c0) /\ Begun(c0)'
    BY <1>0, <1>1, <1>3 DEF Begun, SettleInv, BegunInv
  <1>8. WriteBegins(w, c0, label)
    BY <1>5, <1>7 DEF WriteBegins
  <1>9. ASSUME NEW k \in Secondary, chunkView[w].task[k] \in TerminalTask
        PROVE  ~Ahead(k, c0)'
    <2>1. ~Live(SecondaryTask(k, c0))
      BY <1>0, <1>1, <1>9 DEF SettleInv, RunInv, TerminalTask
    <2>2. SecondaryTask(k, c0) \notin queue' /\ \A v \in Worker : task'[v] # SecondaryTask(k, c0)
      BY <1>1, <2>1 DEF Live
    <2>3. \A v \in Worker : task'[v] = ChunkTask(c0) => v = w
      BY <1>1, <1>2, Apart
    <2>4. pc'[w] \notin RunLabels
      BY <1>5, <1>6, WriteFrame
    <2>5. QED
      BY <1>7, <2>2, <2>3, <2>4 DEF Ahead
  <1>10. WriteEnds(w, c0, label)
    BY <1>1, <1>3, <1>5, <1>9 DEF WriteEnds
  <1>11. WriteRuns(w, c0, label)
    BY <1>2, <1>5 DEF WriteRuns
  <1>12. WriteCloses(w, c0)
    <2>1. BothTerminal(chunkView[w]) =>
            /\ chunk[c0].status \notin TerminalChunk
            /\ \A k \in Secondary : ~Live(SecondaryTask(k, c0))
      BY <1>0, <1>1 DEF BothTerminal, TerminalTask, SettleInv, RunInv, Secondary
    <2>2. Completer(w)' => BothTerminal(chunkView[w])
      BY <1>1 DEF Completer
    <2>3. ~Nearly(w)'
      BY <1>6, WriteFrame DEF Nearly, TaskLabels
    <2>4. Completer(w)' => \A v \in Worker \ {w} : Completer(v) => Mine(v) # c0
      <3>1. SUFFICES ASSUME BothTerminal(chunkView[w]), NEW v \in Worker \ {w},
                            Completer(v), Mine(v) = c0
                     PROVE  FALSE
        BY <2>2
      <3>2. task[v] # ChunkTask(c0)
        BY <1>2, Apart
      <3>3. PICK k \in Secondary : task[v] = SecondaryTask(k, c0)
        BY <3>1, <3>2, Apart, LabelKinds DEF Completer, Loaded
      <3>4. QED
        BY <2>1, <3>1, <3>3 DEF Live
    <2>5. QED
      BY <1>3, <2>1, <2>2, <2>3, <2>4 DEF WriteCloses
  <1>13. QED
    BY <1>6, <1>8, <1>10, <1>11, <1>12, SettleWrite

\* A secondary task's worker writes how far its own task is; what else its view
\* holds is what it held or, after a rollback, what the row says.
LEMMA SettleTaskCommit ==
  ASSUME DispatchInv, DispatchInv', SettleInv, NEW w \in Worker, pc[w] \in TaskLabels,
         NEW label \in {"apply", "complete"}, Goto(w, label), UNCHANGED <<queue, task>>,
         NEW row, NEW view, CommitChunk(w, row, view),
         row.status = chunk[Mine(w)].status, row.imported = chunk[Mine(w)].imported,
         label = "apply" => row.task[task[w].kind] \notin TerminalTask,
         view.task[task[w].kind] = row.task[task[w].kind],
         \A k \in Secondary \ {task[w].kind} : row.task[k] = chunk[Mine(w)].task[k],
         \/ /\ view.status = chunkView[w].status
            /\ \A k \in Secondary \ {task[w].kind} : view.task[k] = chunkView[w].task[k]
         \/ /\ view.status = chunk[Mine(w)].status /\ label = "complete"
            /\ \A k \in Secondary \ {task[w].kind} : view.task[k] = chunk[Mine(w)].task[k]
  PROVE  SettleInv'
  <1>0. PICK c0, k0 : c0 = Mine(w) /\ k0 = task[w].kind
    OBVIOUS
  <1>1. /\ pc[w] \in Loaded /\ pc[w] \notin RunLabels \cup EarlyLabels
        /\ c0 \in Chunk /\ k0 \in Secondary
        /\ task[w] = SecondaryTask(k0, c0) /\ task[w] # NoTask
        /\ Live(SecondaryTask(k0, c0)) /\ task[w] # ChunkTask(c0)
    <2>1. pc[w] \in Loaded /\ pc[w] \notin RunLabels \cup EarlyLabels
      BY LabelKinds DEF Loaded
    <2>2. k0 \in Secondary
      BY <1>0 DEF DispatchInv, PlaceInv
    <2>3. QED
      BY <1>0, <2>1, <2>2, Apart, TaskForms
  <1>2. /\ chunk'[c0] = row /\ chunkView'[w] = view
        /\ \A c \in Chunk \ {c0} : chunk'[c] = chunk[c]
        /\ \A v \in Worker \ {w} : chunkView'[v] = chunkView[v]
    BY <1>0, <1>1, CommitFrame DEF DispatchInv
  <1>3. label \in Loaded /\ label \notin EarlyLabels \cup RunLabels
    BY DEF Loaded, EarlyLabels, EndLabels, RunLabels, TaskLabels
  <1>4. OwnWrite(w, c0, label)
    BY <1>0, <1>1, <1>2, <1>3 DEF OwnWrite
  <1>5. Begun(c0) /\ Begun(c0)'
    BY <1>0, <1>1, <1>2 DEF Begun, SettleInv, BegunInv
  <1>6. WriteBegins(w, c0, label)
    BY <1>3, <1>5 DEF WriteBegins
  <1>7. Ahead(k0, c0)
    BY <1>1 DEF Ahead
  <1>8. label = "complete" => ~Ahead(k0, c0)'
    <2>1. SUFFICES ASSUME label = "complete" PROVE ~Ahead(k0, c0)'
      OBVIOUS
    <2>2. SecondaryTask(k0, c0) \notin queue'
      BY <1>1 DEF DispatchInv, RunOnce
    <2>3. \A v \in Worker : task'[v] = SecondaryTask(k0, c0) => v = w
      BY <1>1, Apart
    <2>4. pc'[w] \notin {"load_chunk", "load_job"} \cup TaskLabels
      BY <1>4, <2>1, WriteFrame DEF TaskLabels
    <2>5. ASSUME NEW v \in Worker, task'[v] = ChunkTask(c0), pc'[v] \in RunLabels
          PROVE  chunkView'[v].task[k0] = "QUEUED"
      <3>1. v # w /\ task[v] = ChunkTask(c0)
        BY <1>1, <2>5
      <3>2. pc[v] \in RunLabels /\ chunkView'[v] = chunkView[v] /\ Mine(v) = c0
        BY <1>1, <1>4, <2>5, <3>1, WriteFrame, TaskForms DEF Mine
      <3>3. QED
        BY <1>1, <3>2 DEF SettleInv, RunInv
    <2>6. QED
      BY <1>5, <2>2, <2>3, <2>4, <2>5 DEF Ahead
  <1>9. WriteEnds(w, c0, label)
    <2>1. label \in BeforeTaskEnd => pc[w] \in BeforeTaskEnd
      BY DEF BeforeTaskEnd
    <2>2. ASSUME NEW k \in Secondary
          PROVE  /\ chunk'[c0].task[k] \in TerminalTask =>
                      chunk[c0].task[k] \in TerminalTask \/ ~Ahead(k, c0)'
                 /\ chunkView'[w].task[k] \in TerminalTask => ~Ahead(k, c0) \/ ~Ahead(k, c0)'
      <3>1. CASE k = k0
        BY <1>0, <1>2, <1>8, <3>1
      <3>2. CASE k # k0
        <4>1. \/ view.task[k] = chunkView[w].task[k]
              \/ view.task[k] = chunk[c0].task[k]
          BY <1>0, <3>2
        <4>2. chunkView[w].task[k] \in TerminalTask => ~Ahead(k, c0)
          BY <1>0, <1>1 DEF SettleInv, AheadInv
        <4>3. chunk[c0].task[k] \in TerminalTask => ~Ahead(k, c0)
          BY <1>1 DEF SettleInv, AheadInv
        <4>4. row.task[k] = chunk[c0].task[k]
          BY <1>0, <3>2
        <4>5. QED
          BY <1>2, <4>1, <4>2, <4>3, <4>4
      <3>3. QED
        BY <3>1, <3>2
    <2>3. QED
      BY <1>3, <2>1, <2>2 DEF WriteEnds
  <1>10. WriteRuns(w, c0, label)
    BY <1>0, <1>2, <1>3 DEF WriteRuns
  <1>11. WriteCloses(w, c0)
    <2>1. chunk'[c0].status = chunk[c0].status
      BY <1>0, <1>2
    <2>2. Completer(w)' \/ Nearly(w)' => chunk[c0].status \notin TerminalChunk
      <3>1. SUFFICES ASSUME Completer(w)' \/ Nearly(w)', view.status # chunk[c0].status
                     PROVE  chunk[c0].status \notin TerminalChunk
        BY <1>2 DEF Completer, Nearly
      <3>2. \A k \in Secondary \ {k0} : view.task[k] = chunkView[w].task[k]
        BY <1>0, <3>1
      <3>3. view.status = chunkView[w].status
        BY <1>0, <3>1
      <3>4. \A k \in Secondary \ {k0} : view.task[k] \in TerminalTask
        BY <1>0, <1>1, <1>2, <3>1, WriteFrame DEF Completer, Nearly, BothTerminal, OwnWrite
      <3>5. view.status \notin TerminalChunk
        BY <1>2, <3>1 DEF Completer, Nearly
      <3>6. Nearly(w)
        BY <1>0, <1>1, <3>2, <3>3, <3>4, <3>5 DEF Nearly
      <3>7. QED
        BY <1>0, <3>6 DEF SettleInv, CompleterInv
    <2>3. \A v \in Worker : Completer(v) => Mine(v) # c0
      <3>1. SUFFICES ASSUME NEW v \in Worker, Completer(v), Mine(v) = c0 PROVE FALSE
        OBVIOUS
      <3>2. chunkView[v].task[k0] \in TerminalTask
        BY <1>1, <3>1 DEF Completer, BothTerminal
      <3>3. pc[v] \in Loaded \ RunLabels
        BY <3>1 DEF Completer, Loaded, EndLabels, RunLabels
      <3>4. ~Ahead(k0, c0)
        BY <1>1, <3>1, <3>2, <3>3 DEF SettleInv, AheadInv
      <3>5. QED
        BY <1>7, <3>4
    <2>4. QED
      BY <2>1, <2>2, <2>3 DEF WriteCloses
  <1>12. QED
    BY <1>4, <1>6, <1>9, <1>10, <1>11, SettleWrite

\* The one step that completes a chunk: nobody else is about to, and its own
\* worker has nothing left to defer.
LEMMA SettleComplete ==
  ASSUME DispatchInv, DispatchInv', SettleInv, NEW w \in Worker, CompleteChunk(w)
  PROVE  SettleInv'
  <1>0. PICK c0 : c0 = Mine(w)
    OBVIOUS
  <1>1. /\ pc[w] = "complete" /\ Goto(w, "finalize") /\ UNCHANGED <<queue, task>>
        /\ Completer(w) /\ pc[w] \in Loaded \ RunLabels
    BY DEF CompleteChunk, At, Completer, Loaded, EndLabels, RunLabels
  <1>2. /\ c0 \in Chunk /\ chunk[c0] \in ChunkRow /\ chunkView[w] \in ChunkRow
    BY <1>0, <1>1, MineForms DEF DispatchInv, TypeOK
  <1>3. PICK s \in TerminalChunk :
          CommitChunk(w, [chunk[c0] EXCEPT !.status = s], [chunkView[w] EXCEPT !.status = s])
    BY <1>0 DEF CompleteChunk, ChunkOutcome, TerminalChunk
  <1>4. /\ chunk'[c0].status = s /\ chunk'[c0].task = chunk[c0].task
        /\ chunk'[c0].imported = chunk[c0].imported
        /\ chunkView'[w].task = chunkView[w].task
        /\ \A c \in Chunk \ {c0} : chunk'[c] = chunk[c]
        /\ \A v \in Worker \ {w} : chunkView'[v] = chunkView[v]
    <2>1. /\ chunk'[c0] = [chunk[c0] EXCEPT !.status = s]
          /\ chunkView'[w] = [chunkView[w] EXCEPT !.status = s]
          /\ \A c \in Chunk \ {c0} : chunk'[c] = chunk[c]
          /\ \A v \in Worker \ {w} : chunkView'[v] = chunkView[v]
      BY <1>0, <1>2, <1>3, CommitFrame DEF DispatchInv
    <2>2. QED
      BY <1>2, <2>1 DEF ChunkRow
  <1> DEFINE label == "finalize"
  <1>5. /\ label \in Loaded /\ label \in EndLabels
        /\ label \notin EarlyLabels \cup RunLabels \cup BeforeTaskEnd
    BY DEF Loaded, BeforeTaskEnd, EarlyLabels, EndLabels, RunLabels, TaskLabels
  <1>6. OwnWrite(w, c0, label)
    BY <1>0, <1>1, <1>2, <1>4, <1>5 DEF OwnWrite
  <1>7. Begun(c0) /\ Begun(c0)'
    BY <1>0, <1>1, <1>4 DEF Begun, SettleInv, BegunInv, EndLabels, TerminalChunk
  <1>8. WriteBegins(w, c0, label)
    BY <1>5, <1>7 DEF WriteBegins
  <1>9. \A k \in Secondary : chunkView[w].task[k] \in TerminalTask /\ ~Ahead(k, c0)
    BY <1>0, <1>1 DEF Completer, BothTerminal, SettleInv, AheadInv
  <1>10. WriteEnds(w, c0, label)
    BY <1>5, <1>9 DEF WriteEnds
  <1>11. WriteRuns(w, c0, label)
    BY <1>4, <1>5 DEF WriteRuns
  <1>12. WriteCloses(w, c0)
    <2>1. ASSUME NEW v \in Worker \ {w}, Mine(v) = c0
          PROVE  /\ ~Completer(v) /\ ~Nearly(v)
                 /\ pc[v] \in RunLabels =>
                      \A k \in Secondary : chunkView[v].task[k] = "QUEUED"
      <3>1. ~Completer(v)
        BY <1>0, <1>1, <2>1 DEF SettleInv, CompleterInv
      <3>2. ~Nearly(v)
        <4>1. SUFFICES ASSUME Nearly(v) PROVE FALSE
          OBVIOUS
        <4>2. pc[v] \in Loaded /\ task[v].kind \in Secondary
          BY <4>1 DEF Nearly, Loaded
        <4>3. task[v] = SecondaryTask(task[v].kind, c0)
          BY <2>1, <4>2, Apart
        <4>4. Ahead(task[v].kind, c0)
          BY <4>1, <4>3 DEF Ahead, Nearly
        <4>5. QED
          BY <1>9, <4>2, <4>4
      <3>3. ASSUME pc[v] \in RunLabels, NEW k \in Secondary
            PROVE  chunkView[v].task[k] = "QUEUED"
        <4>1. task[v] = ChunkTask(c0)
          BY <2>1, <3>3, MineForms DEF DispatchInv, ChunkLabels
        <4>2. QED
          BY <1>9, <3>3, <4>1 DEF Ahead
      <3>4. QED
        BY <3>1, <3>2, <3>3
    <2>2. ~Completer(w)' /\ ~Nearly(w)'
      BY <1>6, WriteFrame DEF Completer, Nearly, TaskLabels
    <2>3. QED
      BY <2>1, <2>2 DEF WriteCloses
  <1>13. QED
    BY <1>6, <1>8, <1>10, <1>11, <1>12, SettleWrite

\* Nothing about chunks, views or live tasks changes but that a worker's task
\* starts or ends.
LEMMA SettleFrame ==
  ASSUME DispatchInv, SettleInv, NEW w \in Worker, UNCHANGED chunk,
         \A v \in Worker \ {w} : /\ pc'[v] = pc[v] /\ task'[v] = task[v]
                                 /\ chunkView'[v] = chunkView[v],
         pc'[w] \notin Loaded,
         \A c \in Chunk :
           /\ ChunkTask(c) \in queue' => ~Begun(c)
           /\ \A k \in Secondary :
                /\ Live(SecondaryTask(k, c))' => Live(SecondaryTask(k, c))
                /\ SecondaryTask(k, c) \in queue' => SecondaryTask(k, c) \in queue
           /\ pc'[w] = "load_chunk" /\ task'[w] = ChunkTask(c) => ~Begun(c),
         pc'[w] = "load_chunk" => task'[w] \in queue /\ task'[w] \in Task
  PROVE  SettleInv'
  <1>1. \A c \in Chunk : Begun(c)' <=> Begun(c)
    BY DEF Begun
  <1>2. \A v \in Worker \ {w} : Mine(v)' = Mine(v)
    BY DEF Mine
  <1>3. pc'[w] \notin RunLabels \cup EndLabels /\ pc'[w] \notin {"load_job"} \cup TaskLabels
    BY DEF Loaded, ChunkLabels
  <1>4. BegunInv'
    <2>1. ASSUME NEW c \in Chunk
          PROVE  /\ ~Begun(c)' => chunk'[c].imported = 0
                 /\ ChunkTask(c) \in queue' => ~Begun(c)'
                 /\ \A k \in Secondary : Live(SecondaryTask(k, c))' => Begun(c)'
      BY <1>1 DEF SettleInv, BegunInv
    <2>2. ASSUME NEW v \in Worker
          PROVE  /\ pc'[v] \in EarlyLabels /\ task'[v].kind = "chunk" => ~Begun(Mine(v))'
                 /\ pc'[v] \in RunLabels \cup EndLabels => Begun(Mine(v))'
      <3>1. CASE v = w
        <4>1. pc'[v] \in EarlyLabels => pc'[w] = "load_chunk"
          BY <3>1 DEF EarlyLabels, Loaded, ChunkLabels
        <4>2. pc'[w] = "load_chunk" /\ task'[w].kind = "chunk" =>
                /\ task'[w].chunk \in Chunk
                /\ task'[w] = ChunkTask(task'[w].chunk)
          BY TaskForms
        <4>3. pc'[w] = "load_chunk" /\ task'[w].kind = "chunk" => ~Begun(task'[w].chunk)
          BY <4>2
        <4>4. QED
          BY <1>3, <3>1, <4>1, <4>3 DEF Begun, Mine
      <3>2. CASE v # w
        BY <1>2, <3>2 DEF SettleInv, BegunInv, Begun
      <3>3. QED
        BY <3>1, <3>2
    <2>3. QED
      BY <2>1, <2>2 DEF BegunInv
  <1>5. RunInv'
    <2>1. SUFFICES ASSUME NEW v \in Worker \ {w}, pc[v] \in RunLabels,
                          NEW c \in Chunk, c = Mine(v)
          PROVE  /\ chunkView[v].status = "PROCESSING"
                 /\ chunkView[v].imported = chunk[c].imported
                 /\ \A k \in Secondary :
                      /\ chunkView[v].task[k] \in {"PENDING", "QUEUED", "COMPLETED"}
                      /\ chunkView[v].task[k] # "QUEUED" =>
                           /\ ~Live(SecondaryTask(k, c))'
                           /\ chunk[c].status \notin TerminalChunk
      <3>1. \A v \in Worker \ {w} : pc[v] \in RunLabels => Mine(v) \in Chunk
        BY MineForms DEF DispatchInv, Loaded, ChunkLabels
      <3>2. QED
        BY <1>2, <1>3, <3>1 DEF RunInv, Live
    <2>2. QED
      BY <2>1 DEF SettleInv, RunInv
  <1>6. ASSUME NEW c \in Chunk, NEW k \in Secondary, Ahead(k, c)' PROVE Ahead(k, c)
    <2>1. CASE pc'[w] = "load_chunk" /\ task'[w] = SecondaryTask(k, c)
      BY <2>1 DEF Ahead
    <2>2. CASE ~(pc'[w] = "load_chunk" /\ task'[w] = SecondaryTask(k, c))
      <3>1. \/ ~Begun(c) \/ SecondaryTask(k, c) \in queue
            \/ \E v \in Worker \ {w} : /\ task[v] = ChunkTask(c)
                                       /\ pc[v] \in RunLabels
                                       /\ chunkView[v].task[k] # "QUEUED"
            \/ \E v \in Worker \ {w} : /\ task[v] = SecondaryTask(k, c)
                                       /\ pc[v] \in {"load_chunk", "load_job"} \cup TaskLabels
        BY <1>1, <1>3, <1>6, <2>2 DEF Ahead
      <3>2. QED
        BY <3>1 DEF Ahead
    <2>3. QED
      BY <2>1, <2>2
  <1>7. AheadInv'
    <2>1. \A c \in Chunk : \A k \in Secondary :
            chunk'[c].task[k] \in TerminalTask => ~Ahead(k, c)'
      BY <1>6 DEF SettleInv, AheadInv
    <2>2. ASSUME NEW v \in Worker, pc'[v] \in Loaded \ RunLabels, NEW k \in Secondary,
                 chunkView'[v].task[k] \in TerminalTask
          PROVE  ~Ahead(k, Mine(v))'
      <3>1. v # w
        BY <2>2
      <3>2. PICK c \in Chunk : c = Mine(v) /\ c = Mine(v)'
        BY <1>2, <2>2, <3>1, MineForms DEF DispatchInv
      <3>3. ~Ahead(k, c)
        BY <2>2, <3>1, <3>2 DEF SettleInv, AheadInv
      <3>4. ~Ahead(k, c)'
        BY <1>6, <3>3
      <3>5. QED
        BY <3>2, <3>4 DEF Ahead
    <2>3. QED
      BY <2>1, <2>2 DEF AheadInv
  <1>8. CompleterInv'
    <2>1. ~Completer(w)' /\ ~Nearly(w)'
      BY <1>3 DEF Completer, Nearly, EndLabels
    <2>2. \A v \in Worker \ {w} : /\ Completer(v)' <=> Completer(v)
                                  /\ Nearly(v)' <=> Nearly(v)
      BY DEF Completer, Nearly, BothTerminal
    <2>3. QED
      BY <1>2, <2>1, <2>2 DEF SettleInv, CompleterInv
  <1>9. QED
    BY <1>4, <1>5, <1>7, <1>8 DEF SettleInv

LEMMA SettleClose ==
  ASSUME DispatchInv, SettleInv, NEW w \in Worker, Close(w), UNCHANGED <<queue, chunk>>
  PROVE  SettleInv'
  <1>1. /\ pc'[w] = "idle" /\ task'[w] = NoTask
        /\ \A v \in Worker \ {w} : /\ pc'[v] = pc[v] /\ task'[v] = task[v]
                                   /\ chunkView'[v] = chunkView[v]
    BY DEF Close, Goto, DispatchInv, TypeOK
  <1>2. \A c \in Chunk : \A k \in Secondary :
          Live(SecondaryTask(k, c))' => Live(SecondaryTask(k, c))
    BY <1>1, TaskForms, TaskTypes DEF Live
  <1>3. pc'[w] \notin Loaded \cup {"load_chunk"}
    BY <1>1 DEF Loaded, ChunkLabels, RunLabels, TaskLabels, EndLabels
  <1>4. \A c \in Chunk : ChunkTask(c) \in queue' => ~Begun(c)
    BY DEF SettleInv, BegunInv
  <1>5. QED
    BY <1>1, <1>2, <1>3, <1>4, SettleFrame

LEMMA SettleStart ==
  ASSUME DispatchInv, SettleInv, NEW w \in Worker, TakeTask(w)
  PROVE  SettleInv'
  <1>1. PICK t \in queue :
          /\ queue' = queue \ {t}
          /\ task' = [task EXCEPT ![w] = t]
          /\ Goto(w, IF t = ImportTask THEN "import" ELSE "load_chunk")
    BY DEF TakeTask
  <1>2. /\ task'[w] = t /\ UNCHANGED <<chunk, chunkView>>
        /\ pc'[w] = IF t = ImportTask THEN "import" ELSE "load_chunk"
        /\ \A v \in Worker \ {w} : pc'[v] = pc[v] /\ task'[v] = task[v]
        /\ t = ImportTask \/ t \in Task
    BY <1>1 DEF Goto, DispatchInv, TypeOK, TakeTask
  <1>3. \A c \in Chunk : \A k \in Secondary :
          Live(SecondaryTask(k, c))' => Live(SecondaryTask(k, c))
    BY <1>1, <1>2 DEF Live
  <1>4. pc'[w] \notin Loaded
    BY <1>2 DEF Loaded, ChunkLabels, RunLabels, TaskLabels, EndLabels
  <1>5. \A c \in Chunk : ChunkTask(c) \in queue => ~Begun(c)
    BY DEF SettleInv, BegunInv
  <1>6. QED
    BY <1>1, <1>2, <1>3, <1>4, <1>5, SettleFrame

LEMMA SettleLoadChunk ==
  ASSUME DispatchInv, DispatchInv', SettleInv, NEW w \in Worker, LoadChunk(w)
  PROVE  SettleInv'
  <1>0. PICK c0 : c0 = Mine(w)
    OBVIOUS
  <1>1. pc[w] = "load_chunk" /\ UNCHANGED <<queue, chunk>>
    BY DEF LoadChunk, At, shared
  <1>2. CASE Close(w)
    BY <1>1, <1>2, SettleClose
  <1>3. CASE /\ chunkView' = [chunkView EXCEPT ![w] = chunk[c0]]
             /\ Goto(w, "load_job") /\ UNCHANGED task
    <2>1. c0 \in Chunk
      BY <1>0, <1>1, MineForms DEF DispatchInv
    <2> DEFINE label == "load_job"
    <2>2. /\ label \in Loaded /\ label \in EarlyLabels
          /\ label \notin RunLabels \cup EndLabels /\ label \in BeforeTaskEnd
          /\ pc[w] \in BeforeTaskEnd /\ pc[w] \in EarlyLabels
      BY <1>1 DEF Loaded, BeforeTaskEnd, EarlyLabels, EndLabels, RunLabels, TaskLabels
    <2>3. /\ chunkView'[w] = chunk[c0]
          /\ \A v \in Worker \ {w} : chunkView'[v] = chunkView[v]
      BY <1>3 DEF DispatchInv, TypeOK
    <2>4. OwnWrite(w, c0, label)
      BY <1>0, <1>1, <1>3, <2>1, <2>2, <2>3 DEF OwnWrite
    <2>5. WriteBegins(w, c0, label)
      <3>1. task[w].kind = "chunk" => ~Begun(c0)
        BY <1>0, <2>2 DEF SettleInv, BegunInv
      <3>2. ~Begun(c0) => chunk[c0].imported = 0
        BY <2>1 DEF SettleInv, BegunInv
      <3>3. QED
        BY <1>1, <2>2, <3>1, <3>2 DEF WriteBegins, Begun
    <2>6. WriteEnds(w, c0, label)
      BY <1>1, <2>1, <2>2, <2>3 DEF WriteEnds, SettleInv, AheadInv
    <2>7. WriteRuns(w, c0, label)
      BY <1>1, <2>2 DEF WriteRuns
    <2>8. WriteCloses(w, c0)
      <3>1. ~Completer(w)'
        BY <2>4, WriteFrame DEF Completer
      <3>2. Nearly(w)' => chunk[c0].status \notin TerminalChunk
        BY <2>3 DEF Nearly
      <3>3. QED
        BY <1>1, <3>1, <3>2 DEF WriteCloses
    <2>9. QED
      BY <2>4, <2>5, <2>6, <2>7, <2>8, SettleWrite
  <1>4. QED
    BY <1>0, <1>2, <1>3 DEF LoadChunk

\* A worker in its chunk's primary work moves on; rows and queue change only
\* for chunks not begun.
RowsQueued ==
  \A c \in Chunk :
    /\ chunk'[c].imported = chunk[c].imported
    /\ chunk'[c].task = chunk[c].task
    /\ \/ chunk'[c].status = chunk[c].status
       \/ chunk[c].status = "PENDING" /\ chunk'[c].status = "QUEUED"
    /\ ChunkTask(c) \in queue' => ~Begun(c)
    /\ \A k \in Secondary :
         SecondaryTask(k, c) \in queue' => SecondaryTask(k, c) \in queue

LEMMA SettleRunMove ==
  ASSUME DispatchInv, SettleInv, NEW w \in Worker, NEW label \in RunLabels,
         Goto(w, label), pc[w] \in RunLabels, UNCHANGED <<task, chunkView>>,
         RowsQueued
  PROVE  SettleInv'
  <1>1. /\ pc'[w] = label
        /\ \A v \in Worker \ {w} : pc'[v] = pc[v]
    BY DEF Goto, DispatchInv, TypeOK
  <1>2. \A v \in Worker : /\ pc'[v] \in RunLabels <=> pc[v] \in RunLabels
                          /\ pc'[v] # pc[v] => pc'[v] \in RunLabels
    BY <1>1
  <1>3. \A c \in Chunk : /\ Begun(c)' <=> Begun(c)
                         /\ chunk'[c].status \in TerminalChunk <=> chunk[c].status \in TerminalChunk
    BY DEF RowsQueued, Begun, TerminalChunk
  <1>4. \A v \in Worker : Mine(v)' = Mine(v)
    BY DEF Mine
  <1>5. \A c \in Chunk : \A k \in Secondary :
          Live(SecondaryTask(k, c))' => Live(SecondaryTask(k, c))
    BY DEF RowsQueued, Live
  <1>6. \A v \in Worker : pc'[v] \in Loaded \cup {"load_chunk"} => Mine(v) \in Chunk
    BY <1>1, MineForms DEF DispatchInv, Loaded, ChunkLabels
  <1>7. BegunInv'
    <2>1. \A c \in Chunk :
            /\ ~Begun(c)' => chunk'[c].imported = 0
            /\ ChunkTask(c) \in queue' => ~Begun(c)'
            /\ \A k \in Secondary : Live(SecondaryTask(k, c))' => Begun(c)'
      BY <1>3, <1>5 DEF RowsQueued, SettleInv, BegunInv
    <2>2. ASSUME NEW v \in Worker
          PROVE  /\ pc'[v] \in EarlyLabels /\ task'[v].kind = "chunk" => ~Begun(Mine(v))'
                 /\ pc'[v] \in RunLabels \cup EndLabels => Begun(Mine(v))'
      <3>1. pc'[v] \in EarlyLabels => pc[v] \in EarlyLabels
        BY <1>2, LabelKinds
      <3>2. pc'[v] \in RunLabels \cup EndLabels => pc[v] \in RunLabels \cup EndLabels
        BY <1>2, LabelKinds
      <3>3. PICK c : c = Mine(v)
        OBVIOUS
      <3>4. /\ pc'[v] \in EarlyLabels /\ task'[v].kind = "chunk" => c \in Chunk /\ ~Begun(c)
            /\ pc'[v] \in RunLabels \cup EndLabels => c \in Chunk /\ Begun(c)
        BY <1>6, <3>1, <3>2, <3>3, LabelKinds DEF SettleInv, BegunInv
      <3>5. QED
        BY <1>3, <1>4, <3>3, <3>4 DEF Begun
    <2>3. QED
      BY <2>1, <2>2 DEF BegunInv
  <1>8. RunInv'
    <2>1. SUFFICES ASSUME NEW v \in Worker, pc[v] \in RunLabels, NEW c \in Chunk, c = Mine(v)
          PROVE  /\ chunkView[v].status = "PROCESSING"
                 /\ chunkView[v].imported = chunk'[c].imported
                 /\ \A k \in Secondary :
                      /\ chunkView[v].task[k] \in {"PENDING", "QUEUED", "COMPLETED"}
                      /\ chunkView[v].task[k] # "QUEUED" =>
                           /\ ~Live(SecondaryTask(k, c))'
                           /\ chunk'[c].status \notin TerminalChunk
      <3>1. \A v \in Worker : pc[v] \in RunLabels => Mine(v) \in Chunk
        BY MineForms DEF DispatchInv, Loaded, ChunkLabels
      <3>2. QED
        BY <1>2, <1>4, <3>1 DEF RunInv, Live
    <2>2. QED
      BY <1>3, <1>5, <2>1 DEF RowsQueued, SettleInv, RunInv
  <1>9. ASSUME NEW c \in Chunk, NEW k \in Secondary, Ahead(k, c)' PROVE Ahead(k, c)
    <2>1. \A v \in Worker : pc'[v] \in {"load_chunk", "load_job"} \cup TaskLabels
                           => pc[v] \in {"load_chunk", "load_job"} \cup TaskLabels
      BY <1>2 DEF RunLabels, TaskLabels
    <2>2. QED
      BY <1>2, <1>3, <1>9, <2>1 DEF RowsQueued, Ahead
  <1>10. AheadInv'
    <2>1. \A c \in Chunk : \A k \in Secondary :
            chunk'[c].task[k] \in TerminalTask => ~Ahead(k, c)'
      BY <1>9 DEF RowsQueued, SettleInv, AheadInv
    <2>2. ASSUME NEW v \in Worker, pc'[v] \in Loaded \ RunLabels, NEW k \in Secondary,
                 chunkView'[v].task[k] \in TerminalTask
          PROVE  ~Ahead(k, Mine(v))'
      <3>1. PICK c \in Chunk : c = Mine(v) /\ c = Mine(v)'
        BY <1>4, <1>6, <2>2
      <3>2. ~Ahead(k, c)
        BY <1>2, <2>2, <3>1 DEF SettleInv, AheadInv
      <3>3. ~Ahead(k, c)'
        BY <1>9, <3>2
      <3>4. QED
        BY <3>1, <3>3 DEF Ahead
    <2>3. QED
      BY <2>1, <2>2 DEF AheadInv
  <1>11. CompleterInv'
    <2>1. \A v \in Worker : /\ Completer(v)' => Completer(v)
                            /\ Nearly(v)' => Nearly(v)
      BY <1>2 DEF Completer, Nearly, BothTerminal, RunLabels, TaskLabels
    <2>2. \A v \in Worker : Completer(v) \/ Nearly(v) => Mine(v) \in Chunk
      BY MineForms DEF DispatchInv, Completer, Nearly, Loaded, EndLabels
    <2>3. QED
      BY <1>3, <1>4, <2>1, <2>2 DEF SettleInv, CompleterInv
  <1>12. QED
    BY <1>7, <1>8, <1>10, <1>11 DEF SettleInv

LEMMA SettlePromote ==
  ASSUME DispatchInv, SettleInv, NEW w \in Worker, PromoteDefer(w) \/ PromoteCommit(w)
  PROVE  SettleInv'
  <1>1. CASE PromoteDefer(w)
    <2>1. PICK d \in Chunk : chunk[d].status = "PENDING" /\ queue' = queue \cup {ChunkTask(d)}
      BY <1>1 DEF PromoteDefer, Foremost, Promotable
    <2>2. \A c \in Chunk : ChunkTask(c) \in queue' => ~Begun(c)
      BY <2>1, TaskForms DEF SettleInv, BegunInv, Begun
    <2>3. \A c \in Chunk : \A k \in Secondary :
            SecondaryTask(k, c) \in queue' => SecondaryTask(k, c) \in queue
      BY <2>1, TaskForms
    <2>4. /\ Goto(w, "promote_commit") /\ pc[w] \in RunLabels /\ "promote_commit" \in RunLabels
          /\ UNCHANGED <<task, chunk, chunkView>>
      BY <1>1 DEF PromoteDefer, At, RunLabels
    <2>5. QED
      BY <2>2, <2>3, <2>4, SettleRunMove DEF RowsQueued
  <1>2. CASE PromoteCommit(w)
    <2>1. /\ Goto(w, "defer") /\ pc[w] \in RunLabels /\ "defer" \in RunLabels
          /\ UNCHANGED <<queue, task, chunkView>>
          /\ chunk' = [chunk EXCEPT ![cursor[w]].status = "QUEUED"]
          /\ chunk[cursor[w]].status = "PENDING"
      BY <1>2 DEF PromoteCommit, At, RunLabels, DispatchInv, PromoteInv
    <2>2. \A c \in Chunk :
            /\ chunk'[c].imported = chunk[c].imported /\ chunk'[c].task = chunk[c].task
            /\ \/ chunk'[c].status = chunk[c].status
               \/ chunk[c].status = "PENDING" /\ chunk'[c].status = "QUEUED"
      BY <2>1 DEF DispatchInv, TypeOK, ChunkRow
    <2>3. \A c \in Chunk : ChunkTask(c) \in queue' => ~Begun(c)
      BY <2>1 DEF SettleInv, BegunInv
    <2>4. QED
      BY <2>1, <2>2, <2>3, SettleRunMove DEF RowsQueued
  <1>3. QED
    BY <1>1, <1>2

LEMMA SettleSecondaryDefer ==
  ASSUME DispatchInv, SettleInv, NEW w \in Worker, SecondaryDefer(w)
  PROVE  SettleInv'
  <1>0. PICK c0 : c0 = Mine(w)
    OBVIOUS
  <1>1. /\ pc[w] = "defer" /\ pc[w] \in RunLabels /\ pc[w] \in Loaded
        /\ UNCHANGED <<chunk, pc, task>>
    BY DEF SecondaryDefer, At, RunLabels, Loaded, ChunkLabels
  <1>2. /\ c0 \in Chunk /\ task[w] = ChunkTask(c0) /\ task[w] # NoTask
        /\ chunkView[w] \in ChunkRow
    BY <1>0, <1>1, MineForms DEF DispatchInv, ChunkLabels, TypeOK
  <1>3. PICK k0 \in Secondary :
          /\ chunkView[w].task[k0] = "PENDING"
          /\ \/ /\ queue' = queue \cup {SecondaryTask(k0, c0)}
                /\ chunkView' = [chunkView EXCEPT ![w].task[k0] = "QUEUED"]
             \/ /\ queue' = queue
                /\ chunkView' = [chunkView EXCEPT ![w].task[k0] = "COMPLETED"]
    BY <1>0 DEF SecondaryDefer, NextSecondary, Secondary
  <1>4. /\ \A v \in Worker \ {w} : chunkView'[v] = chunkView[v]
        /\ chunkView'[w].status = chunkView[w].status
        /\ chunkView'[w].imported = chunkView[w].imported
        /\ \A k \in Secondary \ {k0} : chunkView'[w].task[k] = chunkView[w].task[k]
        /\ \/ queue' = queue \cup {SecondaryTask(k0, c0)} /\ chunkView'[w].task[k0] = "QUEUED"
           \/ queue' = queue /\ chunkView'[w].task[k0] = "COMPLETED"
    BY <1>2, <1>3 DEF DispatchInv, TypeOK, ChunkRow
  <1>5. \A c \in Chunk : Begun(c)' <=> Begun(c)
    BY <1>1 DEF Begun
  <1>6. \A v \in Worker : Mine(v)' = Mine(v)
    BY <1>1 DEF Mine
  <1>7. \A c \in Chunk : \A k \in Secondary :
          SecondaryTask(k, c) # SecondaryTask(k0, c0) =>
            /\ Live(SecondaryTask(k, c))' => Live(SecondaryTask(k, c))
            /\ SecondaryTask(k, c) \in queue' => SecondaryTask(k, c) \in queue
    BY <1>1, <1>4 DEF Live
  <1>8. BegunInv'
    <2>1. \A c \in Chunk : ChunkTask(c) \in queue' => ChunkTask(c) \in queue
      BY <1>2, <1>4, TaskForms
    <2>2. Begun(c0)
      BY <1>0, <1>1 DEF SettleInv, BegunInv
    <2>3. \A c \in Chunk : \A k \in Secondary : Live(SecondaryTask(k, c))' => Begun(c)
      BY <1>2, <1>7, <2>2, TaskForms DEF SettleInv, BegunInv
    <2>4. QED
      BY <1>1, <1>5, <2>1, <2>3 DEF SettleInv, BegunInv, Begun, Mine
  <1>9. RunInv'
    <2>1. SUFFICES ASSUME NEW v \in Worker, pc[v] \in RunLabels, NEW c \in Chunk, c = Mine(v)
          PROVE  /\ chunkView'[v].status = "PROCESSING"
                 /\ chunkView'[v].imported = chunk[c].imported
                 /\ \A k \in Secondary :
                      /\ chunkView'[v].task[k] \in {"PENDING", "QUEUED", "COMPLETED"}
                      /\ chunkView'[v].task[k] # "QUEUED" =>
                           /\ ~Live(SecondaryTask(k, c))'
                           /\ chunk[c].status \notin TerminalChunk
      <3>1. \A v \in Worker : pc[v] \in RunLabels => Mine(v) \in Chunk
        BY MineForms DEF DispatchInv, Loaded, ChunkLabels
      <3>2. QED
        BY <1>1, <1>6, <3>1 DEF RunInv, Live
    <2>2. /\ chunkView[v].status = "PROCESSING"
          /\ chunkView[v].imported = chunk[c].imported
          /\ \A k \in Secondary :
               /\ chunkView[v].task[k] \in {"PENDING", "QUEUED", "COMPLETED"}
               /\ chunkView[v].task[k] # "QUEUED" =>
                    /\ ~Live(SecondaryTask(k, c))
                    /\ chunk[c].status \notin TerminalChunk
      BY <2>1 DEF SettleInv, RunInv
    <2>3. CASE v = w
      <3>1. ASSUME NEW k \in Secondary
            PROVE  /\ chunkView'[v].task[k] \in {"PENDING", "QUEUED", "COMPLETED"}
                   /\ chunkView'[v].task[k] # "QUEUED" =>
                           /\ ~Live(SecondaryTask(k, c))'
                           /\ chunk[c].status \notin TerminalChunk
        <4>1. CASE k = k0
          <5>1. queue' = queue => (Live(SecondaryTask(k, c))' <=> Live(SecondaryTask(k, c)))
            BY <1>1 DEF Live
          <5>2. QED
            BY <1>3, <1>4, <2>2, <2>3, <4>1, <5>1
        <4>2. CASE k # k0
          <5>1. SecondaryTask(k, c) # SecondaryTask(k0, c0)
            BY <1>2, <4>2, TaskForms
          <5>2. QED
            BY <1>4, <1>7, <2>2, <2>3, <4>2, <5>1
        <4>3. QED
          BY <4>1, <4>2
      <3>2. QED
        BY <1>4, <2>2, <2>3, <3>1
    <2>4. CASE v # w
      <3>1. c # c0
        <4>1. task[v] = ChunkTask(c)
          BY <2>1, MineForms DEF DispatchInv, ChunkLabels
        <4>2. QED
          BY <1>2, <2>4, <4>1, Apart
      <3>2. \A k \in Secondary : SecondaryTask(k, c) # SecondaryTask(k0, c0)
        BY <1>2, <3>1, TaskForms
      <3>3. QED
        BY <1>4, <1>7, <2>2, <2>4, <3>2
    <2>5. QED
      BY <2>3, <2>4
  <1>10. ASSUME NEW c \in Chunk, NEW k \in Secondary, Ahead(k, c)' PROVE Ahead(k, c)
    <2>1. CASE SecondaryTask(k, c) = SecondaryTask(k0, c0)
      <3>1. k = k0 /\ c = c0
        BY <1>2, <2>1, TaskForms
      <3>2. QED
        BY <1>1, <1>2, <1>3, <3>1 DEF Ahead
    <2>2. CASE SecondaryTask(k, c) # SecondaryTask(k0, c0)
      <3>1. ASSUME NEW v \in Worker, task[v] = ChunkTask(c), pc[v] \in RunLabels,
                   chunkView'[v].task[k] # "QUEUED"
            PROVE  chunkView[v].task[k] # "QUEUED"
        <4>1. CASE v = w
          <5>1. c = c0
            BY <1>2, <3>1, <4>1, TaskForms
          <5>2. k # k0
            BY <2>2, <5>1
          <5>3. QED
            BY <1>4, <3>1, <4>1, <5>2
        <4>2. CASE v # w
          BY <1>4, <3>1, <4>2
        <4>3. QED
          BY <4>1, <4>2
      <3>2. QED
        BY <1>1, <1>5, <1>7, <1>10, <2>2, <3>1 DEF Ahead
    <2>3. QED
      BY <2>1, <2>2
  <1>11. AheadInv'
    <2>1. \A c \in Chunk : \A k \in Secondary :
            chunk'[c].task[k] \in TerminalTask => ~Ahead(k, c)'
      BY <1>1, <1>10 DEF SettleInv, AheadInv
    <2>2. ASSUME NEW v \in Worker, pc'[v] \in Loaded \ RunLabels, NEW k \in Secondary,
                 chunkView'[v].task[k] \in TerminalTask
          PROVE  ~Ahead(k, Mine(v))'
      <3>1. PICK c \in Chunk : c = Mine(v) /\ c = Mine(v)'
        BY <1>1, <1>6, <2>2, MineForms DEF DispatchInv
      <3>2. v # w
        BY <1>1, <2>2
      <3>3. ~Ahead(k, c)
        BY <1>1, <1>4, <2>2, <3>1, <3>2 DEF SettleInv, AheadInv
      <3>4. ~Ahead(k, c)'
        BY <1>10, <3>3
      <3>5. QED
        BY <3>1, <3>4 DEF Ahead
    <2>3. QED
      BY <2>1, <2>2 DEF AheadInv
  <1>12. CompleterInv'
    <2>1. ~Completer(w)' /\ ~Nearly(w)'
      BY <1>1 DEF Completer, Nearly, TaskLabels
    <2>2. \A v \in Worker \ {w} : /\ Completer(v)' <=> Completer(v)
                                  /\ Nearly(v)' <=> Nearly(v)
      BY <1>1, <1>4 DEF Completer, Nearly, BothTerminal
    <2>3. QED
      BY <1>1, <1>6, <2>1, <2>2 DEF SettleInv, CompleterInv
  <1>13. QED
    BY <1>8, <1>9, <1>11, <1>12 DEF SettleInv

LEMMA SettleSplitCommit ==
  ASSUME DispatchInv, SettleInv, NEW w \in Worker, SplitCommit(w)
  PROVE  SettleInv'
  <1>1. /\ pc[w] \in ImportLabels /\ UNCHANGED queue
        /\ pc'[w] = "idle" /\ task'[w] = NoTask
        /\ \A v \in Worker \ {w} : pc'[v] = pc[v] /\ task'[v] = task[v]
    BY DEF SplitCommit, At, ImportLabels, Close, Goto, DispatchInv, TypeOK
  <1>2. /\ \A c \in Chunk : \A k \in Secondary : ~Live(SecondaryTask(k, c))
        /\ \A v \in Worker : pc[v] \notin Loaded
    BY <1>1, SplitAlone DEF DispatchInv, OwnInv
  <1>3. \A c \in Chunk : /\ chunk'[c].status \in {"QUEUED", "PENDING"}
                         /\ chunk'[c].imported = 0
                         /\ \A k \in Secondary : chunk'[c].task[k] \notin TerminalTask
    BY DEF SplitCommit, NoRow, TerminalTask
  <1>4. \A c \in Chunk : ~Begun(c)'
    BY <1>3 DEF Begun
  <1>5. \A v \in Worker : pc'[v] \notin Loaded
    BY <1>1, <1>2 DEF Loaded, ChunkLabels, RunLabels, TaskLabels, EndLabels
  <1>6. \A c \in Chunk : \A k \in Secondary : ~Live(SecondaryTask(k, c))'
    BY <1>1, <1>2, TaskForms, TaskTypes DEF Live
  <1>7. BegunInv'
    <2>1. ASSUME NEW v \in Worker
          PROVE  /\ pc'[v] \in EarlyLabels /\ task'[v].kind = "chunk" => ~Begun(Mine(v))'
                 /\ pc'[v] \in RunLabels \cup EndLabels => Begun(Mine(v))'
      <3>1. pc'[v] \in EarlyLabels => v # w /\ pc[v] = "load_chunk"
        BY <1>1, <1>5, LabelKinds DEF EarlyLabels, Loaded, ChunkLabels
      <3>2. pc'[v] \in EarlyLabels => Mine(v)' = Mine(v) /\ Mine(v) \in Chunk
        BY <1>1, <3>1, MineForms DEF DispatchInv, Mine
      <3>3. pc'[v] \in EarlyLabels => ~Begun(Mine(v))'
        BY <1>4, <3>2 DEF Begun
      <3>4. QED
        BY <1>5, <3>3 DEF Loaded, ChunkLabels
    <2>2. QED
      BY <1>3, <1>4, <1>6, <2>1 DEF BegunInv
  <1>8. RunInv'
    BY <1>5 DEF RunInv, Loaded, ChunkLabels
  <1>9. AheadInv'
    BY <1>3, <1>5 DEF AheadInv
  <1>10. CompleterInv'
    BY <1>5 DEF CompleterInv, Completer, Nearly, Loaded, EndLabels
  <1>11. QED
    BY <1>7, <1>8, <1>9, <1>10 DEF SettleInv

LEMMA SettleImport ==
  ASSUME DispatchInv, SettleInv, NEW w \in Worker, ImportStep(w)
  PROVE  SettleInv'
  <1>1. ASSUME pc[w] \in ImportLabels, NEW label \in ImportLabels,
               Goto(w, label), UNCHANGED <<queue, task, chunk, chunkView>>
        PROVE  SettleInv'
    <2>1. /\ pc'[w] \notin Loaded \cup {"load_chunk"}
          /\ \A v \in Worker \ {w} : pc'[v] = pc[v]
      BY <1>1, LabelKinds DEF Goto, DispatchInv, TypeOK
    <2>2. \A c \in Chunk : \A k \in Secondary :
            Live(SecondaryTask(k, c))' => Live(SecondaryTask(k, c))
      BY <1>1 DEF Live
    <2>3. \A c \in Chunk : ChunkTask(c) \in queue' => ~Begun(c)
      BY <1>1 DEF SettleInv, BegunInv
    <2>4. QED
      BY <1>1, <2>1, <2>2, <2>3, SettleFrame
  <1>2. CASE ImportLoad(w)
    BY <1>1, <1>2 DEF ImportLoad, At, ImportLabels, shared
  <1>3. CASE ImportBegin(w)
    BY <1>1, <1>3 DEF ImportBegin, At, ImportLabels, shared
  <1>4. CASE SplitFail(w)
    BY <1>1, <1>4 DEF SplitFail, At, ImportLabels, shared
  <1>5. CASE ImportSkipCancelled(w)
    BY <1>5, SettleClose DEF ImportSkipCancelled
  <1>6. CASE ImportFailed(w)
    BY <1>6, SettleClose DEF ImportFailed
  <1>7. CASE SplitDefer(w)
    <2>1. /\ pc[w] \in ImportLabels /\ UNCHANGED <<pc, task, chunk, chunkView>>
          /\ queue' = queue \cup {ChunkTask(cursor[w] + 1)}
      BY <1>7 DEF SplitDefer, At, ImportLabels
    <2>2. \A c \in Chunk : ~Begun(c)
      BY <2>1, SplitAlone DEF DispatchInv, OwnInv, Begun
    <2>3. \A c \in Chunk : \A k \in Secondary :
            /\ Live(SecondaryTask(k, c))' => Live(SecondaryTask(k, c))
            /\ SecondaryTask(k, c) \in queue' => SecondaryTask(k, c) \in queue
      <3>1. \A c \in Chunk : \A k \in Secondary :
              SecondaryTask(k, c) # ChunkTask(cursor[w] + 1)
        BY DEF SecondaryTask, ChunkTask, Secondary
      <3>2. QED
        BY <2>1, <3>1 DEF Live
    <2>4. pc'[w] \notin Loaded \cup {"load_chunk"}
      BY <2>1, LabelKinds
    <2>5. QED
      BY <2>1, <2>2, <2>3, <2>4, SettleFrame
  <1>8. CASE SplitCommit(w)
    BY <1>8, SettleSplitCommit
  <1>9. QED
    BY <1>2, <1>3, <1>4, <1>5, <1>6, <1>7, <1>8 DEF ImportStep
LEMMA SettleChunk ==
  ASSUME DispatchInv, DispatchInv', SettleInv, NEW w \in Worker, ChunkStep(w)
  PROVE  SettleInv'
  <1>0. PICK c0 : c0 = Mine(w)
    OBVIOUS
  <1>1. pc[w] \in Loaded => /\ c0 \in Chunk
                            /\ chunk[c0] \in ChunkRow /\ chunkView[w] \in ChunkRow
    BY <1>0, MineForms DEF DispatchInv, TypeOK
  <1>2. /\ RunLabels \subseteq ChunkLabels /\ ChunkLabels \subseteq Loaded
        /\ "chunk_begin" \in ChunkLabels /\ "chunk_begin" \notin RunLabels
        /\ {"range", "refresh", "range_cancelled", "promote", "defer"} \subseteq RunLabels
    BY DEF Loaded, ChunkLabels, RunLabels
  <1>3. pc[w] \in RunLabels \ {"defer"} => \A k \in Secondary : chunkView[w].task[k] = "PENDING"
    BY DEF DispatchInv, SecondaryInv
  <1>4. CASE LoadChunk(w)
    BY <1>4, SettleLoadChunk
  <1>5. CASE LoadJob(w)
    BY <1>5, SettleRead DEF LoadJob, At, shared, Loaded, ChunkLabels, RunLabels,
       TaskLabels, EndLabels, EarlyLabels
  <1>6. CASE ChunkSkip(w)
    <2>1. /\ pc[w] = "chunk_begin" /\ Goto(w, "complete") /\ UNCHANGED <<queue, task>>
          /\ CommitChunk(w, AsCancelled(chunk[c0]), AsCancelled(chunkView[w]))
      BY <1>0, <1>6 DEF ChunkSkip, At
    <2>2. /\ AsCancelled(chunk[c0]).status = "CANCELLED"
          /\ AsCancelled(chunkView[w]).status = "CANCELLED"
      BY <1>1, <1>2, <2>1 DEF AsCancelled, ChunkRow
    <2>3. "complete" \notin RunLabels
      BY DEF RunLabels
    <2>4. QED
      BY <1>0, <1>2, <2>1, <2>2, <2>3, SettleSole DEF TerminalChunk
  <1>7. CASE ChunkBegin(w)
    <2>1. /\ pc[w] = "chunk_begin" /\ Goto(w, "range") /\ UNCHANGED <<queue, task>>
          /\ CommitChunk(w, AsStarted(chunk[c0]), AsStarted(chunkView[w]))
      BY <1>0, <1>7 DEF ChunkBegin, At
    <2>2. /\ AsStarted(chunk[c0]).status = "PROCESSING"
          /\ AsStarted(chunkView[w]).status = "PROCESSING"
          /\ AsStarted(chunkView[w]).imported = AsStarted(chunk[c0]).imported
          /\ \A k \in Secondary : /\ AsStarted(chunkView[w]).task[k] = "PENDING"
                                  /\ AsStarted(chunk[c0]).task[k] \notin TerminalTask
      BY <1>1, <1>2, <2>1 DEF AsStarted, AllTasks, ChunkRow, TerminalTask
    <2>3. QED
      BY <1>0, <1>2, <2>1, <2>2, SettleSole
  <1>8. CASE BatchCommit(w)
    <2>1. /\ pc[w] = "range" /\ Goto(w, "refresh") /\ UNCHANGED <<queue, task>>
          /\ pc[w] \in RunLabels /\ pc[w] \in Loaded
      BY <1>2, <1>8 DEF BatchCommit, At
    <2>2. PICK written, grown, number :
            CommitChunk(w,
              [chunk[c0] EXCEPT !.manifest = written, !.imported = number],
              [chunkView[w] EXCEPT !.manifest = grown, !.imported = number])
      BY <1>0, <1>8 DEF BatchCommit
    <2>3. PICK row, view :
            /\ row = [chunk[c0] EXCEPT !.manifest = written, !.imported = number]
            /\ view = [chunkView[w] EXCEPT !.manifest = grown, !.imported = number]
      OBVIOUS
    <2>4. /\ row.status = chunk[c0].status /\ view.status = chunkView[w].status
          /\ row.imported = view.imported
          /\ row.task = chunk[c0].task /\ view.task = chunkView[w].task
      BY <1>1, <2>1, <2>3 DEF ChunkRow
    <2>5. \A k \in Secondary : chunkView[w].task[k] = "PENDING"
      BY <1>3, <2>1
    <2>6. chunkView[w].status = "PROCESSING" /\ chunk[c0].status = "PROCESSING"
      <3>1. chunk[c0].status \notin {"ABSENT", "PENDING", "QUEUED"}
        BY <1>0, <2>1 DEF SettleInv, BegunInv, Begun
      <3>2. chunk[c0].status \notin TerminalChunk
        BY <1>0, <2>1, <2>5 DEF SettleInv, RunInv, Secondary
      <3>3. QED
        BY <1>1, <2>1, <3>1, <3>2 DEF ChunkRow, ChunkStatus, SettleInv, RunInv
    <2>7. CommitChunk(w, row, view)
      BY <2>2, <2>3
    <2>8. /\ row.status = "PROCESSING" /\ view.status = "PROCESSING"
          /\ \A k \in Secondary : view.task[k] = "PENDING"
      BY <2>4, <2>5, <2>6
    <2>9. \A k \in Secondary : row.task[k] \notin TerminalTask
      <3>1. \A k \in Secondary : Ahead(k, c0)
        <4>1. c0 \in Chunk /\ task[w] = ChunkTask(c0)
          BY <1>0, <1>2, <2>1, MineForms DEF DispatchInv
        <4>2. QED
          BY <2>1, <2>5, <4>1 DEF Ahead
      <3>2. \A k \in Secondary : chunk[c0].task[k] \notin TerminalTask
        BY <1>1, <2>1, <3>1 DEF SettleInv, AheadInv
      <3>3. QED
        BY <2>4, <3>2
    <2>10. QED
      BY <1>2, <2>1, <2>4, <2>5, <2>7, <2>8, <2>9, SettleSole
  <1>9. CASE RefreshJob(w)
    BY <1>9, SettleRead DEF RefreshJob, AfterBatch, At, shared, Loaded, ChunkLabels,
       RunLabels, TaskLabels, EndLabels, EarlyLabels
  <1>10. CASE RangeCancelled(w)
    <2>1. /\ pc[w] = "range_cancelled" /\ Goto(w, "complete") /\ UNCHANGED <<queue, task>>
          /\ CommitChunk(w, AsCancelled(chunk[c0]), AsCancelled(chunkView[w]))
      BY <1>0, <1>10 DEF RangeCancelled, At
    <2>2. /\ AsCancelled(chunk[c0]).status = "CANCELLED"
          /\ AsCancelled(chunkView[w]).status = "CANCELLED"
      BY <1>1, <1>2, <2>1 DEF AsCancelled, ChunkRow
    <2>3. "complete" \notin RunLabels
      BY DEF RunLabels
    <2>4. QED
      BY <1>0, <1>2, <1>3, <2>1, <2>2, <2>3, SettleSole DEF TerminalChunk
  <1>11. CASE BatchFail(w)
    BY <1>2, <1>3, <1>11, SettleFailChunk DEF BatchFail, At, Secondary
  <1>12. CASE DecodeFail(w)
    <2>1. /\ pc[w] = "range" /\ Goto(w, "complete") /\ UNCHANGED <<queue, task>>
          /\ CommitChunk(w, AsFailed(chunk[c0]), AsFailed(chunkView[w]))
      BY <1>0, <1>12 DEF DecodeFail, At
    <2>2. /\ AsFailed(chunk[c0]).status = "FAILED"
          /\ AsFailed(chunkView[w]).status = "FAILED"
      BY <1>1, <1>2, <2>1 DEF AsFailed, ChunkRow
    <2>3. "complete" \notin RunLabels
      BY DEF RunLabels
    <2>4. QED
      BY <1>0, <1>2, <1>3, <2>1, <2>2, <2>3, SettleSole DEF TerminalChunk
  <1>13. CASE PromoteDefer(w) \/ PromoteCommit(w)
    BY <1>13, SettlePromote
  <1>14. CASE PromoteNone(w)
    BY <1>14, SettleRead DEF PromoteNone, At, shared, Loaded, ChunkLabels,
       RunLabels, TaskLabels, EndLabels, EarlyLabels
  <1>15. CASE SecondaryDefer(w)
    BY <1>15, SettleSecondaryDefer
  <1>16. CASE SecondaryPublish(w)
    BY <1>16, SettlePublish
  <1>17. CASE DeferFail(w)
    <2>1. pc[w] \in {"promote", "defer"} /\ FailChunk(w) /\ Deferring(w) # {}
      BY <1>17 DEF DeferFail
    <2>2. \E k \in Secondary : chunkView[w].task[k] = "PENDING"
      <3>1. CASE pc[w] = "promote"
        BY <1>2, <1>3, <3>1 DEF Secondary
      <3>2. CASE pc[w] = "defer"
        BY <2>1, <3>2 DEF Deferring, At, NextSecondary, Secondary
      <3>3. QED
        BY <2>1, <3>1, <3>2
    <2>3. QED
      BY <1>2, <2>1, <2>2, SettleFailChunk
  <1>18. QED
    BY <1>4, <1>5, <1>6, <1>7, <1>8, <1>9, <1>10, <1>11, <1>12, <1>13, <1>14,
       <1>15, <1>16, <1>17, ZenonT(60) DEF ChunkStep

LEMMA SettleTask ==
  ASSUME DispatchInv, DispatchInv', SettleInv, NEW w \in Worker, TaskStep(w)
  PROVE  SettleInv'
  <1>0. PICK c0, k0 : c0 = Mine(w) /\ k0 = task[w].kind
    OBVIOUS
  <1>1. pc[w] \in TaskLabels =>
          /\ c0 \in Chunk /\ k0 \in Secondary
          /\ chunk[c0] \in ChunkRow /\ chunkView[w] \in ChunkRow
    BY <1>0, MineForms DEF DispatchInv, PlaceInv, TypeOK, Loaded
  <1>2. ASSUME NEW s, NEW label \in {"apply", "complete"}, Goto(w, label), CommitTask(w, s),
               label = "apply" => s \notin TerminalTask, UNCHANGED <<queue, task>>,
               pc[w] \in TaskLabels
        PROVE  SettleInv'
    <2>1. PICK row, view : /\ row = [chunk[c0] EXCEPT !.task[k0] = s]
                           /\ view = [chunkView[w] EXCEPT !.task[k0] = s]
      OBVIOUS
    <2>2. /\ row.status = chunk[c0].status /\ row.imported = chunk[c0].imported
          /\ row.task[k0] = s /\ view.task[k0] = s
          /\ \A k \in Secondary \ {k0} : /\ row.task[k] = chunk[c0].task[k]
                                         /\ view.task[k] = chunkView[w].task[k]
          /\ view.status = chunkView[w].status
      BY <1>1, <1>2, <2>1 DEF ChunkRow
    <2>3. CommitChunk(w, row, view)
      BY <1>0, <1>2, <2>1 DEF CommitTask
    <2>4. QED
      BY <1>0, <1>2, <2>2, <2>3, SettleTaskCommit
  <1>3. CASE SecondaryBegin(w)
    BY <1>2, <1>3 DEF SecondaryBegin, At, TaskLabels, TerminalTask
  <1>4. CASE SecondaryApply(w)
    <2>1. /\ pc[w] \in TaskLabels /\ Goto(w, "complete") /\ UNCHANGED <<queue, task>>
      BY <1>4 DEF SecondaryApply, At, TaskLabels
    <2>2. PICK row, view :
            /\ row = [chunk[c0] EXCEPT !.task[k0] = "COMPLETED", !.manifest = @ \ OfKind(@, k0)]
            /\ view = [chunkView[w] EXCEPT !.task[k0] = "COMPLETED", !.manifest = @ \ OfKind(@, k0)]
      OBVIOUS
    <2>3. CommitChunk(w, row, view)
      BY <1>0, <1>4, <2>2 DEF SecondaryApply
    <2>4. /\ row.status = chunk[c0].status /\ row.imported = chunk[c0].imported
          /\ row.task[k0] = "COMPLETED" /\ view.task[k0] = "COMPLETED"
          /\ \A k \in Secondary \ {k0} : /\ row.task[k] = chunk[c0].task[k]
                                         /\ view.task[k] = chunkView[w].task[k]
          /\ view.status = chunkView[w].status
      BY <1>1, <2>1, <2>2 DEF ChunkRow
    <2>5. QED
      BY <1>0, <2>1, <2>3, <2>4, SettleTaskCommit
  <1>5. CASE SecondaryFail(w)
    <2>1. /\ pc[w] \in TaskLabels /\ Goto(w, "complete") /\ UNCHANGED <<queue, task>>
      BY <1>5 DEF SecondaryFail, At, TaskLabels
    <2>2. PICK row : row = [chunk[c0] EXCEPT !.task[k0] = "FAILED"]
      OBVIOUS
    <2>3. CommitChunk(w, row, row)
      BY <1>0, <1>5, <2>2 DEF SecondaryFail
    <2>4. /\ row.status = chunk[c0].status /\ row.imported = chunk[c0].imported
          /\ \A k \in Secondary \ {k0} : row.task[k] = chunk[c0].task[k]
      BY <1>1, <2>1, <2>2 DEF ChunkRow
    <2>5. QED
      BY <1>0, <2>1, <2>3, <2>4, SettleTaskCommit
  <1>6. QED
    BY <1>3, <1>4, <1>5 DEF TaskStep

LEMMA SettleEnd ==
  ASSUME DispatchInv, DispatchInv', SettleInv, NEW w \in Worker, EndStep(w)
  PROVE  SettleInv'
  <1> USE DEF At, shared
  <1>1. CASE NotComplete(w)
    BY <1>1, SettleClose DEF NotComplete
  <1>2. CASE AlreadyEnded(w)
    BY <1>2, SettleRead DEF AlreadyEnded, Loaded, ChunkLabels, RunLabels, TaskLabels,
       EndLabels, EarlyLabels
  <1>3. CASE CompleteChunk(w)
    BY <1>3, SettleComplete
  <1>4. CASE FinalizeGiveUp(w)
    BY <1>4, SettleClose DEF FinalizeGiveUp
  <1>5. CASE FinalizeLock(w)
    BY <1>5, SettleRead DEF FinalizeLock, Loaded, ChunkLabels, RunLabels, TaskLabels,
       EndLabels, EarlyLabels
  <1>6. CASE Finalize(w)
    BY <1>6, SettleClose DEF Finalize
  <1>7. CASE FinalizeTooEarly(w)
    BY <1>7, SettleRead DEF FinalizeTooEarly, Loaded, ChunkLabels, RunLabels, TaskLabels,
       EndLabels, EarlyLabels
  <1>8. CASE MergeFail(w)
    BY <1>8, SettleClose DEF MergeFail
  <1>9. CASE FinalizeClose(w)
    BY <1>9, SettleClose DEF FinalizeClose
  <1>10. QED
    BY <1>1, <1>2, <1>3, <1>4, <1>5, <1>6, <1>7, <1>8, <1>9, Zenon DEF EndStep

LEMMA SettleStep == SettleInv /\ DispatchInv /\ DispatchInv' /\ [Next]_vars => SettleInv'
  <1> SUFFICES ASSUME SettleInv, DispatchInv, DispatchInv', [Next]_vars
               PROVE  SettleInv'
    OBVIOUS
  <1>1. ASSUME NEW w \in Worker, WorkerStep(w)
        PROVE  SettleInv'
    BY <1>1, SettleStart, SettleImport, SettleChunk, SettleTask, SettleEnd DEF WorkerStep
  <1>2. ASSUME UNCHANGED <<chunk, queue, task, pc, chunkView>>
        PROVE  SettleInv'
    BY <1>2 DEF SettleInv, BegunInv, RunInv, AheadInv, CompleterInv, Begun, Ahead,
                Live, Mine, Completer, Nearly
  <1>3. ASSUME NEW r \in Request, CancelCheck(r) \/ CancelCommit(r)
        PROVE  SettleInv'
    BY <1>2, <1>3 DEF CancelCheck, CancelCommit, shared
  <1>4. CASE UNCHANGED vars
    BY <1>2, <1>4 DEF vars
  <1>5. QED
    BY <1>1, <1>3, <1>4 DEF Next

LEMMA SettleInit == Init => SettleInv
  <1> SUFFICES ASSUME Init PROVE SettleInv
    OBVIOUS
  <1>1. /\ \A w \in Worker : pc[w] \notin Loaded \cup {"load_chunk"}
        /\ \A c \in Chunk : /\ ~Begun(c) /\ chunk[c].imported = 0
                            /\ \A k \in Secondary : chunk[c].task[k] = "NULL"
    BY DEF Init, Loaded, ChunkLabels, RunLabels, TaskLabels, EndLabels, Begun, NoRow
  <1>2. \A c \in Chunk : \A k \in Secondary : ~Live(SecondaryTask(k, c))
    BY TaskForms, TaskTypes DEF Init, Live, NoRow
  <1>3. BegunInv
    BY <1>1, <1>2, LabelKinds DEF BegunInv
  <1>4. RunInv /\ AheadInv
    BY <1>1, LabelKinds DEF RunInv, AheadInv, TerminalTask
  <1>5. CompleterInv
    BY <1>1, LabelKinds DEF CompleterInv, Completer, Nearly, Loaded
  <1>6. QED
    BY <1>3, <1>4, <1>5 DEF SettleInv

THEOREM SettleCorrect == Spec => []SettleInv
  <1>1. SettleInv /\ DispatchInv /\ DispatchInv' /\ [Next]_vars => SettleInv'
    BY SettleStep
  <1>2. QED
    BY <1>1, SettleInit, DispatchCorrect, PTL DEF Spec

-----------------------------------------------------------------------------
(* The parent's row, and what the rows show of the abstract import *)

LockLabels == {"summarize", "closing"}

\* What the workers know of the parent is so, or was and cannot matter any
\* more; only the worker that holds the finalization lock may give a result,
\* and only if none is there yet.
JobInv ==
  /\ Live(ImportTask) => job.status \in {"QUEUED", "CANCELLING"}
  /\ \A w \in Worker :
       /\ jobView[w].cancelled => job.cancelled
       /\ pc[w] = "range_cancelled" => job.cancelled
       /\ pc[w] = "summarize" => job.status \notin TerminalJob
       /\ \A v \in Worker : pc[w] \in LockLabels /\ pc[v] \in LockLabels => w = v

\* No step queues the import again.
NoNewImport == ImportTask \in queue' => ImportTask \in queue

LEMMA JobMove ==
  ASSUME TypeOK, JobInv, NEW w \in Worker, NEW label, Goto(w, label),
         label \notin {"range_cancelled"} \cup LockLabels, UNCHANGED <<job, task>>,
         \/ jobView' = jobView
         \/ jobView' = [jobView EXCEPT ![w] = job]
         \/ jobView' = [jobView EXCEPT ![w] = Expired],
         NoNewImport
  PROVE  JobInv'
  <1>1. pc'[w] = label /\ \A v \in Worker \ {w} : pc'[v] = pc[v]
    BY DEF Goto, TypeOK
  <1>2. \A v \in Worker : jobView'[v] \in {jobView[v], job, Expired}
    BY DEF TypeOK
  <1>3. \A v \in Worker : jobView'[v].cancelled => job.cancelled
    BY <1>2 DEF JobInv, Expired
  <1>4. Live(ImportTask)' => Live(ImportTask)
    BY DEF Live, NoNewImport
  <1>5. QED
    BY <1>1, <1>3, <1>4 DEF JobInv, LockLabels

LEMMA JobClose ==
  ASSUME TypeOK, JobInv, NEW w \in Worker, Close(w), UNCHANGED <<job, queue>>
  PROVE  JobInv'
  <1>1. pc'[w] = "idle" /\ \A v \in Worker \ {w} : pc'[v] = pc[v]
    BY DEF Close, Goto, TypeOK
  <1>2. \A v \in Worker : jobView'[v] \in {jobView[v], Expired}
    BY DEF Close, TypeOK
  <1>3. \A v \in Worker : jobView'[v].cancelled => job.cancelled
    BY <1>2 DEF JobInv, Expired
  <1>4. Live(ImportTask)' => Live(ImportTask)
    BY TaskTypes DEF Live, Close, TypeOK
  <1>5. QED
    BY <1>1, <1>3, <1>4 DEF JobInv, LockLabels

\* The import task ends; with it no chunk's task has gone far.
LEMMA JobSplitEnds ==
  ASSUME DispatchInv, JobInv, NEW w \in Worker, pc[w] \in ImportLabels, Close(w),
         UNCHANGED queue, job'.cancelled = job.cancelled
  PROVE  JobInv'
  <1>1. pc'[w] = "idle" /\ \A v \in Worker \ {w} : pc'[v] = pc[v] /\ task'[v] = task[v]
    BY DEF Close, Goto, DispatchInv, TypeOK
  <1>2. /\ \A v \in Worker : pc[v] \notin Loaded
        /\ ImportTask \notin queue /\ \A v \in Worker \ {w} : task[v] # ImportTask
    BY SplitAlone DEF DispatchInv, OwnInv
  <1>3. \A v \in Worker : pc'[v] \notin {"range_cancelled", "summarize", "closing"}
    BY <1>1, <1>2 DEF Loaded, ChunkLabels, RunLabels, EndLabels
  <1>4. ~Live(ImportTask)'
    BY <1>1, <1>2, TaskTypes DEF Live, Close, DispatchInv, TypeOK
  <1>5. \A v \in Worker : jobView'[v] \in {jobView[v], Expired}
    BY DEF Close, DispatchInv, TypeOK
  <1>6. \A v \in Worker : jobView'[v].cancelled => job.cancelled
    BY <1>5 DEF JobInv, Expired
  <1>7. QED
    BY <1>3, <1>4, <1>6 DEF JobInv, LockLabels

LEMMA JobStart ==
  ASSUME DispatchInv, JobInv, NEW w \in Worker, TakeTask(w)
  PROVE  JobInv'
  <1>1. PICK t \in queue :
          /\ queue' = queue \ {t}
          /\ task' = [task EXCEPT ![w] = t]
          /\ Goto(w, IF t = ImportTask THEN "import" ELSE "load_chunk")
    BY DEF TakeTask
  <1>2. /\ pc'[w] \in {"import", "load_chunk"} /\ task'[w] = t
        /\ \A v \in Worker \ {w} : pc'[v] = pc[v] /\ task'[v] = task[v]
        /\ UNCHANGED <<job, jobView>>
    BY <1>1 DEF Goto, DispatchInv, TypeOK, TakeTask
  <1>3. Live(ImportTask)' => Live(ImportTask)
    BY <1>1, <1>2 DEF Live
  <1>4. QED
    BY <1>2, <1>3 DEF JobInv, LockLabels

LEMMA JobImport ==
  ASSUME DispatchInv, JobInv, NEW w \in Worker, ImportStep(w)
  PROVE  JobInv'
  <1> USE DEF At, shared
  <1>0. TypeOK
    BY DEF DispatchInv
  <1>1. CASE ImportLoad(w)
    BY <1>0, <1>1, JobMove DEF ImportLoad, LockLabels, NoNewImport
  <1>2. CASE ImportSkipCancelled(w)
    <2>1. job'.cancelled = job.cancelled
      BY <1>0, <1>2 DEF ImportSkipCancelled, TypeOK, JobRow
    <2>2. QED
      BY <1>2, <2>1, JobSplitEnds DEF ImportSkipCancelled, ImportLabels
  <1>3. CASE ImportBegin(w)
    BY <1>0, <1>3, JobMove DEF ImportBegin, LockLabels, NoNewImport
  <1>4. CASE SplitDefer(w)
    <2>1. ImportTask # ChunkTask(cursor[w] + 1)
      BY DEF ImportTask, ChunkTask
    <2>2. Live(ImportTask)' => Live(ImportTask)
      BY <1>4, <2>1 DEF SplitDefer, Live
    <2>3. UNCHANGED <<job, pc, jobView>>
      BY <1>4 DEF SplitDefer
    <2>4. QED
      BY <2>2, <2>3 DEF JobInv
  <1>5. CASE SplitCommit(w)
    <2>1. job'.cancelled = job.cancelled
      BY <1>0, <1>5 DEF SplitCommit, TypeOK, JobRow
    <2>2. QED
      BY <1>5, <2>1, JobSplitEnds DEF SplitCommit, ImportLabels
  <1>6. CASE SplitFail(w)
    BY <1>0, <1>6, JobMove DEF SplitFail, LockLabels, NoNewImport
  <1>7. CASE ImportFailed(w)
    <2>1. job'.cancelled = job.cancelled
      BY <1>0, <1>7 DEF ImportFailed, TypeOK, JobRow
    <2>2. QED
      BY <1>7, <2>1, JobSplitEnds DEF ImportFailed, ImportLabels
  <1>8. QED
    BY <1>1, <1>2, <1>3, <1>4, <1>5, <1>6, <1>7 DEF ImportStep

LEMMA JobChunk ==
  ASSUME DispatchInv, JobInv, NEW w \in Worker, ChunkStep(w)
  PROVE  JobInv'
  <1> USE JobMove DEF At, shared, LockLabels, NoNewImport
  <1>0. TypeOK
    BY DEF DispatchInv
  <1>1. CASE LoadChunk(w)
    <2>1. CASE Close(w)
      BY <1>0, <1>1, <2>1, JobClose DEF LoadChunk
    <2>2. CASE Goto(w, "load_job") /\ UNCHANGED <<task, jobView>>
      BY <1>0, <1>1, <2>2 DEF LoadChunk
    <2>3. QED
      BY <1>1, <2>1, <2>2 DEF LoadChunk
  <1>2. CASE LoadJob(w)
    BY <1>0, <1>2 DEF LoadJob
  <1>3. CASE ChunkSkip(w)
    BY <1>0, <1>3 DEF ChunkSkip
  <1>4. CASE ChunkBegin(w)
    BY <1>0, <1>4 DEF ChunkBegin
  <1>5. CASE BatchCommit(w)
    BY <1>0, <1>5 DEF BatchCommit
  <1>6. CASE RefreshJob(w)
    <2>1. /\ pc'[w] \in {"range_cancelled", "range", "promote"}
          /\ pc'[w] = "range_cancelled" => job.cancelled
          /\ \A v \in Worker \ {w} : pc'[v] = pc[v] /\ jobView'[v] = jobView[v]
          /\ jobView'[w] = job
          /\ UNCHANGED <<job, queue, task>>
      BY <1>0, <1>6 DEF RefreshJob, Goto, AfterBatch, TypeOK
    <2>2. QED
      BY <2>1 DEF JobInv, Live
  <1>7. CASE RangeCancelled(w)
    BY <1>0, <1>7 DEF RangeCancelled
  <1>8. CASE BatchFail(w)
    BY <1>0, <1>8 DEF BatchFail, FailChunk
  <1>9. CASE DecodeFail(w)
    BY <1>0, <1>9 DEF DecodeFail
  <1>10. CASE PromoteDefer(w)
    <2>1. \A c \in Chunk : ImportTask # ChunkTask(c)
      BY DEF ImportTask, ChunkTask
    <2>2. NoNewImport
      BY <1>10, <2>1 DEF PromoteDefer, Foremost, Promotable
    <2>3. QED
      BY <1>0, <1>10, <2>2 DEF PromoteDefer
  <1>11. CASE PromoteCommit(w)
    BY <1>0, <1>11 DEF PromoteCommit
  <1>12. CASE PromoteNone(w)
    BY <1>0, <1>12 DEF PromoteNone
  <1>13. CASE SecondaryDefer(w)
    <2>1. \A k \in Secondary : ImportTask # SecondaryTask(k, Mine(w))
      BY DEF ImportTask, SecondaryTask, Secondary
    <2>2. PICK k \in Secondary :
            queue' \in {queue, queue \cup {SecondaryTask(k, Mine(w))}}
      BY <1>13 DEF SecondaryDefer, NextSecondary, Secondary
    <2>3. Live(ImportTask)' => Live(ImportTask)
      BY <1>13, <2>1, <2>2 DEF SecondaryDefer, Live
    <2>4. UNCHANGED <<job, pc, jobView>>
      BY <1>13 DEF SecondaryDefer
    <2>5. QED
      BY <2>3, <2>4 DEF JobInv
  <1>14. CASE SecondaryPublish(w)
    BY <1>0, <1>14 DEF SecondaryPublish
  <1>15. CASE DeferFail(w)
    BY <1>0, <1>15 DEF DeferFail, FailChunk
  <1>16. QED
    BY <1>1, <1>2, <1>3, <1>4, <1>5, <1>6, <1>7, <1>8, <1>9, <1>10, <1>11,
       <1>12, <1>13, <1>14, <1>15, ZenonT(60) DEF ChunkStep

LEMMA JobTask ==
  ASSUME DispatchInv, JobInv, NEW w \in Worker, TaskStep(w)
  PROVE  JobInv'
  <1>1. /\ \E label \in {"apply", "complete"} : Goto(w, label)
        /\ UNCHANGED <<job, queue, task>>
        /\ jobView' = jobView \/ jobView' = [jobView EXCEPT ![w] = Expired]
    BY DEF TaskStep, SecondaryBegin, SecondaryApply, SecondaryFail
  <1>2. QED
    BY <1>1, JobMove DEF DispatchInv, LockLabels, NoNewImport

\* A worker that finalizes does so after the import task has gone.
LEMMA ImportGone ==
  ASSUME DispatchInv, NEW w \in Worker, pc[w] \in Loaded
  PROVE  ~Live(ImportTask)
  <1>1. Mine(w) \in Chunk /\ chunk[Mine(w)].status # "ABSENT"
    BY MineForms DEF DispatchInv, RowInv
  <1>2. QED
    BY <1>1 DEF DispatchInv, SplitInv

LEMMA JobEnd ==
  ASSUME DispatchInv, JobInv, NEW w \in Worker, EndStep(w)
  PROVE  JobInv'
  <1> USE DEF At, shared
  <1>0. TypeOK
    BY DEF DispatchInv
  <1>1. CASE NotComplete(w)
    BY <1>0, <1>1, JobClose DEF NotComplete
  <1>2. CASE AlreadyEnded(w)
    BY <1>0, <1>2, JobMove DEF AlreadyEnded, LockLabels, NoNewImport
  <1>3. CASE CompleteChunk(w)
    BY <1>0, <1>3, JobMove DEF CompleteChunk, LockLabels, NoNewImport
  <1>4. CASE FinalizeGiveUp(w)
    BY <1>0, <1>4, JobClose DEF FinalizeGiveUp
  <1>5. CASE FinalizeLock(w)
    <2>1. /\ pc'[w] \in LockLabels /\ \A v \in Worker : pc[v] \notin LockLabels
          /\ pc'[w] = "summarize" => job.status \notin TerminalJob
          /\ \A v \in Worker \ {w} : pc'[v] = pc[v] /\ jobView'[v] = jobView[v]
          /\ jobView'[w] = job
          /\ UNCHANGED <<job, queue, task>>
      BY <1>0, <1>5 DEF FinalizeLock, MayFinalize, LockFree, Goto, LockLabels, TypeOK
    <2>2. pc'[w] # "range_cancelled"
      BY <2>1 DEF LockLabels
    <2>3. QED
      BY <2>1, <2>2 DEF JobInv, Live, LockLabels
  <1>6. CASE Finalize(w)
    <2>1. /\ pc[w] = "summarize" /\ Close(w) /\ UNCHANGED queue
          /\ job'.cancelled = job.cancelled
      BY <1>0, <1>6 DEF Finalize, TypeOK, JobRow
    <2>2. pc'[w] = "idle" /\ \A v \in Worker \ {w} : pc'[v] = pc[v] /\ task'[v] = task[v]
      BY <1>0, <2>1 DEF Close, Goto, TypeOK
    <2>3. ~Live(ImportTask)'
      <3>1. ~Live(ImportTask)
        BY <2>1, ImportGone DEF Loaded, EndLabels
      <3>2. QED
        BY <1>0, <2>1, <2>2, <3>1, TaskTypes DEF Live, Close, TypeOK
    <2>4. \A v \in Worker : jobView'[v] \in {jobView[v], Expired}
      BY <1>0, <2>1 DEF Close, TypeOK
    <2>5. \A v \in Worker : jobView'[v].cancelled => job.cancelled
      BY <2>4 DEF JobInv, Expired
    <2>6. \A v \in Worker : pc'[v] # "summarize"
      BY <2>1, <2>2 DEF JobInv, LockLabels
    <2>7. QED
      BY <2>1, <2>2, <2>3, <2>5, <2>6 DEF JobInv, LockLabels
  <1>7. CASE FinalizeTooEarly(w)
    <2>1. /\ pc[w] = "summarize" /\ pc'[w] = "closing"
          /\ \A v \in Worker \ {w} : pc'[v] = pc[v]
          /\ UNCHANGED <<job, queue, task, jobView>>
      BY <1>0, <1>7 DEF FinalizeTooEarly, Goto, TypeOK
    <2>2. QED
      BY <2>1 DEF JobInv, Live, LockLabels
  <1>8. CASE MergeFail(w)
    BY <1>0, <1>8, JobClose DEF MergeFail
  <1>9. CASE FinalizeClose(w)
    BY <1>0, <1>9, JobClose DEF FinalizeClose
  <1>10. QED
    BY <1>1, <1>2, <1>3, <1>4, <1>5, <1>6, <1>7, <1>8, <1>9, Zenon DEF EndStep

LEMMA JobStep == JobInv /\ DispatchInv /\ [Next]_vars => JobInv'
  <1> SUFFICES ASSUME JobInv, DispatchInv, [Next]_vars
               PROVE  JobInv'
    OBVIOUS
  <1>1. ASSUME NEW w \in Worker, WorkerStep(w)
        PROVE  JobInv'
    BY <1>1, JobStart, JobImport, JobChunk, JobTask, JobEnd DEF WorkerStep
  <1>2. ASSUME NEW r \in Request, CancelCheck(r)
        PROVE  JobInv'
    BY <1>2 DEF CancelCheck, shared, JobInv, Live
  <1>3. ASSUME NEW r \in Request, CancelCommit(r)
        PROVE  JobInv'
    BY <1>3 DEF CancelCommit, JobInv, Live, TerminalJob
  <1>4. CASE UNCHANGED vars
    BY <1>4 DEF vars, JobInv, Live
  <1>5. QED
    BY <1>1, <1>2, <1>3, <1>4 DEF Next

LEMMA JobInit == Init => JobInv
  BY DEF Init, JobInv, Expired, LockLabels

THEOREM JobCorrect == Spec => []JobInv
  <1>1. JobInv /\ DispatchInv /\ [Next]_vars => JobInv'
    BY JobStep
  <1>2. QED
    BY <1>1, JobInit, DispatchCorrect, PTL DEF Spec

\* What a step shows of the chunks: nothing new, one batch more of an open
\* chunk, or the end of an open chunk.
ShowsSame ==
  \A c \in Chunk :
    /\ chunk'[c].imported = chunk[c].imported
    /\ \/ chunk'[c].status = chunk[c].status
       \/ chunk[c].status \notin TerminalChunk /\ chunk'[c].status \notin TerminalChunk
ShowsBatch(c) ==
  /\ chunk[c].status \notin TerminalChunk /\ chunk'[c].status \notin TerminalChunk
  /\ chunk'[c].imported = chunk[c].imported + 1
  /\ \A d \in Chunk \ {c} : chunk'[d] = chunk[d]
ShowsEnd(c) ==
  /\ chunk[c].status \notin TerminalChunk /\ chunk'[c].status \in TerminalChunk
  /\ chunk'[c].status = "CANCELLED" => job.cancelled
  /\ chunk'[c].imported = chunk[c].imported
  /\ \A d \in Chunk \ {c} : chunk'[d] = chunk[d]
Shows == ShowsSame \/ \E c \in Chunk : ShowsBatch(c) \/ ShowsEnd(c)

LEMMA StillOpen ==
  ASSUME DispatchInv, SettleInv, NEW w \in Worker
  PROVE  /\ pc[w] \in ChunkLabels => Mine(w) \in Chunk /\ pc[w] \in Loaded
         /\ pc[w] = "chunk_begin" =>
              ~Begun(Mine(w)) /\ chunk[Mine(w)].status \notin TerminalChunk
         /\ pc[w] \in RunLabels /\ (\E k \in Secondary : chunkView[w].task[k] = "PENDING")
              => chunk[Mine(w)].status \notin TerminalChunk
         /\ pc[w] \in {"range", "range_cancelled", "promote"}
              => chunk[Mine(w)].status \notin TerminalChunk
  <1>1. pc[w] \in ChunkLabels => Mine(w) \in Chunk /\ pc[w] \in Loaded
    BY MineForms DEF DispatchInv, Loaded
  <1>2. pc[w] = "chunk_begin" =>
          ~Begun(Mine(w)) /\ chunk[Mine(w)].status \notin TerminalChunk
    BY DEF DispatchInv, PlaceInv, ChunkLabels, EarlyLabels, SettleInv, BegunInv, Begun,
           TerminalChunk
  <1>3. pc[w] \in RunLabels /\ (\E k \in Secondary : chunkView[w].task[k] = "PENDING")
              => chunk[Mine(w)].status \notin TerminalChunk
    BY DEF SettleInv, RunInv
  <1>4. pc[w] \in {"range", "range_cancelled", "promote"}
          => pc[w] \in RunLabels /\ \E k \in Secondary : chunkView[w].task[k] = "PENDING"
    BY DEF DispatchInv, SecondaryInv, RunLabels, Secondary
  <1>5. QED
    BY <1>1, <1>2, <1>3, <1>4

LEMMA ShowsCommit ==
  ASSUME DispatchInv, NEW w \in Worker, pc[w] \in Loaded, NEW row, NEW view,
         CommitChunk(w, row, view), row.imported = chunk[Mine(w)].imported,
         \/ row.status = chunk[Mine(w)].status
         \/ /\ chunk[Mine(w)].status \notin TerminalChunk
            /\ row.status = "CANCELLED" => job.cancelled
  PROVE  Shows
  <1>1. Mine(w) \in Chunk
    BY MineForms DEF DispatchInv
  <1>2. PICK c \in Chunk : c = Mine(w)
    BY <1>1
  <1>3. /\ chunk'[c] = row
        /\ \A d \in Chunk \ {c} : chunk'[d] = chunk[d]
    BY <1>2, CommitFrame DEF DispatchInv
  <1>4. CASE row.status = chunk[c].status \/ row.status \notin TerminalChunk
    BY <1>2, <1>3, <1>4 DEF Shows, ShowsSame
  <1>5. CASE row.status # chunk[c].status /\ row.status \in TerminalChunk
    <2>1. ShowsEnd(c)
      BY <1>2, <1>3, <1>5 DEF ShowsEnd
    <2>2. QED
      BY <2>1 DEF Shows
  <1>6. QED
    BY <1>4, <1>5

LEMMA ShowsImport ==
  ASSUME DispatchInv, SettleInv, NEW w \in Worker, ImportStep(w)
  PROVE  ShowsSame
  <1>1. CASE SplitCommit(w)
    <2>1. \A c \in Chunk : chunk[c].status = "ABSENT"
      BY <1>1, SplitAlone DEF SplitCommit, At, ImportLabels, DispatchInv, OwnInv
    <2>2. \A c \in Chunk : chunk[c].imported = 0
      BY <2>1 DEF SettleInv, BegunInv, Begun
    <2>3. \A c \in Chunk : /\ chunk'[c].imported = 0
                           /\ chunk'[c].status \in {"QUEUED", "PENDING"}
      BY <1>1 DEF SplitCommit, NoRow
    <2>4. QED
      BY <2>1, <2>2, <2>3 DEF ShowsSame, TerminalChunk
  <1>2. CASE UNCHANGED chunk
    BY <1>2 DEF ShowsSame
  <1>3. QED
    BY <1>1, <1>2 DEF ImportStep, ImportLoad, ImportSkipCancelled, ImportBegin, SplitDefer,
       SplitFail, ImportFailed, shared

LEMMA ShowsChunk ==
  ASSUME DispatchInv, SettleInv, JobInv, NEW w \in Worker, ChunkStep(w)
  PROVE  Shows /\ UNCHANGED <<job, total, finalized>>
  <1>0. pc[w] \in Loaded =>
          /\ Mine(w) \in Chunk
          /\ chunk[Mine(w)] \in ChunkRow /\ chunkView[w] \in ChunkRow
    BY MineType DEF DispatchInv
  <1>1. UNCHANGED <<job, total, finalized>>
    <2>1. CASE LoadChunk(w) \/ LoadJob(w)
      BY <2>1 DEF LoadChunk, LoadJob, shared, history
    <2>2. CASE ChunkSkip(w) \/ ChunkBegin(w) \/ BatchCommit(w) \/ RefreshJob(w)
      BY <2>2 DEF ChunkSkip, ChunkBegin, BatchCommit, RefreshJob, shared, history
    <2>3. CASE RangeCancelled(w) \/ BatchFail(w) \/ DecodeFail(w)
      BY <2>3 DEF RangeCancelled, BatchFail, DecodeFail, FailChunk, history
    <2>4. CASE PromoteDefer(w) \/ PromoteCommit(w) \/ PromoteNone(w)
      BY <2>4 DEF PromoteDefer, PromoteCommit, PromoteNone, shared, history
    <2>5. CASE SecondaryDefer(w) \/ SecondaryPublish(w) \/ DeferFail(w)
      BY <2>5 DEF SecondaryDefer, SecondaryPublish, DeferFail, FailChunk, history
    <2>6. QED
      BY <2>1, <2>2, <2>3, <2>4, <2>5 DEF ChunkStep
  <1>2. CASE UNCHANGED chunk
    BY <1>1, <1>2 DEF Shows, ShowsSame
  <1>3. CASE ChunkSkip(w)
    <2>1. /\ pc[w] = "chunk_begin" /\ pc[w] \in Loaded /\ jobView[w].cancelled
          /\ CommitChunk(w, AsCancelled(chunk[Mine(w)]), AsCancelled(chunkView[w]))
      BY <1>3 DEF ChunkSkip, At, Loaded, ChunkLabels
    <2>2. AsCancelled(chunk[Mine(w)]).imported = chunk[Mine(w)].imported
      BY <1>0, <2>1 DEF AsCancelled, ChunkRow
    <2>3. job.cancelled /\ chunk[Mine(w)].status \notin TerminalChunk
      BY <2>1, StillOpen DEF JobInv
    <2>4. QED
      BY <1>1, <2>1, <2>2, <2>3, ShowsCommit
  <1>4. CASE ChunkBegin(w)
    <2>1. /\ pc[w] = "chunk_begin" /\ pc[w] \in Loaded
          /\ CommitChunk(w, AsStarted(chunk[Mine(w)]), AsStarted(chunkView[w]))
      BY <1>4 DEF ChunkBegin, At, Loaded, ChunkLabels
    <2>2. /\ AsStarted(chunk[Mine(w)]).imported = 0
          /\ AsStarted(chunk[Mine(w)]).status = "PROCESSING"
      BY <1>0, <2>1 DEF AsStarted, ChunkRow
    <2>3. chunk[Mine(w)].status \notin TerminalChunk /\ ~Begun(Mine(w))
      BY <2>1, StillOpen
    <2>4. chunk[Mine(w)].imported = 0
      BY <1>0, <2>1, <2>3 DEF SettleInv, BegunInv
    <2>5. QED
      BY <1>1, <2>1, <2>2, <2>3, <2>4, ShowsCommit
  <1>5. CASE BatchCommit(w)
    <2>1. pc[w] = "range" /\ pc[w] \in RunLabels /\ pc[w] \in Loaded
      BY <1>5 DEF BatchCommit, At, RunLabels, Loaded, ChunkLabels
    <2>2. PICK written, view :
            CommitChunk(w, [chunk[Mine(w)] EXCEPT !.manifest = written,
                                          !.imported = chunkView[w].imported + 1], view)
      BY <1>5 DEF BatchCommit
    <2>3. PICK row : row = [chunk[Mine(w)] EXCEPT !.manifest = written,
                                          !.imported = chunkView[w].imported + 1]
      OBVIOUS
    <2>4. /\ row.imported = chunk[Mine(w)].imported + 1
          /\ row.status = chunk[Mine(w)].status
      BY <1>0, <2>1, <2>3 DEF ChunkRow, SettleInv, RunInv
    <2>5. chunk[Mine(w)].status \notin TerminalChunk
      BY <2>1, StillOpen
    <2>6. PICK c \in Chunk : c = Mine(w)
      BY <1>0, <2>1
    <2>7. /\ chunk'[c] = row
          /\ \A d \in Chunk \ {c} : chunk'[d] = chunk[d]
      BY <2>2, <2>3, <2>6, CommitFrame DEF DispatchInv
    <2>8. ShowsBatch(c)
      BY <2>4, <2>5, <2>6, <2>7 DEF ShowsBatch
    <2>9. QED
      BY <1>1, <2>8 DEF Shows
  <1>6. CASE RangeCancelled(w)
    <2>1. /\ pc[w] = "range_cancelled" /\ pc[w] \in Loaded
          /\ CommitChunk(w, AsCancelled(chunk[Mine(w)]), AsCancelled(chunkView[w]))
      BY <1>6 DEF RangeCancelled, At, Loaded, ChunkLabels, RunLabels
    <2>2. AsCancelled(chunk[Mine(w)]).imported = chunk[Mine(w)].imported
      BY <1>0, <2>1 DEF AsCancelled, ChunkRow
    <2>3. job.cancelled /\ chunk[Mine(w)].status \notin TerminalChunk
      BY <2>1, StillOpen DEF JobInv
    <2>4. QED
      BY <1>1, <2>1, <2>2, <2>3, ShowsCommit
  <1>7. ASSUME NEW view, CommitChunk(w, AsFailed(chunk[Mine(w)]), view), pc[w] \in RunLabels,
               chunk[Mine(w)].status \notin TerminalChunk
        PROVE  Shows
    <2>1. /\ AsFailed(chunk[Mine(w)]).imported = chunk[Mine(w)].imported
          /\ AsFailed(chunk[Mine(w)]).status = "FAILED"
      BY <1>0, <1>7 DEF AsFailed, ChunkRow, Loaded, ChunkLabels
    <2>2. QED
      BY <1>7, <2>1, ShowsCommit DEF Loaded, ChunkLabels
  <1>8. CASE BatchFail(w)
    BY <1>1, <1>7, <1>8, StillOpen DEF BatchFail, FailChunk, At, RunLabels
  <1>9. CASE DecodeFail(w)
    BY <1>1, <1>7, <1>9, StillOpen DEF DecodeFail, At, RunLabels
  <1>10. CASE PromoteCommit(w)
    <2>1. chunk' = [chunk EXCEPT ![cursor[w]].status = "QUEUED"]
          /\ chunk[cursor[w]].status = "PENDING"
      BY <1>10 DEF PromoteCommit, At, DispatchInv, PromoteInv
    <2>2. QED
      BY <1>1, <2>1 DEF DispatchInv, TypeOK, ChunkRow, Shows, ShowsSame, TerminalChunk
  <1>11. CASE SecondaryPublish(w)
    <2>1. chunk' = [chunk EXCEPT ![Mine(w)].task = chunkView[w].task]
      BY <1>11 DEF SecondaryPublish
    <2>2. QED
      BY <1>1, <2>1 DEF DispatchInv, TypeOK, ChunkRow, Shows, ShowsSame
  <1>12. CASE DeferFail(w)
    <2>1. pc[w] \in {"promote", "defer"} /\ FailChunk(w) /\ Deferring(w) # {}
      BY <1>12 DEF DeferFail
    <2>2. pc[w] \in RunLabels
      BY <2>1 DEF RunLabels
    <2>3. chunk[Mine(w)].status \notin TerminalChunk
      <3>1. CASE pc[w] = "promote"
        BY <3>1, StillOpen
      <3>2. CASE pc[w] = "defer"
        <4>1. \E k \in Secondary : chunkView[w].task[k] = "PENDING"
          BY <2>1, <3>2 DEF Deferring, At, NextSecondary, Secondary
        <4>2. QED
          BY <2>2, <4>1, StillOpen
      <3>3. QED
        BY <2>1, <3>1, <3>2
    <2>4. QED
      BY <1>1, <1>7, <2>1, <2>2, <2>3 DEF FailChunk
  <1>13. CASE ChunkSkip(w) \/ ChunkBegin(w) \/ BatchCommit(w) \/ RangeCancelled(w)
              \/ BatchFail(w) \/ DecodeFail(w) \/ PromoteCommit(w) \/ SecondaryPublish(w)
              \/ DeferFail(w)
    BY <1>3, <1>4, <1>5, <1>6, <1>8, <1>9, <1>10, <1>11, <1>12, <1>13
  <1>14. QED
    BY <1>1, <1>2, <1>13 DEF ChunkStep, LoadChunk, LoadJob, RefreshJob, PromoteDefer,
       PromoteNone, SecondaryDefer, shared
LEMMA ShowsTask ==
  ASSUME DispatchInv, NEW w \in Worker, TaskStep(w)
  PROVE  Shows /\ UNCHANGED <<job, total, finalized>>
  <1>1. pc[w] \in TaskLabels /\ pc[w] \in Loaded /\ UNCHANGED <<job, total, finalized>>
    BY DEF TaskStep, SecondaryBegin, SecondaryApply, SecondaryFail, At, TaskLabels,
           Loaded, history
  <1>2. Mine(w) \in Chunk /\ chunk[Mine(w)] \in ChunkRow
    BY <1>1, MineType DEF DispatchInv
  <1>3. ASSUME NEW s, NEW view,
               CommitChunk(w, [chunk[Mine(w)] EXCEPT !.task[task[w].kind] = s], view)
        PROVE  Shows
    <2>1. PICK row : row = [chunk[Mine(w)] EXCEPT !.task[task[w].kind] = s]
      OBVIOUS
    <2>2. row.status = chunk[Mine(w)].status /\ row.imported = chunk[Mine(w)].imported
      BY <1>2, <2>1 DEF ChunkRow
    <2>3. QED
      BY <1>1, <1>3, <2>1, <2>2, ShowsCommit
  <1>4. CASE SecondaryBegin(w)
    BY <1>1, <1>3, <1>4 DEF SecondaryBegin, CommitTask
  <1>5. CASE SecondaryApply(w)
    <2>1. PICK row, view :
            /\ row = [chunk[Mine(w)] EXCEPT !.task[task[w].kind] = "COMPLETED",
                        !.manifest = @ \ OfKind(@, task[w].kind)]
            /\ CommitChunk(w, row, view)
      BY <1>5 DEF SecondaryApply
    <2>2. row.status = chunk[Mine(w)].status /\ row.imported = chunk[Mine(w)].imported
      BY <1>2, <2>1 DEF ChunkRow
    <2>3. QED
      BY <1>1, <2>1, <2>2, ShowsCommit
  <1>6. CASE SecondaryFail(w)
    BY <1>1, <1>3, <1>6 DEF SecondaryFail
  <1>7. QED
    BY <1>4, <1>5, <1>6 DEF TaskStep

LEMMA ShowsEndStep ==
  ASSUME DispatchInv, SettleInv, JobInv, NEW w \in Worker, EndStep(w)
  PROVE  /\ Shows
         /\ Finalize(w) \/ UNCHANGED <<job, total, finalized>>
  <1>1. CASE CompleteChunk(w)
    <2>1. pc[w] = "complete" /\ pc[w] \in Loaded /\ Completer(w)
      BY <1>1 DEF CompleteChunk, At, Loaded, EndLabels, Completer
    <2>2. Mine(w) \in Chunk /\ chunk[Mine(w)] \in ChunkRow
      BY <2>1, MineType DEF DispatchInv
    <2>3. PICK s, view :
            /\ CommitChunk(w, [chunk[Mine(w)] EXCEPT !.status = s], view)
            /\ s = "CANCELLED" => jobView[w].cancelled
      <3>1. ChunkOutcome(chunkView[w], jobView[w].cancelled) = "CANCELLED"
              => jobView[w].cancelled
        BY DEF ChunkOutcome
      <3>2. CommitChunk(w, [chunk[Mine(w)] EXCEPT !.status =
                              ChunkOutcome(chunkView[w], jobView[w].cancelled)],
                           [chunkView[w] EXCEPT !.status =
                              ChunkOutcome(chunkView[w], jobView[w].cancelled)])
        BY <1>1 DEF CompleteChunk
      <3>3. QED
        BY <3>1, <3>2
    <2>4. PICK row : row = [chunk[Mine(w)] EXCEPT !.status = s]
      OBVIOUS
    <2>5. row.status = s /\ row.imported = chunk[Mine(w)].imported
      BY <2>2, <2>4 DEF ChunkRow
    <2>6. chunk[Mine(w)].status \notin TerminalChunk
      BY <2>1 DEF SettleInv, CompleterInv
    <2>7. s = "CANCELLED" => job.cancelled
      BY <2>3 DEF JobInv
    <2>8. Shows
      BY <2>1, <2>3, <2>4, <2>5, <2>6, <2>7, ShowsCommit
    <2>9. QED
      BY <1>1, <2>8 DEF CompleteChunk, history
  <1>2. CASE UNCHANGED chunk /\ (Finalize(w) \/ UNCHANGED <<job, total, finalized>>)
    BY <1>2 DEF Shows, ShowsSame
  <1>3. QED
    BY <1>1, <1>2 DEF EndStep, NotComplete, AlreadyEnded, FinalizeGiveUp, FinalizeLock,
       Finalize, FinalizeTooEarly, MergeFail, FinalizeClose, shared, history

\* The steps that write the parent's row.
JobWrite ==
  \/ \E w \in Worker : \/ ImportSkipCancelled(w) \/ SplitCommit(w) \/ ImportFailed(w)
                       \/ Finalize(w)
  \/ \E r \in Request : CancelCommit(r)

LEMMA ShowsStep ==
  ASSUME DispatchInv, SettleInv, JobInv, [Next]_vars
  PROVE  /\ Shows
         /\ JobWrite \/ UNCHANGED <<job, total, finalized>>
         /\ (\E w \in Worker : Finalize(w)) \/ UNCHANGED <<total, finalized>>
  <1>1. ASSUME NEW w \in Worker, ImportStep(w)
        PROVE  /\ Shows
               /\ JobWrite \/ UNCHANGED <<job, total, finalized>>
               /\ UNCHANGED <<total, finalized>>
    <2>1. Shows
      BY <1>1, ShowsImport DEF Shows
    <2>2. UNCHANGED <<total, finalized>>
      BY <1>1 DEF ImportStep, ImportLoad, ImportSkipCancelled, ImportBegin, SplitDefer,
         SplitCommit, SplitFail, ImportFailed, shared, history
    <2>3. JobWrite \/ UNCHANGED job
      BY <1>1 DEF ImportStep, ImportLoad, ImportBegin, SplitDefer, SplitFail, shared, JobWrite
    <2>4. QED
      BY <2>1, <2>2, <2>3
  <1>2. ASSUME NEW w \in Worker, WorkerStep(w)
        PROVE  /\ Shows
               /\ JobWrite \/ UNCHANGED <<job, total, finalized>>
               /\ (\E v \in Worker : Finalize(v)) \/ UNCHANGED <<total, finalized>>
    <2>1. CASE TakeTask(w)
      BY <2>1 DEF TakeTask, Shows, ShowsSame, history
    <2>2. CASE ImportStep(w)
      BY <1>1, <2>2
    <2>3. CASE ChunkStep(w)
      BY <2>3, ShowsChunk
    <2>4. CASE TaskStep(w)
      BY <2>4, ShowsTask
    <2>5. CASE EndStep(w)
      BY <2>5, ShowsEndStep DEF JobWrite
    <2>6. QED
      BY <1>2, <2>1, <2>2, <2>3, <2>4, <2>5 DEF WorkerStep
  <1>3. ASSUME NEW r \in Request, CancelCheck(r) \/ CancelCommit(r)
        PROVE  /\ Shows
               /\ JobWrite \/ UNCHANGED <<job, total, finalized>>
               /\ UNCHANGED <<total, finalized>>
    BY <1>3 DEF CancelCheck, CancelCommit, shared, history, Shows, ShowsSame, JobWrite
  <1>4. CASE UNCHANGED vars
    BY <1>4 DEF vars, Shows, ShowsSame
  <1>5. QED
    BY <1>2, <1>3, <1>4 DEF Next

\* What a chunk ended as, and how many batches it has, no longer changes.
LEMMA EndedKept ==
  ASSUME DispatchInv, SettleInv, JobInv, [Next]_vars, NEW c \in Chunk,
         chunk[c].status \in TerminalChunk
  PROVE  chunk'[c].status = chunk[c].status /\ chunk'[c].imported = chunk[c].imported
  BY ShowsStep DEF Shows, ShowsSame, ShowsBatch, ShowsEnd

-----------------------------------------------------------------------------
(* The parent adds up its chunks *)

LEMMA SomeChunk == 1 \in Chunk
  BY ParametersAssumption DEF Chunk

LEMMA AllEndedSettles == AllEnded <=> Promise!Settled
  BY DEF AllEnded, Promise!Settled, Promise!Ended, TerminalChunk

\* What the code computes from the chunks' statuses is the abstract verdict.
LEMMA VerdictIs ==
  ASSUME AllEnded, NEW b \in BOOLEAN
  PROVE  ParentStatus(b) = Promise!Verdict(b)
  <1> DEFINE ended == {chunk[c].status : c \in Chunk}
  <1>1. /\ ended \subseteq TerminalChunk
        /\ \A s : s \in ended <=> \E c \in Chunk : chunk[c].status = s
        /\ \E c \in Chunk : chunk[c].status \in ended
    BY SomeChunk DEF AllEnded
  <1>2. Promise!Good = {c \in Chunk : chunk[c].status = "COMPLETED"}
    BY DEF Promise!Good, TerminalChunk
  <1>3. Promise!Good = Chunk <=> ended \ {"COMPLETED"} = {}
    BY <1>1, <1>2
  <1>4. Promise!Good = {} <=> "COMPLETED" \notin ended
    BY <1>1, <1>2
  <1>5. (\E c \in Chunk : chunk[c].status = "CANCELLED") <=> "CANCELLED" \in ended
    BY <1>1
  <1>6. (\A c \in Chunk : chunk[c].status # "FAILED") <=> "FAILED" \notin ended
    BY <1>1
  <1>7. ~(Promise!Good = Chunk /\ Promise!Good = {})
    BY SomeChunk
  <1>8. Promise!Verdict(b) =
          IF b /\ "CANCELLED" \in ended /\ "FAILED" \notin ended THEN "CANCELLED"
          ELSE IF ended \ {"COMPLETED"} = {} THEN "COMPLETED"
          ELSE IF "COMPLETED" \notin ended THEN "FAILED" ELSE "COMPLETED_WITH_ERRORS"
    BY <1>3, <1>4, <1>5, <1>6, <1>7 DEF Promise!Verdict, TerminalChunk
  <1>9. QED
    BY <1>8 DEF ParentStatus

\* A finalizer writes a result the chunks add up to, read before or after the
\* cancellation was recorded.
LEMMA FinalizeIs ==
  ASSUME DispatchInv, JobInv, NEW w \in Worker, Finalize(w)
  PROVE  /\ Promise!Settled /\ job.status \notin TerminalJob /\ UNCHANGED chunk
         /\ job'.status \in {Promise!Verdict(FALSE), Promise!Verdict(job.cancelled)}
         /\ job'.cancelled = job.cancelled
         /\ total' = SumFunction([c \in Chunk |-> chunk[c].imported])
  <1>0. total' = SumFunction([c \in Chunk |-> chunk[c].imported])
    BY Zenon DEF Finalize
  <1>1. /\ AllEnded /\ UNCHANGED chunk /\ pc[w] = "summarize"
        /\ job' = [job EXCEPT !.status = ParentStatus(jobView[w].cancelled)]
    <2>1. /\ AllEnded /\ UNCHANGED <<chunk, queue, request, late, owed>>
          /\ pc[w] = "summarize"
          /\ job' = [job EXCEPT !.status = ParentStatus(jobView[w].cancelled)]
      BY Zenon DEF Finalize, At
    <2>2. QED
      BY <2>1
  <1>2. jobView[w].cancelled \in {FALSE, job.cancelled} /\ job \in JobRow
    <2>1. job \in JobRow /\ jobView[w] \in JobRow \cup {Expired}
      BY DEF DispatchInv, TypeOK
    <2>2. jobView[w].cancelled \in BOOLEAN /\ job.cancelled \in BOOLEAN
      <3>1. \A row \in JobRow : row.cancelled \in BOOLEAN
        BY DEF JobRow
      <3>2. Expired.cancelled = FALSE
        BY DEF Expired
      <3>3. QED
        BY <2>1, <3>1, <3>2
    <2>3. jobView[w].cancelled => job.cancelled
      BY DEF JobInv
    <2>4. CASE jobView[w].cancelled = TRUE
      BY <2>1, <2>2, <2>3, <2>4
    <2>5. CASE jobView[w].cancelled = FALSE
      BY <2>1, <2>5
    <2>6. QED
      BY <2>2, <2>4, <2>5
  <1>3. /\ job'.status = ParentStatus(jobView[w].cancelled)
        /\ job'.cancelled = job.cancelled
    BY <1>1, <1>2 DEF JobRow
  <1>4. ParentStatus(jobView[w].cancelled) = Promise!Verdict(jobView[w].cancelled)
    <2>1. jobView[w].cancelled \in BOOLEAN
      BY <1>2 DEF JobRow
    <2>2. QED
      BY <1>1, <2>1, VerdictIs
  <1>5. job.status \notin TerminalJob
    BY <1>1 DEF JobInv
  <1>6. QED
    BY <1>0, <1>1, <1>2, <1>3, <1>4, <1>5, AllEndedSettles

\* Steps of the import task write the parent's row before any chunk has begun.
LEMMA ImportWrites ==
  ASSUME DispatchInv, SettleInv, JobInv, NEW w \in Worker,
         ImportSkipCancelled(w) \/ SplitCommit(w) \/ ImportFailed(w)
  PROVE  /\ \A c \in Chunk : chunk[c].status = "ABSENT" /\ chunk[c].imported = 0
         /\ job.status \in {"QUEUED", "CANCELLING"}
         /\ job'.cancelled = job.cancelled
         /\ SplitCommit(w) => job'.status = "PROCESSING"
         /\ ImportFailed(w) => job'.status = "FAILED" /\ UNCHANGED chunk
         /\ ImportSkipCancelled(w) =>
              job'.status = "CANCELLED" /\ job.cancelled /\ UNCHANGED chunk
  <1>1. pc[w] \in ImportLabels
    BY DEF ImportSkipCancelled, SplitCommit, ImportFailed, At, ImportLabels
  <1>2. Live(ImportTask) /\ \A c \in Chunk : chunk[c].status = "ABSENT"
    BY <1>1, SplitAlone DEF DispatchInv, OwnInv
  <1>3. \A c \in Chunk : chunk[c].imported = 0
    BY <1>2 DEF SettleInv, BegunInv, Begun
  <1>4. job \in JobRow
    BY DEF DispatchInv, TypeOK
  <1>5. /\ job'.cancelled = job.cancelled
        /\ SplitCommit(w) => job'.status = "PROCESSING"
        /\ ImportFailed(w) => job'.status = "FAILED" /\ UNCHANGED chunk
        /\ ImportSkipCancelled(w) => job'.status = "CANCELLED" /\ UNCHANGED chunk
    BY <1>4 DEF ImportSkipCancelled, SplitCommit, ImportFailed, JobRow
  <1>6. ImportSkipCancelled(w) => job.cancelled
    BY DEF ImportSkipCancelled, JobInv
  <1>7. QED
    BY <1>2, <1>3, <1>5, <1>6 DEF JobInv

LEMMA ReflectsStep ==
  ParentReflectsChunks /\ DispatchInv /\ SettleInv /\ JobInv /\ [Next]_vars
    => ParentReflectsChunks'
  <1> SUFFICES ASSUME ParentReflectsChunks, DispatchInv, SettleInv, JobInv, [Next]_vars
               PROVE  ParentReflectsChunks'
    OBVIOUS
  <1>1. CASE \E w \in Worker : Finalize(w)
    <2>1. /\ Promise!Settled /\ UNCHANGED chunk
          /\ job'.status \in {Promise!Verdict(FALSE), Promise!Verdict(job.cancelled)}
          /\ job'.cancelled = job.cancelled
          /\ total' = SumFunction([c \in Chunk |-> chunk[c].imported])
      BY <1>1, FinalizeIs
    <2>2. Promise!Settled' /\ total' = SumFunction([c \in Chunk |-> chunk[c].imported])'
      BY <2>1 DEF Promise!Settled
    <2>3. /\ Promise!Verdict(FALSE)' = Promise!Verdict(FALSE)
          /\ Promise!Verdict(job.cancelled)' = Promise!Verdict(job.cancelled)
      BY <2>1 DEF Promise!Verdict, Promise!Good
    <2>4. QED
      BY <2>1, <2>2, <2>3 DEF ParentReflectsChunks
  <1>2. CASE UNCHANGED <<total, finalized>> /\ ~(finalized > 0)
    BY <1>2 DEF ParentReflectsChunks
  <1>3. CASE UNCHANGED <<total, finalized>> /\ finalized > 0
    <2>1. /\ \A c \in Chunk : chunk[c].status \in TerminalChunk
          /\ total = SumFunction([c \in Chunk |-> chunk[c].imported])
          /\ job.status \in TerminalJob =>
               job.status \in {Promise!Verdict(FALSE), Promise!Verdict(job.cancelled)}
      BY <1>3, AllEndedSettles DEF ParentReflectsChunks, AllEnded
    <2>2. \A c \in Chunk : /\ chunk'[c].status = chunk[c].status
                           /\ chunk'[c].imported = chunk[c].imported
      BY <2>1, EndedKept
    <2>3. Promise!Settled'
      BY <2>1, <2>2 DEF Promise!Settled, Promise!Ended, TerminalChunk
    <2>4. [c \in Chunk |-> chunk[c].imported]' = [c \in Chunk |-> chunk[c].imported]
      BY <2>2
    <2>5. \A b \in BOOLEAN : Promise!Verdict(b)' = Promise!Verdict(b)
      <3>1. Promise!Good' = Promise!Good
        BY <2>2 DEF Promise!Good
      <3>2. [c \in Chunk |-> IF chunk[c].status \in TerminalChunk
                             THEN chunk[c].status ELSE "OPEN"]' =
            [c \in Chunk |-> IF chunk[c].status \in TerminalChunk
                             THEN chunk[c].status ELSE "OPEN"]
        BY <2>2
      <3>3. QED
        BY <3>1, <3>2 DEF Promise!Verdict
    <2>6. UNCHANGED job \/ job'.status = "CANCELLING"
      <3>1. chunk[1].status # "ABSENT"
        BY <2>1, SomeChunk DEF TerminalChunk
      <3>2. CASE UNCHANGED job
        BY <3>2
      <3>3. CASE \E r \in Request : CancelCommit(r)
        BY <3>3 DEF CancelCommit
      <3>4. CASE \E w \in Worker : ImportSkipCancelled(w) \/ SplitCommit(w) \/ ImportFailed(w)
        BY <3>1, <3>4, SomeChunk, ImportWrites
      <3>5. CASE \E w \in Worker : Finalize(w)
        <4>1. PICK w \in Worker : Finalize(w)
          BY <3>5
        <4>2. finalized' = finalized + 1
          BY <4>1 DEF Finalize
        <4>3. QED
          BY <1>3, <4>2 DEF DispatchInv, TypeOK
      <3>6. QED
        BY <3>2, <3>3, <3>4, <3>5, ShowsStep DEF JobWrite
    <2>7. CASE UNCHANGED job
      <3>1. job.cancelled \in BOOLEAN
        BY DEF DispatchInv, TypeOK, JobRow
      <3>2. QED
        BY <1>3, <2>1, <2>3, <2>4, <2>5, <2>7, <3>1 DEF ParentReflectsChunks
    <2>8. CASE job'.status = "CANCELLING"
      BY <1>3, <2>1, <2>3, <2>4, <2>8 DEF ParentReflectsChunks, TerminalJob
    <2>9. QED
      BY <2>6, <2>7, <2>8
  <1>4. QED
    BY <1>1, <1>2, <1>3, ShowsStep

\* Once finalized, every chunk stays settled, the parent's row count is the
\* sum of the chunks', and a result it shows is the one they add up to, for
\* any number of chunks, batches, workers and cancellations
\* (maybe_finalize_chunked_import).
THEOREM ParentAddsUp == Spec => []ParentReflectsChunks
  <1>1. Init => ParentReflectsChunks
    BY DEF Init, ParentReflectsChunks
  <1>2. QED
    BY <1>1, ReflectsStep, DispatchCorrect, SettleCorrect, JobCorrect, PTL DEF Spec

-----------------------------------------------------------------------------
(* The import implements its abstract promise *)

\* The refinement mapping's two functions.
Outcome == [c \in Chunk |-> IF chunk[c].status \in TerminalChunk
                            THEN chunk[c].status ELSE "OPEN"]
Rows == [c \in Chunk |-> chunk[c].imported]

LEMMA PromiseSum == Promise!SumFunction(Rows) = SumFunction(Rows)
  BY DEF Promise!SumFunction, SumFunction, Promise!SumFunctionOnSet, SumFunctionOnSet,
         Promise!FoldFunctionOnSet, FoldFunctionOnSet, Promise!MapThenFoldSet, MapThenFoldSet

LEMMA PromiseInit == Init => Promise!Init
  <1> SUFFICES ASSUME Init PROVE Promise!Init
    OBVIOUS
  <1>1. \A c \in Chunk : chunk[c].status = "ABSENT" /\ chunk[c].imported = 0
    BY DEF Init, NoRow
  <1>2. Outcome = [c \in Chunk |-> "OPEN"] /\ Rows = [c \in Chunk |-> 0]
    BY <1>1 DEF Outcome, Rows, TerminalChunk
  <1>3. job.status = "QUEUED" /\ job.cancelled = FALSE /\ total = 0
    BY DEF Init
  <1>4. QED
    BY <1>2, <1>3 DEF Promise!Init, Outcome, Rows

LEMMA PromiseStep ==
  DispatchInv /\ SettleInv /\ JobInv /\ [Next]_vars => [Promise!Next]_(Promise!vars)
  <1> SUFFICES ASSUME DispatchInv, SettleInv, JobInv, [Next]_vars
               PROVE  Promise!Next \/ UNCHANGED Promise!vars
    OBVIOUS
  <1>1. CASE UNCHANGED <<job, total>>
    <2>1. CASE ShowsSame
      <3>1. Outcome' = Outcome /\ Rows' = Rows
        BY <2>1 DEF ShowsSame, Outcome, Rows
      <3>2. QED
        BY <1>1, <3>1 DEF Promise!vars, Outcome, Rows
    <2>2. ASSUME NEW c \in Chunk, ShowsBatch(c)
          PROVE  Promise!Advance(c)
      <3>1. Outcome[c] = "OPEN" /\ Outcome' = Outcome
        BY <2>2 DEF ShowsBatch, Outcome
      <3>2. Rows' = [Rows EXCEPT ![c] = @ + 1]
        BY <2>2 DEF ShowsBatch, Rows
      <3>3. QED
        BY <1>1, <3>1, <3>2 DEF Promise!Advance, Outcome, Rows
    <2>3. ASSUME NEW c \in Chunk, ShowsEnd(c)
          PROVE  Promise!Settle(c)
      <3>1. PICK o \in TerminalChunk : o = chunk'[c].status
        BY <2>3 DEF ShowsEnd
      <3>2. Outcome[c] = "OPEN" /\ Outcome' = [Outcome EXCEPT ![c] = o]
        BY <2>3, <3>1 DEF ShowsEnd, Outcome
      <3>3. Rows' = Rows
        BY <2>3 DEF ShowsEnd, Rows
      <3>4. o = "CANCELLED" => job.cancelled
        BY <2>3, <3>1 DEF ShowsEnd
      <3>5. o \in Promise!Ended
        BY <3>1 DEF Promise!Ended, TerminalChunk
      <3>6. QED
        BY <1>1, <3>2, <3>3, <3>4, <3>5 DEF Promise!Settle, Outcome, Rows
    <2>4. QED
      BY <2>1, <2>2, <2>3, ShowsStep DEF Shows, Promise!Next
  <1>2. ASSUME NEW r \in Request, CancelCommit(r)
        PROVE  Promise!Cancel
    <2>1. /\ job'.status = "CANCELLING" /\ job'.cancelled = TRUE
          /\ UNCHANGED <<total, chunk>>
      BY <1>2 DEF CancelCommit
    <2>2. QED
      BY <2>1 DEF Promise!Cancel
  <1>3. ASSUME NEW w \in Worker, Finalize(w)
        PROVE  Promise!Finalize
    <2>1. /\ Promise!Settled /\ job.status \notin TerminalJob /\ UNCHANGED chunk
          /\ job'.status \in {Promise!Verdict(FALSE), Promise!Verdict(job.cancelled)}
          /\ job'.cancelled = job.cancelled
          /\ total' = SumFunction(Rows)
      BY <1>3, FinalizeIs DEF Rows
    <2>2. job.status \notin Promise!Terminal
      BY <2>1 DEF Promise!Terminal, Promise!Ended, TerminalJob
    <2>3. total' = Promise!SumFunction(Rows)
      BY <2>1, PromiseSum
    <2>4. QED
      BY <2>1, <2>2, <2>3, Zenon DEF Promise!Finalize, Rows
  <1>4. ASSUME NEW w \in Worker,
               ImportSkipCancelled(w) \/ SplitCommit(w) \/ ImportFailed(w)
        PROVE  Promise!Begin \/ Promise!Abandon
    <2>1. /\ \A c \in Chunk : chunk[c].status = "ABSENT" /\ chunk[c].imported = 0
          /\ job.status \in {"QUEUED", "CANCELLING"}
          /\ job'.cancelled = job.cancelled
      BY <1>4, ImportWrites
    <2>2. Promise!Untouched
      BY <2>1 DEF Promise!Untouched, TerminalChunk
    <2>3. ShowsSame /\ UNCHANGED total
      BY <1>4, ShowsImport DEF ImportStep, ImportSkipCancelled, SplitCommit, ImportFailed
    <2>4. Outcome' = Outcome /\ Rows' = Rows
      BY <2>3 DEF ShowsSame, Outcome, Rows
    <2>5. CASE SplitCommit(w)
      <3>1. job'.status = "PROCESSING"
        BY <2>5, ImportWrites
      <3>2. Promise!Begin
        BY <2>1, <2>2, <2>3, <2>4, <3>1 DEF Promise!Begin, Outcome, Rows
      <3>3. QED
        BY <3>2
    <2>6. CASE ImportSkipCancelled(w) \/ ImportFailed(w)
      <3>1. job'.status = "FAILED" \/ (job.cancelled /\ job'.status = "CANCELLED")
        BY <2>6, ImportWrites
      <3>2. Promise!Abandon
        BY <2>1, <2>2, <2>3, <2>4, <3>1 DEF Promise!Abandon, Outcome, Rows
      <3>3. QED
        BY <3>2
    <2>7. QED
      BY <1>4, <2>5, <2>6
  <1>5. QED
    BY <1>1, <1>2, <1>3, <1>4, ShowsStep DEF JobWrite, Promise!Next

\* Every behaviour of the import, its sessions, queues and locks hidden, is a
\* behaviour of ImportOutcome: a chunk settles once and is frozen, and the
\* parent's result comes after all of them and is the one they add up to.
THEOREM ImportKeepsPromise == Spec => Implements
  <1>1. Init => Promise!Init
    BY PromiseInit
  <1>2. DispatchInv /\ SettleInv /\ JobInv /\ [Next]_vars => [Promise!Next]_(Promise!vars)
    BY PromiseStep
  <1>3. QED
    BY <1>1, <1>2, DispatchCorrect, SettleCorrect, JobCorrect, PTL
       DEF Spec, Implements, Promise!Spec

-----------------------------------------------------------------------------
(* A completed chunk's work has been applied *)

Firsts(items) == {i \in items : i[2] = 1}
LiveKinds(c) == {k \in Secondary : Live(SecondaryTask(k, c))}

\* A chunk's row, what is owed of it and its live secondary tasks: what its
\* first batch found is in the manifests until it is applied, a completed
\* task has nothing left to do, and secondary tasks come after all batches.
RowGood(row, debt, live, cancelled) ==
  /\ row.status \in {"ABSENT", "PENDING", "QUEUED"} => debt = {}
  /\ Firsts(debt) \subseteq row.manifest
  /\ \A k \in Secondary :
       /\ row.task[k] = "COMPLETED" => OfKind(row.manifest, k) = {}
       /\ row.task[k] = "CANCELLED" => cancelled
       /\ k \in live => row.imported = Batches
  /\ row.status = "COMPLETED" => row.imported = Batches /\ row.manifest = {}

\* A worker's view of a row, which no one refreshes: it has at least the work
\* the row has, it calls no task completed whose work is still there, a task it
\* calls cancelled is explained by what else it shows, and it counts the
\* batches of the primary work.
ViewGood(label, kind, row, view, seen, cancelled) ==
  /\ label \in RunLabels =>
       row.manifest \subseteq view.manifest /\ view.imported <= Batches
  /\ label = "range" => view.imported < Batches
  /\ label \in {"promote", "promote_commit", "defer"} => view.imported = Batches
  /\ label \in {"load_job"} \cup TaskLabels /\ kind \in Secondary =>
       OfKind(row.manifest, kind) \subseteq view.manifest
  /\ \A k \in Secondary :
       view.task[k] = "COMPLETED" => OfKind(row.manifest, k) = {}
  /\ label = "load_job" =>
       \A k \in Secondary : view.task[k] = "CANCELLED" => cancelled
  /\ label \in TaskLabels \cup {"complete"} =>
       \/ \A k \in Secondary : view.task[k] # "CANCELLED"
       \/ seen \/ view.status \in TerminalChunk
       \/ \E k \in Secondary : view.task[k] = "FAILED"
  /\ label = "complete" /\ BothTerminal(view) /\ view.status \notin TerminalChunk
       => row.imported = Batches

WorkInv ==
  /\ \A c \in Chunk : RowGood(chunk[c], owed[c], LiveKinds(c), job.cancelled)
  /\ \A w \in Worker : pc[w] \in Loaded =>
       ViewGood(pc[w], task[w].kind, chunk[Mine(w)], chunkView[w],
                jobView[w].cancelled, job.cancelled)

LEMMA RowKept ==
  ASSUME NEW row, NEW debt, NEW live, NEW live2, NEW b, NEW b2,
         RowGood(row, debt, live, b), live2 \subseteq live, b => b2
  PROVE  RowGood(row, debt, live2, b2)
  BY DEF RowGood

LEMMA ViewKept ==
  ASSUME NEW label, NEW kind, NEW row, NEW view, NEW seen, NEW b, NEW row2, NEW b2,
         ViewGood(label, kind, row, view, seen, b), b => b2,
         row2.manifest \subseteq row.manifest, row2.imported = row.imported
  PROVE  ViewGood(label, kind, row2, view, seen, b2)
  <1>1. \A k \in Secondary :
          /\ OfKind(row2.manifest, k) \subseteq OfKind(row.manifest, k)
          /\ OfKind(row.manifest, k) = {} => OfKind(row2.manifest, k) = {}
    BY DEF OfKind
  <1>2. QED
    BY <1>1 DEF ViewGood

\* A worker's step that keeps what the others hold: what is left to show is its
\* own chunk and its own view.
LEMMA WorkFrame ==
  ASSUME DispatchInv, WorkInv, NEW w \in Worker, job.cancelled => job'.cancelled,
         \A v \in Worker \ {w} : /\ pc'[v] = pc[v] /\ task'[v] = task[v]
                                 /\ chunkView'[v] = chunkView[v]
                                 /\ jobView'[v] = jobView[v],
         \A c \in Chunk :
           \/ /\ chunk'[c] = chunk[c] /\ owed'[c] = owed[c]
              /\ LiveKinds(c)' \subseteq LiveKinds(c)
           \/ RowGood(chunk'[c], owed'[c], LiveKinds(c)', job'.cancelled),
         \A v \in Worker \ {w} : pc[v] \in Loaded =>
           /\ chunk'[Mine(v)].manifest \subseteq chunk[Mine(v)].manifest
           /\ chunk'[Mine(v)].imported = chunk[Mine(v)].imported,
         pc'[w] \in Loaded =>
           ViewGood(pc'[w], task'[w].kind, chunk'[Mine(w)'], chunkView'[w],
                    jobView'[w].cancelled, job'.cancelled)
  PROVE  WorkInv'
  <1>1. \A c \in Chunk : RowGood(chunk'[c], owed'[c], LiveKinds(c)', job'.cancelled)
    BY RowKept DEF WorkInv
  <1>2. ASSUME NEW v \in Worker \ {w}, pc'[v] \in Loaded
        PROVE  ViewGood(pc'[v], task'[v].kind, chunk'[Mine(v)'], chunkView'[v],
                        jobView'[v].cancelled, job'.cancelled)
    <2>1. ViewGood(pc[v], task[v].kind, chunk[Mine(v)], chunkView[v],
                   jobView[v].cancelled, job.cancelled)
      BY <1>2 DEF WorkInv
    <2>2. Mine(v)' = Mine(v)
      BY <1>2 DEF Mine
    <2>3. ViewGood(pc[v], task[v].kind, chunk'[Mine(v)], chunkView[v],
                   jobView[v].cancelled, job'.cancelled)
      BY <1>2, <2>1, ViewKept
    <2>4. QED
      BY <1>2, <2>2, <2>3
  <1>3. QED
    BY <1>1, <1>2 DEF WorkInv

\* A step that writes no chunk and defers no secondary task.
LEMMA WorkRead ==
  ASSUME DispatchInv, WorkInv, NEW w \in Worker, job.cancelled => job'.cancelled,
         \A v \in Worker \ {w} : /\ pc'[v] = pc[v] /\ task'[v] = task[v]
                                 /\ chunkView'[v] = chunkView[v]
                                 /\ jobView'[v] = jobView[v],
         UNCHANGED <<chunk, owed>>,
         \A c \in Chunk : LiveKinds(c)' \subseteq LiveKinds(c),
         pc'[w] \in Loaded =>
           ViewGood(pc'[w], task'[w].kind, chunk[Mine(w)'], chunkView'[w],
                    jobView'[w].cancelled, job'.cancelled)
  PROVE  WorkInv'
  BY WorkFrame

\* Which worker's own step it is: the others' places, tasks and views stay.
LEMMA OthersStay ==
  ASSUME TypeOK, NEW w \in Worker, NEW label, Goto(w, label), UNCHANGED task,
         \/ UNCHANGED jobView \/ jobView' = [jobView EXCEPT ![w] = job]
                              \/ jobView' = [jobView EXCEPT ![w] = Expired],
         \/ UNCHANGED chunkView \/ \E view : chunkView' = [chunkView EXCEPT ![w] = view]
  PROVE  /\ pc'[w] = label
         /\ \A v \in Worker \ {w} : /\ pc'[v] = pc[v] /\ task'[v] = task[v]
                                    /\ chunkView'[v] = chunkView[v]
                                    /\ jobView'[v] = jobView[v]
         /\ Mine(w)' = Mine(w)
  BY DEF TypeOK, Goto, Mine

LEMMA WorkClose ==
  ASSUME DispatchInv, WorkInv, NEW w \in Worker, Close(w), UNCHANGED <<queue, chunk, owed>>,
         job.cancelled => job'.cancelled
  PROVE  WorkInv'
  <1>1. /\ pc'[w] = "idle" /\ task'[w] = NoTask
        /\ \A v \in Worker \ {w} : /\ pc'[v] = pc[v] /\ task'[v] = task[v]
                                   /\ chunkView'[v] = chunkView[v]
                                   /\ jobView'[v] = jobView[v]
    BY DEF Close, Goto, DispatchInv, TypeOK
  <1>2. \A c \in Chunk : LiveKinds(c)' \subseteq LiveKinds(c)
    BY <1>1, TaskForms, TaskTypes DEF LiveKinds, Live
  <1>3. pc'[w] \notin Loaded
    BY <1>1 DEF Loaded, ChunkLabels, RunLabels, TaskLabels, EndLabels
  <1>4. QED
    BY <1>1, <1>2, <1>3, WorkRead

\* A commit to the worker's chunk in its task.
LEMMA WorkCommit ==
  ASSUME DispatchInv, WorkInv, NEW w \in Worker, pc[w] \in Loaded, NEW label \in Loaded,
         Goto(w, label), UNCHANGED <<job, queue, task>>,
         NEW row, NEW view, CommitChunk(w, row, view),
         UNCHANGED jobView \/ jobView' = [jobView EXCEPT ![w] = Expired],
         \A c \in Chunk \ {Mine(w)} : owed'[c] = owed[c],
         \/ /\ row.manifest \subseteq chunk[Mine(w)].manifest
            /\ row.imported = chunk[Mine(w)].imported
         \/ \A v \in Worker \ {w} : pc[v] \in Loaded => Mine(v) # Mine(w),
         RowGood(row, owed'[Mine(w)], LiveKinds(Mine(w)), job.cancelled),
         ViewGood(label, task[w].kind, row, view, jobView'[w].cancelled, job.cancelled)
  PROVE  WorkInv'
  <1>1. PICK c0 \in Chunk : c0 = Mine(w)
    BY MineForms DEF DispatchInv
  <1>2. /\ chunk'[c0] = row /\ chunkView'[w] = view
        /\ \A c \in Chunk \ {c0} : chunk'[c] = chunk[c]
    BY <1>1, CommitFrame DEF DispatchInv
  <1>3. /\ pc'[w] = label
        /\ \A v \in Worker \ {w} : /\ pc'[v] = pc[v] /\ task'[v] = task[v]
                                   /\ chunkView'[v] = chunkView[v]
                                   /\ jobView'[v] = jobView[v]
        /\ Mine(w)' = c0
    BY <1>1, OthersStay DEF DispatchInv, CommitChunk
  <1>4. \A c \in Chunk : LiveKinds(c)' = LiveKinds(c)
    BY DEF LiveKinds, Live
  <1>5. \A c \in Chunk :
           \/ /\ chunk'[c] = chunk[c] /\ owed'[c] = owed[c]
              /\ LiveKinds(c)' \subseteq LiveKinds(c)
           \/ RowGood(chunk'[c], owed'[c], LiveKinds(c)', job'.cancelled)
    BY <1>1, <1>2, <1>4
  <1>6. \A v \in Worker \ {w} : pc[v] \in Loaded =>
           /\ chunk'[Mine(v)].manifest \subseteq chunk[Mine(v)].manifest
           /\ chunk'[Mine(v)].imported = chunk[Mine(v)].imported
    <2>1. \A v \in Worker : pc[v] \in Loaded => Mine(v) \in Chunk
      BY MineForms DEF DispatchInv
    <2>2. QED
      BY <1>1, <1>2, <2>1
  <1>7. pc'[w] \in Loaded =>
           ViewGood(pc'[w], task'[w].kind, chunk'[Mine(w)'], chunkView'[w],
                    jobView'[w].cancelled, job'.cancelled)
    BY <1>2, <1>3
  <1>8. QED
    BY <1>3, <1>5, <1>6, <1>7, WorkFrame

LEMMA WorkImport ==
  ASSUME DispatchInv, WorkInv, NEW w \in Worker, ImportStep(w)
  PROVE  WorkInv'
  <1>1. pc[w] \in ImportLabels /\ pc[w] \notin Loaded /\ TypeOK /\ job \in JobRow
    BY LabelKinds DEF ImportStep, ImportLoad, ImportSkipCancelled, ImportBegin, SplitDefer,
       SplitCommit, SplitFail, ImportFailed, At, ImportLabels, DispatchInv, TypeOK
  <1>2. ASSUME NEW label \in ImportLabels, Goto(w, label), UNCHANGED <<shared, task, chunkView, owed>>,
               UNCHANGED jobView \/ jobView' = [jobView EXCEPT ![w] = job]
        PROVE  WorkInv'
    <2>1. /\ pc'[w] = label
          /\ \A v \in Worker \ {w} : /\ pc'[v] = pc[v] /\ task'[v] = task[v]
                                     /\ chunkView'[v] = chunkView[v]
                                     /\ jobView'[v] = jobView[v]
      BY <1>1, <1>2, OthersStay
    <2>2. pc'[w] \notin Loaded
      BY <2>1, LabelKinds
    <2>3. \A c \in Chunk : LiveKinds(c)' \subseteq LiveKinds(c)
      BY <1>2 DEF LiveKinds, Live, shared
    <2>4. QED
      BY <1>2, <2>1, <2>2, <2>3, WorkRead DEF shared
  <1>3. CASE ImportLoad(w)
    BY <1>2, <1>3 DEF ImportLoad, ImportLabels, history
  <1>4. CASE ImportBegin(w)
    BY <1>2, <1>4 DEF ImportBegin, ImportLabels, history
  <1>5. CASE SplitFail(w)
    BY <1>2, <1>5 DEF SplitFail, ImportLabels, history
  <1>6. CASE ImportSkipCancelled(w)
    BY <1>1, <1>6, WorkClose DEF ImportSkipCancelled, JobRow, history
  <1>7. CASE ImportFailed(w)
    BY <1>1, <1>7, WorkClose DEF ImportFailed, JobRow, history
  <1>8. CASE SplitDefer(w)
    <2>1. /\ UNCHANGED <<job, chunk, pc, task, jobView, chunkView, owed>>
          /\ queue' = queue \cup {ChunkTask(cursor[w] + 1)}
      BY <1>8 DEF SplitDefer, history
    <2>2. \A c \in Chunk : \A k \in Secondary :
            SecondaryTask(k, c) # ChunkTask(cursor[w] + 1)
      BY DEF SecondaryTask, ChunkTask, Secondary
    <2>3. \A c \in Chunk : LiveKinds(c)' \subseteq LiveKinds(c)
      BY <2>1, <2>2 DEF LiveKinds, Live
    <2>4. QED
      BY <1>1, <2>1, <2>3, WorkRead
  <1>9. CASE SplitCommit(w)
    <2>1. /\ pc'[w] = "idle" /\ task'[w] = NoTask
          /\ \A v \in Worker \ {w} : /\ pc'[v] = pc[v] /\ task'[v] = task[v]
                                     /\ chunkView'[v] = chunkView[v]
                                     /\ jobView'[v] = jobView[v]
          /\ UNCHANGED <<queue, owed>>
      BY <1>1, <1>9 DEF SplitCommit, Close, Goto, TypeOK, history
    <2>2. /\ \A c \in Chunk : chunk[c].status = "ABSENT"
          /\ \A c \in Chunk : \A k \in Secondary : ~Live(SecondaryTask(k, c))
          /\ \A v \in Worker : pc[v] \notin Loaded
      BY <1>1, SplitAlone DEF DispatchInv, OwnInv
    <2>3. \A c \in Chunk : owed[c] = {}
      BY <2>2 DEF WorkInv, RowGood
    <2>4. \A c \in Chunk : LiveKinds(c)' = {}
      BY <2>1, <2>2, TaskForms, TaskTypes DEF LiveKinds, Live
    <2>5. \A c \in Chunk : /\ chunk'[c].status \in {"QUEUED", "PENDING"}
                            /\ chunk'[c].manifest = {}
                            /\ \A k \in Secondary : chunk'[c].task[k] = "NULL"
      BY <1>9 DEF SplitCommit, NoRow
    <2>6. \A c \in Chunk : RowGood(chunk'[c], owed'[c], LiveKinds(c)', job'.cancelled)
      BY <2>1, <2>3, <2>4, <2>5 DEF RowGood, Firsts, OfKind
    <2>7. job'.cancelled = job.cancelled
      BY <1>1, <1>9 DEF SplitCommit, JobRow
    <2>8. pc'[w] \notin Loaded
      BY <2>1 DEF Loaded, ChunkLabels, RunLabels, TaskLabels, EndLabels
    <2>9. QED
      BY <2>1, <2>2, <2>6, <2>7, <2>8, WorkFrame
  <1>10. QED
    BY <1>3, <1>4, <1>5, <1>6, <1>7, <1>8, <1>9 DEF ImportStep

LEMMA WorkStart ==
  ASSUME DispatchInv, WorkInv, NEW w \in Worker, TakeTask(w)
  PROVE  WorkInv'
  <1>1. PICK t \in queue :
          /\ queue' = queue \ {t}
          /\ task' = [task EXCEPT ![w] = t]
          /\ Goto(w, IF t = ImportTask THEN "import" ELSE "load_chunk")
    BY DEF TakeTask
  <1>2. /\ task'[w] = t /\ UNCHANGED <<job, chunk, chunkView, jobView, owed>>
        /\ pc'[w] \in {"import", "load_chunk"}
        /\ \A v \in Worker \ {w} : pc'[v] = pc[v] /\ task'[v] = task[v]
    BY <1>1 DEF Goto, DispatchInv, TypeOK, TakeTask, history
  <1>3. \A c \in Chunk : LiveKinds(c)' \subseteq LiveKinds(c)
    BY <1>1, <1>2 DEF Live, LiveKinds
  <1>4. pc'[w] \notin Loaded
    BY <1>2 DEF Loaded, ChunkLabels, RunLabels, TaskLabels, EndLabels
  <1>5. QED
    BY <1>2, <1>3, <1>4, WorkRead

\* The chunk ends failed or cancelled in its own worker's hands.
LEMMA WorkEnded ==
  ASSUME DispatchInv, WorkInv, NEW w \in Worker, pc[w] \in Loaded, Goto(w, "complete"),
         UNCHANGED <<job, queue, task, owed>>,
         UNCHANGED jobView \/ jobView' = [jobView EXCEPT ![w] = Expired],
         NEW row, NEW view, CommitChunk(w, row, view),
         row.status \in {"FAILED", "CANCELLED"}, view.status \in {"FAILED", "CANCELLED"},
         row.manifest = chunk[Mine(w)].manifest, row.imported = chunk[Mine(w)].imported,
         \/ row.task = chunk[Mine(w)].task
         \/ job.cancelled /\ \A k \in Secondary : row.task[k] = "CANCELLED",
         \/ view.task = chunk[Mine(w)].task \/ view.task = chunkView[w].task
         \/ \A k \in Secondary : view.task[k] = "CANCELLED"
  PROVE  WorkInv'
  <1>1. PICK c0 \in Chunk : c0 = Mine(w)
    BY MineForms DEF DispatchInv
  <1>2. RowGood(chunk[c0], owed[c0], LiveKinds(c0), job.cancelled)
    BY DEF WorkInv
  <1>3. ViewGood(pc[w], task[w].kind, chunk[c0], chunkView[w],
                 jobView[w].cancelled, job.cancelled)
    BY <1>1 DEF WorkInv
  <1>4. chunk[c0].status \in {"ABSENT", "PENDING", "QUEUED"} => owed[c0] = {}
    BY <1>2 DEF RowGood
  <1>5. RowGood(row, owed[c0], LiveKinds(c0), job.cancelled)
    BY <1>1, <1>2 DEF RowGood
  <1>6. \A k \in Secondary : view.task[k] = "COMPLETED" => OfKind(row.manifest, k) = {}
    BY <1>1, <1>2, <1>3 DEF RowGood, ViewGood
  <1>7. \A seen : ViewGood("complete", task[w].kind, row, view, seen, job.cancelled)
    BY <1>6 DEF ViewGood, TerminalChunk, RunLabels, TaskLabels
  <1>8. "complete" \in Loaded
    BY DEF Loaded, EndLabels
  <1>9. QED
    BY <1>1, <1>5, <1>7, <1>8, WorkCommit

LEMMA WorkBegin ==
  ASSUME DispatchInv, SettleInv, WorkInv, NEW w \in Worker, ChunkBegin(w)
  PROVE  WorkInv'
  <1>1. /\ pc[w] = "chunk_begin" /\ pc[w] \in ChunkLabels /\ pc[w] \notin RunLabels
        /\ Goto(w, "range") /\ pc[w] \in Loaded /\ "range" \in Loaded
        /\ UNCHANGED <<job, queue, task, jobView, owed>>
        /\ CommitChunk(w, AsStarted(chunk[Mine(w)]), AsStarted(chunkView[w]))
    BY DEF ChunkBegin, At, Loaded, ChunkLabels, RunLabels, history
  <1>2. PICK c0 \in Chunk : c0 = Mine(w)
    BY <1>1, MineForms DEF DispatchInv
  <1>3. /\ \A k \in Secondary : ~Live(SecondaryTask(k, c0))
        /\ \A v \in Worker \ {w} : pc[v] \in Loaded => Mine(v) # Mine(w)
    BY <1>1, <1>2, SoleWorker
  <1>4. PICK row, view : row = AsStarted(chunk[c0]) /\ view = AsStarted(chunkView[w])
    OBVIOUS
  <1>5. /\ row.status = "PROCESSING" /\ row.manifest = {} /\ row.imported = 0
        /\ view.manifest = {} /\ view.imported = 0 /\ view.status = "PROCESSING"
        /\ \A k \in Secondary : row.task[k] = "PENDING" /\ view.task[k] = "PENDING"
    BY <1>4 DEF AsStarted, AllTasks, DispatchInv, TypeOK, ChunkRow
  <1>6. owed[c0] = {}
    <2>1. ~Begun(c0)
      BY <1>1, <1>2, StillOpen
    <2>2. QED
      BY <2>1 DEF Begun, WorkInv, RowGood
  <1>7. RowGood(row, owed'[c0], LiveKinds(c0), job.cancelled)
    BY <1>1, <1>3, <1>5, <1>6 DEF RowGood, Firsts, OfKind, LiveKinds
  <1>8. \A seen : ViewGood("range", task[w].kind, row, view, seen, job.cancelled)
    BY <1>5, ParametersAssumption DEF ViewGood, TaskLabels
  <1>9. QED
    BY <1>1, <1>2, <1>3, <1>4, <1>7, <1>8, WorkCommit

LEMMA WorkBatchCommit ==
  ASSUME DispatchInv, SettleInv, WorkInv, NEW w \in Worker, BatchCommit(w)
  PROVE  WorkInv'
  <1>1. /\ pc[w] = "range" /\ pc[w] \in ChunkLabels /\ pc[w] \in RunLabels
        /\ pc[w] \in Loaded /\ "refresh" \in Loaded /\ Goto(w, "refresh")
        /\ UNCHANGED <<job, queue, task, jobView>>
    BY DEF BatchCommit, At, Loaded, ChunkLabels, RunLabels
  <1>2. PICK c0 \in Chunk : c0 = Mine(w)
    BY <1>1, MineForms DEF DispatchInv
  <1>3. \A k \in Secondary : chunkView[w].task[k] = "PENDING"
    BY <1>1 DEF DispatchInv, SecondaryInv
  <1>4. /\ \A k \in Secondary : ~Live(SecondaryTask(k, c0))
        /\ \A v \in Worker \ {w} : pc[v] \in Loaded => Mine(v) # Mine(w)
    BY <1>1, <1>2, <1>3, SoleWorker
  <1>5. PICK number : number = chunkView[w].imported + 1
    OBVIOUS
  <1>6. PICK items, grown, written :
          /\ \A i \in items : i[2] = number
          /\ grown = chunkView[w].manifest \cup items
          /\ written = IF number = 1 THEN grown ELSE chunk[c0].manifest
          /\ CommitChunk(w, [chunk[c0] EXCEPT !.manifest = written, !.imported = number],
                            [chunkView[w] EXCEPT !.manifest = grown, !.imported = number])
          /\ owed' = [owed EXCEPT ![c0] = @ \cup items]
    <2>1. PICK found \in SUBSET Contents[c0] :
             LET items   == found \X {number}
                 grown   == chunkView[w].manifest \cup items
                 written == IF number = 1 THEN grown ELSE chunk[c0].manifest
             IN  /\ CommitChunk(w,
                      [chunk[c0] EXCEPT !.manifest = written, !.imported = number],
                      [chunkView[w] EXCEPT !.manifest = grown, !.imported = number])
                 /\ owed' = [owed EXCEPT ![c0] = @ \cup items]
      BY <1>2, <1>5 DEF BatchCommit
    <2>2. \A i \in found \X {number} : i[2] = number
      OBVIOUS
    <2>3. QED
      BY <2>1, <2>2
  <1>7. PICK row, view :
          /\ row = [chunk[c0] EXCEPT !.manifest = written, !.imported = number]
          /\ view = [chunkView[w] EXCEPT !.manifest = grown, !.imported = number]
    OBVIOUS
  <1>8. /\ row.status = chunk[c0].status /\ row.task = chunk[c0].task
        /\ row.manifest = written /\ row.imported = number
        /\ view.manifest = grown /\ view.imported = number /\ view.task = chunkView[w].task
    BY <1>7 DEF DispatchInv, TypeOK, ChunkRow
  <1>9. /\ chunkView[w].imported < Batches
        /\ chunk[c0].manifest \subseteq chunkView[w].manifest
    BY <1>1, <1>2 DEF WorkInv, ViewGood
  <1>10. RowGood(chunk[c0], owed[c0], LiveKinds(c0), job.cancelled)
    BY DEF WorkInv
  <1>11. Firsts(owed[c0] \cup items) \subseteq row.manifest
    <2>1. Firsts(owed[c0]) \subseteq chunk[c0].manifest
      BY <1>10 DEF RowGood
    <2>2. CASE number = 1
      BY <1>6, <1>8, <1>9, <2>1, <2>2 DEF Firsts
    <2>3. CASE number # 1
      BY <1>6, <1>8, <2>1, <2>3 DEF Firsts
    <2>4. QED
      BY <2>2, <2>3
  <1>12. /\ \A k \in Secondary : row.task[k] \notin TerminalTask
         /\ row.status \notin {"ABSENT", "PENDING", "QUEUED"} \cup TerminalChunk
    <2>1. \A k \in Secondary : Ahead(k, c0)
      <3>1. task[w] = ChunkTask(c0)
        BY <1>1, <1>2, MineForms DEF DispatchInv
      <3>2. QED
        BY <1>1, <1>3, <3>1 DEF Ahead
    <2>2. chunk[c0].status \notin TerminalChunk
      BY <1>1, <1>2, StillOpen
    <2>3. Begun(c0)
      BY <1>1, <1>2 DEF SettleInv, BegunInv
    <2>4. QED
      BY <1>8, <2>1, <2>2, <2>3 DEF SettleInv, AheadInv, Begun
  <1>13. owed'[c0] = owed[c0] \cup items /\ \A c \in Chunk \ {c0} : owed'[c] = owed[c]
    BY <1>6 DEF DispatchInv, TypeOK
  <1>14. RowGood(row, owed'[c0], LiveKinds(c0), job.cancelled)
    BY <1>4, <1>11, <1>12, <1>13 DEF RowGood, LiveKinds, TerminalTask, TerminalChunk
  <1>15. \A seen : ViewGood("refresh", task[w].kind, row, view, seen, job.cancelled)
    <2>1. row.manifest \subseteq view.manifest
      BY <1>6, <1>8, <1>9
    <2>2. view.imported <= Batches
      BY <1>5, <1>8, <1>9, ParametersAssumption DEF DispatchInv, TypeOK, ChunkRow
    <2>3. \A k \in Secondary : view.task[k] = "PENDING"
      BY <1>3, <1>8
    <2>4. QED
      BY <2>1, <2>2, <2>3 DEF ViewGood, TaskLabels
  <1>16. CommitChunk(w, row, view)
    BY <1>6, <1>7
  <1>17. QED
    BY <1>1, <1>2, <1>4, <1>13, <1>14, <1>15, <1>16, WorkCommit

\* The chunk's worker reads, promotes or defers a task.
LEMMA WorkRefreshJob ==
  ASSUME DispatchInv, WorkInv, NEW w \in Worker, RefreshJob(w)
  PROVE  WorkInv'
  <1>1. /\ pc[w] = "refresh" /\ pc[w] \in RunLabels /\ pc[w] \in Loaded
        /\ UNCHANGED <<job, chunk, queue, task, chunkView, owed>>
        /\ jobView' = [jobView EXCEPT ![w] = job]
        /\ Goto(w, AfterBatch(job, chunkView[w]))
    BY DEF RefreshJob, At, Loaded, ChunkLabels, RunLabels, shared, history
  <1>2. PICK c0 \in Chunk : c0 = Mine(w)
    BY <1>1, MineForms DEF DispatchInv
  <1>3. PICK label : label = AfterBatch(job, chunkView[w])
    OBVIOUS
  <1>4. /\ label \in {"range", "range_cancelled", "promote"} /\ label \in RunLabels
        /\ label = "range" => chunkView[w].imported < Batches
        /\ label = "promote" => ~(chunkView[w].imported < Batches)
    BY <1>3 DEF AfterBatch, RunLabels
  <1>5. /\ pc'[w] = label
        /\ \A v \in Worker \ {w} : /\ pc'[v] = pc[v] /\ task'[v] = task[v]
                                   /\ chunkView'[v] = chunkView[v]
                                   /\ jobView'[v] = jobView[v]
        /\ Mine(w)' = c0
    BY <1>1, <1>2, <1>3, OthersStay DEF DispatchInv
  <1>6. ViewGood(pc[w], task[w].kind, chunk[c0], chunkView[w],
                 jobView[w].cancelled, job.cancelled)
    BY <1>1, <1>2 DEF WorkInv
  <1>7. chunkView[w].imported \in Nat /\ Batches \in Nat
    BY ParametersAssumption DEF DispatchInv, TypeOK, ChunkRow
  <1>8. \A seen : ViewGood(label, task[w].kind, chunk[c0], chunkView[w], seen, job.cancelled)
    BY <1>1, <1>4, <1>6, <1>7 DEF ViewGood, TaskLabels
  <1>9. \A c \in Chunk : LiveKinds(c)' \subseteq LiveKinds(c)
    BY <1>1 DEF LiveKinds, Live
  <1>10. QED
    BY <1>1, <1>5, <1>8, <1>9, WorkRead

LEMMA WorkLoadChunk ==
  ASSUME DispatchInv, WorkInv, NEW w \in Worker, LoadChunk(w)
  PROVE  WorkInv'
  <1>1. /\ pc[w] = "load_chunk" /\ UNCHANGED <<job, queue, chunk, owed>>
        /\ pc[w] \in Loaded \cup {"load_chunk"}
    BY DEF LoadChunk, At, shared, history
  <1>2. CASE Close(w)
    BY <1>1, <1>2, WorkClose
  <1>3. CASE /\ chunkView' = [chunkView EXCEPT ![w] = chunk[Mine(w)]]
             /\ Goto(w, "load_job") /\ UNCHANGED <<task, jobView>>
    <2>1. PICK c0 \in Chunk : c0 = Mine(w)
      BY <1>1, MineForms DEF DispatchInv
    <2>2. /\ pc'[w] = "load_job" /\ chunkView'[w] = chunk[c0]
          /\ \A v \in Worker \ {w} : /\ pc'[v] = pc[v] /\ task'[v] = task[v]
                                     /\ chunkView'[v] = chunkView[v]
                                     /\ jobView'[v] = jobView[v]
          /\ Mine(w)' = c0
      BY <1>3, <2>1, OthersStay DEF DispatchInv, TypeOK
    <2>3. RowGood(chunk[c0], owed[c0], LiveKinds(c0), job.cancelled)
      BY DEF WorkInv
    <2>4. \A kind, seen : ViewGood("load_job", kind, chunk[c0], chunk[c0], seen, job.cancelled)
      BY <2>3 DEF RowGood, ViewGood, RunLabels, TaskLabels, OfKind
    <2>5. \A c \in Chunk : LiveKinds(c)' \subseteq LiveKinds(c)
      BY <1>1, <1>3 DEF LiveKinds, Live
    <2>6. QED
      BY <1>1, <2>2, <2>4, <2>5, WorkRead
  <1>4. QED
    BY <1>2, <1>3 DEF LoadChunk

LEMMA WorkLoadJob ==
  ASSUME DispatchInv, WorkInv, NEW w \in Worker, LoadJob(w)
  PROVE  WorkInv'
  <1>1. /\ pc[w] = "load_job" /\ UNCHANGED <<job, queue, chunk, owed, task, chunkView>>
        /\ pc[w] \in Loaded /\ jobView' = [jobView EXCEPT ![w] = job]
    BY DEF LoadJob, At, shared, history, Loaded
  <1>2. PICK c0 \in Chunk : c0 = Mine(w)
    BY <1>1, MineForms DEF DispatchInv
  <1>3. PICK label : /\ label = IF task[w].kind = "chunk" THEN "chunk_begin" ELSE "task_begin"
                     /\ Goto(w, label)
    BY DEF LoadJob
  <1>4. /\ pc'[w] = label /\ jobView'[w] = job
        /\ \A v \in Worker \ {w} : /\ pc'[v] = pc[v] /\ task'[v] = task[v]
                                   /\ chunkView'[v] = chunkView[v]
                                   /\ jobView'[v] = jobView[v]
        /\ Mine(w)' = c0
    BY <1>1, <1>2, <1>3, OthersStay DEF DispatchInv, TypeOK
  <1>5. ViewGood("load_job", task[w].kind, chunk[c0], chunkView[w],
                 jobView[w].cancelled, job.cancelled)
    BY <1>1, <1>2 DEF WorkInv
  <1>6. ViewGood(label, task[w].kind, chunk[c0], chunkView[w], job.cancelled, job.cancelled)
    <2>1. CASE label = "chunk_begin"
      BY <1>5, <2>1 DEF ViewGood, RunLabels, TaskLabels
    <2>2. CASE label = "task_begin"
      BY <1>5, <2>2 DEF ViewGood, RunLabels, TaskLabels
    <2>3. QED
      BY <1>3, <2>1, <2>2
  <1>7. \A c \in Chunk : LiveKinds(c)' \subseteq LiveKinds(c)
    BY <1>1 DEF LiveKinds, Live
  <1>8. QED
    BY <1>1, <1>4, <1>6, <1>7, WorkRead

\* The row of the promoted chunk is locked, the promoter's own view unaffected.
LEMMA WorkPromote ==
  ASSUME DispatchInv, WorkInv, NEW w \in Worker, PromoteDefer(w) \/ PromoteNone(w)
  PROVE  WorkInv'
  <1>1. PICK label \in {"promote_commit", "defer"} :
          /\ Goto(w, label) /\ pc[w] = "promote" /\ pc[w] \in Loaded
          /\ UNCHANGED <<job, chunk, owed, task, chunkView, jobView>>
    BY DEF PromoteDefer, PromoteNone, At, shared, history, Loaded, ChunkLabels, RunLabels
  <1>2. PICK c0 \in Chunk : c0 = Mine(w)
    BY <1>1, MineForms DEF DispatchInv
  <1>3. /\ pc'[w] = label
        /\ \A v \in Worker \ {w} : /\ pc'[v] = pc[v] /\ task'[v] = task[v]
                                   /\ chunkView'[v] = chunkView[v]
                                   /\ jobView'[v] = jobView[v]
        /\ Mine(w)' = c0
    BY <1>1, <1>2, OthersStay DEF DispatchInv
  <1>4. \A seen : ViewGood("promote", task[w].kind, chunk[c0], chunkView[w], seen, job.cancelled)
    BY <1>1, <1>2 DEF WorkInv, ViewGood, TaskLabels
  <1>5. \A seen : ViewGood(label, task[w].kind, chunk[c0], chunkView[w], seen, job.cancelled)
    <2>1. label \in RunLabels /\ label \notin TaskLabels \cup {"range", "load_job", "complete"}
          /\ "promote" \in RunLabels
      BY DEF RunLabels, TaskLabels
    <2>2. QED
      BY <1>4, <2>1 DEF ViewGood
  <1>6. \A c \in Chunk : LiveKinds(c)' \subseteq LiveKinds(c)
    <2>1. \A c \in Chunk : \A k \in Secondary : \A d \in Chunk :
            SecondaryTask(k, c) # ChunkTask(d)
      BY TaskForms
    <2>2. PICK d \in Chunk : queue' \subseteq queue \cup {ChunkTask(d)}
      BY <1>2 DEF PromoteDefer, PromoteNone, Foremost, Promotable, shared
    <2>3. QED
      BY <1>1, <2>1, <2>2 DEF LiveKinds, Live
  <1>7. QED
    BY <1>1, <1>3, <1>5, <1>6, WorkRead

LEMMA WorkPromoteCommit ==
  ASSUME DispatchInv, WorkInv, NEW w \in Worker, PromoteCommit(w)
  PROVE  WorkInv'
  <1>1. /\ Goto(w, "defer") /\ pc[w] = "promote_commit" /\ pc[w] \in Loaded
        /\ UNCHANGED <<job, queue, owed, task, chunkView, jobView>>
        /\ chunk' = [chunk EXCEPT ![cursor[w]].status = "QUEUED"]
    BY DEF PromoteCommit, At, history, Loaded, ChunkLabels, RunLabels
  <1>2. PICK c0 \in Chunk : c0 = Mine(w)
    BY <1>1, MineForms DEF DispatchInv
  <1>3. PICK d0 \in Chunk : d0 = cursor[w] /\ chunk[d0].status = "PENDING"
    BY <1>1 DEF DispatchInv, PromoteInv
  <1>4. /\ pc'[w] = "defer"
        /\ \A v \in Worker \ {w} : /\ pc'[v] = pc[v] /\ task'[v] = task[v]
                                   /\ chunkView'[v] = chunkView[v]
                                   /\ jobView'[v] = jobView[v]
        /\ Mine(w)' = c0
    BY <1>1, <1>2, OthersStay DEF DispatchInv
  <1>5. /\ \A c \in Chunk \ {d0} : chunk'[c] = chunk[c]
        /\ \A c \in Chunk : /\ chunk'[c].task = chunk[c].task
                            /\ chunk'[c].manifest = chunk[c].manifest
                            /\ chunk'[c].imported = chunk[c].imported
        /\ chunk'[d0].status = "QUEUED"
    BY <1>1, <1>3 DEF DispatchInv, TypeOK, ChunkRow
  <1>6. \A c \in Chunk : LiveKinds(c)' = LiveKinds(c)
    BY <1>1 DEF LiveKinds, Live
  <1>7. RowGood(chunk'[d0], owed'[d0], LiveKinds(d0)', job'.cancelled)
    <2>1. RowGood(chunk[d0], owed[d0], LiveKinds(d0), job.cancelled)
      BY DEF WorkInv
    <2>2. QED
      BY <1>1, <1>3, <1>5, <1>6, <2>1 DEF RowGood
  <1>8. \A c \in Chunk :
           \/ /\ chunk'[c] = chunk[c] /\ owed'[c] = owed[c]
              /\ LiveKinds(c)' \subseteq LiveKinds(c)
           \/ RowGood(chunk'[c], owed'[c], LiveKinds(c)', job'.cancelled)
    BY <1>1, <1>5, <1>6, <1>7
  <1>9. \A v \in Worker : pc[v] \in Loaded =>
           /\ chunk'[Mine(v)].manifest \subseteq chunk[Mine(v)].manifest
           /\ chunk'[Mine(v)].imported = chunk[Mine(v)].imported
    <2>1. \A v \in Worker : pc[v] \in Loaded => Mine(v) \in Chunk
      BY MineForms DEF DispatchInv
    <2>2. QED
      BY <1>5, <2>1
  <1>10. \A seen : ViewGood("promote_commit", task[w].kind, chunk[c0], chunkView[w],
                            seen, job.cancelled)
    BY <1>1, <1>2 DEF WorkInv, ViewGood, TaskLabels
  <1>11. \A seen : ViewGood("defer", task[w].kind, chunk'[c0], chunkView[w],
                            seen, job.cancelled)
    BY <1>5, <1>10 DEF ViewGood, RunLabels, TaskLabels, OfKind
  <1>12. QED
    BY <1>1, <1>4, <1>8, <1>9, <1>11, WorkFrame

\* Secondary work is deferred only when the last batch is in.
LEMMA WorkSecondaryDefer ==
  ASSUME DispatchInv, SettleInv, WorkInv, NEW w \in Worker, SecondaryDefer(w)
  PROVE  WorkInv'
  <1>1. /\ pc[w] = "defer" /\ pc[w] \in RunLabels /\ pc[w] \in Loaded
        /\ UNCHANGED <<job, chunk, pc, task, jobView, owed>>
    BY DEF SecondaryDefer, At, RunLabels, Loaded, ChunkLabels, history
  <1>2. PICK c0 \in Chunk : c0 = Mine(w)
    BY <1>1, MineForms DEF DispatchInv
  <1>3. PICK k0 \in Secondary :
          \/ /\ queue' = queue \cup {SecondaryTask(k0, c0)}
             /\ chunkView' = [chunkView EXCEPT ![w].task[k0] = "QUEUED"]
          \/ /\ queue' = queue /\ k0 \notin Kinds(chunkView[w].manifest)
             /\ chunkView' = [chunkView EXCEPT ![w].task[k0] = "COMPLETED"]
    BY <1>2 DEF SecondaryDefer, NextSecondary, Secondary
  <1>4. /\ \A v \in Worker \ {w} : chunkView'[v] = chunkView[v]
        /\ chunkView'[w].imported = chunkView[w].imported
        /\ chunkView'[w].manifest = chunkView[w].manifest
        /\ \A k \in Secondary \ {k0} : chunkView'[w].task[k] = chunkView[w].task[k]
        /\ \/ chunkView'[w].task[k0] = "QUEUED"
           \/ k0 \notin Kinds(chunkView[w].manifest)
        /\ \A c \in Chunk \ {c0} : \A k \in Secondary :
             SecondaryTask(k, c) \in queue' => SecondaryTask(k, c) \in queue
    <2>1. chunkView[w] \in ChunkRow
      BY DEF DispatchInv, TypeOK
    <2>2. \A c \in Chunk \ {c0} : \A k \in Secondary :
            SecondaryTask(k, c) # SecondaryTask(k0, c0)
      BY TaskForms
    <2>3. /\ \A v \in Worker \ {w} : chunkView'[v] = chunkView[v]
          /\ chunkView'[w].imported = chunkView[w].imported
          /\ chunkView'[w].manifest = chunkView[w].manifest
          /\ \A k \in Secondary \ {k0} : chunkView'[w].task[k] = chunkView[w].task[k]
          /\ \/ chunkView'[w].task[k0] = "QUEUED"
             \/ k0 \notin Kinds(chunkView[w].manifest)
      BY <1>3, <2>1 DEF DispatchInv, TypeOK, ChunkRow
    <2>4. QED
      BY <1>3, <2>2, <2>3
  <1>5. /\ chunkView[w].imported = Batches /\ chunk[c0].imported = Batches
        /\ chunk[c0].manifest \subseteq chunkView[w].manifest
        /\ \A k \in Secondary : chunkView[w].task[k] = "COMPLETED"
                                => OfKind(chunk[c0].manifest, k) = {}
    BY <1>1, <1>2 DEF WorkInv, ViewGood, SettleInv, RunInv
  <1>6. RowGood(chunk[c0], owed[c0], LiveKinds(c0)', job.cancelled)
    <2>1. RowGood(chunk[c0], owed[c0], LiveKinds(c0), job.cancelled)
      BY DEF WorkInv
    <2>2. QED
      BY <1>5, <2>1 DEF RowGood
  <1>7. \A c \in Chunk :
           \/ /\ chunk'[c] = chunk[c] /\ owed'[c] = owed[c]
              /\ LiveKinds(c)' \subseteq LiveKinds(c)
           \/ RowGood(chunk'[c], owed'[c], LiveKinds(c)', job'.cancelled)
    BY <1>1, <1>4, <1>6 DEF LiveKinds, Live
  <1>8. \A seen : ViewGood("defer", task[w].kind, chunk[c0], chunkView'[w],
                           seen, job.cancelled)
    <2>1. ASSUME NEW k \in Secondary, chunkView'[w].task[k] = "COMPLETED"
          PROVE  OfKind(chunk[c0].manifest, k) = {}
      <3>1. CASE k # k0
        BY <1>4, <1>5, <2>1, <3>1
      <3>2. CASE k = k0
        <4>1. k0 \notin Kinds(chunkView[w].manifest)
          BY <1>4, <2>1, <3>2
        <4>2. QED
          BY <1>5, <3>2, <4>1 DEF Kinds, OfKind
      <3>3. QED
        BY <3>1, <3>2
    <2>2. Batches \in Nat
      BY ParametersAssumption
    <2>3. QED
      BY <1>4, <1>5, <2>1, <2>2 DEF ViewGood, TaskLabels
  <1>9. Mine(w)' = c0
    BY <1>1, <1>2 DEF Mine
  <1>10. QED
    BY <1>1, <1>4, <1>7, <1>8, <1>9, WorkFrame

LEMMA WorkPublish ==
  ASSUME DispatchInv, SettleInv, WorkInv, NEW w \in Worker, SecondaryPublish(w)
  PROVE  WorkInv'
  <1>1. /\ pc[w] = "defer" /\ pc[w] \in RunLabels /\ pc[w] \in Loaded
        /\ UNCHANGED <<job, queue, task, jobView, chunkView, owed>> /\ Goto(w, "complete")
        /\ "complete" \in Loaded
    BY DEF SecondaryPublish, At, RunLabels, Loaded, ChunkLabels, EndLabels, history
  <1>2. PICK c0 \in Chunk : c0 = Mine(w)
    BY <1>1, MineForms DEF DispatchInv
  <1>3. PICK row : row = [chunk[c0] EXCEPT !.task = chunkView[w].task]
    OBVIOUS
  <1>4. /\ row.status = chunk[c0].status /\ row.imported = chunk[c0].imported
        /\ row.manifest = chunk[c0].manifest /\ row.task = chunkView[w].task
    BY <1>3 DEF DispatchInv, TypeOK, ChunkRow
  <1>5. CommitChunk(w, row, chunkView[w])
    BY <1>2, <1>3 DEF SecondaryPublish, CommitChunk, DispatchInv, TypeOK
  <1>6. /\ chunkView[w].imported = Batches /\ chunk[c0].imported = Batches
        /\ \A k \in Secondary :
             /\ chunkView[w].task[k] # "CANCELLED"
             /\ chunkView[w].task[k] = "COMPLETED" => OfKind(chunk[c0].manifest, k) = {}
    BY <1>1, <1>2 DEF WorkInv, ViewGood, SettleInv, RunInv
  <1>7. RowGood(row, owed[c0], LiveKinds(c0), job.cancelled)
    <2>1. RowGood(chunk[c0], owed[c0], LiveKinds(c0), job.cancelled)
      BY DEF WorkInv
    <2>2. QED
      BY <1>4, <1>6, <2>1 DEF RowGood
  <1>8. \A seen : ViewGood("complete", task[w].kind, row, chunkView[w], seen, job.cancelled)
    BY <1>4, <1>6 DEF ViewGood, RunLabels, TaskLabels
  <1>9. QED
    BY <1>1, <1>2, <1>4, <1>5, <1>7, <1>8, WorkCommit

LEMMA WorkChunkEnds ==
  ASSUME DispatchInv, JobInv, WorkInv, NEW w \in Worker,
         \/ ChunkSkip(w) \/ RangeCancelled(w) \/ BatchFail(w) \/ DecodeFail(w)
         \/ DeferFail(w)
  PROVE  WorkInv'
  <1>1. /\ pc[w] \in {"chunk_begin", "range_cancelled", "range", "promote", "defer"}
        /\ pc[w] \in Loaded /\ Goto(w, "complete") /\ UNCHANGED <<job, queue, task, owed>>
        /\ UNCHANGED jobView \/ jobView' = [jobView EXCEPT ![w] = Expired]
    BY DEF ChunkSkip, RangeCancelled, BatchFail, DecodeFail, DeferFail, FailChunk, At,
           Loaded, ChunkLabels, RunLabels, history
  <1>2. PICK c0 \in Chunk : c0 = Mine(w)
    BY <1>1, MineForms DEF DispatchInv
  <1>3. chunk[c0] \in ChunkRow /\ chunkView[w] \in ChunkRow
    BY DEF DispatchInv, TypeOK
  <1>4. ASSUME NEW r \in ChunkRow
        PROVE  /\ AsCancelled(r).status = "CANCELLED" /\ AsFailed(r).status = "FAILED"
               /\ AsCancelled(r).manifest = r.manifest /\ AsFailed(r).manifest = r.manifest
               /\ AsCancelled(r).imported = r.imported /\ AsFailed(r).imported = r.imported
               /\ AsFailed(r).task = r.task
               /\ \A k \in Secondary : AsCancelled(r).task[k] = "CANCELLED"
    BY DEF AsCancelled, AsFailed, AllTasks, ChunkRow
  <1>5. CASE ChunkSkip(w) \/ RangeCancelled(w)
    <2>1. /\ job.cancelled
          /\ CommitChunk(w, AsCancelled(chunk[c0]), AsCancelled(chunkView[w]))
      BY <1>2, <1>5 DEF ChunkSkip, RangeCancelled, At, JobInv
    <2>2. QED
      BY <1>1, <1>2, <1>3, <1>4, <2>1, WorkEnded
  <1>6. CASE BatchFail(w) \/ DeferFail(w)
    <2>1. CommitChunk(w, AsFailed(chunk[c0]), AsFailed(chunk[c0]))
      BY <1>2, <1>6 DEF BatchFail, DeferFail, FailChunk
    <2>2. QED
      BY <1>1, <1>2, <1>3, <1>4, <2>1, WorkEnded
  <1>7. CASE DecodeFail(w)
    <2>1. CommitChunk(w, AsFailed(chunk[c0]), AsFailed(chunkView[w]))
      BY <1>2, <1>7 DEF DecodeFail
    <2>2. QED
      BY <1>1, <1>2, <1>3, <1>4, <2>1, WorkEnded
  <1>8. QED
    BY <1>5, <1>6, <1>7

LEMMA WorkChunk ==
  ASSUME DispatchInv, SettleInv, JobInv, WorkInv, NEW w \in Worker, ChunkStep(w)
  PROVE  WorkInv'
  <1>1. CASE LoadChunk(w) \/ LoadJob(w)
    BY <1>1, WorkLoadChunk, WorkLoadJob
  <1>2. CASE ChunkBegin(w) \/ BatchCommit(w) \/ RefreshJob(w)
    BY <1>2, WorkBegin, WorkBatchCommit, WorkRefreshJob
  <1>3. CASE \/ ChunkSkip(w) \/ RangeCancelled(w) \/ BatchFail(w) \/ DecodeFail(w)
             \/ DeferFail(w)
    BY <1>3, WorkChunkEnds
  <1>4. CASE PromoteDefer(w) \/ PromoteCommit(w) \/ PromoteNone(w)
    BY <1>4, WorkPromote, WorkPromoteCommit
  <1>5. CASE SecondaryDefer(w) \/ SecondaryPublish(w)
    BY <1>5, WorkSecondaryDefer, WorkPublish
  <1>6. QED
    BY <1>1, <1>2, <1>3, <1>4, <1>5, ZenonT(60) DEF ChunkStep

\* A worker's own secondary task, until it ends: it is live, its row and its view
\* do not call it ended, and its chunk has all its batches.
LEMMA WorkOwnTask ==
  ASSUME DispatchInv, SettleInv, WorkInv, NEW w \in Worker, pc[w] \in TaskLabels,
         NEW c0, c0 = Mine(w), NEW k0, k0 = task[w].kind
  PROVE  /\ c0 \in Chunk /\ k0 \in Secondary /\ pc[w] \in Loaded
         /\ chunk[c0] \in ChunkRow /\ chunkView[w] \in ChunkRow
         /\ chunkView[w].task[k0] \notin TerminalTask
         /\ chunk[c0].imported = Batches
         /\ RowGood(chunk[c0], owed[c0], LiveKinds(c0), job.cancelled)
         /\ ViewGood(pc[w], k0, chunk[c0], chunkView[w], jobView[w].cancelled, job.cancelled)
  <1>1. pc[w] \in Loaded /\ pc[w] \notin RunLabels
    BY LabelKinds DEF Loaded
  <1>2. k0 \in Secondary
    BY DEF DispatchInv, PlaceInv
  <1>3. c0 \in Chunk /\ task[w] = SecondaryTask(k0, c0) /\ Live(SecondaryTask(k0, c0))
    BY <1>1, <1>2, Apart
  <1>4. Ahead(k0, c0)
    BY <1>3 DEF Ahead
  <1>5. chunkView[w].task[k0] \notin TerminalTask
    BY <1>1, <1>2, <1>4 DEF SettleInv, AheadInv
  <1>6. RowGood(chunk[c0], owed[c0], LiveKinds(c0), job.cancelled)
    BY <1>3 DEF WorkInv
  <1>7. chunk[c0].imported = Batches
    BY <1>2, <1>3, <1>6 DEF RowGood, LiveKinds
  <1>8. ViewGood(pc[w], k0, chunk[c0], chunkView[w], jobView[w].cancelled, job.cancelled)
    BY <1>1 DEF WorkInv
  <1>9. QED
    BY <1>1, <1>2, <1>3, <1>5, <1>6, <1>7, <1>8 DEF DispatchInv, TypeOK

LEMMA WorkSecondaryBegin ==
  ASSUME DispatchInv, SettleInv, JobInv, WorkInv, NEW w \in Worker, SecondaryBegin(w)
  PROVE  WorkInv'
  <1>1. /\ pc[w] = "task_begin" /\ pc[w] \in TaskLabels
        /\ UNCHANGED <<job, queue, task, jobView, owed>>
    BY DEF SecondaryBegin, At, TaskLabels, history
  <1>2. PICK c0, k0 : c0 = Mine(w) /\ k0 = task[w].kind
    OBVIOUS
  <1>3. /\ c0 \in Chunk /\ k0 \in Secondary /\ pc[w] \in Loaded
        /\ chunk[c0] \in ChunkRow /\ chunkView[w] \in ChunkRow
        /\ chunkView[w].task[k0] \notin TerminalTask
        /\ chunk[c0].imported = Batches
        /\ RowGood(chunk[c0], owed[c0], LiveKinds(c0), job.cancelled)
        /\ ViewGood(pc[w], k0, chunk[c0], chunkView[w], jobView[w].cancelled, job.cancelled)
    BY <1>1, <1>2, WorkOwnTask
  <1>4. PICK s, label :
          /\ \/ s = "CANCELLED" /\ label = "complete" /\ jobView[w].cancelled
             \/ s = "PROCESSING" /\ label = "apply"
          /\ Goto(w, label) /\ CommitTask(w, s)
    BY DEF SecondaryBegin
  <1>5. PICK row, view : /\ row = [chunk[c0] EXCEPT !.task[k0] = s]
                         /\ view = [chunkView[w] EXCEPT !.task[k0] = s]
    OBVIOUS
  <1>6. /\ row.status = chunk[c0].status /\ row.imported = chunk[c0].imported
        /\ row.manifest = chunk[c0].manifest /\ row.task[k0] = s
        /\ view.status = chunkView[w].status /\ view.imported = chunkView[w].imported
        /\ view.manifest = chunkView[w].manifest /\ view.task[k0] = s
        /\ \A k \in Secondary \ {k0} : /\ row.task[k] = chunk[c0].task[k]
                                       /\ view.task[k] = chunkView[w].task[k]
    BY <1>3, <1>5 DEF ChunkRow
  <1>7. CommitChunk(w, row, view) /\ label \in Loaded
    BY <1>2, <1>4, <1>5 DEF CommitTask, Loaded, TaskLabels, EndLabels
  <1>8. s # "COMPLETED" /\ s # "FAILED" /\ (s = "CANCELLED" => job.cancelled)
    BY <1>4 DEF JobInv
  <1>9. RowGood(row, owed[c0], LiveKinds(c0), job.cancelled)
    <2>1. ASSUME NEW k \in Secondary
          PROVE  /\ row.task[k] = "COMPLETED" => OfKind(row.manifest, k) = {}
                 /\ row.task[k] = "CANCELLED" => job.cancelled
                 /\ k \in LiveKinds(c0) => row.imported = Batches
      BY <1>3, <1>6, <1>8 DEF RowGood
    <2>2. QED
      BY <1>3, <1>6, <2>1 DEF RowGood
  <1>10. ViewGood(label, k0, row, view, jobView[w].cancelled, job.cancelled)
    <2>1. \A k \in Secondary : view.task[k] = "COMPLETED" => OfKind(row.manifest, k) = {}
      BY <1>3, <1>6, <1>8 DEF ViewGood
    <2>2. \/ \A k \in Secondary : view.task[k] # "CANCELLED"
          \/ jobView[w].cancelled \/ view.status \in TerminalChunk
          \/ \E k \in Secondary : view.task[k] = "FAILED"
      <3>1. CASE label = "complete"
        BY <1>4, <3>1
      <3>2. CASE label = "apply"
        <4>1. s # "CANCELLED"
          BY <1>4, <3>2
        <4>2. \/ \A k \in Secondary : chunkView[w].task[k] # "CANCELLED"
              \/ jobView[w].cancelled \/ chunkView[w].status \in TerminalChunk
              \/ \E k \in Secondary : chunkView[w].task[k] = "FAILED"
          BY <1>1, <1>3 DEF ViewGood
        <4>3. \A k \in Secondary : chunkView[w].task[k] = "FAILED" => k # k0
          BY <1>3 DEF TerminalTask
        <4>4. QED
          BY <1>6, <4>1, <4>2, <4>3
      <3>3. QED
        BY <1>4, <3>1, <3>2
    <2>3. OfKind(row.manifest, k0) \subseteq view.manifest
      BY <1>1, <1>3, <1>6 DEF ViewGood
    <2>4. label \notin RunLabels \cup {"load_job"} /\ row.imported = Batches
      BY <1>3, <1>4, <1>6 DEF RunLabels
    <2>5. QED
      BY <2>1, <2>2, <2>3, <2>4 DEF ViewGood, RunLabels
  <1>11. QED
    BY <1>1, <1>2, <1>3, <1>4, <1>6, <1>7, <1>9, <1>10, WorkCommit

\* What the task applies is all its kind's work in the row, and all of that in
\* its view: the row's is part of the view's.
LEMMA WorkApply ==
  ASSUME DispatchInv, SettleInv, WorkInv, NEW w \in Worker, SecondaryApply(w)
  PROVE  WorkInv'
  <1>1. /\ pc[w] = "apply" /\ pc[w] \in TaskLabels /\ Goto(w, "complete")
        /\ UNCHANGED <<job, queue, task, jobView>> /\ "complete" \in Loaded
    BY DEF SecondaryApply, At, TaskLabels, Loaded, EndLabels
  <1>2. PICK c0, k0 : c0 = Mine(w) /\ k0 = task[w].kind
    OBVIOUS
  <1>3. /\ c0 \in Chunk /\ k0 \in Secondary /\ pc[w] \in Loaded
        /\ chunk[c0] \in ChunkRow /\ chunkView[w] \in ChunkRow
        /\ chunkView[w].task[k0] \notin TerminalTask
        /\ chunk[c0].imported = Batches
        /\ RowGood(chunk[c0], owed[c0], LiveKinds(c0), job.cancelled)
        /\ ViewGood(pc[w], k0, chunk[c0], chunkView[w], jobView[w].cancelled, job.cancelled)
    BY <1>1, <1>2, WorkOwnTask
  <1>4. PICK row, view :
          /\ row = [chunk[c0] EXCEPT !.task[k0] = "COMPLETED",
                                     !.manifest = @ \ OfKind(@, k0)]
          /\ view = [chunkView[w] EXCEPT !.task[k0] = "COMPLETED",
                                         !.manifest = @ \ OfKind(@, k0)]
    OBVIOUS
  <1>5. /\ row.status = chunk[c0].status /\ row.imported = chunk[c0].imported
        /\ row.manifest = chunk[c0].manifest \ OfKind(chunk[c0].manifest, k0)
        /\ view.status = chunkView[w].status
        /\ row.task[k0] = "COMPLETED" /\ view.task[k0] = "COMPLETED"
        /\ \A k \in Secondary \ {k0} : /\ row.task[k] = chunk[c0].task[k]
                                       /\ view.task[k] = chunkView[w].task[k]
    BY <1>3, <1>4 DEF ChunkRow
  <1>6. CommitChunk(w, row, view)
    BY <1>2, <1>4 DEF SecondaryApply
  <1>7. /\ owed'[c0] = owed[c0] \ OfKind(chunkView[w].manifest, k0)
        /\ \A c \in Chunk \ {c0} : owed'[c] = owed[c]
    BY <1>2, <1>3 DEF SecondaryApply, DispatchInv, TypeOK
  <1>8. /\ OfKind(row.manifest, k0) = {}
        /\ \A k \in Secondary :
             OfKind(chunk[c0].manifest, k) = {} => OfKind(row.manifest, k) = {}
    BY <1>5 DEF OfKind
  <1>9. Firsts(owed'[c0]) \subseteq row.manifest
    <2>1. Firsts(owed[c0]) \subseteq chunk[c0].manifest
      BY <1>3 DEF RowGood
    <2>2. OfKind(chunk[c0].manifest, k0) \subseteq chunkView[w].manifest
      BY <1>1, <1>3 DEF ViewGood
    <2>3. QED
      BY <1>5, <1>7, <2>1, <2>2 DEF Firsts, OfKind
  <1>10. RowGood(row, owed'[c0], LiveKinds(c0), job.cancelled)
    <2>1. ASSUME NEW k \in Secondary
          PROVE  /\ row.task[k] = "COMPLETED" => OfKind(row.manifest, k) = {}
                 /\ row.task[k] = "CANCELLED" => job.cancelled
                 /\ k \in LiveKinds(c0) => row.imported = Batches
      BY <1>3, <1>5, <1>8 DEF RowGood
    <2>2. chunk[c0].manifest = {} => row.manifest = {}
      BY <1>5
    <2>3. owed[c0] = {} => owed'[c0] = {}
      BY <1>7
    <2>4. QED
      BY <1>3, <1>5, <1>9, <2>1, <2>2, <2>3 DEF RowGood
  <1>11. ViewGood("complete", k0, row, view, jobView[w].cancelled, job.cancelled)
    <2>1. \A k \in Secondary : view.task[k] = "COMPLETED" => OfKind(row.manifest, k) = {}
      BY <1>3, <1>5, <1>8 DEF ViewGood
    <2>2. \/ \A k \in Secondary : view.task[k] # "CANCELLED"
          \/ jobView[w].cancelled \/ view.status \in TerminalChunk
          \/ \E k \in Secondary : view.task[k] = "FAILED"
      <3>1. \/ \A k \in Secondary : chunkView[w].task[k] # "CANCELLED"
            \/ jobView[w].cancelled \/ chunkView[w].status \in TerminalChunk
            \/ \E k \in Secondary : chunkView[w].task[k] = "FAILED"
        BY <1>1, <1>3 DEF ViewGood
      <3>2. \A k \in Secondary : chunkView[w].task[k] = "FAILED" => k # k0
        BY <1>3 DEF TerminalTask
      <3>3. QED
        BY <1>5, <3>1, <3>2
    <2>3. row.imported = Batches
      BY <1>3, <1>5
    <2>4. QED
      BY <2>1, <2>2, <2>3 DEF ViewGood, RunLabels, TaskLabels
  <1>12. row.manifest \subseteq chunk[c0].manifest
    BY <1>5
  <1>13. QED
    BY <1>1, <1>2, <1>3, <1>5, <1>6, <1>7, <1>10, <1>11, <1>12, WorkCommit

LEMMA WorkFail ==
  ASSUME DispatchInv, SettleInv, WorkInv, NEW w \in Worker, SecondaryFail(w)
  PROVE  WorkInv'
  <1>1. /\ pc[w] = "apply" /\ pc[w] \in TaskLabels /\ Goto(w, "complete")
        /\ UNCHANGED <<job, queue, task, owed>> /\ "complete" \in Loaded
        /\ jobView' = [jobView EXCEPT ![w] = Expired]
    BY DEF SecondaryFail, At, TaskLabels, Loaded, EndLabels, history
  <1>2. PICK c0, k0 : c0 = Mine(w) /\ k0 = task[w].kind
    OBVIOUS
  <1>3. /\ c0 \in Chunk /\ k0 \in Secondary /\ pc[w] \in Loaded
        /\ chunk[c0] \in ChunkRow /\ chunk[c0].imported = Batches
        /\ RowGood(chunk[c0], owed[c0], LiveKinds(c0), job.cancelled)
    BY <1>1, <1>2, WorkOwnTask
  <1>4. PICK row : row = [chunk[c0] EXCEPT !.task[k0] = "FAILED"]
    OBVIOUS
  <1>5. /\ row.status = chunk[c0].status /\ row.imported = chunk[c0].imported
        /\ row.manifest = chunk[c0].manifest /\ row.task[k0] = "FAILED"
        /\ \A k \in Secondary \ {k0} : row.task[k] = chunk[c0].task[k]
    BY <1>3, <1>4 DEF ChunkRow
  <1>6. CommitChunk(w, row, row)
    BY <1>2, <1>4 DEF SecondaryFail
  <1>7. RowGood(row, owed[c0], LiveKinds(c0), job.cancelled)
    <2>1. ASSUME NEW k \in Secondary
          PROVE  /\ row.task[k] = "COMPLETED" => OfKind(row.manifest, k) = {}
                 /\ row.task[k] = "CANCELLED" => job.cancelled
                 /\ k \in LiveKinds(c0) => row.imported = Batches
      BY <1>3, <1>5 DEF RowGood
    <2>2. QED
      BY <1>3, <1>5, <2>1 DEF RowGood
  <1>8. \A seen : ViewGood("complete", k0, row, row, seen, job.cancelled)
    BY <1>3, <1>5, <1>7 DEF RowGood, ViewGood, RunLabels, TaskLabels
  <1>9. QED
    BY <1>1, <1>2, <1>3, <1>5, <1>6, <1>7, <1>8, WorkCommit

\* A chunk is completed on a view that shows no task failed or cancelled: both
\* have completed, and nothing is left to do.
LEMMA WorkComplete ==
  ASSUME DispatchInv, WorkInv, NEW w \in Worker, CompleteChunk(w)
  PROVE  WorkInv'
  <1>1. /\ pc[w] = "complete" /\ pc[w] \in Loaded /\ Goto(w, "finalize")
        /\ UNCHANGED <<job, queue, task, jobView, owed>> /\ "finalize" \in Loaded
        /\ BothTerminal(chunkView[w]) /\ chunkView[w].status \notin TerminalChunk
    BY DEF CompleteChunk, At, Loaded, EndLabels, history
  <1>2. PICK c0 \in Chunk : c0 = Mine(w)
    BY <1>1, MineForms DEF DispatchInv
  <1>3. /\ chunk[c0] \in ChunkRow /\ chunkView[w] \in ChunkRow
        /\ RowGood(chunk[c0], owed[c0], LiveKinds(c0), job.cancelled)
        /\ ViewGood("complete", task[w].kind, chunk[c0], chunkView[w],
                    jobView[w].cancelled, job.cancelled)
    BY <1>1, <1>2 DEF DispatchInv, TypeOK, WorkInv
  <1>4. PICK s : s = ChunkOutcome(chunkView[w], jobView[w].cancelled)
    OBVIOUS
  <1>5. PICK row, view : /\ row = [chunk[c0] EXCEPT !.status = s]
                         /\ view = [chunkView[w] EXCEPT !.status = s]
    OBVIOUS
  <1>6. /\ row.status = s /\ row.imported = chunk[c0].imported
        /\ row.manifest = chunk[c0].manifest /\ row.task = chunk[c0].task
        /\ view.task = chunkView[w].task
    BY <1>3, <1>5 DEF ChunkRow
  <1>7. CommitChunk(w, row, view)
    BY <1>2, <1>4, <1>5 DEF CompleteChunk
  <1>8. s \in TerminalChunk
    BY <1>4 DEF ChunkOutcome, TerminalChunk
  <1>9. s = "COMPLETED" => chunk[c0].imported = Batches /\ chunk[c0].manifest = {}
    <2>1. SUFFICES ASSUME s = "COMPLETED"
                   PROVE  chunk[c0].imported = Batches /\ chunk[c0].manifest = {}
      OBVIOUS
    <2>2. /\ \A k \in Secondary : chunkView[w].task[k] # "FAILED"
          /\ jobView[w].cancelled => \A k \in Secondary : chunkView[w].task[k] # "CANCELLED"
      BY <1>4, <2>1 DEF ChunkOutcome
    <2>3. \A k \in Secondary : chunkView[w].task[k] # "CANCELLED"
      BY <1>1, <1>3, <2>2 DEF ViewGood
    <2>4. \A k \in Secondary : chunkView[w].task[k] = "COMPLETED"
      BY <1>1, <2>2, <2>3 DEF BothTerminal, TerminalTask
    <2>5. \A k \in Secondary : OfKind(chunk[c0].manifest, k) = {}
      BY <1>3, <2>4 DEF ViewGood
    <2>6. \A i \in chunk[c0].manifest : i[1] \in Secondary
      BY <1>3 DEF ChunkRow, Item
    <2>7. chunk[c0].manifest = {}
      BY <2>5, <2>6 DEF OfKind
    <2>8. chunk[c0].imported = Batches
      BY <1>1, <1>3 DEF ViewGood
    <2>9. QED
      BY <2>7, <2>8
  <1>10. RowGood(row, owed[c0], LiveKinds(c0), job.cancelled)
    BY <1>3, <1>6, <1>8, <1>9 DEF RowGood, TerminalChunk
  <1>11. \A seen : ViewGood("finalize", task[w].kind, row, view, seen, job.cancelled)
    BY <1>3, <1>6 DEF ViewGood, RunLabels, TaskLabels
  <1>12. QED
    BY <1>1, <1>2, <1>6, <1>7, <1>10, <1>11, WorkCommit

LEMMA WorkEnd ==
  ASSUME DispatchInv, WorkInv, NEW w \in Worker, EndStep(w)
  PROVE  WorkInv'
  <1>1. CASE CompleteChunk(w)
    BY <1>1, WorkComplete
  <1>2. CASE \/ NotComplete(w) \/ FinalizeGiveUp(w) \/ Finalize(w) \/ MergeFail(w)
             \/ FinalizeClose(w)
    <2>1. Close(w) /\ UNCHANGED <<queue, chunk, owed>>
      BY <1>2, Zenon DEF NotComplete, FinalizeGiveUp, Finalize, MergeFail, FinalizeClose, shared,
                         history
    <2>2. job.cancelled => job'.cancelled
      <3>1. CASE Finalize(w)
        <4>1. job \in JobRow /\ \E s : job' = [job EXCEPT !.status = s]
          BY <3>1, Zenon DEF Finalize, DispatchInv, TypeOK
        <4>2. QED
          BY <4>1 DEF JobRow
      <3>2. CASE UNCHANGED job
        BY <3>2
      <3>3. QED
        BY <1>2, <3>1, <3>2, Zenon DEF NotComplete, FinalizeGiveUp, MergeFail, FinalizeClose,
                                       shared
    <2>3. QED
      BY <2>1, <2>2, WorkClose
  <1>3. CASE AlreadyEnded(w) \/ FinalizeLock(w) \/ FinalizeTooEarly(w)
    <2>1. PICK label \in {"finalize", "summarize", "closing"} :
            /\ Goto(w, label) /\ pc[w] \in {"complete", "finalize", "summarize"}
            /\ UNCHANGED <<job, chunk, queue, owed, task, chunkView>>
            /\ UNCHANGED jobView \/ jobView' = [jobView EXCEPT ![w] = job]
      BY <1>3 DEF AlreadyEnded, FinalizeLock, FinalizeTooEarly, At, shared, history
    <2>2. pc[w] \in Loaded
      BY <2>1 DEF Loaded, EndLabels
    <2>3. PICK c0 \in Chunk : c0 = Mine(w)
      BY <2>2, MineForms DEF DispatchInv
    <2>4. /\ pc'[w] = label
          /\ \A v \in Worker \ {w} : /\ pc'[v] = pc[v] /\ task'[v] = task[v]
                                     /\ chunkView'[v] = chunkView[v]
                                     /\ jobView'[v] = jobView[v]
          /\ Mine(w)' = c0
      BY <2>1, <2>3, OthersStay DEF DispatchInv
    <2>5. \A k \in Secondary : chunkView[w].task[k] = "COMPLETED"
                               => OfKind(chunk[c0].manifest, k) = {}
      BY <2>2, <2>3 DEF WorkInv, ViewGood
    <2>6. \A seen : ViewGood(label, task[w].kind, chunk[c0], chunkView[w], seen, job.cancelled)
      BY <2>1, <2>5 DEF ViewGood, RunLabels, TaskLabels
    <2>7. \A c \in Chunk : LiveKinds(c)' \subseteq LiveKinds(c)
      BY <2>1 DEF LiveKinds, Live
    <2>8. QED
      BY <2>1, <2>4, <2>6, <2>7, WorkRead
  <1>4. QED
    BY <1>1, <1>2, <1>3, Zenon DEF EndStep

LEMMA WorkStep ==
  WorkInv /\ DispatchInv /\ SettleInv /\ JobInv /\ [Next]_vars => WorkInv'
  <1> SUFFICES ASSUME WorkInv, DispatchInv, SettleInv, JobInv, [Next]_vars
               PROVE  WorkInv'
    OBVIOUS
  <1>1. ASSUME NEW w \in Worker, WorkerStep(w)
        PROVE  WorkInv'
    <2>1. ASSUME TaskStep(w) PROVE WorkInv'
      BY <2>1, WorkSecondaryBegin, WorkApply, WorkFail DEF TaskStep
    <2>2. QED
      BY <1>1, <2>1, WorkStart, WorkImport, WorkChunk, WorkEnd DEF WorkerStep
  <1>2. ASSUME UNCHANGED <<chunk, queue, pc, task, chunkView, jobView, owed>>,
               job.cancelled => job'.cancelled
        PROVE  WorkInv'
    <2>1. /\ \A c \in Chunk : LiveKinds(c)' = LiveKinds(c)
          /\ \A w \in Worker : Mine(w)' = Mine(w)
      BY <1>2 DEF LiveKinds, Live, Mine
    <2>2. \A c \in Chunk : RowGood(chunk[c], owed[c], LiveKinds(c), job'.cancelled)
      BY <1>2, RowKept DEF WorkInv
    <2>3. \A w \in Worker : pc[w] \in Loaded =>
            ViewGood(pc[w], task[w].kind, chunk[Mine(w)], chunkView[w],
                     jobView[w].cancelled, job'.cancelled)
      BY <1>2, ViewKept DEF WorkInv
    <2>4. QED
      BY <1>2, <2>1, <2>2, <2>3 DEF WorkInv
  <1>3. ASSUME NEW r \in Request, CancelCheck(r) \/ CancelCommit(r)
        PROVE  WorkInv'
    BY <1>2, <1>3 DEF CancelCheck, CancelCommit, shared, history
  <1>4. CASE UNCHANGED vars
    BY <1>2, <1>4 DEF vars
  <1>5. QED
    BY <1>1, <1>3, <1>4 DEF Next

LEMMA WorkInit == Init => WorkInv
  <1> SUFFICES ASSUME Init PROVE WorkInv
    OBVIOUS
  <1>1. \A w \in Worker : pc[w] \notin Loaded
    BY DEF Init, Loaded, ChunkLabels, RunLabels, TaskLabels, EndLabels
  <1>2. \A c \in Chunk : \A k \in Secondary : ~Live(SecondaryTask(k, c))
    BY TaskForms, TaskTypes DEF Init, Live
  <1>3. \A c \in Chunk : RowGood(chunk[c], owed[c], LiveKinds(c), job.cancelled)
    BY <1>2 DEF Init, RowGood, NoRow, Firsts, LiveKinds
  <1>4. QED
    BY <1>1, <1>3 DEF WorkInv

THEOREM WorkCorrect == Spec => []WorkInv
  <1>1. WorkInv /\ DispatchInv /\ SettleInv /\ JobInv /\ [Next]_vars => WorkInv'
    BY WorkStep
  <1>2. QED
    BY <1>1, WorkInit, DispatchCorrect, SettleCorrect, JobCorrect, PTL DEF Spec

\* A COMPLETED chunk has all its batches, nothing left in its manifests, and
\* owes nothing its first batch found, whatever snapshots its tasks decided on
\* (maybe_complete_chunk_after_secondary_tasks).
THEOREM CompletedMeansApplied == Spec => []CompletedIsApplied
  <1>1. WorkInv => CompletedIsApplied
    <2>1. SUFFICES ASSUME WorkInv, NEW c \in Chunk, chunk[c].status = "COMPLETED"
                   PROVE  /\ chunk[c].imported = Batches
                          /\ chunk[c].manifest = {}
                          /\ \A item \in owed[c] : item[2] # 1
      BY DEF CompletedIsApplied
    <2>2. RowGood(chunk[c], owed[c], LiveKinds(c), job.cancelled)
      BY <2>1 DEF WorkInv
    <2>3. QED
      BY <2>1, <2>2 DEF RowGood, Firsts
  <1>2. QED
    BY <1>1, WorkCorrect, PTL
=============================================================================
