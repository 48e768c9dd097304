---------------------------- MODULE ChunkedImport ----------------------------
(***************************************************************************)
(* The chunked voter-file import: process_import splits one import job     *)
(* into chunks and defers the first few; process_import_chunk commits a    *)
(* chunk's voter batches, promotes the next pending chunk and defers the   *)
(* chunk's phone and geometry tasks; those tasks complete the chunk; and   *)
(* whoever completes a chunk tries to finalize the parent.  An admin may   *)
(* cancel at any time through the API.                                     *)
(*                                                                         *)
(* job and chunk are the committed rows.  jobView and chunkView are what a *)
(* worker's ORM session holds: a snapshot that only an explicit refresh    *)
(* renews (the session factory sets expire_on_commit=False), and a commit  *)
(* writes only the attributes the session has changed.  A rollback expires *)
(* the snapshot; reading an expired attribute outside an awaited call      *)
(* raises (MissingGreenlet), a modified row is read again by its flush.    *)
(* A deferred task is stored at once, over a connection of its own,        *)
(* whether or not the session that deferred it has committed.              *)
(*                                                                         *)
(* One action is one transaction, one task deferral or one read that a     *)
(* later write depends on.  Worker crashes and the recovery task are not   *)
(* in this module.                                                         *)
(***************************************************************************)
EXTENDS Integers, FiniteSets, Functions

CONSTANTS
  NumChunks,   \* chunks planned for the import
  MaxChunks,   \* settings.import_max_chunks_per_import
  Batches,     \* bound: batches per chunk
  Contents,    \* secondary work each chunk's rows may call for: phones, geometry
  Worker,      \* task slots of the import workers
  Request,     \* bound: cancel requests the admins send
  Faults       \* which steps may raise, a subset of FaultKinds

Secondary  == {"phones", "geometry"}
FaultKinds == Secondary \cup {"split", "batch", "decode", "defer", "merge"}

ASSUME ParametersAssumption ==
  /\ NumChunks \in Nat \ {0}
  /\ MaxChunks \in Int
  /\ Batches \in Nat \ {0}
  /\ Contents \in [1..NumChunks -> SUBSET Secondary]
  /\ Faults \subseteq FaultKinds

Chunk == 1..NumChunks

TerminalChunk == {"COMPLETED", "FAILED", "CANCELLED"}
TerminalTask  == {"COMPLETED", "FAILED", "CANCELLED"}
TerminalJob   == {"COMPLETED", "COMPLETED_WITH_ERRORS", "FAILED", "CANCELLED"}

ChunkStatus == {"PENDING", "QUEUED", "PROCESSING"} \cup TerminalChunk
TaskStatus  == {"NULL", "PENDING", "QUEUED", "PROCESSING"} \cup TerminalTask
JobStatus   == {"QUEUED", "PROCESSING", "CANCELLING"} \cup TerminalJob

\* An import_jobs row; the status EXPIRED marks a view a rollback expired.
JobRow == [status: JobStatus, cancelled: BOOLEAN]
Expired == [status |-> "EXPIRED", cancelled |-> FALSE]

\* Secondary work: what one batch found for one kind of task.
Item == Secondary \X Nat
Kinds(items) == {i[1] : i \in items}
OfKind(items, k) == {i \in items : i[1] = k}

\* An import_chunks row.  manifest holds the secondary work still to do,
\* imported counts committed batches.  ABSENT: no such row is committed.
ChunkRow == [status: ChunkStatus \cup {"ABSENT"},
             task: [Secondary -> TaskStatus],
             manifest: SUBSET Item,
             imported: Nat]
NoRow == [status |-> "ABSENT", task |-> [k \in Secondary |-> "NULL"],
          manifest |-> {}, imported |-> 0]

Task == [kind: {"chunk"} \cup Secondary, chunk: Chunk]
ImportTask   == [kind |-> "import", chunk |-> 0]
ChunkTask(c) == [kind |-> "chunk", chunk |-> c]
SecondaryTask(k, c) == [kind |-> k, chunk |-> c]
NoTask       == [kind |-> "none", chunk |-> 0]

VARIABLES
  job,        \* the committed parent row: status and cancelled_at set or not
  total,      \* the committed parent row: imported_rows
  chunk,      \* the committed chunk rows
  queue,      \* tasks deferred and not yet fetched, fetched in any order
  request,    \* cancel requests: "new", "checked" the status, or "done"
  pc,         \* where each worker is
  task,       \* the task it runs
  jobView,    \* its session's view of the parent
  chunkView,  \* its session's view of the task's chunk
  cursor,     \* last chunk deferred by the split, or row locked to promote
  finalized,  \* history: finalizations committed
  late,       \* history: batches committed per chunk after the cancellation
  owed        \* history: items of committed batches no task has applied yet

vars == <<job, total, chunk, queue, request, pc, task, jobView, chunkView,
          cursor, finalized, late, owed>>
shared == <<job, total, chunk, queue>>
history == <<finalized, late, owed>>

Init ==
  /\ job = [status |-> "QUEUED", cancelled |-> FALSE]
  /\ total = 0
  /\ chunk = [c \in Chunk |-> NoRow]
  /\ queue = {ImportTask}
  /\ request = [r \in Request |-> "new"]
  /\ pc = [w \in Worker |-> "idle"]
  /\ task = [w \in Worker |-> NoTask]
  /\ jobView = [w \in Worker |-> Expired]
  /\ chunkView = [w \in Worker |-> NoRow]
  /\ cursor = [w \in Worker |-> 0]
  /\ finalized = 0
  /\ late = [c \in Chunk |-> 0]
  /\ owed = [c \in Chunk |-> {}]

-----------------------------------------------------------------------------
(* Sessions *)

At(w, label) == pc[w] = label
Goto(w, label) == pc' = [pc EXCEPT ![w] = label]
Mine(w) == task[w].chunk

\* The task returns or raises: its session closes, its locks are released.
Close(w) ==
  /\ Goto(w, "idle")
  /\ task' = [task EXCEPT ![w] = NoTask]
  /\ jobView' = [jobView EXCEPT ![w] = Expired]
  /\ chunkView' = [chunkView EXCEPT ![w] = NoRow]
  /\ cursor' = [cursor EXCEPT ![w] = 0]

\* The split holds the parent's row from its flush to its commit.
JobRowFree == \A w \in Worker : pc[w] # "split"

\* A promoter holds the promoted chunk's row from its SELECT to its commit.
\* Mutant: the SELECT takes no row lock.
UnlockedAlways(c) == TRUE
Unlocked(c) == \A w \in Worker : pc[w] = "promote_commit" => cursor[w] # c

\* The transaction-scoped advisory lock of finalization is free.
LockFree == \A w \in Worker : pc[w] \notin {"summarize", "closing"}

TakeTask(w) ==
  /\ At(w, "idle")
  /\ \E t \in queue :
       /\ queue' = queue \ {t}
       /\ task' = [task EXCEPT ![w] = t]
       /\ Goto(w, IF t = ImportTask THEN "import" ELSE "load_chunk")
  /\ UNCHANGED <<job, total, chunk, request, jobView, chunkView, cursor,
                 history>>

-----------------------------------------------------------------------------
(* process_import: split the file and defer the first chunks *)

Smaller(a, b) == IF a < b THEN a ELSE b
Larger(a, b)  == IF a > b THEN a ELSE b

\* Mutant: every chunk is deferred at once.
InitialLimitAll == NumChunks
InitialLimit == Smaller(Larger(MaxChunks, 1), NumChunks)

SplitMore(w) == cursor[w] < InitialLimit

ImportLoad(w) ==
  /\ At(w, "import")
  /\ jobView' = [jobView EXCEPT ![w] = job]
  /\ Goto(w, "import_begin")
  /\ UNCHANGED <<shared, request, task, chunkView, cursor, history>>

ImportSkipCancelled(w) ==
  /\ At(w, "import_begin")
  /\ jobView[w].cancelled
  /\ job' = [job EXCEPT !.status = "CANCELLED"]
  /\ Close(w)
  /\ UNCHANGED <<total, chunk, queue, request, history>>

\* Flushes PROCESSING and, later, the chunk rows, uncommitted until SplitCommit.
ImportBegin(w) ==
  /\ At(w, "import_begin")
  /\ ~jobView[w].cancelled
  /\ Goto(w, "split")
  /\ UNCHANGED <<shared, request, task, jobView, chunkView, cursor, history>>

SplitDefer(w) ==
  /\ At(w, "split")
  /\ SplitMore(w)
  /\ cursor' = [cursor EXCEPT ![w] = @ + 1]
  /\ queue' = queue \cup {ChunkTask(cursor[w] + 1)}
  /\ UNCHANGED <<job, total, chunk, request, pc, task, jobView, chunkView,
                 history>>

SplitCommit(w) ==
  /\ At(w, "split")
  /\ ~SplitMore(w)
  /\ job' = [job EXCEPT !.status = "PROCESSING"]
  /\ chunk' = [c \in Chunk |->
                 [NoRow EXCEPT !.status =
                    IF c <= cursor[w] THEN "QUEUED" ELSE "PENDING"]]
  /\ Close(w)
  /\ UNCHANGED <<total, queue, request, history>>

\* The pre-scan, the chunk insert or a deferral raises: roll back ...
SplitFail(w) ==
  /\ "split" \in Faults
  /\ At(w, "split")
  /\ Goto(w, "split_failed")
  /\ UNCHANGED <<shared, request, task, jobView, chunkView, cursor, history>>

\* ... and fail the parent.  Tasks already deferred stay deferred.
ImportFailed(w) ==
  /\ At(w, "split_failed")
  /\ job' = [job EXCEPT !.status = "FAILED"]
  /\ Close(w)
  /\ UNCHANGED <<total, chunk, queue, request, history>>

-----------------------------------------------------------------------------
(* What every chunk and secondary task starts with: two reads *)

\* A chunk task may find no row: the split's commit can come after it, or
\* never.  A chunk that has already ended is left alone.
Workable(t, row) ==
  /\ row.status # "ABSENT"
  /\ t.kind = "chunk" => row.status \notin {"COMPLETED", "CANCELLED"}

LoadChunk(w) ==
  /\ At(w, "load_chunk")
  /\ IF Workable(task[w], chunk[Mine(w)])
     THEN /\ chunkView' = [chunkView EXCEPT ![w] = chunk[Mine(w)]]
          /\ Goto(w, "load_job")
          /\ UNCHANGED <<task, jobView, cursor>>
     ELSE Close(w)
  /\ UNCHANGED <<shared, request, history>>

LoadJob(w) ==
  /\ At(w, "load_job")
  /\ jobView' = [jobView EXCEPT ![w] = job]
  /\ Goto(w, IF task[w].kind = "chunk" THEN "chunk_begin" ELSE "task_begin")
  /\ UNCHANGED <<shared, request, task, chunkView, cursor, history>>

\* A commit of the session's changes to its chunk: row is the committed row,
\* view what the session then holds.
CommitChunk(w, row, view) ==
  /\ chunk' = [chunk EXCEPT ![Mine(w)] = row]
  /\ chunkView' = [chunkView EXCEPT ![w] = view]

\* The same changes made to the committed row and to the view.
AllTasks(s) == [k \in Secondary |-> s]
AsCancelled(row) ==
  [row EXCEPT !.status = "CANCELLED", !.task = AllTasks("CANCELLED")]
AsStarted(row) ==
  [row EXCEPT !.status = "PROCESSING", !.task = AllTasks("PENDING"),
              !.manifest = {}, !.imported = 0]
AsFailed(row) == [row EXCEPT !.status = "FAILED"]

\* The session, rolled back, marks its chunk failed and reads the rest of the
\* row again; its view of the parent stays expired.
FailChunk(w) ==
  /\ CommitChunk(w, AsFailed(chunk[Mine(w)]), AsFailed(chunk[Mine(w)]))
  /\ jobView' = [jobView EXCEPT ![w] = Expired]
  /\ Goto(w, "complete")
  /\ UNCHANGED <<job, total, queue, request, task, cursor, history>>

-----------------------------------------------------------------------------
(* process_import_chunk: the chunk's voter batches *)

ChunkSkip(w) ==
  /\ At(w, "chunk_begin")
  /\ Unlocked(Mine(w))
  /\ jobView[w].cancelled
  /\ CommitChunk(w, AsCancelled(chunk[Mine(w)]), AsCancelled(chunkView[w]))
  /\ Goto(w, "complete")
  /\ UNCHANGED <<job, total, queue, request, task, jobView, cursor, history>>

\* Two commits in the code: PROCESSING, then the reset of the chunk's counters.
ChunkBegin(w) ==
  /\ At(w, "chunk_begin")
  /\ Unlocked(Mine(w))
  /\ ~jobView[w].cancelled
  /\ CommitChunk(w, AsStarted(chunk[Mine(w)]), AsStarted(chunkView[w]))
  /\ Goto(w, "range")
  /\ UNCHANGED <<job, total, queue, request, task, jobView, cursor, history>>

\* One batch: its voters, the counters and its additions to the manifests.
\* From the second batch on the session assigns the list it already holds,
\* grown in place: that is no change, and the row keeps the first batch's.
BatchCommit(w) ==
  /\ At(w, "range")
  /\ \E found \in SUBSET Contents[Mine(w)] :
       LET number  == chunkView[w].imported + 1
           items   == found \X {number}
           grown   == chunkView[w].manifest \cup items
           written == IF number = 1 THEN grown ELSE chunk[Mine(w)].manifest
       IN  /\ CommitChunk(w,
                [chunk[Mine(w)] EXCEPT !.manifest = written, !.imported = number],
                [chunkView[w] EXCEPT !.manifest = grown, !.imported = number])
           /\ owed' = [owed EXCEPT ![Mine(w)] = @ \cup items]
  /\ late' = IF job.cancelled THEN [late EXCEPT ![Mine(w)] = @ + 1] ELSE late
  /\ Goto(w, "refresh")
  /\ UNCHANGED <<job, total, queue, request, task, jobView, cursor, finalized>>

\* The parent is read again after every batch.
\* Mutant: the cancellation is looked at only after the last batch.
AfterBatchLate(parent, row) ==
  IF row.imported < Batches THEN "range"
  ELSE IF parent.cancelled THEN "range_cancelled" ELSE "promote"
AfterBatch(parent, row) ==
  IF parent.cancelled THEN "range_cancelled"
  ELSE IF row.imported < Batches THEN "range" ELSE "promote"

RefreshJob(w) ==
  /\ At(w, "refresh")
  /\ jobView' = [jobView EXCEPT ![w] = job]
  /\ Goto(w, AfterBatch(job, chunkView[w]))
  /\ UNCHANGED <<shared, request, task, chunkView, cursor, history>>

RangeCancelled(w) ==
  /\ At(w, "range_cancelled")
  /\ CommitChunk(w, AsCancelled(chunk[Mine(w)]), AsCancelled(chunkView[w]))
  /\ Goto(w, "complete")
  /\ UNCHANGED <<job, total, queue, request, task, jobView, cursor, history>>

\* A batch raises: its handler rolls back and then reads an expired counter,
\* so the error leaves process_import_range and fails the chunk.
BatchFail(w) ==
  /\ "batch" \in Faults
  /\ At(w, "range")
  /\ FailChunk(w)

\* The file cannot be decoded: the chunk fails without a rollback.
DecodeFail(w) ==
  /\ "decode" \in Faults
  /\ At(w, "range")
  /\ CommitChunk(w, AsFailed(chunk[Mine(w)]), AsFailed(chunkView[w]))
  /\ Goto(w, "complete")
  /\ UNCHANGED <<job, total, queue, request, task, jobView, cursor, history>>

-----------------------------------------------------------------------------
(* process_import_chunk: the next chunk and the secondary tasks *)

\* Pending rows no other promoter holds, FOR UPDATE SKIP LOCKED.
\* Mutant: no successor is ever promoted.
PromotableNone == {}
Promotable == {c \in Chunk : chunk[c].status = "PENDING" /\ Unlocked(c)}
Foremost == {c \in Promotable : \A d \in Promotable : c <= d}

PromoteDefer(w) ==
  /\ At(w, "promote")
  /\ \E c \in Foremost :
       /\ cursor' = [cursor EXCEPT ![w] = c]
       /\ queue' = queue \cup {ChunkTask(c)}
  /\ Goto(w, "promote_commit")
  /\ UNCHANGED <<job, total, chunk, request, task, jobView, chunkView, history>>

PromoteCommit(w) ==
  /\ At(w, "promote_commit")
  /\ chunk' = [chunk EXCEPT ![cursor[w]].status = "QUEUED"]
  /\ cursor' = [cursor EXCEPT ![w] = 0]
  /\ Goto(w, "defer")
  /\ UNCHANGED <<job, total, queue, request, task, jobView, chunkView, history>>

PromoteNone(w) ==
  /\ At(w, "promote")
  /\ Promotable = {}
  /\ Goto(w, "defer")
  /\ UNCHANGED <<shared, request, task, jobView, chunkView, cursor, history>>

\* Phones first, then geometry.
NextSecondary(view) ==
  IF view.task["phones"] = "PENDING" THEN {"phones"}
  ELSE IF view.task["geometry"] = "PENDING" THEN {"geometry"} ELSE {}

\* A secondary task is deferred if the chunk has work for it; the status it
\* gets stays in the session until SecondaryPublish.
SecondaryDefer(w) ==
  /\ At(w, "defer")
  /\ \E k \in NextSecondary(chunkView[w]) :
       IF k \in Kinds(chunkView[w].manifest)
       THEN /\ queue' = queue \cup {SecondaryTask(k, Mine(w))}
            /\ chunkView' = [chunkView EXCEPT ![w].task[k] = "QUEUED"]
       ELSE /\ chunkView' = [chunkView EXCEPT ![w].task[k] = "COMPLETED"]
            /\ UNCHANGED queue
  /\ UNCHANGED <<job, total, chunk, request, pc, task, jobView, cursor, history>>

SecondaryPublish(w) ==
  /\ At(w, "defer")
  /\ NextSecondary(chunkView[w]) = {}
  /\ chunk' = [chunk EXCEPT ![Mine(w)].task = chunkView[w].task]
  /\ Goto(w, "complete")
  /\ UNCHANGED <<job, total, queue, request, task, jobView, chunkView, cursor,
                 history>>

\* The tasks a worker's next step may defer.
Deferring(w) ==
  CASE At(w, "split") /\ SplitMore(w) -> {ChunkTask(cursor[w] + 1)}
    [] At(w, "promote") -> {ChunkTask(c) : c \in Foremost}
    [] At(w, "defer")   -> {SecondaryTask(k, Mine(w)) :
          k \in NextSecondary(chunkView[w]) \cap Kinds(chunkView[w].manifest)}
    [] OTHER -> {}

\* A deferral raises: the chunk fails although all its batches are committed.
DeferFail(w) ==
  /\ "defer" \in Faults
  /\ pc[w] \in {"promote", "defer"}
  /\ Deferring(w) # {}
  /\ FailChunk(w)

-----------------------------------------------------------------------------
(* process_import_chunk_phones and process_import_chunk_geometry *)

CommitTask(w, s) ==
  CommitChunk(w, [chunk[Mine(w)] EXCEPT !.task[task[w].kind] = s],
                 [chunkView[w] EXCEPT !.task[task[w].kind] = s])

SecondaryBegin(w) ==
  /\ At(w, "task_begin")
  /\ IF jobView[w].cancelled
     THEN CommitTask(w, "CANCELLED") /\ Goto(w, "complete")
     ELSE CommitTask(w, "PROCESSING") /\ Goto(w, "apply")
  /\ UNCHANGED <<job, total, queue, request, task, jobView, cursor, history>>

SecondaryApply(w) ==
  /\ At(w, "apply")
  /\ LET k == task[w].kind
         Applied(row) == [row EXCEPT !.task[k] = "COMPLETED",
                                     !.manifest = @ \ OfKind(@, k)]
     IN  /\ CommitChunk(w, Applied(chunk[Mine(w)]), Applied(chunkView[w]))
         /\ owed' = [owed EXCEPT ![Mine(w)] = @ \ OfKind(chunkView[w].manifest, k)]
  /\ Goto(w, "complete")
  /\ UNCHANGED <<job, total, queue, request, task, jobView, cursor, finalized,
                 late>>

\* After the rollback the row is read again by the flush of the failure.
SecondaryFail(w) ==
  /\ task[w].kind \in Faults
  /\ At(w, "apply")
  /\ LET row == [chunk[Mine(w)] EXCEPT !.task[task[w].kind] = "FAILED"]
     IN  CommitChunk(w, row, row)
  /\ jobView' = [jobView EXCEPT ![w] = Expired]
  /\ Goto(w, "complete")
  /\ UNCHANGED <<job, total, queue, request, task, cursor, history>>

-----------------------------------------------------------------------------
(* maybe_complete_chunk_after_secondary_tasks, on the session's view *)

\* Mutant: one ended task is enough.
EitherTerminal(view) == \E k \in Secondary : view.task[k] \in TerminalTask
BothTerminal(view) == \A k \in Secondary : view.task[k] \in TerminalTask

\* How a chunk whose two tasks have ended ends itself.
\* Mutant: a failed task leaves the chunk with the parent's status for it.
ChunkOutcomeErrors(view, cancelSeen) ==
  IF \E k \in Secondary : view.task[k] = "FAILED" THEN "COMPLETED_WITH_ERRORS"
  ELSE "COMPLETED"
ChunkOutcome(view, cancelSeen) ==
  IF \E k \in Secondary : view.task[k] = "FAILED" THEN "FAILED"
  ELSE IF cancelSeen /\ \E k \in Secondary : view.task[k] = "CANCELLED"
       THEN "CANCELLED" ELSE "COMPLETED"

NotComplete(w) ==
  /\ At(w, "complete")
  /\ ~BothTerminal(chunkView[w])
  /\ Close(w)
  /\ UNCHANGED <<shared, request, history>>

AlreadyEnded(w) ==
  /\ At(w, "complete")
  /\ BothTerminal(chunkView[w])
  /\ chunkView[w].status \in TerminalChunk
  /\ Goto(w, "finalize")
  /\ UNCHANGED <<shared, request, task, jobView, chunkView, cursor, history>>

CompleteChunk(w) ==
  /\ At(w, "complete")
  /\ BothTerminal(chunkView[w])
  /\ chunkView[w].status \notin TerminalChunk
  /\ LET s == ChunkOutcome(chunkView[w], jobView[w].cancelled)
     IN  CommitChunk(w, [chunk[Mine(w)] EXCEPT !.status = s],
                        [chunkView[w] EXCEPT !.status = s])
  /\ Goto(w, "finalize")
  /\ UNCHANGED <<job, total, queue, request, task, jobView, cursor, history>>

-----------------------------------------------------------------------------
(* maybe_finalize_chunked_import *)

\* Mutant: a chunk whose primary work runs counts as ended.
AllStarted == \A c \in Chunk : chunk[c].status \notin {"PENDING", "QUEUED"}
AllEnded == \A c \in Chunk : chunk[c].status \in TerminalChunk

\* Mutant: failed chunks do not keep a cancelled parent from CANCELLED.
ParentStatusCancelFirst(cancelSeen) ==
  LET ended == {chunk[c].status : c \in Chunk}
      bad   == ended \ {"COMPLETED"}
  IN  IF cancelSeen /\ "CANCELLED" \in ended THEN "CANCELLED"
      ELSE IF "COMPLETED" \in ended /\ bad # {} THEN "COMPLETED_WITH_ERRORS"
      ELSE IF bad # {} THEN "FAILED"
      ELSE "COMPLETED"
ParentStatus(cancelSeen) ==
  LET ended == {chunk[c].status : c \in Chunk}
      bad   == ended \ {"COMPLETED"}
  IN  IF cancelSeen /\ "CANCELLED" \in ended /\ "FAILED" \notin ended
      THEN "CANCELLED"
      ELSE IF "COMPLETED" \in ended /\ bad # {} THEN "COMPLETED_WITH_ERRORS"
      ELSE IF bad # {} THEN "FAILED"
      ELSE "COMPLETED"

\* The view may show a result already; reading an expired view raises; the
\* lock is tried, never waited for.
MayFinalize(w) ==
  /\ jobView[w].status \notin TerminalJob \cup {"EXPIRED"}
  /\ LockFree

FinalizeGiveUp(w) ==
  /\ At(w, "finalize")
  /\ ~MayFinalize(w)
  /\ Close(w)
  /\ UNCHANGED <<shared, request, history>>

\* Takes the lock and reads the parent again.  The lock is not released
\* before the session closes, whatever the parent's status turns out to be.
FinalizeLock(w) ==
  /\ At(w, "finalize")
  /\ MayFinalize(w)
  /\ jobView' = [jobView EXCEPT ![w] = job]
  /\ Goto(w, IF job.status \in TerminalJob THEN "closing" ELSE "summarize")
  /\ UNCHANGED <<shared, request, task, chunkView, cursor, history>>

\* The summary query and the commit of what it says.
Finalize(w) ==
  /\ At(w, "summarize")
  /\ AllEnded
  /\ job' = [job EXCEPT !.status = ParentStatus(jobView[w].cancelled)]
  /\ total' = SumFunction([c \in Chunk |-> chunk[c].imported])
  /\ finalized' = finalized + 1
  /\ Close(w)
  /\ UNCHANGED <<chunk, queue, request, late, owed>>

FinalizeTooEarly(w) ==
  /\ At(w, "summarize")
  /\ ~AllEnded
  /\ Goto(w, "closing")
  /\ UNCHANGED <<shared, request, task, jobView, chunkView, cursor, history>>

\* Merging the error files raises; nothing marks the parent failed.
MergeFail(w) ==
  /\ "merge" \in Faults
  /\ At(w, "summarize")
  /\ AllEnded
  /\ Close(w)
  /\ UNCHANGED <<shared, request, history>>

FinalizeClose(w) ==
  /\ At(w, "closing")
  /\ Close(w)
  /\ UNCHANGED <<shared, request, history>>

-----------------------------------------------------------------------------
(* cancel_import: the endpoint reads the job, checks its status, commits *)

Cancellable(status) == status \in {"QUEUED", "PROCESSING"}

CancelCheck(r) ==
  /\ request[r] = "new"
  /\ Cancellable(job.status)
  /\ request' = [request EXCEPT ![r] = "checked"]
  /\ UNCHANGED <<shared, pc, task, jobView, chunkView, cursor, history>>

CancelCommit(r) ==
  /\ request[r] = "checked"
  /\ JobRowFree
  /\ job' = [status |-> "CANCELLING", cancelled |-> TRUE]
  /\ request' = [request EXCEPT ![r] = "done"]
  /\ UNCHANGED <<total, chunk, queue, pc, task, jobView, chunkView, cursor,
                 history>>

-----------------------------------------------------------------------------
ImportStep(w) ==
  \/ ImportLoad(w) \/ ImportSkipCancelled(w) \/ ImportBegin(w)
  \/ SplitDefer(w) \/ SplitCommit(w) \/ SplitFail(w) \/ ImportFailed(w)

ChunkStep(w) ==
  \/ LoadChunk(w) \/ LoadJob(w)
  \/ ChunkSkip(w) \/ ChunkBegin(w) \/ BatchCommit(w) \/ RefreshJob(w)
  \/ RangeCancelled(w) \/ BatchFail(w) \/ DecodeFail(w)
  \/ PromoteDefer(w) \/ PromoteCommit(w) \/ PromoteNone(w)
  \/ SecondaryDefer(w) \/ SecondaryPublish(w) \/ DeferFail(w)

TaskStep(w) ==
  \/ SecondaryBegin(w) \/ SecondaryApply(w) \/ SecondaryFail(w)

EndStep(w) ==
  \/ NotComplete(w) \/ AlreadyEnded(w) \/ CompleteChunk(w)
  \/ FinalizeGiveUp(w) \/ FinalizeLock(w) \/ Finalize(w)
  \/ FinalizeTooEarly(w) \/ MergeFail(w) \/ FinalizeClose(w)

WorkerStep(w) ==
  TakeTask(w) \/ ImportStep(w) \/ ChunkStep(w) \/ TaskStep(w) \/ EndStep(w)

Next ==
  \/ \E w \in Worker : WorkerStep(w)
  \/ \E r \in Request : CancelCheck(r) \/ CancelCommit(r)

Spec == Init /\ [][Next]_vars

\* A worker slot keeps running its task and fetching tasks; admins need not act.
FairSpec == Spec /\ \A w \in Worker : WF_vars(WorkerStep(w))

-----------------------------------------------------------------------------
(* Properties *)

Labels == {"idle", "import", "import_begin", "split", "split_failed",
           "load_chunk", "load_job", "chunk_begin", "range", "refresh",
           "range_cancelled", "promote", "promote_commit", "defer",
           "task_begin", "apply", "complete", "finalize", "summarize",
           "closing"}

\* Every variable has its type.  The parent's row total is left to
\* ParentReflectsChunks, which says what it is.
TypeOK ==
  /\ job \in JobRow
  /\ chunk \in [Chunk -> ChunkRow]
  /\ queue \subseteq Task \cup {ImportTask}
  /\ request \in [Request -> {"new", "checked", "done"}]
  /\ pc \in [Worker -> Labels]
  /\ task \in [Worker -> Task \cup {ImportTask, NoTask}]
  /\ jobView \in [Worker -> JobRow \cup {Expired}]
  /\ chunkView \in [Worker -> ChunkRow]
  /\ cursor \in [Worker -> 0..NumChunks]
  /\ finalized \in Nat
  /\ late \in [Chunk -> Nat]
  /\ owed \in [Chunk -> SUBSET Item]

\* What the rows show of the abstract import.
Promise == INSTANCE ImportOutcome WITH
  outcome   <- [c \in Chunk |-> IF chunk[c].status \in TerminalChunk
                                THEN chunk[c].status ELSE "OPEN"],
  rows      <- [c \in Chunk |-> chunk[c].imported],
  status    <- job.status,
  cancelled <- job.cancelled

\* Once a finalizer has committed, every chunk stays settled, the parent's row
\* count stays the sum of the chunks', and a result it shows is the one the
\* chunks add up to, whichever way round the finalizer's refresh and the
\* cancellation came.  (maybe_finalize_chunked_import reads the chunks with
\* no lock on them; nothing may reopen or extend a chunk afterwards.)
ParentReflectsChunks ==
  finalized > 0 =>
    /\ Promise!Settled
    /\ total = SumFunction([c \in Chunk |-> chunk[c].imported])
    /\ job.status \in TerminalJob =>
         job.status \in {Promise!Verdict(FALSE), Promise!Verdict(job.cancelled)}

\* A task is queued, or some worker runs it.
Live(t) == t \in queue \/ \E w \in Worker : task[w] = t

\* A task that a worker runs is no longer queued, and no other worker runs it.
RunOnce ==
  \A w \in Worker : task[w] # NoTask =>
    /\ task[w] \notin queue
    /\ \A v \in Worker \ {w} : task[v] # task[w]

\* No task is dispatched twice: nobody is about to defer one that is queued or
\* running already, and each is run by one worker.
\* (_promote_next_pending_chunk: "without double-dispatching it"; a chunk run
\* twice would import and count its rows twice.)
NoDoubleDispatch ==
  /\ RunOnce
  /\ \A w \in Worker : \A t \in Deferring(w) : ~Live(t)

\* At most the configured number of chunks are queued for, or in, their
\* primary work, however promotions by several workers interleave.
Primary(w) ==
  pc[w] \in {"load_chunk", "load_job", "chunk_begin", "range", "refresh",
             "range_cancelled", "promote"}
InFlight ==
  {c \in Chunk : \/ ChunkTask(c) \in queue
                 \/ \E w \in Worker : task[w] = ChunkTask(c) /\ Primary(w)}
WithinCap == Cardinality(InFlight) <= Larger(MaxChunks, 1)

\* A chunk counts as COMPLETED only when all its batches are in, the work in both
\* of its row's manifests has been applied, and with it whatever its first batch
\* found, although its status is decided on a snapshot no one refreshes.  What a
\* later batch found is owed for ever ("secondary tasks consume durable
\* chunk-scoped manifests"): the manifests are grown in place and saved once.
CompletedIsApplied ==
  \A c \in Chunk : chunk[c].status = "COMPLETED" =>
    /\ chunk[c].imported = Batches
    /\ chunk[c].manifest = {}
    /\ \A item \in owed[c] : item[2] # 1

\* After the cancellation is recorded a chunk commits at most one more batch
\* ("the worker detects this between batches").
CancelStopsSoon == \A c \in Chunk : late[c] <= 1

\* The import implements its abstract promise (ImportOutcome): what a chunk ended as, and how
\* many batches it has, no longer changes once it has ended.
Implements == Promise!Spec

\* With one worker and no failing step, a chunk that has been queued ends, even
\* when the import is cancelled meanwhile; and unless it is, the chain of
\* promotions reaches every chunk and the last one to end finalizes the parent.
ImportEnds ==
  /\ \A c \in Chunk : chunk[c].status = "QUEUED" ~> chunk[c].status \in TerminalChunk
  /\ <>(finalized > 0 \/ job.cancelled)

\* Claimed by the requirements, not met by the code: see the violation runs.

\* "queued chunks skip on cancelled parent; in-flight chunks stop at next batch
\* boundary; parent finalizes through fan-in": after a cancellation every chunk
\* ends, so that the parent can.
CancelEndsEveryChunk ==
  job.cancelled ~> \A c \in Chunk : chunk[c].status \in TerminalChunk \cup {"ABSENT"}

\* "Any chunk may detect eligibility for finalization, but only one finalizer
\* may proceed": once every chunk has ended, somebody finalizes the parent.
EndedChunksFinalize == Promise!Settled ~> finalized > 0
=============================================================================
