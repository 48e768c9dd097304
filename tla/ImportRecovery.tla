--------------------------- MODULE ImportRecovery ---------------------------
(***************************************************************************)
(* One import job from upload to result across crashes of its workers:     *)
(* the endpoints that detect, confirm, cancel and delete it; process_import*)
(* with the serial engine, which commits a batch together with             *)
(* last_committed_row; the session advisory lock; the scan each worker     *)
(* makes when it starts; and recover_import.  A file above the serial      *)
(* threshold is split instead, as often as its import is confirmed: of the *)
(* chunk tasks only what settles the parent is kept here (ChunkedImport    *)
(* has the rest), and a chunk is one batch.                                *)
(*                                                                         *)
(* job is the committed row, view what a task's session holds of it, and   *)
(* pending a flushed, uncommitted version, which keeps the row locked.     *)
(* A worker process runs one task at a time over one pooled connection, so *)
(* the advisory lock belongs to the process.                               *)
(***************************************************************************)
EXTENDS Integers, FiniteSets, Bags

CONSTANTS
  Worker,      \* worker processes
  Batches,     \* batches the file makes
  Asks,        \* bound: API requests, all of which may be in flight together
  Splits,      \* bound: splits of a large file
  Recoveries,  \* bound: recoveries somebody defers by hand
  Crashes,     \* bound: worker crashes
  Failures     \* bound: steps of a task that raise

ASSUME RecoveryAssumption ==
  /\ Batches \in Nat \ {0}
  /\ Asks \in Nat
  /\ Splits \in Nat
  /\ Recoveries \in Nat
  /\ Crashes \in Nat
  /\ Failures \in Nat
  /\ Worker \cap {"free", "dead"} = {}

Batch == 1..Batches

\* A chunk row: the split that made it, and its batch.
Part == (1..Splits) \X Batch
NoPart == <<0, 0>>

\* The statuses recover_import leaves alone.
Finished == {"COMPLETED", "CANCELLED", "FAILED"}
Status == {"PENDING", "UPLOADED", "QUEUED", "PROCESSING", "CANCELLING",
           "COMPLETED_WITH_ERRORS"} \cup Finished

\* done is last_committed_row in batches, exhausted says whether
\* source_exhausted_at is set, and progress compares last_progress_at with the
\* orphan threshold.  ABSENT: the row is deleted.
Row == [status: Status \cup {"ABSENT"}, cancelled: BOOLEAN, done: 0..Batches,
        exhausted: BOOLEAN, progress: {"none", "fresh", "stale"}]
NewRow == [status |-> "PENDING", cancelled |-> FALSE, done |-> 0,
           exhausted |-> FALSE, progress |-> "none"]
NoRow == [NewRow EXCEPT !.status = "ABSENT"]

Task == [kind: {"none", "import", "recover"}, part: {NoPart}]
          \cup [kind: {"chunk"}, part: Part]
NoTask       == [kind |-> "none", part |-> NoPart]
ImportTask   == [kind |-> "import", part |-> NoPart]
RecoverTask  == [kind |-> "recover", part |-> NoPart]
ChunkTask(p) == [kind |-> "chunk", part |-> p]

VARIABLES
  job,      \* the committed import_jobs row
  large,    \* is the file above the serial threshold?
  chunk,    \* committed import_chunks rows
  splits,   \* how often the file has been split
  queue,    \* how often each kind of task is queued, and which chunks
  lock,     \* holder of the advisory lock: a worker, "free", or "dead": the
            \* connection of a crashed worker the server still keeps
  pc,       \* where each worker is
  task,     \* the task it runs
  view,     \* its session's view of the row
  pending,  \* its flushed version of the row, if any
  pos,      \* batches behind its engine
  ask,      \* bag of the API requests in flight: the operation, the status a
            \* detection read, how far it is
  asks,     \* API requests left
  recoveries,  \* recoveries by hand left
  crashes,  \* crashes left
  failures, \* failing steps left
  applied,  \* history: how often the serial engine committed each batch
  chunked,  \* history: how often each chunk's task committed its batch
  outdated, \* history: locks claimed on a view older than the row's progress
  stranded  \* history: may a queued import have lost its task?

vars == <<job, large, chunk, splits, queue, lock, pc, task, view, pending, pos,
          ask, asks, recoveries, crashes, failures, applied, chunked, outdated, stranded>>
session == <<task, view, pending, pos>>
file    == <<large, chunk, splits>>
history == <<applied, chunked, outdated, stranded>>
client  == <<ask, asks, recoveries>>
faults  == <<crashes, failures>>

\* The upload's row, no worker started yet.
Init ==
  /\ job = NewRow
  /\ large \in BOOLEAN
  /\ chunk = [p \in Part |-> "ABSENT"]
  /\ splits = 0
  /\ queue = [import |-> 0, recover |-> 0, chunks |-> {}]
  /\ lock = "free"
  /\ pc = [w \in Worker |-> "down"]
  /\ task = [w \in Worker |-> NoTask]
  /\ view = [w \in Worker |-> NoRow]
  /\ pending = [w \in Worker |-> NoRow]
  /\ pos = [w \in Worker |-> 0]
  /\ ask = EmptyBag
  /\ asks = Asks
  /\ recoveries = Recoveries
  /\ crashes = Crashes
  /\ failures = Failures
  /\ applied = [b \in Batch |-> 0]
  /\ chunked = [p \in Part |-> 0]
  /\ outdated = 0
  /\ stranded = FALSE

-----------------------------------------------------------------------------
(* Sessions, rows and the advisory lock *)

At(w, label) == pc[w] = label
Goto(w, label) == pc' = [pc EXCEPT ![w] = label]

Gone == job.status = "ABSENT"

\* A flushed row stays locked to everybody else until its session commits.
RowFree(w) == \A v \in Worker \ {w} : pending[v] = NoRow

\* The row as this session sees it inside its transaction.
Base(w) == IF pending[w] = NoRow THEN job ELSE pending[w]

\* What a session reads.  Only the first check of recover_import looks at the
\* time in it, so every other view is kept without.
Read(row) == [row EXCEPT !.progress = "none"]

\* Only an attribute that differs from what the session holds is written.
Set(old, held, new) == IF held = new THEN old ELSE new

\* A commit of the session: row becomes the committed one.
Commit(w, row) ==
  /\ RowFree(w)
  /\ ~Gone
  /\ job' = row
  /\ pending' = [pending EXCEPT ![w] = NoRow]

EndSession(w) ==
  /\ task' = [task EXCEPT ![w] = NoTask]
  /\ view' = [view EXCEPT ![w] = NoRow]
  /\ pos' = [pos EXCEPT ![w] = 0]

Released(w) == IF lock = w THEN "free" ELSE lock

\* The task returns or raises; the lock is given back in a finally clause.
Close(w) ==
  /\ Goto(w, "idle")
  /\ EndSession(w)
  /\ pending' = [pending EXCEPT ![w] = NoRow]
  /\ lock' = Released(w)

-----------------------------------------------------------------------------
(* scripts/worker.py, crashes and time *)

\* The scan asks the column for the value of ImportStatus.PROCESSING, and the
\* column keeps the names of its members: no row is ever found.
ScanFinds(row) == row.status = "processing" /\ row.progress = "stale"

\* The worker starts: it scans for orphans, queues their recovery, and then
\* fetches tasks.
Start(w) ==
  /\ At(w, "down")
  /\ queue' = IF ScanFinds(job) THEN [queue EXCEPT !.recover = @ + 1] ELSE queue
  /\ Goto(w, "idle")
  /\ UNCHANGED <<job, file, lock, session, client, faults, history>>

\* So recover_import runs only when somebody defers it by hand.
DeferRecovery ==
  /\ recoveries > 0
  /\ recoveries' = recoveries - 1
  /\ queue' = [queue EXCEPT !.recover = @ + 1]
  /\ UNCHANGED <<job, file, lock, pc, session, ask, asks, faults, history>>

\* The process dies.  Its task is not run again; the server keeps its
\* connection, and the lock, until it notices.
Crash(w) ==
  /\ crashes > 0
  /\ ~At(w, "down")
  /\ crashes' = crashes - 1
  /\ Goto(w, "down")
  /\ EndSession(w)
  /\ pending' = [pending EXCEPT ![w] = NoRow]
  /\ lock' = IF lock = w THEN "dead" ELSE lock
  /\ stranded' = IF task[w] = ImportTask THEN TRUE ELSE stranded
  /\ UNCHANGED <<job, file, queue, client, failures, applied, chunked, outdated>>

ServerNotices ==
  /\ lock = "dead"
  /\ lock' = "free"
  /\ UNCHANGED <<job, file, queue, pc, session, client, faults, history>>

\* The orphan threshold passes for some of the times recorded so far; the
\* newest one is the committed row's, or a flushed one.
Old(row) == [row EXCEPT !.progress = IF @ = "fresh" THEN "stale" ELSE @]
Aging ==
  /\ \/ /\ \A w \in Worker : pending[w] = NoRow
        /\ job' = Old(job)
        /\ view' = [w \in Worker |-> Old(view[w])]
     \/ \E w \in Worker : view' = [view EXCEPT ![w] = Old(@)] /\ UNCHANGED job
  /\ UNCHANGED <<file, queue, lock, pc, task, pending, pos, client,
                 faults, history>>

Fetch(w) ==
  /\ At(w, "idle")
  /\ \/ /\ queue.import > 0
        /\ queue' = [queue EXCEPT !.import = @ - 1]
        /\ task' = [task EXCEPT ![w] = ImportTask]
     \/ /\ queue.recover > 0
        /\ queue' = [queue EXCEPT !.recover = @ - 1]
        /\ task' = [task EXCEPT ![w] = RecoverTask]
     \/ \E p \in queue.chunks :
          /\ queue' = [queue EXCEPT !.chunks = @ \ {p}]
          /\ task' = [task EXCEPT ![w] = ChunkTask(p)]
  /\ Goto(w, "load")
  /\ UNCHANGED <<job, file, lock, view, pending, pos, client, faults,
                 history>>

-----------------------------------------------------------------------------
(* What both tasks begin with: read the row, then try the lock *)

\* recover_import stops at a finished import; process_import does not look.
StopsAt(t, row) ==
  \/ row.status = "ABSENT"
  \/ t = RecoverTask /\ row.status \in Finished

Load(w) ==
  /\ At(w, "load")
  /\ task[w] \in {ImportTask, RecoverTask}
  /\ IF StopsAt(task[w], job)
     THEN Close(w)
     ELSE /\ view' = [view EXCEPT ![w] =
                        IF task[w] = RecoverTask THEN job ELSE Read(job)]
          /\ Goto(w, "claim")
          /\ UNCHANGED <<lock, task, pending, pos>>
  /\ UNCHANGED <<job, file, queue, client, faults, history>>

\* The same connection may take the lock again.
LockTaken(w) == lock \notin {"free", w}

\* Whether the row has moved on since it was read, nobody asks.
Claim(w) ==
  /\ At(w, "claim")
  /\ ~LockTaken(w)
  /\ lock' = w
  /\ Goto(w, IF task[w] = ImportTask THEN "import" ELSE "recover")
  /\ outdated' = IF view[w].done # job.done THEN outdated + 1 ELSE outdated
  /\ UNCHANGED <<job, file, queue, session, client, faults, applied,
                 chunked, stranded>>

ClaimRefused(w) ==
  /\ At(w, "claim")
  /\ LockTaken(w)
  /\ Close(w)
  /\ stranded' = IF task[w] = ImportTask THEN TRUE ELSE stranded
  /\ UNCHANGED <<job, file, queue, client, faults, applied,
                 chunked, outdated>>

-----------------------------------------------------------------------------
(* process_import *)

IsResume(row) == row.status = "PROCESSING" /\ row.done > 0

\* The row is marked PROCESSING, flushed but not committed.
ImportStart(w) ==
  /\ At(w, "import")
  /\ ~IsResume(view[w])
  /\ RowFree(w)
  /\ ~Gone
  /\ LET Started(row) ==
           [row EXCEPT !.status = Set(@, view[w].status, "PROCESSING"),
                       !.exhausted = Set(@, view[w].exhausted, FALSE),
                       !.progress = "fresh"]
     IN  /\ pending' = [pending EXCEPT ![w] = Started(job)]
         /\ view' = [view EXCEPT ![w] = Read(Started(view[w]))]
  /\ Goto(w, "scan_file")
  /\ UNCHANGED <<job, file, queue, lock, task, pos, client, faults,
                 history>>

ImportResume(w) ==
  /\ At(w, "import")
  /\ IsResume(view[w])
  /\ Goto(w, "scan_file")
  /\ UNCHANGED <<job, file, queue, lock, session, client, faults, history>>

ImportCancelled(w) ==
  /\ At(w, "scan_file")
  /\ view[w].cancelled
  /\ RowFree(w)
  /\ ~Gone
  /\ job' = [Base(w) EXCEPT !.status = "CANCELLED"]
  /\ Close(w)
  /\ UNCHANGED <<file, queue, client, faults, history>>

ImportSerial(w) ==
  /\ At(w, "scan_file")
  /\ ~view[w].cancelled
  /\ ~large
  /\ Goto(w, "engine")
  /\ UNCHANGED <<job, file, queue, lock, session, client, faults, history>>

\* The chunk rows, their tasks and the parent's status, in one commit.  Rows an
\* earlier split has made stay.
NewPart(p) == p[1] = splits + 1
ImportSplit(w) ==
  /\ At(w, "scan_file")
  /\ ~view[w].cancelled
  /\ large
  /\ splits < Splits
  /\ RowFree(w)
  /\ ~Gone
  /\ job' = [Base(w) EXCEPT !.progress = "fresh"]
  /\ chunk' = [p \in Part |-> IF NewPart(p) THEN "OPEN" ELSE chunk[p]]
  /\ queue' = [queue EXCEPT !.chunks = @ \cup {p \in Part : NewPart(p)}]
  /\ splits' = splits + 1
  /\ Close(w)
  /\ UNCHANGED <<large, client, faults, history>>

-----------------------------------------------------------------------------
(* recover_import *)

IsStale(row) == row.status = "PROCESSING" /\ row.progress = "stale"
NothingToRecover(row) == ~IsStale(row) /\ ~row.exhausted

RecoverSkip(w) ==
  /\ At(w, "recover")
  /\ NothingToRecover(view[w])
  /\ Close(w)
  /\ UNCHANGED <<job, file, queue, client, faults, history>>

\* An import past the end of its file only needs its result.
RecoverStart(w) ==
  /\ At(w, "recover")
  /\ ~NothingToRecover(view[w])
  /\ Commit(w, [job EXCEPT !.progress = "fresh"])
  /\ view' = [view EXCEPT ![w] = Read(@)]
  /\ Goto(w, IF view[w].exhausted THEN "result" ELSE "engine")
  /\ UNCHANGED <<file, queue, lock, task, pos, client, faults, history>>

-----------------------------------------------------------------------------
(* process_import_file, the serial engine *)

\* Mutant: always from the first row.
FirstRow(row) == 0
ResumeFrom(row) == row.done

\* A first run commits its start, a resumed one goes straight on.
EngineBegin(w) ==
  /\ At(w, "engine")
  /\ IF view[w].done = 0
     THEN Commit(w, [Base(w) EXCEPT !.progress = "fresh"])
     ELSE UNCHANGED <<job, pending>>
  /\ pos' = [pos EXCEPT ![w] = ResumeFrom(view[w])]
  /\ Goto(w, IF ResumeFrom(view[w]) < Batches THEN "batch" ELSE "finish")
  /\ UNCHANGED <<file, queue, lock, task, view, client, faults, history>>

\* A batch's voters and the progress they make are one transaction.
BatchCommit(w) ==
  /\ At(w, "batch")
  /\ LET b == pos[w] + 1
         Advanced(row) == [row EXCEPT !.done = b, !.progress = "fresh"]
     IN  /\ Commit(w, Advanced(Base(w)))
         /\ view' = [view EXCEPT ![w] = Read(Advanced(@))]
         /\ pos' = [pos EXCEPT ![w] = b]
         /\ applied' = [applied EXCEPT ![b] = @ + 1]
  /\ Goto(w, "refresh")
  /\ UNCHANGED <<file, queue, lock, task, client, faults, chunked,
                 outdated, stranded>>

\* Mutant: one batch past the end.
AfterBatchInclusive(row, n) ==
  IF row.cancelled \/ n > Batches THEN "finish" ELSE "batch"
AfterBatch(row, n) == IF row.cancelled \/ n = Batches THEN "finish" ELSE "batch"

EngineRefresh(w) ==
  /\ At(w, "refresh")
  /\ ~Gone
  /\ view' = [view EXCEPT ![w] = Read(job)]
  /\ Goto(w, AfterBatch(job, pos[w]))
  /\ UNCHANGED <<job, file, queue, lock, task, pending, pos, client,
                 faults, history>>

EngineFinish(w) ==
  /\ At(w, "finish")
  /\ Commit(w, [Base(w) EXCEPT !.exhausted = TRUE, !.progress = "fresh"])
  /\ Goto(w, "result")
  /\ UNCHANGED <<file, queue, lock, task, view, pos, client, faults,
                 history>>

\* The result is decided on a fresh view ...
ResultRefresh(w) ==
  /\ At(w, "result")
  /\ ~Gone
  /\ view' = [view EXCEPT ![w] = Read(job)]
  /\ Goto(w, "result_commit")
  /\ UNCHANGED <<job, file, queue, lock, task, pending, pos, client,
                 faults, history>>

\* Mutant: whoever finishes the import does not look at the cancellation.
ResultCompleted(row) == "COMPLETED"
Result(row) == IF row.cancelled THEN "CANCELLED" ELSE "COMPLETED"

\* ... and committed over whatever happened since.
ResultCommit(w) ==
  /\ At(w, "result_commit")
  /\ RowFree(w)
  /\ ~Gone
  /\ job' = [job EXCEPT !.status = Set(@, view[w].status, Result(view[w])),
                        !.progress = "fresh"]
  /\ Close(w)
  /\ UNCHANGED <<file, queue, client, faults, history>>

Working == {"scan_file", "engine", "batch", "refresh", "finish", "result",
            "result_commit"}

\* The file cannot be read, the batch raises (its handler raises in turn, after
\* its rollback), or a commit fails: the session rolls back and fails the job.
TaskFail(w) ==
  /\ failures > 0
  /\ failures' = failures - 1
  /\ pc[w] \in Working \cup {"import", "recover"}
  /\ RowFree(w)
  /\ ~Gone
  /\ job' = [job EXCEPT !.status = "FAILED", !.progress = "fresh"]
  /\ Close(w)
  /\ UNCHANGED <<file, queue, client, crashes, history>>

\* The row is deleted under the task: its update or refresh raises, and there
\* is no row to mark.
TaskGone(w) ==
  /\ pc[w] \in Working \cup {"import", "recover"}
  /\ Gone
  /\ Close(w)
  /\ UNCHANGED <<job, file, queue, client, faults, history>>

-----------------------------------------------------------------------------
(* The chunk tasks of a split import, reduced to what settles the parent *)

ChunkLoad(w) ==
  /\ At(w, "load")
  /\ task[w].kind = "chunk"
  /\ IF Gone \/ chunk[task[w].part] \in {"COMPLETED", "CANCELLED"}
     THEN Close(w)
     ELSE /\ view' = [view EXCEPT ![w] = Read(job)]
          /\ Goto(w, "chunk")
          /\ UNCHANGED <<lock, task, pending, pos>>
  /\ UNCHANGED <<job, file, queue, client, faults, history>>

\* The chunk ends; its task then looks whether it was the last one.
EndChunk(w, outcome) ==
  /\ ~Gone
  /\ chunk' = [chunk EXCEPT ![task[w].part] = outcome]
  /\ Goto(w, "settle")
  /\ UNCHANGED <<job, large, splits, queue, lock, session, client, crashes, history>>

ChunkCancelled(w) ==
  /\ At(w, "chunk")
  /\ view[w].cancelled
  /\ EndChunk(w, "CANCELLED")
  /\ UNCHANGED failures

ChunkBatch(w) ==
  /\ At(w, "chunk")
  /\ ~Gone
  /\ ~view[w].cancelled
  /\ chunked' = [chunked EXCEPT ![task[w].part] = @ + 1]
  /\ Goto(w, "chunk_end")
  /\ UNCHANGED <<job, file, queue, lock, session, client, faults, applied,
                 outdated, stranded>>

\* A cancellation counts when the refresh after the batch, or one of the
\* chunk's secondary tasks, comes after it.
ChunkEnd(w) ==
  /\ At(w, "chunk_end")
  /\ \/ EndChunk(w, "COMPLETED")
     \/ job.cancelled /\ EndChunk(w, "CANCELLED")
  /\ UNCHANGED failures

\* Before or after its batch was committed.
ChunkFail(w) ==
  /\ failures > 0
  /\ failures' = failures - 1
  /\ pc[w] \in {"chunk", "chunk_end"}
  /\ EndChunk(w, "FAILED")

Terminal == Finished \cup {"COMPLETED_WITH_ERRORS"}

Chunks == {p \in Part : chunk[p] # "ABSENT"}
Ended(outcome) == {p \in Chunks : chunk[p] = outcome}
Settled == Chunks # {} /\ Ended("OPEN") = {}

Verdict ==
  IF job.cancelled /\ Ended("CANCELLED") # {} /\ Ended("FAILED") = {}
  THEN "CANCELLED"
  ELSE IF Ended("FAILED") \cup Ended("CANCELLED") = {} THEN "COMPLETED"
  ELSE IF Ended("COMPLETED") # {} THEN "COMPLETED_WITH_ERRORS"
  ELSE "FAILED"

\* The last chunk of all splits to end gives a parent without a result its
\* result, unless its task stops short of it: the finalization lock is held by
\* another one, or its session was rolled back.
ChunkSettle(w) ==
  /\ At(w, "settle")
  /\ \/ /\ RowFree(w)
        /\ ~Gone
        /\ Settled
        /\ job.status \notin Terminal
        /\ job' = [job EXCEPT !.status = Verdict, !.progress = "fresh"]
     \/ UNCHANGED job
  /\ Close(w)
  /\ UNCHANGED <<file, queue, client, faults, history>>

ChunkGone(w) ==
  /\ pc[w] \in {"chunk", "chunk_end"}
  /\ Gone
  /\ Close(w)
  /\ UNCHANGED <<job, file, queue, client, faults, history>>

-----------------------------------------------------------------------------
(* The endpoints: each reads the row, checks its status and commits later *)

Op == {"detect", "confirm", "cancel", "delete"}

Allowed(op, status) ==
  CASE op = "detect"  -> TRUE
    [] op = "confirm" -> status \in {"UPLOADED", "PENDING"}
    [] op = "cancel"  -> status \in {"QUEUED", "PROCESSING"}
    [] op = "delete"  -> status \notin {"QUEUED", "PROCESSING", "CANCELLING"}

\* Only a detection writes what depends on the status it read.
Saw(op, status) == IF op = "detect" THEN status ELSE "ABSENT"
Request(op, status) == [op |-> op, saw |-> Saw(op, status), at |-> "read"]
Saved(a) == [a EXCEPT !.at = "saved"]

Ask(op) ==
  /\ asks > 0
  /\ ~Gone
  /\ Allowed(op, job.status)
  /\ ask' = ask (+) SetToBag({Request(op, job.status)})
  /\ asks' = asks - 1
  /\ UNCHANGED <<job, file, queue, lock, pc, session, recoveries, faults, history>>

Reads(a, op) == a.op = op /\ a.at = "read"
RowUnlocked == \A w \in Worker : pending[w] = NoRow
Answer(a) == ask' = ask (-) SetToBag({a}) /\ UNCHANGED <<asks, recoveries>>

\* Every update of a row deleted meanwhile raises.
AskGone(a) ==
  /\ a.at = "read"
  /\ Gone
  /\ Answer(a)
  /\ UNCHANGED <<job, file, queue, lock, pc, session, faults, history>>

\* Whatever the import was doing meanwhile.
DetectColumns(a) ==
  /\ Reads(a, "detect")
  /\ RowUnlocked
  /\ ~Gone
  /\ job' = [job EXCEPT !.status = Set(@, a.saw, "UPLOADED")]
  /\ Answer(a)
  /\ UNCHANGED <<file, queue, lock, pc, session, faults, history>>

ConfirmCommit(a) ==
  /\ Reads(a, "confirm")
  /\ RowUnlocked
  /\ ~Gone
  /\ job' = [job EXCEPT !.status = "QUEUED"]
  /\ ask' = (ask (-) SetToBag({a})) (+) SetToBag({Saved(a)})
  /\ UNCHANGED <<file, queue, lock, pc, session, asks, recoveries, faults, history>>

\* The queueing lock of the campaign lets one import task wait at a time.
ConfirmDefer(a) ==
  /\ a.at = "saved"
  /\ queue.import = 0
  /\ queue' = [queue EXCEPT !.import = 1]
  /\ Answer(a)
  /\ UNCHANGED <<job, file, lock, pc, session, faults, history>>

\* AlreadyEnqueued: this import, or another one of the campaign, is waiting.
\* Mutant: the endpoint ignores it and answers that the import is queued.
ConfirmRefusedSilently(a) ==
  /\ a.at = "saved"
  /\ Answer(a)
  /\ UNCHANGED <<job, file, queue, lock, pc, session, faults, history>>
ConfirmRefused(a) ==
  /\ a.at = "saved"
  /\ Answer(a)
  /\ stranded' = TRUE
  /\ UNCHANGED <<job, file, queue, lock, pc, session, faults, applied,
                 chunked, outdated>>

CancelImport(a) ==
  /\ Reads(a, "cancel")
  /\ RowUnlocked
  /\ ~Gone
  /\ job' = [job EXCEPT !.status = "CANCELLING", !.cancelled = TRUE]
  /\ Answer(a)
  /\ UNCHANGED <<file, queue, lock, pc, session, faults, history>>

DeleteImport(a) ==
  /\ Reads(a, "delete")
  /\ RowUnlocked
  /\ ~Gone
  /\ job' = NoRow
  /\ chunk' = [p \in Part |-> "ABSENT"]
  /\ Answer(a)
  /\ UNCHANGED <<large, splits, queue, lock, pc, session, faults, history>>

-----------------------------------------------------------------------------
TaskStep(w) ==
  \/ Load(w) \/ Claim(w) \/ ClaimRefused(w)
  \/ ImportStart(w) \/ ImportResume(w) \/ ImportCancelled(w)
  \/ ImportSerial(w) \/ ImportSplit(w) \/ RecoverSkip(w) \/ RecoverStart(w)
  \/ EngineBegin(w) \/ BatchCommit(w) \/ EngineRefresh(w) \/ EngineFinish(w)
  \/ ResultRefresh(w) \/ ResultCommit(w) \/ TaskFail(w) \/ TaskGone(w)
  \/ ChunkLoad(w) \/ ChunkCancelled(w) \/ ChunkBatch(w) \/ ChunkEnd(w)
  \/ ChunkFail(w) \/ ChunkSettle(w) \/ ChunkGone(w)

WorkerStep(w) == Start(w) \/ Fetch(w) \/ TaskStep(w)

AnswerStep(a) ==
  \/ AskGone(a) \/ DetectColumns(a) \/ ConfirmCommit(a)
  \/ ConfirmDefer(a) \/ ConfirmRefused(a) \/ CancelImport(a) \/ DeleteImport(a)

Next ==
  \/ \E w \in Worker : WorkerStep(w) \/ Crash(w)
  \/ \E op \in Op : Ask(op)
  \/ \E a \in BagToSet(ask) : AnswerStep(a)
  \/ Aging \/ ServerNotices \/ DeferRecovery

Spec == Init /\ [][Next]_vars

-----------------------------------------------------------------------------
(* Properties *)

Labels == {"down", "idle", "load", "claim", "import", "recover", "chunk",
           "chunk_end", "settle"} \cup Working

\* Every variable has its type.
TypeOK ==
  /\ job \in Row
  /\ large \in BOOLEAN
  /\ chunk \in [Part -> {"ABSENT", "OPEN", "COMPLETED", "CANCELLED", "FAILED"}]
  /\ splits \in 0..Splits
  /\ queue \in [import: Nat, recover: Nat, chunks: SUBSET Part]
  /\ lock \in Worker \cup {"free", "dead"}
  /\ pc \in [Worker -> Labels]
  /\ task \in [Worker -> Task]
  /\ view \in [Worker -> Row]
  /\ pending \in [Worker -> Row]
  /\ pos \in [Worker -> 0..Batches]
  /\ IsABag(ask)
  /\ BagToSet(ask) \subseteq [op: Op, saw: Status \cup {"ABSENT"},
                              at: {"read", "saved"}]
  /\ asks \in Nat
  /\ recoveries \in Nat
  /\ crashes \in Nat
  /\ failures \in Nat
  /\ applied \in [Batch -> Nat]
  /\ chunked \in [Part -> Nat]
  /\ outdated \in Nat
  /\ stranded \in BOOLEAN

\* However often workers die and start again and the import is confirmed again,
\* the serial engine commits no batch twice and none beyond the recorded
\* progress, but for one gap in the code, which the bound names: a task reads the
\* row before it has the lock and works on what it read (one more time for each
\* such claim).  A chunk's task commits its batch once.  That the file is split
\* again when it is confirmed again, and also run through the serial engine when
\* it is recovered, is what the code does: a batch may then have been imported
\* once by each split and once by the engine, and rows without a source_id, which
\* get a random one, leave their voters each time.
ImportedOnce ==
  /\ \A b \in Batch : applied[b] <= outdated + (IF b <= job.done \/ Gone THEN 1 ELSE 0)
  /\ \A p \in Part : chunked[p] <= 1

\* The recorded progress never runs ahead of the voters it stands for, and an
\* import that counts as COMPLETED has had each of its batches imported,
\* whichever tasks resumed, recovered or finished it, and however often it was
\* split.
Imported(b) == applied[b] >= 1 \/ \E p \in Part : p[2] = b /\ chunked[p] >= 1
NothingSkipped ==
  /\ \A b \in 1..job.done : applied[b] >= 1
  /\ job.status = "COMPLETED" => \A b \in Batch : Imported(b)

\* An import shown as QUEUED has its task waiting, running or about to be
\* stored, unless one of three things happened: the admin was answered that an
\* import is already in progress, the task met the lock of another one, or its
\* worker died before the first commit.
QueuedHasTask ==
  job.status = "QUEUED" /\ ~stranded =>
    \/ queue.import > 0
    \/ \E w \in Worker : task[w] = ImportTask
    \/ \E a \in BagToSet(ask) : a.at = "saved"
=============================================================================
