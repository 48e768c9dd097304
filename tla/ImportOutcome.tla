---------------------------- MODULE ImportOutcome ----------------------------
(***************************************************************************)
(* What a chunked voter import promises the campaign admin, with workers,  *)
(* queues, sessions and locks left out: every chunk settles at most once   *)
(* and its row count is frozen from then on; the parent import gets a      *)
(* result only after every chunk has settled; that result and the parent's *)
(* row total are the ones the chunks add up to.  ChunkedImport implements  *)
(* it (its property Implements).                                           *)
(***************************************************************************)
EXTENDS Integers, Functions

CONSTANT Chunk

VARIABLES
  outcome,    \* [Chunk -> "OPEN" or how the chunk ended]
  rows,       \* [Chunk -> voter batches committed for the chunk]
  status,     \* status of the parent import
  cancelled,  \* has the admin's cancellation been recorded?
  total       \* the parent's imported_rows

vars == <<outcome, rows, status, cancelled, total>>

Ended    == {"COMPLETED", "FAILED", "CANCELLED"}
Terminal == Ended \cup {"COMPLETED_WITH_ERRORS"}

Untouched == \A c \in Chunk : outcome[c] = "OPEN" /\ rows[c] = 0
Settled   == \A c \in Chunk : outcome[c] \in Ended

(***************************************************************************)
(* The result the chunks add up to, as the import's requirements state it: *)
(* a cancelled import none of whose chunks failed is CANCELLED; otherwise  *)
(* all, some or none of the chunks being good decides.                     *)
(***************************************************************************)
Good == {c \in Chunk : outcome[c] = "COMPLETED"}
Verdict(cancelSeen) ==
  IF /\ cancelSeen
     /\ \E c \in Chunk : outcome[c] = "CANCELLED"
     /\ \A c \in Chunk : outcome[c] # "FAILED"
  THEN "CANCELLED"
  ELSE CASE Good = Chunk -> "COMPLETED"
         [] Good = {}    -> "FAILED"
         [] OTHER        -> "COMPLETED_WITH_ERRORS"

Init ==
  /\ outcome = [c \in Chunk |-> "OPEN"]
  /\ rows = [c \in Chunk |-> 0]
  /\ status = "QUEUED"
  /\ cancelled = FALSE
  /\ total = 0

\* The import is split into chunks and work starts.
Begin ==
  /\ Untouched
  /\ status \in {"QUEUED", "CANCELLING"}
  /\ status' = "PROCESSING"
  /\ UNCHANGED <<outcome, rows, cancelled, total>>

\* The import ends before any chunk exists: it was cancelled while queued,
\* or the split itself failed.
Abandon ==
  /\ Untouched
  /\ status \in {"QUEUED", "CANCELLING"}
  /\ status' = "FAILED" \/ (cancelled /\ status' = "CANCELLED")
  /\ UNCHANGED <<outcome, rows, cancelled, total>>

Advance(c) ==
  /\ outcome[c] = "OPEN"
  /\ rows' = [rows EXCEPT ![c] = @ + 1]
  /\ UNCHANGED <<outcome, status, cancelled, total>>

Settle(c) ==
  /\ outcome[c] = "OPEN"
  /\ \E o \in Ended :
       /\ o = "CANCELLED" => cancelled
       /\ outcome' = [outcome EXCEPT ![c] = o]
  /\ UNCHANGED <<rows, status, cancelled, total>>

(***************************************************************************)
(* The cancellation carries no guard on the status: the endpoint checks    *)
(* the status it read, and the import may end before its commit.           *)
(***************************************************************************)
Cancel ==
  /\ cancelled' = TRUE
  /\ status' = "CANCELLING"
  /\ UNCHANGED <<outcome, rows, total>>

\* The finalizer may have read cancelled_at just before the cancellation.
Finalize ==
  /\ Settled
  /\ status \notin Terminal
  /\ status' \in {Verdict(FALSE), Verdict(cancelled)}
  /\ total' = SumFunction(rows)
  /\ UNCHANGED <<outcome, rows, cancelled>>

Next ==
  \/ Begin \/ Abandon \/ Cancel \/ Finalize
  \/ \E c \in Chunk : Advance(c) \/ Settle(c)

Spec == Init /\ [][Next]_vars
=============================================================================
