--------------------------- MODULE ChunkedImportMC ---------------------------
(***************************************************************************)
(* Small instances of ChunkedImport for TLC: the worker slots and cancel   *)
(* requests are model values, interchangeable in the safety run.           *)
(***************************************************************************)
EXTENDS ChunkedImport, TLC

CONSTANTS w1, w2, r1

OneWorker  == {w1}
TwoWorkers == {w1, w2}
NoRequest  == {}
OneRequest == {r1}

\* Every chunk's rows may hold phones and addresses, or only the first one's.
Both  == [c \in Chunk |-> Secondary]
First == [c \in Chunk |-> IF c = 1 THEN Secondary ELSE {}]

NoFaults  == {}
AllFaults == FaultKinds

Interchangeable == Permutations(Worker)
=============================================================================
