-------------------------- MODULE ImportRecoveryMC --------------------------
(***************************************************************************)
(* A small instance of ImportRecovery for TLC.                             *)
(***************************************************************************)
EXTENDS ImportRecovery, TLC

CONSTANTS w1, w2

TwoWorkers == {w1, w2}
Interchangeable == Permutations(TwoWorkers)

\* Bound: a crash, a failing step and a recovery by hand happen beside two
\* requests, a third request only beside none of them.
ThirdAlone ==
  asks = 0 => /\ crashes = Crashes
              /\ failures = Failures
              /\ recoveries = Recoveries
=============================================================================
