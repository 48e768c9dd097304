----------------------------- MODULE CallClaimsMC -----------------------------
(***************************************************************************)
(* Small instances of CallClaims for TLC.                                  *)
(***************************************************************************)
EXTENDS CallClaims, TLC

CONSTANTS c1, c2, e1, e2, p1, p2, r1, r2

TwoCallers  == {c1, c2}
OneEntry    == {e1}
TwoEntries  == {e1, e2}
TwoPhones   == {p1, p2}
OneRequest  == {r1}
TwoRequests == {r1, r2}

Interchangeable ==
  Permutations(Caller) \cup Permutations(Entry) \cup Permutations(Phone)
    \cup Permutations(Request)
=============================================================================
