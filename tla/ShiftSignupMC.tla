---------------------------- MODULE ShiftSignupMC ----------------------------
(***************************************************************************)
(* A small instance of ShiftSignup for TLC.                                *)
(***************************************************************************)
EXTENDS ShiftSignup, TLC

CONSTANTS v1, v2, v3, r1, r2, r3

Volunteers == {v1, v2, v3}
Requests   == {r1, r2, r3}
UpToTwo    == 0..2

Interchangeable == Permutations(Volunteer) \cup Permutations(Request)
=============================================================================
