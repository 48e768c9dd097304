---------------------------- MODULE OnboardingMC ----------------------------
(***************************************************************************)
(* A small instance of Onboarding for TLC.                                 *)
(***************************************************************************)
EXTENDS Onboarding, TLC

CONSTANTS r1, r2, h1, h2

TwoRequests == {r1, r2}
TwoHooks    == {h1, h2}
ThreeEvents == {"delivered", "bounced", "opened"}

Interchangeable == Permutations(Request) \cup Permutations(Hook)
=============================================================================
