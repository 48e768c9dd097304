---------------------------- MODULE MembershipMC ----------------------------
(***************************************************************************)
(* A small instance of Membership for TLC.                                 *)
(***************************************************************************)
EXTENDS Membership, TLC

CONSTANTS u1, u2, c1, c2, s1, s2

TwoUsers     == {u1, u2}
OneAtHome    == {u2}
TwoCampaigns == {c1, c2}
TwoSlots     == {s1, s2}

Interchangeable == Permutations(Slot)
=============================================================================
