---------------------------- MODULE SmsDeliveryMC ----------------------------
(***************************************************************************)
(* A small instance of SmsDelivery for TLC.                                *)
(***************************************************************************)
EXTENDS SmsDelivery, TLC

CONSTANTS s1, b1, t1, t2, h1, h2

OneSingle   == {s1}
OneBulk     == {b1}
TwoTexts    == {t1, t2}
TwoHandlers == {h1, h2}

Interchangeable == Permutations(Text) \cup Permutations(Handler)
=============================================================================
