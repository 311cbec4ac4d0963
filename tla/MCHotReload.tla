----------------------------- MODULE MCHotReload -----------------------------
(* Three goroutines and four edits.                                           *)
EXTENDS HotReload

CONSTANTS S1, S2, S3

MCSlots == {S1, S2, S3}
=============================================================================
