------------------------------ MODULE MCWorkLog ------------------------------
(* Three writers and two contents, with one archive-and-clear.                *)
EXTENDS WorkLog

CONSTANTS W1, W2, W3

MCWriters == {W1, W2, W3}
MCContents == {"run", "pause"}
=============================================================================
