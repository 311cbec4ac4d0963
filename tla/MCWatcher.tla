------------------------------ MODULE MCWatcher ------------------------------
(***************************************************************************)
(* Two task numbers, so that a directory is removed while another one is   *)
(* being parsed or watched; two requests that create tasks next to people  *)
(* who change the directory by hand.                                       *)
(***************************************************************************)
EXTENDS Watcher

MCVersions == {"v1", "v2"}
=============================================================================
