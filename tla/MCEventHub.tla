----------------------------- MODULE MCEventHub -----------------------------
(***************************************************************************)
(* Two connections, of which one does not read, so that one channel is     *)
(* full while the other is served; a user whose role changes back and      *)
(* forth; a handler that changes tasks again and again.                    *)
(***************************************************************************)
EXTENDS EventHub
=============================================================================
