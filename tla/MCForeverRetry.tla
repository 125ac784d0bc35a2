--------------------------- MODULE MCForeverRetry ---------------------------
(***************************************************************************)
(* Deployments in turn or at the same time, a worker that dies and a pid   *)
(* that is taken by another process.                                       *)
(***************************************************************************)
EXTENDS ForeverRetry
=============================================================================
