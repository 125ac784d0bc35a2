----------------------------- MODULE MCLabJobs -----------------------------
(***************************************************************************)
(* Two requests, in turn or at the same time, for one lab or two, and one  *)
(* fault anywhere.                                                         *)
(***************************************************************************)
EXTENDS LabJobs
=============================================================================
