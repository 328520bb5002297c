---------------------------- MODULE MCThreadPool ----------------------------
(* Instances of ThreadPool for TLC: its constants are given by the .cfg. *)
EXTENDS ThreadPool
=============================================================================
