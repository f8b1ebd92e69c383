----------------------------- MODULE MCThreadPool -----------------------------
(***************************************************************************)
(* ThreadPool for TLC.  Every constant is a model value or a set of them,  *)
(* given in the configuration.                                             *)
(***************************************************************************)
EXTENDS ThreadPool
===============================================================================
