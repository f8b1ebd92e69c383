------------------------------ MODULE MCConnPool -------------------------------
(***************************************************************************)
(* ConnPool for TLC; the configurations give every constant.               *)
(***************************************************************************)
EXTENDS ConnPool
===============================================================================
