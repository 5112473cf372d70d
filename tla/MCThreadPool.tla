---------------------------- MODULE MCThreadPool ----------------------------
(***************************************************************************)
(* Which tasks wait for which in the instance of ThreadPool that TLC       *)
(* checks.                                                                 *)
(***************************************************************************)
EXTENDS ThreadPool

\* Tasks 1 and 2 wait for task 3, so both workers may wait for a queued task.
TwoWait == <<{3}, {3}, {}>>
=============================================================================
