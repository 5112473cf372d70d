------------------------------ MODULE MCTcpChat ------------------------------
(***************************************************************************)
(* Who sends what, and from which process, in the instance of TcpChat that *)
(* TLC checks.                                                             *)
(***************************************************************************)
EXTENDS TcpChat

\* Client 1 sends a character, a newline and another character, client 2 a
\* single one ...
TwoSenders == <<3, 1>>
LineEnds == {<<1, 2>>}

\* ... from one process.
OneProcess == <<"p", "p">>
=============================================================================
