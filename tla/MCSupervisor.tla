----------------------------- MODULE MCSupervisor -----------------------------
(***************************************************************************)
(* Instance of Supervisor for TLC: a command and two processes that it or  *)
(* its children may fork.                                                  *)
(***************************************************************************)
EXTENDS Supervisor

CONSTANTS p1, p2, p3
=============================================================================
