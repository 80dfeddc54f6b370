----------------------------- MODULE MCProcServer ---------------------------
(***************************************************************************)
(* Instances of ProcServer for TLC.                                        *)
(***************************************************************************)
EXTENDS ProcServer

(* Who sends something: those that may reset; the others only come and go.  *)
OnlyFromResets == [c \in Conns |-> IF c \in Resets THEN 1 ELSE 0]
=============================================================================
