----------------------------- MODULE MCPollServer ---------------------------
(***************************************************************************)
(* Instances of PollServer for TLC.                                        *)
(***************************************************************************)
EXTENDS PollServer

(* Who sends how much: those that may reset twice, the others once.         *)
MoreFromResets == [c \in Conns |-> IF c \in Resets THEN 2 ELSE 1]
=============================================================================
