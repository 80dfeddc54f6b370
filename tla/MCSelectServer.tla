---------------------------- MODULE MCSelectServer --------------------------
(***************************************************************************)
(* Instances of SelectServer for TLC.                                      *)
(***************************************************************************)
EXTENDS SelectServer

(* Who sends how much: those that may reset twice, the others once.         *)
MoreFromResets == [c \in Conns |-> IF c \in Resets THEN 2 ELSE 1]
=============================================================================
