---------------------------- MODULE MCThreadServer --------------------------
(***************************************************************************)
(* Instances of ThreadServer for TLC.                                      *)
(***************************************************************************)
EXTENDS ThreadServer, TLC

AnyStart == 0 .. TsMax

ConnSymmetry == Permutations(Conns)

(* Who sends how much: those that may reset twice, the others once.         *)
MoreFromResets == [c \in Conns |-> IF c \in Resets THEN 2 ELSE 1]
=============================================================================
