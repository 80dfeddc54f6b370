----------------------------- MODULE EchoService ----------------------------
(***************************************************************************)
(* What an echo server is for each of its connections, with no table of    *)
(* descriptors, no kernel and no event loop: it takes a connection in,     *)
(* then alternates between receiving something and sending all of it back, *)
(* until it drops the connection.                                          *)
(***************************************************************************)
EXTENDS Naturals

CONSTANTS Conns,      (* the connections                                    *)
          Most        (* the most that is received at a time                *)

VARIABLES phase,      (* "outside", "reading" or "replying"                 *)
          owed        (* received and not sent back                         *)

vars == <<phase, owed>>

Init ==
  /\ phase = [c \in Conns |-> "outside"]
  /\ owed = [c \in Conns |-> 0]

Take(c) ==
  /\ phase[c] = "outside"
  /\ phase' = [phase EXCEPT ![c] = "reading"]
  /\ UNCHANGED owed

Receive(c) ==
  /\ phase[c] = "reading" /\ owed[c] = 0
  /\ \E n \in 1 .. Most : owed' = [owed EXCEPT ![c] = n]
  /\ phase' = [phase EXCEPT ![c] = "replying"]

Reply(c) ==
  /\ phase[c] = "replying"
  /\ owed' = [owed EXCEPT ![c] = 0]
  /\ phase' = [phase EXCEPT ![c] = "reading"]

(* One pass over the connections may drop several.                          *)
Drop(S) ==
  /\ \A c \in S : phase[c] # "outside"
  /\ phase' = [c \in Conns |-> IF c \in S THEN "outside" ELSE phase[c]]
  /\ UNCHANGED owed

Next ==
  \/ \E c \in Conns : Take(c) \/ Receive(c) \/ Reply(c)
  \/ \E S \in SUBSET Conns : Drop(S)

Spec == Init /\ [][Next]_vars
=============================================================================
