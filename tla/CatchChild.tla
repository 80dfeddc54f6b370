----------------------------- MODULE CatchChild -----------------------------
(***************************************************************************)
(* catch_child.c: the parent blocks SIGCHLD, forks its children, installs  *)
(* catch_child and unblocks the signal.  The handler reaps with a blocking *)
(* waitpid until it fails.  SIGCHLD does not queue: however many children  *)
(* end while it is pending, it is delivered once.                          *)
(***************************************************************************)
EXTENDS Naturals

CONSTANT N         (* how many children main forks, 5                       *)

Children == 0 .. N - 1

VARIABLES
  mpc, i,          (* main: "fork", "unblock" or "loop", and its i          *)
  inHandler,       (* catch_child runs, with SIGCHLD masked                 *)
  pending,         (* a SIGCHLD is pending                                  *)
  child            (* per child: "none", "running", "zombie" or "reaped"    *)

vars == <<mpc, i, inHandler, pending, child>>

Init ==
  /\ mpc = "fork" /\ i = 0 /\ inHandler = FALSE /\ pending = FALSE
  /\ child = [c \in Children |-> "none"]

In(s) == {c \in Children : child[c] = s}

(* Mutant: main does not block SIGCHLD. *)
NeverBlocked == FALSE

Blocked == mpc # "loop"

Caught == mpc \in {"unblock", "loop"}

-----------------------------------------------------------------------------
(* main: a fork that fails leaves a child out and the loop goes on.         *)
Fork ==
  /\ mpc = "fork" /\ i < N /\ ~inHandler
  /\ child' \in {child, [child EXCEPT ![i] = "running"]}
  /\ i' = i + 1
  /\ UNCHANGED <<mpc, inHandler, pending>>

Install ==
  /\ mpc = "fork" /\ i = N /\ ~inHandler
  /\ mpc' = "unblock"
  /\ UNCHANGED <<i, inHandler, pending, child>>

Unblock ==
  /\ mpc = "unblock" /\ ~inHandler
  /\ mpc' = "loop"
  /\ UNCHANGED <<i, inHandler, pending, child>>

(* A child ends; its SIGCHLD is discarded if it is neither blocked nor      *)
(* caught.                                                                  *)
Exit(c) ==
  /\ child[c] = "running"
  /\ child' = [child EXCEPT ![c] = "zombie"]
  /\ pending' = (Blocked \/ Caught)
  /\ UNCHANGED <<mpc, i, inHandler>>

Deliver ==
  /\ pending /\ ~Blocked /\ ~inHandler
  /\ inHandler' = Caught
  /\ pending' = FALSE
  /\ UNCHANGED <<mpc, i, child>>

(* catch_child: waitpid waits while there are children and none has ended,  *)
(* and fails when there are none.                                           *)
Reap ==
  /\ inHandler
  /\ \E c \in In("zombie") : child' = [child EXCEPT ![c] = "reaped"]
  /\ UNCHANGED <<mpc, i, inHandler, pending>>

Return ==
  /\ inHandler
  /\ In("zombie") = {} /\ In("running") = {}
  /\ inHandler' = FALSE
  /\ UNCHANGED <<mpc, i, pending, child>>

Parent == Fork \/ Install \/ Unblock \/ Deliver \/ Reap \/ Return

Next == Parent \/ \E c \in Children : Exit(c)

-----------------------------------------------------------------------------
TypeOK ==
  /\ mpc \in {"fork", "unblock", "loop"} /\ i \in 0 .. N
  /\ inHandler \in BOOLEAN /\ pending \in BOOLEAN
  /\ child \in [Children -> {"none", "running", "zombie", "reaped"}]

(* Whoever has ended is being reaped or will be noticed: no SIGCHLD comes   *)
(* before there is a handler for it, and the one that stands for several is *)
(* followed by a handler that takes them all.                               *)
ZombiesNoticed == In("zombie") # {} => pending \/ inHandler

(* No child stays a zombie, although they may all end before the handler is *)
(* there and one delivery of SIGCHLD may stand for several of them; and the *)
(* handler, which waits for running children too, comes to its end.         *)
AllReaped ==
  <>[](In("running") = {} /\ In("zombie") = {} /\ mpc = "loop" /\ ~inHandler)
=============================================================================
