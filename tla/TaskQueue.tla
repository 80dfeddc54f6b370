----------------------------- MODULE TaskQueue ------------------------------
(***************************************************************************)
(* What the thread pool of threadpool.cpp promises to its clients, with no *)
(* thread, lock, condition variable or ring buffer in it: a bounded FIFO   *)
(* of tasks, each started at most once and in the order of its submission, *)
(* and none started once the pool is closed.                               *)
(***************************************************************************)
EXTENDS Naturals, Sequences

CONSTANTS Tasks,      (* the tasks clients may submit                       *)
          Capacity    (* how many tasks may wait                            *)

VARIABLES queue,      (* submitted, not started, oldest first               *)
          running,    (* started, not finished                              *)
          finished,   (* finished                                           *)
          closed      (* no task is started any more                        *)

vars == <<queue, running, finished, closed>>

Queued == {queue[i] : i \in DOMAIN queue}

Init ==
  /\ queue = <<>>
  /\ running = {}
  /\ finished = {}
  /\ closed = FALSE

Submit(t) ==
  /\ ~closed
  /\ Len(queue) < Capacity
  /\ t \notin Queued \cup running \cup finished
  /\ queue' = Append(queue, t)
  /\ UNCHANGED <<running, finished, closed>>

Start ==
  /\ ~closed
  /\ queue # <<>>
  /\ running' = running \cup {Head(queue)}
  /\ queue' = Tail(queue)
  /\ UNCHANGED <<finished, closed>>

Finish(t) ==
  /\ t \in running
  /\ running' = running \ {t}
  /\ finished' = finished \cup {t}
  /\ UNCHANGED <<queue, closed>>

Close ==
  /\ closed' = TRUE
  /\ UNCHANGED <<queue, running, finished>>

Next ==
  \/ \E t \in Tasks : Submit(t) \/ Finish(t)
  \/ Start
  \/ Close

Spec == Init /\ [][Next]_vars
=============================================================================
