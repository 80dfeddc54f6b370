----------------------------- MODULE ServiceHall ----------------------------
(***************************************************************************)
(* sem_pthread.c: one thread per customer and as many served at a time as  *)
(* the semaphore allows.  main gives every thread the address of           *)
(* customer_id, a local of the loop body: the same place on the stack in   *)
(* each iteration, and nobody's once the loop is over.  A thread is named  *)
(* by the i it was created with.                                           *)
(***************************************************************************)
EXTENDS Naturals

CONSTANTS
  CustomerNum,     (* CUSTOMER_NUM                                          *)
  Windows,         (* the initial value of sem                              *)
  Unknown          (* no number yet, or one main did not write there (an    *)
                   (* overwritten place may by chance hold any number)      *)

Customers == 0 .. CustomerNum - 1

VARIABLES
  sem,             (* the value of the semaphore                            *)
  mpc, i, j,       (* main: where it is, its loop variables                 *)
  customer_id,     (* the place on main's stack                             *)
  tpc, id          (* per customer: where it is, its own customer_id        *)

vars == <<sem, mpc, i, j, customer_id, tpc, id>>

Init ==
  /\ sem = Windows
  /\ mpc = "create" /\ i = 0 /\ j = 0 /\ customer_id = Unknown
  /\ tpc = [t \in Customers |-> "none"] /\ id = [t \in Customers |-> Unknown]

(* exit(1), and the return of main, end every thread.                       *)
Running == mpc \in {"create", "join"}

-----------------------------------------------------------------------------
(* main: pthread_create starts the thread or the process exits.             *)
Create ==
  /\ mpc = "create" /\ i < CustomerNum
  /\ \/ /\ customer_id' = i
        /\ tpc' = [tpc EXCEPT ![i] = "arrived"]
        /\ i' = i + 1
        /\ UNCHANGED mpc
     \/ mpc' = "exited" /\ UNCHANGED <<customer_id, tpc, i>>
  /\ UNCHANGED <<sem, j, id>>

(* customer_id goes out of scope: it may stay as it is or be overwritten,   *)
(* with whatever number, which Unknown tells from those main wrote.         *)
LeaveLoop ==
  /\ mpc = "create" /\ i = CustomerNum
  /\ mpc' = "join"
  /\ customer_id' \in {customer_id, Unknown}
  /\ UNCHANGED <<sem, i, j, tpc, id>>

(* pthread_join of each thread; then sem_destroy and the end of main.       *)
Join ==
  /\ mpc = "join"
  /\ \/ j < CustomerNum /\ tpc[j] = "done" /\ j' = j + 1 /\ UNCHANGED mpc
     \/ j = CustomerNum /\ mpc' = "returned" /\ UNCHANGED j
  /\ UNCHANGED <<sem, i, customer_id, tpc, id>>

-----------------------------------------------------------------------------
(* get_service.                                                             *)
SaveId(t) ==
  /\ Running /\ tpc[t] = "arrived"
  /\ id' = [id EXCEPT ![t] = customer_id]
  /\ tpc' = [tpc EXCEPT ![t] = "saved"]
  /\ UNCHANGED <<sem, mpc, i, j, customer_id>>

SemWait(t) ==
  /\ Running /\ tpc[t] = "saved" /\ sem > 0
  /\ sem' = sem - 1
  /\ tpc' = [tpc EXCEPT ![t] = "served"]
  /\ UNCHANGED <<mpc, i, j, customer_id, id>>

(* Mutant: the post is forgotten. *)
Released == sem

(* What the semaphore is worth after a post.                                *)
Posted == sem + 1

SemPost(t) ==
  /\ Running /\ tpc[t] = "served"
  /\ sem' = Posted
  /\ tpc' = [tpc EXCEPT ![t] = "done"]
  /\ UNCHANGED <<mpc, i, j, customer_id, id>>

Main == Create \/ LeaveLoop \/ Join
Customer(t) == SaveId(t) \/ SemWait(t) \/ SemPost(t)

Next == Main \/ \E t \in Customers : Customer(t)

-----------------------------------------------------------------------------
TypeOK ==
  /\ sem \in 0 .. Windows
  /\ mpc \in {"create", "join", "returned", "exited"}
  /\ i \in 0 .. CustomerNum /\ j \in 0 .. CustomerNum
  /\ customer_id \in Customers \cup {Unknown}
  /\ tpc \in [Customers -> {"none", "arrived", "saved", "served", "done"}]
  /\ id \in [Customers -> Customers \cup {Unknown}]

(* main does not return, and end the threads with itself, before everybody  *)
(* was served; and late as a thread may read its number, where main may     *)
(* have gone on to the next customer or left the loop, what main wrote      *)
(* there for an earlier one it never reads.                                 *)
SafelyServed ==
  /\ mpc = "returned" => \A t \in Customers : tpc[t] = "done"
  /\ \A t \in Customers :
       tpc[t] \in {"saved", "served", "done"}
         => id[t] \in t .. CustomerNum - 1 \cup {Unknown}

(* While main joins, the thread it waits for is done or somebody can go on: *)
(* no window is lost, so customers wait only while others are served.       *)
NobodyStuck ==
  (mpc = "join" /\ j < CustomerNum) =>
    \/ tpc[j] = "done"
    \/ \E t \in Customers :
         tpc[t] \in {"arrived", "served"} \/ (tpc[t] = "saved" /\ sem > 0)

(* Everybody is served and main returns, unless a thread cannot be created; *)
(* and late as a thread may read its number, where main may have gone on to *)
(* the next customer or left the loop, what main wrote there for an earlier *)
(* one it never reads.                                                      *)
ServedInTurn ==
  <>[]\/ mpc = "exited"
      \/ /\ mpc = "returned"
         /\ \A t \in Customers :
              tpc[t] = "done" /\ id[t] \in t .. CustomerNum - 1 \cup {Unknown}
=============================================================================
