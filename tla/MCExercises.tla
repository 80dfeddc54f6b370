----------------------------- MODULE MCExercises ----------------------------
(***************************************************************************)
(* The programs of the repository that stand on their own, each started    *)
(* alone: `program' is the one that runs, and the variables of the others  *)
(* stay as they were at the start.  The producer and consumers are this    *)
(* module's own variables, the others are instances.                       *)
(***************************************************************************)
EXTENDS PCModel

CONSTANTS
  CustomerNum, Windows, Unknown,                     (* sem_pthread.c       *)
  Forks,                                             (* catch_child.c       *)
  Objects, Addresses, Texts, Nowhere,                (* string.h            *)
  Variables, Doubles, Bound                          (* complex.h           *)

ASSUME ExercisesAssumption ==
  /\ Nowhere \notin Addresses /\ \A t \in Texts : Len(t) \in Nat
  /\ Doubles \subseteq Int
  /\ CustomerNum \in Nat /\ Windows \in Nat \ {0} /\ Forks \in Nat

VARIABLES
  program,
  sem, mpc, i, j, customer_id, tpc, id,              (* sem_pthread.c       *)
  parent, forks, inHandler, pending, child,          (* catch_child.c       *)
  m_data, heap, undefined, failed, value,            (* string.h            *)
  complexes                                          (* complex.h           *)

Hall == INSTANCE ServiceHall
Reaper == INSTANCE CatchChild WITH N <- Forks, mpc <- parent, i <- forks
Strings == INSTANCE StringObjects
Complex == INSTANCE ComplexNumbers WITH c <- complexes

Programs == {"p_c_model", "sem_pthread", "catch_child", "string", "complex"}
hallVars == <<sem, mpc, i, j, customer_id, tpc, id>>
reaperVars == <<parent, forks, inHandler, pending, child>>
stringVars == <<m_data, heap, undefined, failed, value>>
allVars == <<program, vars, hallVars, reaperVars, stringVars, complexes>>

ExercisesInit ==
  /\ program \in Programs
  /\ Init /\ Hall!Init /\ Reaper!Init /\ Strings!Init /\ Complex!Init

PCStep == program = "p_c_model" /\ Next
HallStep == program = "sem_pthread" /\ Hall!Next
ReaperStep == program = "catch_child" /\ Reaper!Next
StringStep == program = "string" /\ Strings!Next
ComplexStep == program = "complex" /\ Complex!Next

ExercisesNext ==
  /\ UNCHANGED program
  /\ \/ /\ PCStep
        /\ UNCHANGED <<hallVars, reaperVars, stringVars, complexes>>
     \/ /\ HallStep
        /\ UNCHANGED <<vars, reaperVars, stringVars, complexes>>
     \/ /\ ReaperStep
        /\ UNCHANGED <<vars, hallVars, stringVars, complexes>>
     \/ /\ StringStep
        /\ UNCHANGED <<vars, hallVars, reaperVars, complexes>>
     \/ /\ ComplexStep
        /\ UNCHANGED <<vars, hallVars, reaperVars, stringVars>>

(* Every thread of the program that runs is scheduled, and its children run *)
(* to their ends.                                                           *)
ExercisesSpec ==
  /\ ExercisesInit /\ [][ExercisesNext]_allVars
  /\ WF_vars(program = "p_c_model" /\ Producer)
  /\ \A k \in Consumers : WF_vars(program = "p_c_model" /\ Consumer(k))
  /\ WF_hallVars(program = "sem_pthread" /\ Hall!Main)
  /\ \A t \in Hall!Customers :
       WF_hallVars(program = "sem_pthread" /\ Hall!Customer(t))
  /\ WF_reaperVars(program = "catch_child" /\ Reaper!Parent)
  /\ \A k \in Reaper!Children :
       WF_reaperVars(program = "catch_child" /\ Reaper!Exit(k))

-----------------------------------------------------------------------------
(* What the components promise, of the program that runs.                   *)
(* sem_pthread.c: everybody is served, under no number written for an       *)
(* earlier one.                                                             *)
ServedInTurn == program = "sem_pthread" => Hall!ServedInTurn

(* catch_child.c: no child is left unreaped.                                *)
AllReaped == program = "catch_child" => Reaper!AllReaped

(* string.h: each String owns its buffer.                                   *)
OwnBuffers == Strings!OwnBuffers

(* complex.h: the operators agree with each other.                          *)
ArithmeticConsistent == Complex!ArithmeticConsistent

(* Values of constants a cfg cannot write.                                  *)
ShortTexts == {<<>>, <<"h">>, <<"h", "i">>}
SmallDoubles == {-2, 0, 1}
=============================================================================
