------------------------------- MODULE PCModel ------------------------------
(***************************************************************************)
(* p_c_model.c: one producer and several consumers share a linked list     *)
(* under a mutex, with the condition variable has_data.  The producer      *)
(* signals after it has unlocked; a consumer tests the list once, with an  *)
(* if, before it waits.  A message is named by its malloc'ed node.         *)
(***************************************************************************)
EXTENDS Naturals, Sequences, FiniteSets, SequencesExt

CONSTANTS
  Consumers,
  MsgMax,          (* bound: how many messages are followed                 *)
  Spurious,        (* pthread_cond_wait may return without a signal         *)
  Nothing

ASSUME ValueAssumption ==
  /\ MsgMax \in Nat /\ Spurious \in BOOLEAN /\ Nothing \notin 1 .. MsgMax

Msgs == 1 .. MsgMax

VARIABLES
  head,            (* the list, newest first                                *)
  produced,        (* how many nodes were made                              *)
  ppc,             (* the producer: "push" or "signal"                      *)
  cpc, mp,         (* per consumer: where it is, the node it holds          *)
  consumed,        (* history: the nodes consumed, in order                 *)
  crashed          (* the process died of head->next with head NULL         *)

vars == <<head, produced, ppc, cpc, mp, consumed, crashed>>

Init ==
  /\ head = <<>> /\ produced = 0 /\ ppc = "push"
  /\ cpc = [c \in Consumers |-> "test"] /\ mp = [c \in Consumers |-> Nothing]
  /\ consumed = <<>> /\ crashed = FALSE

Waiting == {c \in Consumers : cpc[c] = "waiting"}

-----------------------------------------------------------------------------
(* The producer: make a node and link it in under the lock, then signal.    *)
(* Mutant: the rest of the list is lost. *)
LinkAlone(m) == <<m>>

Link(m) == <<m>> \o head

(* The producer never stops; MsgMax bounds how far it is followed, and no   *)
(* property rests on its coming to an end.                                  *)
Push ==
  /\ ~crashed /\ ppc = "push" /\ produced < MsgMax
  /\ produced' = produced + 1
  /\ head' = Link(produced + 1)
  /\ ppc' = "signal"
  /\ UNCHANGED <<cpc, mp, consumed, crashed>>

(* Mutant: nobody is woken. *)
WakeNobody == UNCHANGED cpc

WakeOne ==
  \/ Waiting = {} /\ UNCHANGED cpc
  \/ \E c \in Waiting : cpc' = [cpc EXCEPT ![c] = "woken"]

Signal ==
  /\ ~crashed /\ ppc = "signal"
  /\ WakeOne
  /\ ppc' = "push"
  /\ UNCHANGED <<head, produced, mp, consumed, crashed>>

-----------------------------------------------------------------------------
(* A consumer.  TakeHead is the rest of its critical section; nothing tests *)
(* the list between the return of pthread_cond_wait and the two             *)
(* assignments.                                                             *)
TakeHead(c) ==
  \/ /\ head = <<>>
     /\ crashed' = TRUE
     /\ UNCHANGED <<head, cpc, mp>>
  \/ /\ head # <<>>
     /\ mp' = [mp EXCEPT ![c] = Head(head)]
     /\ head' = Tail(head)
     /\ cpc' = [cpc EXCEPT ![c] = "consume"]
     /\ UNCHANGED crashed

Test(c) ==
  /\ ~crashed /\ cpc[c] = "test"
  /\ \/ /\ head = <<>>
        /\ cpc' = [cpc EXCEPT ![c] = "waiting"]
        /\ UNCHANGED <<head, mp, crashed>>
     \/ head # <<>> /\ TakeHead(c)
  /\ UNCHANGED <<produced, ppc, consumed>>

Wake(c) ==
  /\ ~crashed /\ cpc[c] = "woken"
  /\ TakeHead(c)
  /\ UNCHANGED <<produced, ppc, consumed>>

Consume(c) ==
  /\ ~crashed /\ cpc[c] = "consume"
  /\ consumed' = Append(consumed, mp[c])
  /\ mp' = [mp EXCEPT ![c] = Nothing]
  /\ cpc' = [cpc EXCEPT ![c] = "test"]
  /\ UNCHANGED <<head, produced, ppc, crashed>>

SpuriousWake(c) ==
  /\ Spurious /\ ~crashed /\ cpc[c] = "waiting"
  /\ cpc' = [cpc EXCEPT ![c] = "woken"]
  /\ UNCHANGED <<head, produced, ppc, mp, consumed, crashed>>

Producer == Push \/ Signal
Consumer(c) == Test(c) \/ Wake(c) \/ Consume(c)

Next ==
  \/ Producer
  \/ \E c \in Consumers : Consumer(c) \/ SpuriousWake(c)

Spec == Init /\ [][Next]_vars

(* Each thread that can run is scheduled.                                   *)
FairSpec ==
  /\ Spec
  /\ WF_vars(Producer)
  /\ \A c \in Consumers : WF_vars(Consumer(c))

-----------------------------------------------------------------------------
TypeOK ==
  /\ head \in Seq(Msgs) /\ produced \in 0 .. MsgMax
  /\ ppc \in {"push", "signal"}
  /\ cpc \in [Consumers -> {"test", "waiting", "woken", "consume"}]
  /\ mp \in [Consumers -> Msgs \cup {Nothing}]
  /\ consumed \in Seq(Msgs) /\ crashed \in BOOLEAN

(* Every node is in exactly one place: in the list, in the hands of one     *)
(* consumer, or consumed, however the consumers interleave and crash.       *)
NodesPreserved ==
  LET held == {c \in Consumers : mp[c] # Nothing}
      nodes == ToSet(head) \cup {mp[c] : c \in held} \cup ToSet(consumed)
  IN /\ nodes = 1 .. produced
     /\ Len(head) + Cardinality(held) + Len(consumed) = produced

(* As long as the list is not empty, consuming goes on: although the signal *)
(* is sent after the unlock and the list is tested once, the consumers are  *)
(* never all asleep over a message, unless the process crashes.  That each  *)
(* message is consumed does not hold: the list is last in, first out, and   *)
(* under a producer that never stops the oldest node may stay for ever.     *)
ConsumingGoesOn ==
  \A k \in 0 .. MsgMax - 1 :
    (Len(consumed) = k /\ head # <<>>) ~> (Len(consumed) > k \/ crashed)
=============================================================================
