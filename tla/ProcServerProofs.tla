-------------------------- MODULE ProcServerProofs --------------------------
(***************************************************************************)
(* Proofs about the server with one process per connection, for every      *)
(* number of connections and descriptors.                                  *)
(***************************************************************************)
EXTENDS ProcServer, StreamClientsProofs

(* The parent has at most one connection, and only on its way from accept   *)
(* to close; the child that is forked in between is new.                    *)
OneAtATime ==
  /\ mpc = "accept" => \A d \in Fds : conn[d] = NoConn
  /\ mpc # "accept" => /\ cfd \in Fds /\ conn[cfd] \in Conns
                       /\ \A d \in Fds \ {cfd} : conn[d] = NoConn
  /\ mpc = "fork" => child[conn[cfd]] = "none"
  /\ \A c \in Conns : Server \in held[c] => mpc # "accept" /\ c = conn[cfd]

(* A connection that has not been accepted has no child and no holder.      *)
WaitingUntouched == \A c \in Conns : Waiting(c) => child[c] = "none" /\ held[c] = {}

(* A connection is held by its child while that lives, and nobody else but  *)
(* the parent.                                                              *)
HeldByLiving ==
  \A c \in Conns : held[c] \subseteq {c, Server} /\ (c \in held[c] <=> Alive(c))

ProcInv == TypeOK /\ NetInv /\ OneAtATime /\ WaitingUntouched /\ HeldByLiving

LEMMA ProcInvInit == Init => ProcInv
<1> SUFFICES ASSUME Init PROVE ProcInv
  OBVIOUS
<1>1. NetInv /\ \A d \in Fds : conn[d] = NoConn
  BY NetInvInit DEF Init, NetInit
<1> QED BY <1>1, ClientAssumption
        DEF Init, ProcInv, TypeOK, NetInv, OneAtATime, WaitingUntouched,
            HeldByLiving, Alive

(* A step that leaves the descriptors alone and in which no connection      *)
(* starts to wait again.                                                    *)
NetKept ==
  /\ NetInv' /\ UNCHANGED conn
  /\ \A x \in Conns : Waiting(x)' => Waiting(x)

(* The parent.                                                              *)
LEMMA AcceptKeeps == ProcInv /\ Accept => ProcInv'
<1> SUFFICES ASSUME ProcInv, Accept PROVE ProcInv'
  OBVIOUS
<1> USE ClientAssumption, ProcAssumption DEF ProcInv
<1>1. mpc = "accept" /\ UNCHANGED <<act, inHandler, first, pending, child>>
  BY DEF Accept
<1>2. CASE down' = TRUE /\ UNCHANGED <<cfd, mpc, held, netVars>>
  <2>1. NetKept
    BY <1>2, TalkNet DEF Talks, NetKept
  <2> QED BY <1>1, <1>2, <2>1
          DEF NetKept, TypeOK, NetInv, OneAtATime, WaitingUntouched, HeldByLiving, Alive
<1>3. ASSUME NEW c \in backlog, FreeFds # {}, Accepting(c), cfd' = Lowest,
             held' = [held EXCEPT ![c] = {Server}], mpc' = "fork", UNCHANGED down
      PROVE  ProcInv'
  <2>1. /\ NetInv' /\ \A x \in Conns : Waiting(x)' => Waiting(x) /\ x # c
        /\ Lowest \in Fds /\ conn[Lowest] = NoConn
        /\ \A d \in Fds : conn'[d] = IF d = Lowest THEN c ELSE conn[d]
    BY <1>3, AcceptNet
  <2>2. c \in Conns /\ Waiting(c) /\ child[c] = "none"
    BY DEF NetInv, NetType, Waiting, WaitingUntouched
  <2>3. TypeOK'
    BY <1>1, <1>3, <2>1, <2>2 DEF TypeOK, NetInv
  <2>4. \A x \in Conns : held'[x] = IF x = c THEN {Server} ELSE held[x]
    BY <1>3 DEF TypeOK
  <2>5. OneAtATime'
    BY <1>1, <1>3, <2>1, <2>2, <2>4 DEF OneAtATime
  <2>6. WaitingUntouched' /\ HeldByLiving'
    BY <1>1, <2>1, <2>2, <2>4 DEF WaitingUntouched, HeldByLiving, Alive
  <2> QED BY <2>1, <2>3, <2>5, <2>6
<1> QED BY <1>2, <1>3 DEF Accept

LEMMA ForkKeeps == ProcInv /\ Fork => ProcInv'
<1> SUFFICES ASSUME ProcInv, Fork PROVE ProcInv'
  OBVIOUS
<1> USE ClientAssumption, ProcAssumption DEF ProcInv
<1>1. mpc = "fork" /\ UNCHANGED <<cfd, act, inHandler, pending, netVars>>
  BY DEF Fork
<1>2. NetKept
  BY <1>1, TalkNet DEF Talks, NetKept
<1>3. PICK c \in Conns : c = conn[cfd]
  BY <1>1 DEF OneAtATime
<1>4. /\ cfd \in Fds /\ child[c] = "none" /\ \A d \in Fds \ {cfd} : conn[d] = NoConn
      /\ ~Waiting(c)
  BY <1>1, <1>3 DEF OneAtATime, NetInv, Open
<1>5. CASE /\ child' = [child EXCEPT ![c] = "start"] /\ held' = Inherited(c)
           /\ first' = IF first = NoConn THEN c ELSE first
           /\ mpc' = "install" /\ UNCHANGED down
  <2>1. \A x \in Conns : held'[x] = IF x = c THEN held[c] \cup {c} ELSE held[x]
    BY <1>3, <1>4, <1>5 DEF Inherited
  <2>2. TypeOK'
    <3>1. held' \in [Conns -> SUBSET (Conns \cup {Server})]
      BY <1>5, <2>1 DEF Inherited, TypeOK
    <3> QED BY <1>1, <1>2, <1>5, <3>1 DEF TypeOK, NetKept, NetInv
  <2>3. OneAtATime'
    BY <1>1, <1>2, <1>3, <1>4, <1>5, <2>1 DEF OneAtATime, NetKept
  <2>4. WaitingUntouched' /\ HeldByLiving'
    BY <1>2, <1>4, <1>5, <2>1 DEF WaitingUntouched, HeldByLiving, Alive, NetKept, TypeOK
  <2> QED BY <1>2, <2>2, <2>3, <2>4 DEF NetKept
<1>6. CASE /\ down' = TRUE /\ held' = [x \in Conns |-> held[x] \ {Server}]
           /\ UNCHANGED <<child, first, mpc>>
  <2>1. TypeOK'
    BY <1>1, <1>2, <1>6 DEF TypeOK, NetKept, NetInv
  <2>2. OneAtATime'
    BY <1>1, <1>2, <1>6 DEF OneAtATime, NetKept
  <2>3. WaitingUntouched' /\ HeldByLiving'
    BY <1>2, <1>6 DEF WaitingUntouched, HeldByLiving, Alive, NetKept
  <2> QED BY <1>2, <2>1, <2>2, <2>3 DEF NetKept
<1> QED BY <1>3, <1>5, <1>6 DEF Fork

LEMMA CloseCopyKeeps == ProcInv /\ CloseCopy => ProcInv'
<1> SUFFICES ASSUME ProcInv, CloseCopy PROVE ProcInv'
  OBVIOUS
<1> USE ClientAssumption, ProcAssumption DEF ProcInv
<1>1. /\ mpc = "close" /\ mpc' = "accept" /\ Closing(cfd)
      /\ UNCHANGED <<cfd, act, inHandler, down, first, pending, child>>
  BY DEF CloseCopy
<1>2. PICK c \in Conns : c = conn[cfd]
  BY <1>1 DEF OneAtATime
<1>3. cfd \in Fds
  BY <1>1 DEF OneAtATime
<1>4. /\ NetInv' /\ \A x \in Conns : Waiting(x)' <=> Waiting(x)
      /\ \A e \in Fds : conn'[e] = IF e = cfd THEN NoConn ELSE conn[e]
  BY <1>1, <1>3, CloseNet
<1>5. \A x \in Conns : held'[x] = IF x = c THEN held[c] \ {Server} ELSE held[x]
  BY <1>2 DEF CloseCopy, TypeOK
<1>6. TypeOK'
  BY <1>1, <1>2, <1>4 DEF CloseCopy, TypeOK, NetInv
<1>7. OneAtATime'
  BY <1>1, <1>2, <1>4, <1>5 DEF OneAtATime
<1>8. WaitingUntouched' /\ HeldByLiving'
  BY <1>1, <1>4, <1>5 DEF WaitingUntouched, HeldByLiving, Alive
<1> QED BY <1>4, <1>6, <1>7, <1>8

(* The children.  One that lives has been accepted, and none of its steps   *)
(* opens anything.                                                          *)
LEMMA ChildKeeps == ASSUME ProcInv, NEW c \in Conns, Child(c) PROVE ProcInv'
<1> USE ClientAssumption, ProcAssumption DEF ProcInv
<1>1. UNCHANGED mainVars /\ Alive(c) /\ ~Waiting(c)
  BY DEF Child, Start, ReadSome, ReadError, Exit, WriteAll, WriteFails, Alive,
         WaitingUntouched
<1>2. Talks
  <2>1. Taken(c) \in Nat /\ Taken(c) <= unread[c]
    BY MinOfTwo DEF Taken, NetInv, NetType
  <2> QED BY <2>1
          DEF Child, Start, ReadSome, ReadError, Exit, WriteAll, WriteFails, Talks
<1>3. NetKept
  BY <1>2, TalkNet DEF NetKept
<1>4. \/ /\ UNCHANGED <<held, pending>>
         /\ \E p \in {"read", "write"} : child' = [child EXCEPT ![c] = p]
      \/ Ending(c)
  BY DEF Child, Start, ReadSome, ReadError, Exit, WriteAll, WriteFails, TypeOK,
         childVars
<1>5. TypeOK'
  <2>1. pending' \in BOOLEAN
    BY <1>4, Zenon DEF Ending, TypeOK, ProcInv
  <2> QED BY <1>1, <1>3, <1>4, <2>1 DEF TypeOK, NetKept, NetInv, Ending, mainVars
<1>6. OneAtATime'
  BY <1>1, <1>3, <1>4 DEF OneAtATime, NetKept, Ending, mainVars, TypeOK, Alive
<1>7. WaitingUntouched'
  BY <1>1, <1>3, <1>4 DEF WaitingUntouched, NetKept, Ending, TypeOK
<1>8. HeldByLiving'
  BY <1>1, <1>4 DEF HeldByLiving, Ending, Alive, TypeOK
<1> QED BY <1>3, <1>5, <1>6, <1>7, <1>8 DEF NetKept

LEMMA ProcInvNext == ProcInv /\ [Next]_vars => ProcInv'
<1> SUFFICES ASSUME ProcInv, [Next]_vars PROVE ProcInv'
  OBVIOUS
<1> USE ClientAssumption, ProcAssumption DEF ProcInv
<1>1. ASSUME NetKept, UNCHANGED <<cfd, held>>,
             \/ UNCHANGED <<mpc, child>>
             \/ mpc = "install" /\ mpc' = "close" /\ UNCHANGED child
             \/ /\ \E x \in Zombies : child' = [child EXCEPT ![x] = "reaped"]
                /\ UNCHANGED mpc,
             TypeOK'
      PROVE  ProcInv'
  <2>1. OneAtATime' /\ WaitingUntouched'
    BY <1>1 DEF NetKept, OneAtATime, WaitingUntouched, Zombies, TypeOK
  <2>2. HeldByLiving'
    BY <1>1 DEF HeldByLiving, Alive, Zombies, TypeOK
  <2> QED BY <1>1, <2>1, <2>2 DEF NetKept
<1>2. UNCHANGED netVars => NetKept
  BY TalkNet DEF Talks, NetKept
<1>3. CASE Install \/ Deliver \/ Reap \/ Return
  <2>1. UNCHANGED netVars /\ NetKept
    BY <1>2, <1>3 DEF Install, Deliver, Reap, Return
  <2>2. TypeOK'
    BY <1>3, <2>1
       DEF TypeOK, NetKept, NetInv, Install, Deliver, Reap, Return, mainVars,
           childVars, Zombies
  <2> QED BY <1>1, <1>3, <2>1, <2>2
          DEF Install, Deliver, Reap, Return, mainVars, childVars
<1>4. CASE Clients \/ UNCHANGED vars
  <2>1. Talks
    BY <1>4 DEF Clients, vars, Talks
  <2>2. NetKept
    BY <2>1, TalkNet DEF NetKept
  <2>3. TypeOK'
    BY <1>4, <2>2 DEF TypeOK, NetKept, NetInv, Clients, vars, mainVars, childVars
  <2> QED BY <1>1, <1>4, <2>2, <2>3 DEF Clients, vars, mainVars, childVars
<1> QED BY <1>3, <1>4, AcceptKeeps, ForkKeeps, CloseCopyKeeps, ChildKeeps
        DEF Next, Parent

(* Every variable keeps its type in every execution.                        *)
THEOREM ProcTypeCorrect == Spec => []TypeOK
<1>1. ProcInv => TypeOK
  BY DEF ProcInv
<1> QED BY <1>1, ProcInvInit, ProcInvNext, PTL DEF Spec

(* Nobody but its child has a connection open, except the parent between    *)
(* accept and close.                                                        *)
THEOREM HeldByChildAlways == Spec => []HeldByChild
<1>1. ProcInv => HeldByChild
  BY DEF ProcInv, OneAtATime, HeldByLiving, HeldByChild, FreeFds
<1> QED BY <1>1, ProcInvInit, ProcInvNext, PTL DEF Spec

(* Until the handler is installed nobody but the first child has been       *)
(* forked, and after that SIGCHLD is not discarded any more.                *)
NoticedFrom ==
  /\ act = "default" => \A c \in Conns : child[c] # "none" => c = first
  /\ mpc = "fork" /\ act = "default" => first = NoConn
  /\ mpc = "accept" /\ act = "default" => first = NoConn
  /\ mpc = "close" => act = "catch"
  /\ OnlyFirstForgotten

ForgetInv == ProcInv /\ NoticedFrom

LEMMA ForgetInvNext == ForgetInv /\ [Next]_vars => ForgetInv'
<1> SUFFICES ASSUME ForgetInv, [Next]_vars PROVE NoticedFrom'
  BY ProcInvNext DEF ForgetInv
<1> USE ClientAssumption, ProcAssumption
    DEF ForgetInv, NoticedFrom, OnlyFirstForgotten, Zombies, ProcInv, TypeOK
<1>1. CASE Accept
  BY <1>1 DEF Accept
<1>2. CASE Fork
  <2>1. PICK c \in Conns : c = conn[cfd]
    BY <1>2 DEF Fork, OneAtATime
  <2>2. child[c] = "none"
    BY <1>2, <2>1 DEF Fork, OneAtATime
  <2> QED BY <1>2, <2>1, <2>2 DEF Fork
<1>3. CASE Install \/ CloseCopy
  BY <1>3 DEF Install, CloseCopy, childVars
<1>4. CASE Deliver \/ Return
  BY <1>4 DEF Deliver, Return, childVars
<1>5. CASE Reap
  BY <1>5 DEF Reap, mainVars
<1>6. ASSUME NEW c \in Conns, Child(c) PROVE NoticedFrom'
  <2>1. UNCHANGED mainVars /\ Alive(c)
    BY <1>6 DEF Child, Start, ReadSome, ReadError, Exit, WriteAll, WriteFails, Alive
  <2>2. \/ /\ UNCHANGED pending
           /\ \/ child' = child
              \/ \E p \in {"read", "write"} : child' = [child EXCEPT ![c] = p]
        \/ Ending(c)
    BY <1>6 DEF Child, Start, ReadSome, ReadError, Exit, WriteAll, WriteFails, childVars
  <2>3. CASE UNCHANGED pending /\ child' = child
    BY <2>1, <2>3 DEF mainVars
  <2>4. ASSUME NEW p \in {"read", "write"}, child' = [child EXCEPT ![c] = p],
               UNCHANGED pending
        PROVE  NoticedFrom'
    BY <2>1, <2>4 DEF mainVars, Alive
  <2>5. CASE Ending(c)
    BY <2>1, <2>5 DEF Ending, mainVars, Alive
  <2> QED BY <2>2, <2>3, <2>4, <2>5
<1>7. CASE Clients \/ UNCHANGED vars
  BY <1>7 DEF Clients, vars, mainVars, childVars
<1> QED BY <1>1, <1>2, <1>3, <1>4, <1>5, <1>6, <1>7 DEF Next, Parent

(* Though the handler is installed after the fork, a child that ended is    *)
(* forgotten only if it is the first.                                       *)
THEOREM OnlyFirstForgottenAlways == Spec => []OnlyFirstForgotten
<1>1. Init => ForgetInv
  BY ProcInvInit DEF Init, ForgetInv, NoticedFrom, OnlyFirstForgotten, Zombies
<1>2. ForgetInv => OnlyFirstForgotten
  BY DEF ForgetInv, NoticedFrom
<1> QED BY <1>1, <1>2, ForgetInvNext, PTL DEF Spec
=============================================================================
