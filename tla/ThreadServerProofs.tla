------------------------- MODULE ThreadServerProofs -------------------------
(***************************************************************************)
(* Proofs about the server with one thread per connection, for every       *)
(* number of connections, descriptors and elements of ts.                  *)
(***************************************************************************)
EXTENDS ThreadServer, StreamClientsProofs

(* Who uses which element of ts.  A thread's element is below i, or is i    *)
(* until main moves on, so the one accept fills next is nobody's.           *)
MainAt ==
  /\ mpc = "accept" <=> cur = NoConn
  /\ ~down /\ mpc # "accept" => i \in Slots
  /\ ~down /\ mpc = "create" =>
       ts[i] \in Fds /\ conn[ts[i]] = cur /\ thread[cur] = "none" /\ cur \notin leaked

ElementsBelow ==
  \A c \in Conns : Active(c) =>
    /\ arg[c] < i \/ (mpc = "detach" /\ arg[c] = i)
    /\ ConnFd(c) \in Fds /\ On(c) = c

(* A connection that main has not accepted has had no thread.               *)
WaitingUntouched ==
  \A c \in Conns : Waiting(c) => thread[c] = "none" /\ c \notin leaked /\ c # cur

Owned ==
  \A d \in Fds : conn[d] # NoConn =>
    Active(conn[d]) \/ (mpc = "create" /\ conn[d] = cur) \/ conn[d] \in leaked

(* Between a read and the write of what it returned, n bytes are owed.      *)
OwesLast ==
  \A c \in Conns :
    owed[c] = IF thread[c] = "write" THEN n[c] ELSE 0

ServerInv ==
  /\ TypeOK /\ NetInv /\ MainAt /\ ElementsBelow /\ WaitingUntouched /\ Owned
  /\ OwesLast

LEMMA ServerInvInit == Init => ServerInv
<1> SUFFICES ASSUME Init PROVE ServerInv
  OBVIOUS
<1> USE ThreadAssumption, ClientAssumption DEF Init
<1>1. NetInv
  BY NetInvInit
<1>2. TypeOK
  <2>1. 0 \in Slots /\ 0 \in 0 .. MaxLine /\ Starts \subseteq 0 .. TsMax
    BY DEF Slots
  <2>2. /\ ts \in [Slots -> {-1} \cup Fds] /\ arg \in [Conns -> Slots]
        /\ n \in [Conns -> 0 .. MaxLine] /\ owed \in [Conns -> 0 .. MaxLine]
        /\ thread \in [Conns -> {"none", "read", "write", "close", "done"}]
    BY <2>1
  <2>3. i \in 0 .. TsMax /\ down \in BOOLEAN /\ leaked \subseteq Conns
    BY <2>1
  <2> QED BY <1>1, <2>2, <2>3 DEF TypeOK, NetInv
<1>3. \A d \in Fds : conn[d] = NoConn
  BY DEF NetInit
<1> QED BY <1>1, <1>2, <1>3
        DEF ServerInv, MainAt, ElementsBelow, WaitingUntouched, Owned, OwesLast,
            Active

(* What main does.                                                          *)
LEMMA AcceptKeeps == ServerInv /\ Accept => ServerInv'
<1> SUFFICES ASSUME ServerInv, Accept PROVE ServerInv'
  OBVIOUS
<1> USE ThreadAssumption, ClientAssumption
<1>1. mpc = "accept" /\ ~down /\ UNCHANGED <<i, leaked, thread, arg, n, owed>>
  BY DEF Accept, workVars
<1>2. CASE down' /\ UNCHANGED <<ts, cur, mpc, netVars>>
  BY <1>1, <1>2 DEF ServerInv, TypeOK, NetType, NetInv, MainAt, ElementsBelow,
       WaitingUntouched, Owned, OwesLast, netVars, Active, ConnFd, On, Waiting, Open
<1>3. ASSUME NEW c \in backlog, FreeFds # {}, Accepting(c), cur' = c, mpc' = "create",
             \/ i \in Slots /\ ts' = [ts EXCEPT ![i] = Lowest] /\ UNCHANGED down
             \/ i \notin Slots /\ down' = TRUE /\ UNCHANGED ts
      PROVE  ServerInv'
  <2>1. /\ NetInv' /\ \A x \in Conns : Waiting(x)' => Waiting(x) /\ x # c
        /\ Lowest \in Fds /\ conn[Lowest] = NoConn
        /\ \A d \in Fds : conn'[d] = IF d = Lowest THEN c ELSE conn[d]
    BY <1>3, AcceptNet DEF ServerInv
  <2>2. c \in Conns /\ c # NoConn /\ Waiting(c)
    BY DEF ServerInv, NetInv, NetType, Waiting
  <2>3. TypeOK'
    <3>1. ts' \in [Slots -> {-1} \cup Fds] /\ down' \in BOOLEAN
      <4>1. CASE ts' = [ts EXCEPT ![i] = Lowest] /\ UNCHANGED down
        BY <2>1, <4>1 DEF ServerInv, TypeOK
      <4>2. CASE down' = TRUE /\ UNCHANGED ts
        BY <4>2 DEF ServerInv, TypeOK
      <4> QED BY <1>3, <4>1, <4>2
    <3>2. cur' \in Conns \cup {NoConn} /\ mpc' \in {"accept", "create", "detach"}
      BY <1>3, <2>2
    <3> QED BY <1>1, <2>1, <3>1, <3>2 DEF ServerInv, TypeOK, NetInv
  <2>4. \A x \in Conns : Active(x) => ConnFd(x)' = ConnFd(x) /\ ConnFd(x) # Lowest
    BY <1>1, <1>3, <2>1 DEF ServerInv, ElementsBelow, TypeOK, ConnFd, On, Slots
  <2>5. ElementsBelow'
    BY <1>1, <1>3, <2>1, <2>4 DEF ServerInv, ElementsBelow, Active, On
  <2>6. MainAt'
    BY <1>1, <1>3, <2>1, <2>2 DEF ServerInv, MainAt, WaitingUntouched, TypeOK
  <2>7. WaitingUntouched'
    BY <1>1, <1>3, <2>1 DEF ServerInv, WaitingUntouched
  <2>8. Owned'
    BY <1>1, <1>3, <2>1 DEF ServerInv, Owned, MainAt, Active
  <2>9. OwesLast'
    BY <1>1 DEF ServerInv, OwesLast
  <2> QED BY <2>1, <2>3, <2>5, <2>6, <2>7, <2>8, <2>9 DEF ServerInv
<1> QED BY <1>2, <1>3 DEF Accept

LEMMA CreateKeeps == ServerInv /\ Create => ServerInv'
<1> SUFFICES ASSUME ServerInv, Create PROVE ServerInv'
  OBVIOUS
<1> USE ThreadAssumption, ClientAssumption
    DEF ServerInv, TypeOK, MainAt
<1>1. /\ mpc = "create" /\ mpc' = "detach" /\ ~down
      /\ UNCHANGED <<ts, i, cur, n, owed, down, netVars>>
      /\ cur \in Conns /\ i \in Slots
  BY DEF Create
<1>2. NetInv' /\ \A x \in Conns : Waiting(x)' <=> Waiting(x)
  BY <1>1 DEF NetInv, NetType, netVars, Waiting, Open
<1>3. NetType'
  BY <1>2 DEF NetInv
<1>4. CASE thread' = [thread EXCEPT ![cur] = "read"] /\ arg' = [arg EXCEPT ![cur] = i]
           /\ UNCHANGED leaked
  <2>1. TypeOK'
    BY <1>1, <1>3, <1>4
  <2>2. MainAt'
    BY <1>1
  <2>3. ElementsBelow'
    BY <1>1, <1>4 DEF ElementsBelow, Active, ConnFd, On, netVars
  <2>4. WaitingUntouched' /\ Owned' /\ OwesLast'
    BY <1>1, <1>2, <1>4 DEF WaitingUntouched, Owned, OwesLast, Active, netVars
  <2> QED BY <1>2, <2>1, <2>2, <2>3, <2>4
<1>5. CASE leaked' = leaked \cup {cur} /\ UNCHANGED <<thread, arg>>
  <2>1. TypeOK'
    BY <1>1, <1>3, <1>5
  <2>2. MainAt'
    BY <1>1
  <2>3. ElementsBelow' /\ OwesLast'
    BY <1>1, <1>5 DEF ElementsBelow, OwesLast, Active, ConnFd, On, netVars
  <2>4. WaitingUntouched' /\ Owned'
    BY <1>1, <1>2, <1>5 DEF WaitingUntouched, Owned, Active, netVars
  <2> QED BY <1>2, <2>1, <2>2, <2>3, <2>4
<1> QED BY <1>4, <1>5 DEF Create

LEMMA DetachKeeps == ServerInv /\ Detach => ServerInv'
<1> SUFFICES ASSUME ServerInv, Detach PROVE ServerInv'
  OBVIOUS
<1> USE ThreadAssumption, ClientAssumption
    DEF ServerInv, TypeOK, MainAt
<1>1. /\ mpc = "detach" /\ mpc' = "accept" /\ ~down /\ cur' = NoConn
      /\ UNCHANGED <<ts, leaked, thread, arg, n, owed, netVars>>
      /\ i \in Slots /\ i' = i + 1
  BY DEF Detach, NextIndex, workVars
<1>2. NetInv' /\ \A x \in Conns : Waiting(x)' <=> Waiting(x)
  BY <1>1 DEF NetInv, NetType, netVars, Waiting, Open
<1>3. TypeOK'
  <2>1. down' \in BOOLEAN
    <3>1. (cur \in leaked) \in BOOLEAN
      OBVIOUS
    <3> QED BY <3>1, Zenon DEF Detach
  <2> QED BY <1>1, <1>2, <2>1 DEF NetInv, Slots
<1>4. MainAt'
  BY <1>1
<1>5. ElementsBelow'
  <2>1. \A c \in Conns : arg[c] \in Int
    BY DEF Slots
  <2>2. i \in Int /\ i' = i + 1 /\ mpc # "accept"
    BY <1>1 DEF Slots
  <2> QED BY <1>1, <2>1, <2>2 DEF ElementsBelow, Active, ConnFd, On, netVars
<1>6. WaitingUntouched' /\ OwesLast'
  BY <1>1, <1>2 DEF WaitingUntouched, OwesLast, netVars
<1>7. Owned'
  BY <1>1 DEF Owned, Active, netVars
<1> QED BY <1>2, <1>3, <1>4, <1>5, <1>6, <1>7

-----------------------------------------------------------------------------
(* What the threads do.  Inside a thread On(c) is c, so that a step of one  *)
(* touches only what is its own.                                            *)
LEMMA OwnNumbers ==
  ASSUME ServerInv, NEW c \in Conns, Active(c)
  PROVE  /\ On(c) = c /\ ConnFd(c) \in Fds /\ conn[ConnFd(c)] = c
         /\ Taken(c) \in 0 .. MaxLine /\ Taken(c) <= unread[c]
<1>1. On(c) = c /\ ConnFd(c) \in Fds /\ conn[ConnFd(c)] = c
  BY DEF ServerInv, ElementsBelow, On
<1>2. unread[c] \in Nat /\ MaxLine \in Nat
  BY ThreadAssumption DEF ServerInv, NetInv, NetType
<1> QED BY <1>1, <1>2, MinOfTwo DEF Taken

(* A step of thread c that opens and closes nothing.                        *)
LEMMA LoopKeeps ==
  ASSUME ServerInv, NEW c \in Conns, Talks, UNCHANGED <<mainVars, arg>>,
         thread[c] \in {"read", "write"},
         thread' = thread \/ \E p \in {"read", "write", "close"} :
                               thread' = [thread EXCEPT ![c] = p],
         n' \in [Conns -> 0 .. MaxLine], owed' \in [Conns -> 0 .. MaxLine],
         down' \in BOOLEAN, down => down', OwesLast'
  PROVE  ServerInv'
<1>1. NetInv' /\ UNCHANGED conn /\ \A x \in Conns : Waiting(x)' => Waiting(x)
  BY TalkNet DEF ServerInv
<1>2. UNCHANGED <<ts, i, mpc, cur, leaked>>
  BY DEF mainVars
<1>3. /\ \A x \in Conns : Active(x)' <=> Active(x)
      /\ \A x \in Conns : (thread'[x] = "none") <=> (thread[x] = "none")
      /\ thread' \in [Conns -> {"none", "read", "write", "close", "done"}]
  BY DEF ServerInv, TypeOK, Active
<1>4. TypeOK'
  BY <1>1, <1>2, <1>3 DEF ServerInv, TypeOK, NetInv
<1>5. MainAt'
  BY <1>1, <1>2, <1>3 DEF ServerInv, MainAt, TypeOK
<1>6. ElementsBelow'
  BY <1>1, <1>2, <1>3 DEF ServerInv, ElementsBelow, ConnFd, On
<1>7. WaitingUntouched'
  BY <1>1, <1>2, <1>3 DEF ServerInv, WaitingUntouched
<1>8. Owned'
  BY <1>1, <1>2, <1>3 DEF ServerInv, Owned, TypeOK, NetInv, NetType
<1> QED BY <1>1, <1>4, <1>5, <1>6, <1>7, <1>8 DEF ServerInv

LEMMA CloseKeeps == ASSUME ServerInv, NEW c \in Conns, CloseConn(c) PROVE ServerInv'
<1>1. /\ thread[c] = "close" /\ thread' = [thread EXCEPT ![c] = "done"]
      /\ UNCHANGED <<ts, i, mpc, cur, leaked, arg, n, owed, down>>
      /\ Closing(ConnFd(c)) /\ Active(c)
  BY DEF CloseConn, mainVars, Active
<1>2. PICK d : d = ConnFd(c)
  OBVIOUS
<1>3. d \in Fds /\ conn[d] = c /\ c # NoConn
  BY <1>1, <1>2, OwnNumbers, ClientAssumption
<1>4. /\ NetInv' /\ \A x \in Conns : Waiting(x)' <=> Waiting(x)
      /\ \A e \in Fds : conn'[e] = IF e = d THEN NoConn ELSE conn[e]
  BY <1>1, <1>2, <1>3, CloseNet DEF ServerInv
<1>5. \A x \in Conns : Active(x)' <=> Active(x) /\ x # c
  BY <1>1 DEF ServerInv, TypeOK, Active
<1>6. TypeOK'
  BY <1>1, <1>4 DEF ServerInv, TypeOK, NetInv
<1>7. MainAt'
  BY <1>1, <1>3, <1>4 DEF ServerInv, MainAt, TypeOK
<1>8. ElementsBelow'
  <2>1. ASSUME NEW x \in Conns, x # c, Active(x)
        PROVE  ConnFd(x)' = ConnFd(x) /\ On(x)' = On(x)
    <3>1. ConnFd(x) # d
      BY <1>3, <2>1 DEF ServerInv, ElementsBelow, On
    <3>2. ConnFd(x)' = ConnFd(x) /\ ConnFd(x) \in Fds
      BY <1>1, <2>1 DEF ServerInv, ElementsBelow, ConnFd
    <3> QED BY <1>4, <3>1, <3>2 DEF On
  <2> QED BY <1>1, <1>5, <2>1 DEF ServerInv, ElementsBelow
<1>9. WaitingUntouched'
  BY <1>1, <1>4 DEF ServerInv, WaitingUntouched, TypeOK
<1>10. Owned'
  BY <1>1, <1>3, <1>4, <1>5 DEF ServerInv, Owned, NetInv, NetType
<1>11. OwesLast'
  BY <1>1 DEF ServerInv, OwesLast, TypeOK
<1> QED BY <1>4, <1>6, <1>7, <1>8, <1>9, <1>10, <1>11 DEF ServerInv

(* What the bytes owed become in a step of thread c.                        *)
LEMMA OwedSteps ==
  ASSUME ServerInv, NEW c \in Conns
  PROVE  /\ ReadSome(c) => /\ owed' = [owed EXCEPT ![c] = Taken(c)]
                           /\ Taken(c) \in 1 .. MaxLine /\ owed[c] = 0
         /\ WriteAll(c) => owed' = [owed EXCEPT ![c] = 0]
         /\ WriteFails(c) =>
              \/ /\ owed' = [owed EXCEPT ![c] = 0]
                 /\ thread' = [thread EXCEPT ![c] = "read"]
              \/ UNCHANGED <<owed, thread>>
<1>1. ASSUME ReadSome(c)
      PROVE  /\ owed' = [owed EXCEPT ![c] = Taken(c)]
             /\ Taken(c) \in 1 .. MaxLine /\ owed[c] = 0
  <2>1. On(c) = c /\ Taken(c) \in 1 .. MaxLine
    BY <1>1, OwnNumbers, ThreadAssumption DEF ReadSome, Active
  <2>2. owed[c] = 0
    BY <1>1 DEF ReadSome, ServerInv, OwesLast
  <2>3. owed' = [owed EXCEPT ![c] = owed[c] + Taken(c)]
    BY <1>1, <2>1 DEF ReadSome
  <2>4. owed[c] + Taken(c) = Taken(c)
    BY <2>1, <2>2, ThreadAssumption
  <2> QED BY <2>1, <2>2, <2>3, <2>4
<1>2. ASSUME WriteAll(c) PROVE owed' = [owed EXCEPT ![c] = 0]
  <2>1. On(c) = c /\ owed[c] = n[c] /\ owed[c] \in Nat
    BY <1>2, OwnNumbers, ThreadAssumption
       DEF WriteAll, Active, ServerInv, OwesLast, TypeOK
  <2>2. owed' = [owed EXCEPT ![c] = owed[c] - n[c]]
    BY <1>2, <2>1 DEF WriteAll
  <2>3. owed[c] - n[c] = 0
    BY <2>1
  <2> QED BY <2>2, <2>3
<1>3. ASSUME WriteFails(c)
      PROVE  \/ /\ owed' = [owed EXCEPT ![c] = 0]
                /\ thread' = [thread EXCEPT ![c] = "read"]
             \/ UNCHANGED <<owed, thread>>
  <2>1. On(c) = c
    BY <1>3, OwnNumbers DEF WriteFails, Active
  <2> QED BY <1>3, <2>1 DEF WriteFails
<1> QED BY <1>1, <1>2, <1>3

LEMMA DoWorkKeeps == ASSUME ServerInv, NEW c \in Conns, DoWork(c) PROVE ServerInv'
<1> USE ThreadAssumption DEF ServerInv, TypeOK
<1>1. CASE ReadSome(c)
  <2>1. /\ thread[c] = "read" /\ thread' = [thread EXCEPT ![c] = "write"]
        /\ n' = [n EXCEPT ![c] = Taken(c)] /\ UNCHANGED <<mainVars, arg, down>>
        /\ Reading(On(c), Taken(c)) /\ Active(c)
    BY <1>1 DEF ReadSome, Active
  <2>2. /\ owed' = [owed EXCEPT ![c] = Taken(c)] /\ Taken(c) \in 1 .. MaxLine
    BY <1>1, OwedSteps
  <2>3. Talks
    BY <2>1, <2>2, OwnNumbers DEF Talks
  <2>4. OwesLast'
    BY <2>1, <2>2 DEF OwesLast
  <2>5. n' \in [Conns -> 0 .. MaxLine] /\ owed' \in [Conns -> 0 .. MaxLine]
    BY <2>1, <2>2
  <2> QED BY <2>1, <2>3, <2>4, <2>5, LoopKeeps
<1>2. CASE ReadEnd(c)
  <2>1. /\ thread[c] = "read" /\ thread' = [thread EXCEPT ![c] = "close"]
        /\ UNCHANGED <<mainVars, arg, n, owed, down, netVars>>
    BY <1>2 DEF ReadEnd
  <2>2. Talks /\ OwesLast'
    BY <2>1 DEF Talks, OwesLast
  <2> QED BY <2>1, <2>2, LoopKeeps
<1>3. CASE ReadError(c)
  <2>1. /\ thread[c] = "read" /\ Failing(On(c)) /\ Active(c)
        /\ UNCHANGED <<mainVars, thread, arg, n, owed, down>>
    BY <1>3 DEF ReadError, Active, workVars
  <2>2. Talks /\ OwesLast'
    BY <2>1, OwnNumbers DEF Talks, OwesLast
  <2> QED BY <2>1, <2>2, LoopKeeps
<1>4. CASE WriteAll(c)
  <2>1. /\ thread[c] = "write" /\ thread' = [thread EXCEPT ![c] = "read"]
        /\ Writing(On(c)) /\ Active(c) /\ UNCHANGED <<mainVars, arg, n, down>>
    BY <1>4 DEF WriteAll, Active
  <2>2. owed' = [owed EXCEPT ![c] = 0]
    BY <1>4, OwedSteps
  <2>3. Talks /\ OwesLast'
    BY <2>1, <2>2, OwnNumbers DEF Talks, OwesLast
  <2>4. owed' \in [Conns -> 0 .. MaxLine] /\ n' \in [Conns -> 0 .. MaxLine]
    BY <2>1, <2>2
  <2> QED BY <2>1, <2>2, <2>3, <2>4, LoopKeeps
<1>5. CASE WriteFails(c)
  <2>1. /\ thread[c] = "write" /\ Active(c) /\ UNCHANGED <<mainVars, arg, n>>
        /\ WriteFailing(On(c)) \/ UNCHANGED netVars
        /\ down' \in BOOLEAN /\ (down => down')
    BY <1>5 DEF WriteFails, Active
  <2>2. \/ owed' = [owed EXCEPT ![c] = 0] /\ thread' = [thread EXCEPT ![c] = "read"]
        \/ UNCHANGED <<owed, thread>>
    BY <1>5, OwedSteps
  <2>3. Talks /\ OwesLast'
    BY <2>1, <2>2, OwnNumbers DEF Talks, OwesLast
  <2>4. owed' \in [Conns -> 0 .. MaxLine] /\ n' \in [Conns -> 0 .. MaxLine]
    BY <2>1, <2>2
  <2> QED BY <2>1, <2>2, <2>3, <2>4, LoopKeeps
<1> QED BY <1>1, <1>2, <1>3, <1>4, <1>5, CloseKeeps DEF DoWork

LEMMA ServerInvNext == ServerInv /\ [Next]_vars => ServerInv'
<1> SUFFICES ASSUME ServerInv, [Next]_vars PROVE ServerInv'
  OBVIOUS
<1>1. ASSUME Talks, UNCHANGED <<mainVars, workVars, down>> PROVE ServerInv'
  <2>1. NetInv' /\ UNCHANGED conn /\ \A x \in Conns : Waiting(x)' => Waiting(x)
    BY <1>1, TalkNet DEF ServerInv
  <2> QED BY <1>1, <2>1
          DEF ServerInv, TypeOK, NetInv, MainAt, ElementsBelow, WaitingUntouched,
              Owned, OwesLast, Active, ConnFd, On, mainVars, workVars
<1>2. CASE Clients
  BY <1>1, <1>2 DEF Clients, Talks
<1>3. CASE UNCHANGED vars
  BY <1>1, <1>3 DEF vars, Talks
<1> QED BY <1>2, <1>3, AcceptKeeps, CreateKeeps, DetachKeeps, DoWorkKeeps
        DEF Next, Main

-----------------------------------------------------------------------------
(* Every variable keeps its type in every execution.                        *)
THEOREM ThreadTypeCorrect == Spec => []TypeOK
<1>1. ServerInv => TypeOK
  BY DEF ServerInv
<1> QED BY <1>1, ServerInvInit, ServerInvNext, PTL DEF Spec

(* A thread that reads its descriptor from ts at every use works on its own *)
(* connection as long as it lives.                                          *)
THEOREM OwnConnectionAlways == Spec => []OwnConnection
<1>1. ServerInv => OwnConnection
  BY DEF ServerInv, ElementsBelow, OwnConnection
<1> QED BY <1>1, ServerInvInit, ServerInvNext, PTL DEF Spec

(* Every open descriptor has exactly one thread that will close it, or main *)
(* is about to start it, or pthread_create failed.                          *)
THEOREM DescriptorsOwnedAlways == Spec => []DescriptorsOwned
<1>1. ASSUME ServerInv PROVE DescriptorsOwned
  <2> SUFFICES ASSUME NEW d \in Fds, conn[d] # NoConn, Active(conn[d])
               PROVE  Cardinality({c \in Conns : Active(c) /\ ConnFd(c) = d}) = 1
    BY <1>1 DEF ServerInv, Owned, DescriptorsOwned
  <2>1. PICK x \in Conns : x = conn[d] /\ ConnFd(x) \in Fds /\ conn[ConnFd(x)] = x
    BY <1>1 DEF ServerInv, NetInv, NetType, ElementsBelow, On
  <2>2. ConnFd(x) = d
    BY <1>1, <2>1 DEF ServerInv, NetInv
  <2>3. {c \in Conns : Active(c) /\ ConnFd(c) = d} = {x}
    BY <1>1, <2>1, <2>2 DEF ServerInv, ElementsBelow, On
  <2> QED BY <2>3, FS_Singleton
<1> QED BY <1>1, ServerInvInit, ServerInvNext, PTL DEF Spec

(* Every connection gets an echo service of its own: what a thread sends    *)
(* back is all of what it received, before it receives more.                *)
THEOREM ThreadServerEchoes == Spec => ImplementsEchoService
<1> USE ThreadAssumption
<1>1. Init => Abstract!Init
  BY DEF Init, Abstract!Init, Phase, Active
<1>2. ASSUME ServerInv, [Next]_vars PROVE [Abstract!Next]_(Abstract!vars)
  <2> USE <1>2 DEF ServerInv, TypeOK
  <2>1. ASSUME NEW c \in Conns, ReadSome(c) PROVE Abstract!Receive(c)
    <3>1. /\ thread[c] = "read" /\ thread' = [thread EXCEPT ![c] = "write"]
      BY <2>1 DEF ReadSome
    <3>2. /\ owed' = [owed EXCEPT ![c] = Taken(c)] /\ Taken(c) \in 1 .. MaxLine
          /\ owed[c] = 0
      BY <2>1, OwedSteps
    <3> QED BY <3>1, <3>2 DEF Abstract!Receive, Phase, Active
  <2>2. ASSUME NEW c \in Conns, thread[c] = "write",
               owed' = [owed EXCEPT ![c] = 0], thread' = [thread EXCEPT ![c] = "read"]
        PROVE  Abstract!Reply(c)
    BY <2>2 DEF Abstract!Reply, Phase, Active
  <2>3. ASSUME NEW c \in Conns, WriteAll(c) PROVE Abstract!Reply(c)
    BY <2>2, <2>3, OwedSteps DEF WriteAll
  <2>4. ASSUME NEW c \in Conns, WriteFails(c)
        PROVE  Abstract!Reply(c) \/ UNCHANGED <<thread, owed>>
    BY <2>2, <2>4, OwedSteps DEF WriteFails
  <2>5. ASSUME NEW c \in Conns, CloseConn(c) PROVE Abstract!Drop({c})
    BY <2>5 DEF CloseConn, Abstract!Drop, Phase, Active
  <2>6. ASSUME NEW c \in Conns, ReadEnd(c) PROVE UNCHANGED Abstract!vars
    BY <2>6 DEF ReadEnd, Abstract!vars, Phase, Active
  <2>7. CASE UNCHANGED <<thread, owed>>
    BY <2>7 DEF Abstract!vars, Phase, Active
  <2>8. CASE Create
    <3>1. UNCHANGED owed /\ cur \in Conns /\ thread[cur] = "none"
      BY <2>8 DEF Create, MainAt
    <3>2. CASE thread' = [thread EXCEPT ![cur] = "read"]
      <4>1. Abstract!Take(cur)
        BY <3>1, <3>2 DEF Abstract!Take, Phase, Active
      <4> QED BY <3>1, <4>1 DEF Abstract!Next
    <3> QED BY <2>7, <2>8, <3>1, <3>2 DEF Create
  <2>9. CASE Accept \/ Detach \/ Clients \/ UNCHANGED vars
    BY <2>7, <2>9 DEF Accept, Detach, Clients, vars, workVars
  <2>10. ASSUME NEW c \in Conns, ReadError(c) PROVE UNCHANGED <<thread, owed>>
    BY <2>10 DEF ReadError, workVars
  <2> QED
    BY <2>1, <2>3, <2>4, <2>5, <2>6, <2>7, <2>8, <2>9, <2>10
       DEF Next, Main, DoWork, Abstract!Next
<1> QED BY <1>1, <1>2, ServerInvInit, ServerInvNext, PTL
        DEF Spec, ImplementsEchoService, Abstract!Spec
=============================================================================
