------------------------------ MODULE PollServer ----------------------------
(***************************************************************************)
(* The poll server (poll/server.c): the table client[] that poll fills in, *)
(* the loop of main over it, and the blocking Read and Writen of wrap.c.   *)
(* One thread serves everybody: a read or a write that waits makes all     *)
(* clients wait.  The element client[0] is the listening socket; the model *)
(* keeps of its revents whether the pass began with an accept (pc).        *)
(***************************************************************************)
EXTENDS Integers, StreamClients

CONSTANTS
  OpenMax,         (* OPEN_MAX                                              *)
  MaxLine,         (* MAXLINE                                               *)
  SigPipe          (* a write to a reset connection may raise SIGPIPE       *)

ASSUME PollAssumption ==
  /\ OpenMax \in Nat \ {0, 1} /\ MaxLine \in Nat \ {0}
  /\ SigPipe \in BOOLEAN

Slots == 1 .. OpenMax - 1

VARIABLES
  fd, revents,     (* client[i].fd and the POLLIN bit of client[i].revents  *)
  maxi, nready, i, (* variables of main                                     *)
  n, nleft,        (* main's n, and what is left to do in Writen            *)
  pc,              (* "poll", "accept", "scan" or "write"                   *)
  down,            (* the process has ended                                 *)
  owed             (* history: received, and neither sent back nor given up *)

tableVars == <<fd, revents, maxi>>
loopVars == <<nready, i, n, nleft, pc, down>>
vars == <<tableVars, loopVars, owed, netVars>>

Init ==
  /\ fd = [s \in Slots |-> -1] /\ revents = [s \in Slots |-> FALSE]
  /\ maxi = 0 /\ nready = 0 /\ i = 1 /\ n = 0 /\ nleft = 0
  /\ pc = "poll" /\ down = FALSE
  /\ owed = [c \in Conns |-> 0]
  /\ NetInit

-----------------------------------------------------------------------------
(* poll writes revents of the first maxi + 1 elements, FALSE where fd < 0.  *)
Ready(s) == s <= maxi /\ fd[s] > 0 /\ Readable(conn[fd[s]])

Poll ==
  LET R == {s \in Slots : Ready(s)}
  IN /\ pc = "poll" /\ ~down
     /\ R # {} \/ backlog # {}
     /\ revents' = [s \in Slots |-> IF s <= maxi THEN s \in R ELSE revents[s]]
     /\ nready' = Cardinality(R) + (IF backlog # {} THEN 1 ELSE 0)
     /\ pc' = IF backlog # {} THEN "accept" ELSE "scan"
     /\ i' = 1
     /\ UNCHANGED <<fd, maxi, n, nleft, down, owed, netVars>>

Vacant == {s \in Slots : fd[s] < 0}

(* Mutant: the last element found free is the largest in use. *)
MaxiSet(s) == s

MaxiWith(s) == IF s > maxi THEN s ELSE maxi

(* Mutant: nready still counts the listening socket. *)
AfterAcceptUncounted == nready

AfterAccept == nready - 1

(* The listening socket was ready: put the connection into the first free   *)
(* element; perr_exit when there is no descriptor or no element.  client[]  *)
(* is not initialized: revents of an element beyond maxi reads as anything. *)
Accept ==
  /\ pc = "accept" /\ ~down
  /\ \/ /\ FreeFds = {} \/ Vacant = {}
        /\ down' = TRUE
        /\ UNCHANGED <<tableVars, nready, i, n, nleft, pc, owed, netVars>>
     \/ \E c \in backlog :
          /\ FreeFds # {} /\ Vacant # {}
          /\ Accepting(c)
          /\ LET s == Min(Vacant) IN
             /\ fd' = [fd EXCEPT ![s] = Lowest]
             /\ maxi' = MaxiWith(s)
             /\ \E g \in IF s > maxi THEN BOOLEAN ELSE {revents[s]} :
                  revents' = [revents EXCEPT ![s] = g]
          /\ nready' = AfterAccept
          /\ i' = 1
          /\ pc' = IF AfterAccept <= 0 THEN "poll" ELSE "scan"
          /\ UNCHANGED <<n, nleft, down, owed>>

-----------------------------------------------------------------------------
(* The loop over client[].  Skip stands for the continue and for an element *)
(* that is not ready, Served for what follows the body of the if.           *)
(* Mutant: the loop ends before maxi. *)
LastBefore == maxi - 1

LastScanned == maxi

Due(s) == fd[s] > 0 /\ revents[s]

Skip ==
  /\ pc = "scan" /\ ~down
  /\ \/ i > LastScanned /\ pc' = "poll" /\ UNCHANGED i
     \/ i <= LastScanned /\ ~Due(i) /\ i' = i + 1 /\ UNCHANGED pc
  /\ UNCHANGED <<tableVars, nready, n, nleft, down, owed, netVars>>

Served ==
  /\ nready' = nready - 1
  /\ i' = i + 1
  /\ pc' = IF nready - 1 <= 0 THEN "poll" ELSE "scan"

Turn == pc = "scan" /\ ~down /\ i <= LastScanned /\ Due(i)

ReadSome ==
  /\ Turn
  /\ LET c == conn[fd[i]]
         k == Min({unread[c], MaxLine})
     IN /\ k > 0
        /\ Reading(c, k)
        /\ n' = k /\ nleft' = k
        /\ owed' = [owed EXCEPT ![c] = @ + k]
  /\ pc' = "write"
  /\ UNCHANGED <<tableVars, nready, i, down>>

CloseSlot ==
  /\ fd' = [fd EXCEPT ![i] = -1]
  /\ UNCHANGED <<maxi, revents>>

(* End of file, or ECONNRESET.                                              *)
ReadEnd ==
  /\ Turn
  /\ LET c == conn[fd[i]] IN
     /\ unread[c] = 0 /\ peer[c] \in {"fin", "gone", "reset"}
     /\ Closing(fd[i])
  /\ CloseSlot
  /\ Served
  /\ UNCHANGED <<n, nleft, down, owed>>

(* Writen: one write of the loop.  It returns -1 when the write fails, and  *)
(* main does not look.                                                      *)
(* Mutant: the loop is left after one write. *)
WrittenOnce(k) == TRUE

AllWritten(k) == k = nleft

WriteSome ==
  /\ pc = "write" /\ ~down
  /\ LET c == conn[fd[i]] IN
     /\ Writing(c)
     /\ \E k \in 1 .. nleft :
          /\ nleft' = nleft - k
          /\ owed' = [owed EXCEPT ![c] = @ - k]
          /\ IF AllWritten(k) THEN Served ELSE UNCHANGED <<nready, i, pc>>
  /\ UNCHANGED <<tableVars, n, down>>

WriteFails ==
  /\ pc = "write" /\ ~down
  /\ LET c == conn[fd[i]] IN
     \/ /\ WriteFailing(c)
        /\ owed' = [owed EXCEPT ![c] = 0]
        /\ Served
        /\ UNCHANGED down
     \/ /\ SigPipe /\ Broken(c)
        /\ down' = TRUE
        /\ UNCHANGED <<owed, nready, i, pc, netVars>>
  /\ UNCHANGED <<tableVars, n, nleft>>

-----------------------------------------------------------------------------
Server ==
  \/ Poll
  \/ Accept
  \/ Skip
  \/ ReadSome
  \/ ReadEnd
  \/ WriteSome
  \/ WriteFails

Clients == \E c \in Conns : Peer(c) /\ UNCHANGED <<tableVars, loopVars, owed>>

Next == Server \/ Clients

Spec == Init /\ [][Next]_vars

(* The process is scheduled, and the clients read what they are sent: a     *)
(* client that does not stops the whole server in Writen.                   *)
FairSpec ==
  /\ Spec
  /\ WF_vars(Server)
  /\ \A c \in Conns :
       WF_vars(PeerRead(c) /\ UNCHANGED <<tableVars, loopVars, owed>>)

-----------------------------------------------------------------------------
TypeOK ==
  /\ fd \in [Slots -> {-1} \cup Fds] /\ revents \in [Slots -> BOOLEAN]
  /\ maxi \in 0 .. OpenMax - 1 /\ nready \in Nat /\ i \in 1 .. OpenMax
  /\ n \in 0 .. MaxLine /\ nleft \in 0 .. MaxLine
  /\ pc \in {"poll", "accept", "scan", "write"} /\ down \in BOOLEAN
  /\ owed \in [Conns -> 0 .. MaxLine]
  /\ NetType

(* Every open connection is in exactly one element, and poll is asked about *)
(* it: no element in use lies beyond maxi.                                  *)
WatchedAll ==
  /\ \A d \in Fds : conn[d] # NoConn =>
       Cardinality({s \in Slots : fd[s] = d /\ s <= maxi}) = 1
  /\ \A s \in Slots : fd[s] > 0 => s <= maxi /\ conn[fd[s]] # NoConn

(* poll is the only call that waits for a client to send: what the loop     *)
(* reads from is ready, although revents of a new element is garbage and    *)
(* elements are used again.  (nready runs out before a new element's turn.) *)
ReadsOnlyReady == Turn => Readable(conn[fd[i]])

(* The server is an echo service for each of its connections: it answers in *)
(* full what it read before it reads on, though a write may take less than  *)
(* it is given.                                                             *)
Phase(c) == IF ~Open(c) THEN "outside"
            ELSE IF owed[c] > 0 THEN "replying" ELSE "reading"

Abstract == INSTANCE EchoService WITH
  Most <- MaxLine, phase <- [c \in Conns |-> Phase(c)],
  owed <- [c \in Conns |-> IF owed[c] > 0 THEN n ELSE 0]
ImplementsEchoService == Abstract!Spec

(* What a client sent is answered, or its connection was broken, provided   *)
(* the clients read.                                                        *)
Answered ==
  \A c \in Conns :
    (Open(c) /\ unread[c] > 0) ~> (unread[c] + owed[c] = 0 \/ ~Open(c) \/ down)
=============================================================================
