----------------------------- MODULE SelectServer ---------------------------
(***************************************************************************)
(* The select server (select/server.c): the table client[], the sets of    *)
(* descriptors and the loop of main, with the blocking Read and Write of   *)
(* wrap.c.  Descriptor 0 stands for the listening socket.                  *)
(***************************************************************************)
EXTENDS Integers, StreamClients

CONSTANTS
  FdSetSize,       (* FD_SETSIZE: an fd_set holds 0 .. FdSetSize - 1        *)
  BufSiz,          (* BUFSIZ                                                *)
  SigPipe          (* a write to a reset connection may raise SIGPIPE       *)

(* The limit on descriptors keeps them all below FD_SETSIZE.                *)
ASSUME SelectAssumption ==
  /\ FdSetSize \in Nat \ {0} /\ FdMax < FdSetSize
  /\ BufSiz \in Nat \ {0} /\ SigPipe \in BOOLEAN

Slots == 0 .. FdSetSize - 1
LFd == 0

VARIABLES
  client,          (* client[]                                              *)
  allset, rset,    (* the descriptors watched, and those select reported    *)
  maxfd, maxi, nready, i, n,       (* variables of main                     *)
  pc,              (* "select", "accept", "scan" or "write"                 *)
  down,            (* the process has ended                                 *)
  owed             (* history: received, and neither sent back nor given up *)

tableVars == <<client, allset, maxfd, maxi>>
loopVars == <<rset, nready, i, n, pc, down>>
vars == <<tableVars, loopVars, owed, netVars>>

Init ==
  /\ client = [s \in Slots |-> -1] /\ allset = {LFd} /\ rset = {}
  /\ maxfd = LFd /\ maxi = -1 /\ nready = 0 /\ i = 0 /\ n = 0
  /\ pc = "select" /\ down = FALSE /\ owed = [c \in Conns |-> 0]
  /\ NetInit

-----------------------------------------------------------------------------
(* select looks at the members of allset up to maxfd.                       *)
Select ==
  LET R == {d \in allset : /\ d <= maxfd
                           /\ IF d = LFd THEN backlog # {} ELSE Readable(conn[d])}
  IN /\ pc = "select" /\ ~down
     /\ R # {}
     /\ rset' = R
     /\ nready' = Cardinality(R)
     /\ pc' = IF LFd \in R THEN "accept" ELSE "scan"
     /\ i' = 0
     /\ UNCHANGED <<tableVars, n, down, owed, netVars>>

Vacant == {s \in Slots : client[s] < 0}

MaxFdWith == IF Lowest > maxfd THEN Lowest ELSE maxfd

(* Mutant: the loop goes on although only the listening socket was ready.   *)
AfterAcceptUncounted == nready

AfterAccept == nready - 1

Accept ==
  /\ pc = "accept" /\ ~down
  /\ \/ /\ FreeFds = {} \/ Vacant = {}
        /\ down' = TRUE
        /\ UNCHANGED <<tableVars, rset, nready, i, n, pc, owed, netVars>>
     \/ \E c \in backlog :
          /\ FreeFds # {} /\ Vacant # {}
          /\ Accepting(c)
          /\ client' = [client EXCEPT ![Min(Vacant)] = Lowest]
          /\ maxi' = IF Min(Vacant) > maxi THEN Min(Vacant) ELSE maxi
          /\ allset' = allset \cup {Lowest}
          /\ maxfd' = MaxFdWith
          /\ nready' = AfterAccept
          /\ pc' = IF AfterAccept = 0 THEN "select" ELSE "scan"
          /\ i' = 0
          /\ UNCHANGED <<rset, n, down, owed>>

-----------------------------------------------------------------------------
(* The loop over client[].                                                  *)
Due(s) == client[s] >= 0 /\ client[s] \in rset

Skip ==
  /\ pc = "scan" /\ ~down
  /\ \/ i > maxi /\ pc' = "select" /\ UNCHANGED i
     \/ i <= maxi /\ ~Due(i) /\ i' = i + 1 /\ UNCHANGED pc
  /\ UNCHANGED <<tableVars, rset, nready, n, down, owed, netVars>>

Served ==
  /\ nready' = nready - 1
  /\ i' = i + 1
  /\ pc' = IF nready - 1 = 0 THEN "select" ELSE "scan"

Turn == pc = "scan" /\ ~down /\ i <= maxi /\ Due(i)

ReadSome ==
  /\ Turn
  /\ LET c == conn[client[i]]
         k == Min({unread[c], BufSiz})
     IN /\ k > 0
        /\ Reading(c, k)
        /\ n' = k
        /\ owed' = [owed EXCEPT ![c] = @ + k]
  /\ pc' = "write"
  /\ UNCHANGED <<tableVars, rset, nready, i, down>>

(* Read returned 0.                                                         *)
(* Mutant: FD_CLR is forgotten. *)
ForgetWatched ==
  /\ client' = [client EXCEPT ![i] = -1]
  /\ UNCHANGED <<allset, maxfd, maxi>>

Forget ==
  /\ client' = [client EXCEPT ![i] = -1]
  /\ allset' = allset \ {client[i]}
  /\ UNCHANGED <<maxfd, maxi>>

ReadEnd ==
  /\ Turn
  /\ Ended(conn[client[i]])
  /\ Closing(client[i])
  /\ Forget
  /\ Served
  /\ UNCHANGED <<rset, n, down, owed>>

(* Read returned -1: main has no branch for it.                             *)
(* Mutant: the descriptor is no longer watched, nor closed. *)
ReadErrorUnwatched ==
  /\ Turn
  /\ unread[conn[client[i]]] = 0 /\ Failing(conn[client[i]])
  /\ allset' = allset \ {client[i]}
  /\ Served
  /\ UNCHANGED <<client, maxfd, maxi, rset, n, down, owed>>

ReadError ==
  /\ Turn
  /\ unread[conn[client[i]]] = 0 /\ Failing(conn[client[i]])
  /\ Served
  /\ UNCHANGED <<tableVars, rset, n, down, owed>>

(* Write to the client; the socket is a blocking one and takes it all.      *)
(* Mutant: the amount written is what is left of it for the client. *)
WriteNothing ==
  /\ pc = "write" /\ ~down
  /\ Writing(conn[client[i]])
  /\ Served
  /\ UNCHANGED <<tableVars, rset, n, down, owed>>

WriteAll ==
  /\ pc = "write" /\ ~down
  /\ LET c == conn[client[i]] IN
     /\ Writing(c)
     /\ owed' = [owed EXCEPT ![c] = @ - n]
  /\ Served
  /\ UNCHANGED <<tableVars, rset, n, down>>

WriteFails ==
  /\ pc = "write" /\ ~down
  /\ LET c == conn[client[i]] IN
     \/ /\ WriteFailing(c)
        /\ owed' = [owed EXCEPT ![c] = 0]
        /\ Served
        /\ UNCHANGED down
     \/ /\ SigPipe /\ Broken(c)
        /\ down' = TRUE
        /\ UNCHANGED <<owed, nready, i, pc, netVars>>
  /\ UNCHANGED <<tableVars, rset, n>>

-----------------------------------------------------------------------------
Server ==
  \/ Select
  \/ Accept
  \/ Skip
  \/ ReadSome
  \/ ReadEnd
  \/ ReadError
  \/ WriteAll
  \/ WriteFails

Clients == \E c \in Conns : Peer(c) /\ UNCHANGED <<tableVars, loopVars, owed>>

Next == Server \/ Clients

Spec == Init /\ [][Next]_vars

(* The process is scheduled, and the clients read what they are sent: a     *)
(* client that does not stops the whole server in Write.                    *)
FairSpec ==
  /\ Spec
  /\ WF_vars(Server)
  /\ \A c \in Conns :
       WF_vars(PeerRead(c) /\ UNCHANGED <<tableVars, loopVars, owed>>)

-----------------------------------------------------------------------------
TypeOK ==
  /\ client \in [Slots -> {-1} \cup Fds]
  /\ allset \subseteq {LFd} \cup Fds /\ rset \subseteq {LFd} \cup Fds
  /\ maxfd \in {LFd} \cup Fds /\ maxi \in -1 .. FdSetSize - 1
  /\ nready \in Nat /\ i \in 0 .. FdSetSize /\ n \in 0 .. BufSiz
  /\ pc \in {"select", "accept", "scan", "write"} /\ down \in BOOLEAN
  /\ owed \in [Conns -> 0 .. BufSiz]
  /\ NetType

(* The sets, the table and the open descriptors agree: what is open is      *)
(* watched, at or below maxfd, and in exactly one element at or below maxi; *)
(* nothing else is watched.                                                 *)
WatchedAll ==
  /\ allset = {LFd} \cup {d \in Fds : conn[d] # NoConn}
  /\ \A d \in allset : d <= maxfd
  /\ \A d \in allset \ {LFd} :
       Cardinality({s \in Slots : client[s] = d /\ s <= maxi}) = 1
  /\ \A s \in Slots : client[s] >= 0 => client[s] \in allset

(* The loop reads only from what select reported and nready still counts,   *)
(* and that is ready: Read does not wait.                                   *)
ReadsOnlyReady ==
  /\ Turn => Readable(conn[client[i]]) /\ nready > 0
  /\ pc = "scan" => Cardinality({s \in i .. maxi : Due(s)}) = nready

(* The server is an echo service for each of its connections.               *)
Phase(c) == IF ~Open(c) THEN "outside"
            ELSE IF owed[c] > 0 THEN "replying" ELSE "reading"

Abstract == INSTANCE EchoService WITH
  Most <- BufSiz, phase <- [c \in Conns |-> Phase(c)]
ImplementsEchoService == Abstract!Spec

(* A connection that ended is closed although main ignores that Read        *)
(* failed, provided the clients read.                                       *)
EndedClosed ==
  \A c \in Conns : (Open(c) /\ peer[c] # "open") ~> (~Open(c) \/ down)
=============================================================================
