------------------------------ MODULE ProcServer ----------------------------
(***************************************************************************)
(* The server with one process per connection: main accepts, forks, and in *)
(* the parent installs catch_child for SIGCHLD, after the fork, and closes *)
(* its copy of the connection.  A child is named by its connection.        *)
(***************************************************************************)
EXTENDS Integers, StreamClients

CONSTANTS
  BufSiz,          (* BUFSIZ                                                *)
  ForkFails,       (* fork may fail                                         *)
  SigPipe,         (* a write to a reset connection may raise SIGPIPE       *)
  Server           (* the parent process                                    *)

ASSUME ProcAssumption ==
  /\ BufSiz \in Nat \ {0} /\ ForkFails \in BOOLEAN /\ SigPipe \in BOOLEAN
  /\ Server \notin Conns

VARIABLES
  mpc, cfd,        (* the parent: where it is, its cfd (0 before the first) *)
  act, pending, inHandler,   (* SIGCHLD: its action, and whether it is      *)
                   (* pending or being handled                              *)
  down,            (* the parent has ended                                  *)
  child,           (* per child: "none", "start", "read", "write", "zombie" *)
                   (* or "reaped"                                           *)
  held,            (* kernel: the processes that have a connection open     *)
  first            (* history: the first child                              *)

mainVars == <<mpc, cfd, act, inHandler, down, first>>
childVars == <<child, held>>
vars == <<mainVars, pending, childVars, netVars>>

Init ==
  /\ mpc = "accept" /\ cfd = 0
  /\ act = "default" /\ pending = FALSE /\ inHandler = FALSE /\ down = FALSE
  /\ child = [c \in Conns |-> "none"] /\ held = [c \in Conns |-> {}]
  /\ first = NoConn
  /\ NetInit

-----------------------------------------------------------------------------
(* The loop of main in the parent.  A signal makes accept fail with EINTR   *)
(* and Accept calls it again: no state changes.                             *)
Running == ~down /\ ~inHandler

Accept ==
  /\ mpc = "accept" /\ Running
  /\ \/ /\ FreeFds = {}
        /\ down' = TRUE
        /\ UNCHANGED <<cfd, mpc, held, netVars>>
     \/ \E c \in backlog :
          /\ FreeFds # {}
          /\ Accepting(c)
          /\ cfd' = Lowest
          /\ held' = [held EXCEPT ![c] = {Server}]
          /\ mpc' = "fork"
          /\ UNCHANGED down
  /\ UNCHANGED <<act, inHandler, first, pending, child>>

(* The child gets the descriptors the parent has open.                      *)
Inherited(c) ==
  [x \in Conns |-> IF \E d \in Fds : conn[d] = x THEN held[x] \cup {c} ELSE held[x]]

Fork ==
  /\ mpc = "fork" /\ Running
  /\ \/ LET c == conn[cfd] IN
        /\ child' = [child EXCEPT ![c] = "start"]
        /\ held' = Inherited(c)
        /\ first' = IF first = NoConn THEN c ELSE first
        /\ mpc' = "install"
        /\ UNCHANGED down
     \/ /\ ForkFails
        /\ down' = TRUE
        /\ held' = [x \in Conns |-> held[x] \ {Server}]
        /\ UNCHANGED <<child, first, mpc>>
  /\ UNCHANGED <<cfd, act, inHandler, pending, netVars>>

(* Mutant: the handler is not installed. *)
InstallNothing ==
  /\ mpc = "install" /\ Running
  /\ mpc' = "close"
  /\ UNCHANGED <<cfd, act, inHandler, down, first, pending, childVars, netVars>>

Install ==
  /\ mpc = "install" /\ Running
  /\ act' = "catch"
  /\ mpc' = "close"
  /\ UNCHANGED <<cfd, inHandler, down, first, pending, childVars, netVars>>

(* Mutant: the parent keeps the connection. *)
CloseNothing ==
  /\ mpc = "close" /\ Running
  /\ mpc' = "accept"
  /\ UNCHANGED <<cfd, act, inHandler, down, first, pending, childVars, netVars>>

CloseCopy ==
  /\ mpc = "close" /\ Running
  /\ held' = [held EXCEPT ![conn[cfd]] = @ \ {Server}]
  /\ Closing(cfd)
  /\ mpc' = "accept"
  /\ UNCHANGED <<cfd, act, inHandler, down, first, pending, child>>

-----------------------------------------------------------------------------
(* catch_child, one waitpid at a time; it may interrupt main anywhere.      *)
Zombies == {c \in Conns : child[c] = "zombie"}

Deliver ==
  /\ pending /\ act = "catch" /\ Running
  /\ inHandler' = TRUE /\ pending' = FALSE
  /\ UNCHANGED <<mpc, cfd, act, down, first, childVars, netVars>>

Reap ==
  /\ inHandler /\ ~down
  /\ \E c \in Zombies : child' = [child EXCEPT ![c] = "reaped"]
  /\ UNCHANGED <<mainVars, pending, held, netVars>>

Return ==
  /\ inHandler /\ ~down
  /\ Zombies = {}
  /\ inHandler' = FALSE
  /\ UNCHANGED <<mpc, cfd, act, down, first, pending, childVars, netVars>>

-----------------------------------------------------------------------------
(* The child: close(lfd), then the loop over its connection.                *)
Start(c) ==
  /\ child[c] = "start"
  /\ child' = [child EXCEPT ![c] = "read"]
  /\ UNCHANGED <<mainVars, pending, held, netVars>>

Taken(c) == Min({unread[c], BufSiz})

ReadSome(c) ==
  /\ child[c] = "read"
  /\ Taken(c) > 0
  /\ Reading(c, Taken(c))
  /\ child' = [child EXCEPT ![c] = "write"]
  /\ UNCHANGED <<mainVars, pending, held>>

(* read returned -1: the loop goes round.                                   *)
ReadError(c) ==
  /\ child[c] = "read"
  /\ unread[c] = 0 /\ Failing(c)
  /\ UNCHANGED <<mainVars, pending, childVars>>

(* A process that ends closes what it holds; SIGCHLD is discarded unless    *)
(* the parent catches it.                                                   *)
Ending(c) ==
  /\ child' = [child EXCEPT ![c] = "zombie"]
  /\ held' = [x \in Conns |-> held[x] \ {c}]
  /\ pending' = (pending \/ act = "catch")

Exit(c) ==
  /\ child[c] = "read"
  /\ Ended(c)
  /\ Ending(c)
  /\ UNCHANGED <<mainVars, netVars>>

WriteAll(c) ==
  /\ child[c] = "write"
  /\ Writing(c)
  /\ child' = [child EXCEPT ![c] = "read"]
  /\ UNCHANGED <<mainVars, pending, held>>

WriteFails(c) ==
  /\ child[c] = "write"
  /\ \/ /\ WriteFailing(c)
        /\ child' = [child EXCEPT ![c] = "read"]
        /\ UNCHANGED <<pending, held>>
     \/ /\ SigPipe /\ Broken(c)
        /\ Ending(c)
        /\ UNCHANGED netVars
  /\ UNCHANGED mainVars

-----------------------------------------------------------------------------
Parent ==
  \/ Accept
  \/ Fork
  \/ Install
  \/ CloseCopy
  \/ Deliver
  \/ Reap
  \/ Return

Child(c) ==
  \/ Start(c)
  \/ ReadSome(c)
  \/ ReadError(c)
  \/ Exit(c)
  \/ WriteAll(c)
  \/ WriteFails(c)

Clients == \E c \in Conns : Peer(c) /\ UNCHANGED <<mainVars, pending, childVars>>

Next == Parent \/ (\E c \in Conns : Child(c)) \/ Clients

Spec == Init /\ [][Next]_vars

(* Every process is scheduled.  No client has to do anything.               *)
FairSpec == Spec /\ WF_vars(Parent) /\ \A c \in Conns : WF_vars(Child(c))

-----------------------------------------------------------------------------
TypeOK ==
  /\ mpc \in {"accept", "fork", "install", "close"} /\ cfd \in {0} \cup Fds
  /\ act \in {"default", "catch"}
  /\ pending \in BOOLEAN /\ inHandler \in BOOLEAN /\ down \in BOOLEAN
  /\ child \in [Conns -> {"none", "start", "read", "write", "zombie", "reaped"}]
  /\ held \in [Conns -> SUBSET (Conns \cup {Server})]
  /\ first \in Conns \cup {NoConn}
  /\ NetType

Alive(c) == child[c] \in {"start", "read", "write"}

(* Nobody but its child has a connection open, except the parent between    *)
(* accept and close: the client sees the end of the stream when the child   *)
(* ends, and the parent does not run out of descriptors.                    *)
HeldByChild ==
  /\ \A c \in Conns : held[c] \subseteq {c, Server}
  /\ mpc = "accept" => FreeFds = Fds /\ \A c \in Conns : Server \notin held[c]
  /\ \A c \in Conns : c \in held[c] <=> Alive(c)

(* A child that has ended is being reaped or a SIGCHLD is on its way, though *)
(* the handler is installed after the fork: only the first child can end    *)
(* before there is one and be forgotten.                                    *)
OnlyFirstForgotten == \A c \in Zombies : c = first \/ pending \/ inHandler

(* Every child that ends is reaped; the first, which may end before there   *)
(* is a handler and then raises no signal, as soon as another has ended or  *)
(* a signal is on its way or being handled.                                 *)
Noticed(c) ==
  c # first \/ pending \/ inHandler \/ \E d \in Zombies : d # c

Reaped ==
  \A c \in Conns :
    (child[c] = "zombie" /\ Noticed(c)) ~> (child[c] = "reaped" \/ down)
=============================================================================
