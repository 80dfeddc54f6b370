----------------------------- MODULE ThreadServer ---------------------------
(***************************************************************************)
(* The server with one thread per connection: main accepts, puts the       *)
(* descriptor into the next element of ts[] and starts a detached thread   *)
(* on its address; do_work reads the descriptor from there at every use.   *)
(* A thread is named by its connection.                                    *)
(***************************************************************************)
EXTENDS Integers, StreamClients

CONSTANTS
  TsMax,           (* the size of ts[], 256                                 *)
  Starts,          (* what i, never initialized, may start as; TsMax stands *)
                   (* for every value outside of ts[]                       *)
  MaxLine,         (* MAXLINE                                               *)
  CreateFails,     (* pthread_create may fail                               *)
  SigPipe          (* a write to a reset connection may raise SIGPIPE       *)

ASSUME ThreadAssumption ==
  /\ TsMax \in Nat \ {0} /\ Starts \subseteq 0 .. TsMax /\ MaxLine \in Nat \ {0}
  /\ CreateFails \in BOOLEAN /\ SigPipe \in BOOLEAN

Slots == 0 .. TsMax - 1

VARIABLES
  ts,              (* ts[s].connfd, -1 before it is assigned                *)
  i, mpc, cur,     (* main: its index, where it is, the connection at hand  *)
  thread,          (* per connection: "none", "read", "write", "close" or   *)
                   (* "done"                                                *)
  arg, n,          (* per thread: its element of ts, the local n            *)
  down,            (* the process has ended, or written outside of ts       *)
  owed,            (* history: received, and neither sent back nor given up *)
  leaked           (* history: connections pthread_create failed for        *)

mainVars == <<ts, i, mpc, cur, leaked>>
workVars == <<thread, arg, n, owed>>
vars == <<mainVars, workVars, down, netVars>>

Init ==
  /\ ts = [s \in Slots |-> -1] /\ i \in Starts
  /\ mpc = "accept" /\ cur = NoConn
  /\ thread = [c \in Conns |-> "none"] /\ arg = [c \in Conns |-> 0]
  /\ n = [c \in Conns |-> 0]
  /\ down = FALSE
  /\ owed = [c \in Conns |-> 0] /\ leaked = {}
  /\ NetInit

-----------------------------------------------------------------------------
(* main.  accept takes the number of the descriptor first, so it fails      *)
(* without waiting when there is none, and perr_exit ends the process.      *)
Accept ==
  /\ mpc = "accept" /\ ~down
  /\ \/ /\ FreeFds = {}
        /\ down' = TRUE
        /\ UNCHANGED <<ts, cur, mpc, netVars>>
     \/ \E c \in backlog :
          /\ FreeFds # {}
          /\ Accepting(c)
          /\ cur' = c
          /\ \/ i \in Slots /\ ts' = [ts EXCEPT ![i] = Lowest] /\ UNCHANGED down
             \/ i \notin Slots /\ down' = TRUE /\ UNCHANGED ts
          /\ mpc' = "create"
  /\ UNCHANGED <<i, leaked, workVars>>

Create ==
  /\ mpc = "create" /\ ~down
  /\ \/ /\ thread' = [thread EXCEPT ![cur] = "read"]
        /\ arg' = [arg EXCEPT ![cur] = i]
        /\ UNCHANGED leaked
     \/ /\ CreateFails
        /\ leaked' = leaked \cup {cur}
        /\ UNCHANGED <<thread, arg>>
  /\ mpc' = "detach"
  /\ UNCHANGED <<ts, i, cur, n, owed, down, netVars>>

(* Mutant: the elements of ts are used again. *)
NextIndexWrapped == (i + 1) % TsMax

NextIndex == IF i \in Slots THEN i + 1 ELSE i

(* When pthread_create failed, tid is that of the thread before, detached   *)
(* and perhaps gone, or never assigned: pthread_detach may not survive it.  *)
Detach ==
  /\ mpc = "detach" /\ ~down
  /\ down' \in {FALSE, (cur \in leaked)}
  /\ i' = NextIndex
  /\ mpc' = "accept" /\ cur' = NoConn
  /\ UNCHANGED <<ts, leaked, workVars, netVars>>

-----------------------------------------------------------------------------
(* do_work.                                                                 *)
ConnFd(c) == ts[arg[c]]
On(c) == conn[ConnFd(c)]

Taken(c) == Min({unread[On(c)], MaxLine})

ReadSome(c) ==
  /\ thread[c] = "read" /\ ~down
  /\ Taken(c) > 0
  /\ Reading(On(c), Taken(c))
  /\ n' = [n EXCEPT ![c] = Taken(c)]
  /\ owed' = [owed EXCEPT ![On(c)] = @ + Taken(c)]
  /\ thread' = [thread EXCEPT ![c] = "write"]
  /\ UNCHANGED <<mainVars, arg, down>>

ReadEnd(c) ==
  /\ thread[c] = "read" /\ ~down
  /\ Ended(On(c))
  /\ thread' = [thread EXCEPT ![c] = "close"]
  /\ UNCHANGED <<mainVars, arg, n, owed, down, netVars>>

(* Read returned -1: write is called with a length of -1 and fails, and     *)
(* the loop goes round.                                                     *)
(* Mutant: the thread gives up and leaves the descriptor. *)
ReadErrorLeave(c) ==
  /\ thread[c] = "read" /\ ~down
  /\ unread[On(c)] = 0 /\ Failing(On(c))
  /\ thread' = [thread EXCEPT ![c] = "done"]
  /\ UNCHANGED <<mainVars, arg, n, owed, down>>

ReadError(c) ==
  /\ thread[c] = "read" /\ ~down
  /\ unread[On(c)] = 0 /\ Failing(On(c))
  /\ UNCHANGED <<mainVars, workVars, down>>

(* Mutant: nothing is written to the client. *)
WriteNothing(c) ==
  /\ thread[c] = "write" /\ ~down
  /\ Writing(On(c))
  /\ thread' = [thread EXCEPT ![c] = "read"]
  /\ UNCHANGED <<mainVars, arg, n, owed, down>>

WriteAll(c) ==
  /\ thread[c] = "write" /\ ~down
  /\ Writing(On(c))
  /\ owed' = [owed EXCEPT ![On(c)] = @ - n[c]]
  /\ thread' = [thread EXCEPT ![c] = "read"]
  /\ UNCHANGED <<mainVars, arg, n, down>>

WriteFails(c) ==
  /\ thread[c] = "write" /\ ~down
  /\ \/ /\ WriteFailing(On(c))
        /\ owed' = [owed EXCEPT ![On(c)] = 0]
        /\ thread' = [thread EXCEPT ![c] = "read"]
        /\ UNCHANGED down
     \/ /\ SigPipe /\ Broken(On(c))
        /\ down' = TRUE
        /\ UNCHANGED <<thread, owed, netVars>>
  /\ UNCHANGED <<mainVars, arg, n>>

CloseConn(c) ==
  /\ thread[c] = "close" /\ ~down
  /\ Closing(ConnFd(c))
  /\ thread' = [thread EXCEPT ![c] = "done"]
  /\ UNCHANGED <<mainVars, arg, n, owed, down>>

-----------------------------------------------------------------------------
Main == Accept \/ Create \/ Detach

DoWork(c) ==
  \/ ReadSome(c)
  \/ ReadEnd(c)
  \/ ReadError(c)
  \/ WriteAll(c)
  \/ WriteFails(c)
  \/ CloseConn(c)

Clients == \E c \in Conns : Peer(c) /\ UNCHANGED <<mainVars, workVars, down>>

Next == Main \/ (\E c \in Conns : DoWork(c)) \/ Clients

Spec == Init /\ [][Next]_vars

-----------------------------------------------------------------------------
TypeOK ==
  /\ ts \in [Slots -> {-1} \cup Fds] /\ i \in 0 .. TsMax
  /\ mpc \in {"accept", "create", "detach"} /\ cur \in Conns \cup {NoConn}
  /\ thread \in [Conns -> {"none", "read", "write", "close", "done"}]
  /\ arg \in [Conns -> Slots] /\ n \in [Conns -> 0 .. MaxLine]
  /\ leaked \subseteq Conns /\ down \in BOOLEAN
  /\ owed \in [Conns -> 0 .. MaxLine]
  /\ NetType

Active(c) == thread[c] \in {"read", "write", "close"}

(* A thread works on its own connection as long as it lives, though it      *)
(* looks the descriptor up in memory main owns and numbers of descriptors   *)
(* are used again.                                                          *)
OwnConnection == \A c \in Conns : Active(c) => On(c) = c

(* A descriptor that is open has one thread that will close it, or main is  *)
(* about to start it, or pthread_create failed.                             *)
DescriptorsOwned ==
  \A d \in Fds : conn[d] # NoConn =>
    \/ Cardinality({c \in Conns : Active(c) /\ ConnFd(c) = d}) = 1
    \/ conn[d] = cur \/ conn[d] \in leaked

(* Each connection gets an echo service of its own.                         *)
Phase(c) == IF ~Active(c) THEN "outside"
            ELSE IF thread[c] = "write" THEN "replying" ELSE "reading"

Abstract == INSTANCE EchoService WITH
  Most <- MaxLine, phase <- [c \in Conns |-> Phase(c)]
ImplementsEchoService == Abstract!Spec
=============================================================================
