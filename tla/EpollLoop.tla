------------------------------ MODULE EpollLoop -----------------------------
(***************************************************************************)
(* The epoll echo server of epoll_loop.cpp: the table g_events, the event  *)
(* loop of main and the callbacks, with what they rely on in the kernel    *)
(* (open descriptors, the interest list of the epoll instance, the queue   *)
(* of connections to accept) and the clients.                              *)
(*                                                                         *)
(* The program has one thread: a callback is one step, and the clients and *)
(* the clock move between the steps.  In particular they move between      *)
(* epoll_wait and the callbacks of the events it returned.                 *)
(***************************************************************************)
EXTENDS Integers, FiniteSets, FiniteSetsExt

CONSTANTS
  MaxEvents,      (* MAX_EVENTS                                             *)
  ScanLen,        (* slots checked for a timeout in one pass, 100           *)
  IdleMax,        (* seconds a connection may be idle, 60                   *)
  BufLen,         (* BUFLEN                                                 *)
  LowByte,        (* values of the first byte of an int, 256                *)
  FdMax,          (* descriptors the process may have for connections       *)
  Conns,          (* the connections clients make                           *)
  InFlight,       (* bound: a client's data on its way there and back       *)
  PartialSends,   (* send may take less than it is given                    *)
  SigPipe,        (* send to a reset connection may raise SIGPIPE           *)
  NoConn

ASSUME SizeAssumption ==
  /\ MaxEvents \in Nat \ {0} /\ ScanLen \in Nat \ {0}
  /\ IdleMax \in Nat /\ FdMax \in Nat \ {0} /\ InFlight \in Nat
  /\ BufLen \in Nat \ {0} /\ LowByte \in Nat \ {0} /\ BufLen % LowByte = 0
  /\ PartialSends \in BOOLEAN /\ SigPipe \in BOOLEAN /\ NoConn \notin Conns

Slots == 0 .. MaxEvents - 1
Listener == MaxEvents              (* the listening socket's place in the table *)
Entries == 0 .. MaxEvents
LFd == 0                           (* the listening descriptor *)
Fds == 1 .. FdMax
Descriptors == 0 .. FdMax
NotWatched == <<-1, "none">>

VARIABLES
  fd, event, call_back, status, len,    (* g_events[i].fd and so on         *)
  idle,        (* now - g_events[i].last_active                             *)
  checkpos, pc, batch,                  (* main: its place, events[]        *)
  reg,         (* kernel: entry and events a descriptor is registered with  *)
  conn,        (* kernel: the connection behind a descriptor                *)
  backlog,     (* kernel: connections waiting for accept                    *)
  peer, unread, room,                   (* the clients' side, see PeerSend  *)
  owed,        (* history: received from the connection, not sent back      *)
  lost         (* history: accepted when no slot was free                   *)

tableVars == <<fd, event, call_back, status, idle>>
loopVars == <<checkpos, pc, batch>>
kernelVars == <<reg, conn, backlog>>
peerVars == <<peer, unread, room>>
histVars == <<owed, lost>>
vars == <<tableVars, len, loopVars, kernelVars, peerVars, histVars>>

-----------------------------------------------------------------------------
(* initlistensocket, before the loop is entered.                            *)
Init ==
  /\ fd = [s \in Entries |-> 0]
  /\ event = [s \in Entries |-> IF s = Listener THEN "in" ELSE "none"]
  /\ call_back = [s \in Entries |->
                    IF s = Listener THEN "acceptconn" ELSE "null"]
  /\ status = [s \in Entries |-> IF s = Listener THEN 1 ELSE 0]
  /\ idle = [s \in Entries |-> 0]
  /\ len = [s \in Entries |-> 0]
  /\ checkpos = 0 /\ pc = "scan" /\ batch = {}
  /\ reg = [d \in Descriptors |->
              IF d = LFd THEN <<Listener, "in">> ELSE NotWatched]
  /\ conn = [d \in Fds |-> NoConn] /\ backlog = {}
  /\ peer = [c \in Conns |-> "idle"] /\ unread = [c \in Conns |-> 0]
  /\ room = [c \in Conns |-> TRUE]
  /\ owed = [c \in Conns |-> 0] /\ lost = {}

(* eventset and eventadd, one after the other.  eventset clears status, so  *)
(* eventadd always adds and never modifies.                                 *)
Watch(s, d, cb, e) ==
  /\ fd' = [fd EXCEPT ![s] = d]
  /\ call_back' = [call_back EXCEPT ![s] = cb]
  /\ event' = [event EXCEPT ![s] = e]
  /\ status' = [status EXCEPT ![s] = 1]
  /\ idle' = [idle EXCEPT ![s] = 0]
  /\ reg' = [reg EXCEPT ![d] = <<s, e>>]

(* Mutant: eventdel is forgotten, the kernel drops the closed descriptor.   *)
CloseOnly(S) ==
  LET fds == {fd[s] : s \in S} IN
  /\ reg' = [d \in Descriptors |-> IF d \in fds THEN NotWatched ELSE reg[d]]
  /\ conn' = [d \in Fds |-> IF d \in fds THEN NoConn ELSE conn[d]]
  /\ UNCHANGED tableVars

(* Mutant: close is forgotten. *)
EventDelOnly(S) ==
  /\ status' = [s \in Entries |-> IF s \in S THEN 0 ELSE status[s]]
  /\ reg' = [d \in Descriptors |->
               IF d \in {fd[s] : s \in S} THEN NotWatched ELSE reg[d]]
  /\ UNCHANGED <<fd, event, call_back, idle, conn>>

(* close and eventdel, in either order, of every entry in S.                *)
Close(S) ==
  LET fds == {fd[s] : s \in S} IN
  /\ status' = [s \in Entries |-> IF s \in S THEN 0 ELSE status[s]]
  /\ reg' = [d \in Descriptors |-> IF d \in fds THEN NotWatched ELSE reg[d]]
  /\ conn' = [d \in Fds |-> IF d \in fds THEN NoConn ELSE conn[d]]
  /\ UNCHANGED <<fd, event, call_back, idle>>

-----------------------------------------------------------------------------
(* acceptconn.  accept fails when the client is gone already or the process *)
(* has no descriptor left; a connection accepted when the table is full     *)
(* keeps its descriptor.                                                    *)
(* Mutant: status is not looked at. *)
VacantUnchecked == Slots

Vacant == {s \in Slots : status[s] = 0}
FreeFds == {d \in Fds : conn[d] = NoConn}

AcceptConn ==
  \/ /\ backlog = {} \/ FreeFds = {}
     /\ UNCHANGED <<tableVars, reg, conn, backlog, lost>>
  \/ \E c \in backlog :
       /\ FreeFds # {}
       /\ conn' = [conn EXCEPT ![Min(FreeFds)] = c]
       /\ backlog' = backlog \ {c}
       /\ \/ /\ Vacant = {}
             /\ lost' = lost \cup {c}
             /\ UNCHANGED <<tableVars, reg>>
          \/ /\ Vacant # {}
             /\ Watch(Min(Vacant), Min(FreeFds), "recvdata", "in")
             /\ UNCHANGED lost

(* buf[len] = '\0' after a full buffer hits the first byte of the member    *)
(* that follows, which is len.                                              *)
(* Mutant: len is cleared whole. *)
TerminatedAll(n) == IF n = BufLen THEN 0 ELSE n

Terminated(n) == IF n = BufLen THEN n - (n % LowByte) ELSE n

RecvData(s) ==
  LET c == conn[fd[s]]
      n == Min({unread[c], BufLen})
  IN \/ /\ unread[c] > 0
        /\ unread' = [unread EXCEPT ![c] = @ - n]
        /\ owed' = [owed EXCEPT ![c] = @ + n]
        /\ len' = [len EXCEPT ![s] = Terminated(n)]
        /\ Watch(s, fd[s], "senddata", "out")
        /\ UNCHANGED conn
     \/ /\ unread[c] = 0
        /\ Close({s})
        /\ UNCHANGED <<unread, owed, len>>

SendData(s) ==
  LET c == conn[fd[s]]
  IN \/ /\ peer[c] # "reset" /\ room[c]
        /\ \E k \in IF PartialSends THEN 1 .. len[s] ELSE {len[s]} :
             owed' = [owed EXCEPT ![c] = @ - k]
        /\ \E b \in BOOLEAN : room' = [room EXCEPT ![c] = b]
        /\ Watch(s, fd[s], "recvdata", "in")
        /\ UNCHANGED conn
     \/ /\ peer[c] = "reset" \/ ~room[c]
        /\ Close({s})
        /\ UNCHANGED <<room, owed>>

-----------------------------------------------------------------------------
(* The loop of main: check some slots for a timeout, wait, dispatch.        *)
(* Mutant: the scan is one slot short. *)
ScannedButLast == {(checkpos + i) % MaxEvents : i \in 0 .. ScanLen - 2}

Scanned == {(checkpos + i) % MaxEvents : i \in 0 .. ScanLen - 1}

NextCheckpos == ((checkpos + ScanLen - 1) % MaxEvents) + 1

(* Mutant: the comparison is the wrong way round. *)
ExpiredFresh == {s \in Scanned : status[s] = 1 /\ idle[s] < IdleMax}

Expired == {s \in Scanned : status[s] = 1 /\ idle[s] > IdleMax}

ScanTimeouts ==
  /\ pc = "scan"
  /\ Close(Expired)
  /\ checkpos' = NextCheckpos
  /\ pc' = "wait"
  /\ UNCHANGED <<len, batch, backlog, peerVars, histVars>>

Ready(d) ==
  \/ d = LFd /\ backlog # {}
  \/ /\ d \in Fds /\ reg[d][2] = "in"
     /\ unread[conn[d]] > 0 \/ peer[conn[d]] \in {"fin", "reset"}
  \/ /\ d \in Fds /\ reg[d][2] = "out"
     /\ room[conn[d]] \/ peer[conn[d]] = "reset"

(* An element of batch is an event of epoll_wait: the entry, the event and, *)
(* for the properties, the connection it was reported for.                  *)
EpollWait ==
  /\ pc = "wait"
  /\ batch' = {<<reg[d][1], reg[d][2], IF d = LFd THEN NoConn ELSE conn[d]>> :
                 d \in {x \in Descriptors : reg[x] # NotWatched /\ Ready(x)}}
  /\ pc' = IF batch' = {} THEN "scan" ELSE "dispatch"
  /\ UNCHANGED <<tableVars, len, checkpos, kernelVars, peerVars, histVars>>

CallBack(s) ==
  \/ /\ call_back[s] = "acceptconn" /\ AcceptConn
     /\ UNCHANGED <<len, peerVars, owed>>
  \/ /\ call_back[s] = "recvdata" /\ RecvData(s)
     /\ UNCHANGED <<backlog, peer, room, lost>>
  \/ /\ call_back[s] = "senddata" /\ SendData(s)
     /\ UNCHANGED <<len, backlog, peer, unread, lost>>

Dispatch ==
  /\ pc = "dispatch"
  /\ \E e \in batch :
       /\ batch' = batch \ {e}
       /\ \/ event[e[1]] = e[2] /\ CallBack(e[1])
          \/ /\ event[e[1]] # e[2]
             /\ UNCHANGED <<tableVars, len, kernelVars, peerVars, histVars>>
  /\ pc' = IF batch' = {} THEN "scan" ELSE "dispatch"
  /\ UNCHANGED checkpos

(* send raises SIGPIPE, which nobody handles, and the process ends.         *)
Terminate ==
  /\ pc = "dispatch" /\ SigPipe
  /\ \E e \in batch : /\ call_back[e[1]] = "senddata" /\ event[e[1]] = e[2]
                      /\ peer[conn[fd[e[1]]]] = "reset"
  /\ pc' = "ended" /\ batch' = {}
  /\ UNCHANGED <<tableVars, len, checkpos, kernelVars, peerVars, histVars>>

-----------------------------------------------------------------------------
(* The clock and the clients.  A client connects, sends (for ever, if it     *)
(* likes, as far as its data is taken in and sent back), may be slow to     *)
(* read (room), ends its stream or resets.                                  *)
Tick ==
  /\ idle' = [s \in Entries |-> IF status[s] = 1 /\ idle[s] <= IdleMax
                                THEN idle[s] + 1 ELSE idle[s]]
  /\ UNCHANGED <<fd, event, call_back, status, len, loopVars, kernelVars,
                 peerVars, histVars>>

Connected(c) == c \in backlog \/ \E d \in Fds : conn[d] = c

PeerConnect(c) ==
  /\ peer[c] = "idle"
  /\ peer' = [peer EXCEPT ![c] = "open"]
  /\ backlog' = backlog \cup {c}
  /\ UNCHANGED <<tableVars, len, loopVars, reg, conn, unread, room,
                 histVars>>

PeerSend(c) ==
  /\ peer[c] = "open" /\ Connected(c) /\ unread[c] + owed[c] < InFlight
  /\ unread' = [unread EXCEPT ![c] = @ + 1]
  /\ UNCHANGED <<tableVars, len, loopVars, kernelVars, peer, room, histVars>>

PeerRead(c) ==
  /\ peer[c] \in {"open", "fin"} /\ ~room[c]
  /\ room' = [room EXCEPT ![c] = TRUE]
  /\ UNCHANGED <<tableVars, len, loopVars, kernelVars, peer, unread, histVars>>

PeerFin(c) ==
  /\ peer[c] = "open" /\ Connected(c)
  /\ peer' = [peer EXCEPT ![c] = "fin"]
  /\ UNCHANGED <<tableVars, len, loopVars, kernelVars, unread, room,
                 histVars>>

PeerReset(c) ==
  /\ peer[c] \in {"open", "fin"} /\ Connected(c)
  /\ peer' = [peer EXCEPT ![c] = "reset"]
  /\ unread' = [unread EXCEPT ![c] = 0]
  /\ backlog' = backlog \ {c}
  /\ UNCHANGED <<tableVars, len, loopVars, reg, conn, room, histVars>>

Peer(c) ==
  \/ PeerConnect(c)
  \/ PeerSend(c)
  \/ PeerRead(c)
  \/ PeerFin(c)
  \/ PeerReset(c)

Server ==
  \/ ScanTimeouts
  \/ EpollWait
  \/ Dispatch
  \/ Terminate

Next ==
  \/ Server
  \/ Tick
  \/ \E c \in Conns : Peer(c)

Spec == Init /\ [][Next]_vars

(* epoll_wait returns after a second at the latest, so the loop goes round; *)
(* and time passes.  No client has to do anything, nor ever to stop.        *)
FairSpec == Spec /\ WF_vars(Server) /\ WF_vars(Tick)

-----------------------------------------------------------------------------
TypeOK ==
  /\ fd \in [Entries -> Descriptors]
  /\ event \in [Entries -> {"none", "in", "out"}]
  /\ call_back \in [Entries -> {"null", "acceptconn", "recvdata", "senddata"}]
  /\ status \in [Entries -> {0, 1}]
  /\ idle \in [Entries -> 0 .. IdleMax + 1]
  /\ len \in [Entries -> 0 .. BufLen]
  /\ checkpos \in Entries /\ pc \in {"scan", "wait", "dispatch", "ended"}
  /\ batch \subseteq Entries \X {"in", "out"} \X (Conns \cup {NoConn})
  /\ reg \in [Descriptors -> (Entries \X {"in", "out"}) \cup {NotWatched}]
  /\ conn \in [Fds -> Conns \cup {NoConn}]
  /\ backlog \subseteq Conns
  /\ peer \in [Conns -> {"idle", "open", "fin", "reset"}]
  /\ unread \in [Conns -> Nat]
  /\ room \in [Conns -> BOOLEAN]
  /\ owed \in [Conns -> Int] /\ lost \subseteq Conns

-----------------------------------------------------------------------------
(* The table and the kernel agree although close and eventdel come in both  *)
(* orders and numbers of descriptors are used again: an entry is active     *)
(* exactly when its descriptor is open and registered with it, for the      *)
(* event it remembers.  The listening socket is never closed.               *)
TableMatchesKernel ==
  /\ \A s \in Entries : status[s] = 1 => reg[fd[s]] = <<s, event[s]>>
  /\ \A d \in Descriptors :
       reg[d] # NotWatched => status[reg[d][1]] = 1 /\ fd[reg[d][1]] = d
  /\ \A s \in Slots : status[s] = 1 => fd[s] # LFd /\ conn[fd[s]] # NoConn
  /\ status[Listener] = 1

(* A descriptor is forgotten only by acceptconn at the limit of the table:  *)
(* no timeout, error or end of stream leaves one open and unwatched.        *)
DescriptorsOwned ==
  \A d \in Fds : conn[d] # NoConn =>
                   (reg[d] = NotWatched <=> conn[d] \in lost)

(* An event that epoll_wait returned is still about the same connection     *)
(* when its turn comes, whatever the callbacks before it closed, accepted   *)
(* or put into a slot.                                                      *)
BatchFresh ==
  \A e \in batch :
    /\ status[e[1]] = 1 /\ event[e[1]] = e[2]
    /\ e[1] # Listener => conn[fd[e[1]]] = e[3]

(* The loop with its table is an echo service for each connection.          *)
ServedBy(c) == {s \in Slots : status[s] = 1 /\ conn[fd[s]] = c}
Phase(c) ==
  IF ServedBy(c) = {} THEN "outside"
  ELSE IF \E s \in ServedBy(c) : call_back[s] = "senddata" THEN "replying"
  ELSE "reading"

Abstract == INSTANCE EchoService WITH
  Most <- BufLen, phase <- [c \in Conns |-> Phase(c)]
ImplementsEchoService == Abstract!Spec

(* What a client with a slot has sent is taken in, and what was taken in is *)
(* sent back, at least in part, or the connection is closed: whatever the   *)
(* other clients do, and even when the client itself never reads.           *)
Answered ==
  \A c \in Conns :
    /\ (Phase(c) = "reading" /\ unread[c] > 0)
         ~> (Phase(c) # "reading" \/ pc = "ended")
    /\ Phase(c) = "replying" ~> (Phase(c) # "replying" \/ pc = "ended")

(* A client that waits to be accepted is accepted, even when the others     *)
(* hold all descriptors and never close: they time out.  But every transfer *)
(* renews last_active, so this takes that they do not send for ever.  (Both *)
(* unless SIGPIPE ends the process.)                                        *)
BacklogServed ==
  \A c \in Conns :
    <>[][\A d \in Conns \ {c} : ~PeerSend(d)]_vars
      => ((c \in backlog) ~> (~(c \in backlog) \/ pc = "ended"))
=============================================================================
