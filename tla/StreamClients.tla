---------------------------- MODULE StreamClients ---------------------------
(***************************************************************************)
(* The world the small servers (poll, select, one thread or one process    *)
(* per connection) live in: the process's descriptors for connections, the *)
(* queue of the listening socket, and the clients.  The servers reach it   *)
(* through Accept, Read, Write and Close of wrap.c, which call again after *)
(* EINTR (Accept after ECONNABORTED too), so that an interrupted call      *)
(* changes nothing; the rest is no code of the repository.  Each operator  *)
(* constrains the variables of this module only.                           *)
(***************************************************************************)
EXTENDS Naturals, FiniteSets, FiniteSetsExt

CONSTANTS
  Conns,           (* the connections clients make                          *)
  FdMax,           (* descriptors the process may have for connections      *)
  Quota,           (* bound: how much each client sends                     *)
  Resets,          (* the clients that may reset their connection           *)
  NoConn

ASSUME ClientAssumption ==
  FdMax \in Nat \ {0} /\ Quota \in [Conns -> Nat] /\ NoConn \notin Conns

VARIABLES
  conn,            (* the connection behind a descriptor                    *)
  backlog,         (* connections waiting for accept                        *)
  peer,            (* "idle", "open", "fin", "reset": an error the server   *)
                   (* has not seen yet, or "gone": it has                   *)
  unread,          (* sent by the client, not read by the server            *)
  room,            (* the client's window is open                           *)
  quota            (* how much the client may still send                    *)

netVars == <<conn, backlog, peer, unread, room, quota>>

Fds == 1 .. FdMax
FreeFds == {d \in Fds : conn[d] = NoConn}
Lowest == Min(FreeFds)
Open(c) == \E d \in Fds : conn[d] = c

NetInit ==
  /\ conn = [d \in Fds |-> NoConn] /\ backlog = {}
  /\ peer = [c \in Conns |-> "idle"] /\ unread = [c \in Conns |-> 0]
  /\ room = [c \in Conns |-> TRUE] /\ quota = Quota

NetType ==
  /\ conn \in [Fds -> Conns \cup {NoConn}] /\ backlog \subseteq Conns
  /\ peer \in [Conns -> {"idle", "open", "fin", "reset", "gone"}]
  /\ unread \in [Conns -> Nat] /\ quota \in [Conns -> Nat]
  /\ \A c \in Conns : unread[c] + quota[c] <= Quota[c]
  /\ room \in [Conns -> BOOLEAN]

-----------------------------------------------------------------------------
(* What the calls of the server do.                                         *)
Accepting(c) ==
  /\ conn' = [conn EXCEPT ![Lowest] = c]
  /\ backlog' = backlog \ {c}
  /\ UNCHANGED <<peer, unread, room, quota>>

Closing(d) ==
  /\ conn' = [conn EXCEPT ![d] = NoConn]
  /\ UNCHANGED <<backlog, peer, unread, room, quota>>

Readable(c) == unread[c] > 0 \/ peer[c] \in {"fin", "reset", "gone"}

(* read returns n > 0 bytes, fails once with ECONNRESET after a reset, and  *)
(* returns 0 from then on.                                                  *)
Reading(c, n) ==
  /\ unread' = [unread EXCEPT ![c] = @ - n]
  /\ UNCHANGED <<conn, backlog, peer, room, quota>>

Failing(c) ==
  /\ peer[c] = "reset"
  /\ peer' = [peer EXCEPT ![c] = "gone"]
  /\ UNCHANGED <<conn, backlog, unread, room, quota>>

Ended(c) == unread[c] = 0 /\ peer[c] \in {"fin", "gone"}

(* A write may fill the client's window; it waits when there is no room.    *)
Writing(c) ==
  /\ peer[c] \in {"open", "fin"} /\ room[c]
  /\ \E b \in BOOLEAN : room' = [room EXCEPT ![c] = b]
  /\ UNCHANGED <<conn, backlog, peer, unread, quota>>

(* A write to a connection that was reset fails; or SIGPIPE, see the        *)
(* servers.                                                                 *)
Broken(c) == peer[c] \in {"reset", "gone"}
WriteFailing(c) ==
  /\ Broken(c)
  /\ peer' = [peer EXCEPT ![c] = "gone"]
  /\ UNCHANGED <<conn, backlog, unread, room, quota>>

-----------------------------------------------------------------------------
(* The clients.                                                             *)
PeerConnect(c) ==
  /\ peer[c] = "idle"
  /\ peer' = [peer EXCEPT ![c] = "open"]
  /\ backlog' = backlog \cup {c}
  /\ UNCHANGED <<conn, unread, room, quota>>

PeerSend(c) ==
  /\ peer[c] = "open" /\ quota[c] > 0
  /\ quota' = [quota EXCEPT ![c] = @ - 1]
  /\ unread' = [unread EXCEPT ![c] = @ + 1]
  /\ UNCHANGED <<conn, backlog, peer, room>>

PeerRead(c) ==
  /\ peer[c] \in {"open", "fin"} /\ ~room[c]
  /\ room' = [room EXCEPT ![c] = TRUE]
  /\ UNCHANGED <<conn, backlog, peer, unread, quota>>

PeerFin(c) ==
  /\ peer[c] = "open"
  /\ peer' = [peer EXCEPT ![c] = "fin"]
  /\ UNCHANGED <<conn, backlog, unread, room, quota>>

PeerReset(c) ==
  /\ c \in Resets /\ peer[c] \in {"open", "fin"}
  /\ peer' = [peer EXCEPT ![c] = "reset"]
  /\ UNCHANGED <<conn, backlog, unread, room, quota>>

Peer(c) ==
  \/ PeerConnect(c)
  \/ PeerSend(c)
  \/ PeerRead(c)
  \/ PeerFin(c)
  \/ PeerReset(c)
=============================================================================
