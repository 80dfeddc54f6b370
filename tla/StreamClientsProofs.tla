------------------------ MODULE StreamClientsProofs -------------------------
(***************************************************************************)
(* What the proofs about the small servers need of descriptors, the        *)
(* listening queue and the clients.                                        *)
(***************************************************************************)
EXTENDS StreamClients, Integers, FiniteSetTheorems, TLAPS

(* Min of FiniteSetsExt on numbers.                                         *)
LEMMA MinOfNats ==
  ASSUME NEW S \in SUBSET Nat, S # {}
  PROVE  Min(S) \in S /\ \A x \in S : Min(S) <= x
<1> DEFINE R == {ss \in Nat \X Nat : ss[1] < ss[2]}
<1>1. IsWellFoundedOn(R, Nat)
  BY NatLessThanWellFounded, Zenon DEF OpToRel
<1>2. PICK x \in S : \A y \in S : ~(<<y, x>> \in R)
  <2> HIDE DEF R
  <2> QED BY <1>1, WFMin
<1>3. ASSUME NEW y \in S PROVE ~(y < x)
  <2>1. ~(<<y, x>> \in R)
    BY <1>2
  <2>2. <<y, x>> \in Nat \X Nat
    OBVIOUS
  <2>3. ~(<<y, x>>[1] < <<y, x>>[2])
    BY <2>1, <2>2
  <2> QED BY <2>3
<1>4. \A y \in S : x <= y
  BY <1>3
<1> QED BY <1>4 DEF Min

(* The smaller of two numbers, as the servers compute what a read returns.  *)
LEMMA MinOfTwo ==
  ASSUME NEW a \in Nat, NEW b \in Nat
  PROVE  Min({a, b}) \in {a, b} /\ Min({a, b}) <= a /\ Min({a, b}) <= b
BY MinOfNats

(* The kernel hands out a descriptor that was free.                         *)
LEMMA LowestIsFree ==
  ASSUME FreeFds # {}
  PROVE  Lowest \in Fds /\ conn[Lowest] = NoConn
<1>1. FreeFds \in SUBSET Nat
  BY ClientAssumption DEF FreeFds, Fds
<1>2. Lowest \in FreeFds
  BY <1>1, MinOfNats DEF Lowest
<1> QED BY <1>2 DEF FreeFds

-----------------------------------------------------------------------------
(* A connection is first not made, then waits for accept, then is behind    *)
(* one descriptor at most, and never comes back.                            *)
Waiting(c) == peer[c] = "idle" \/ c \in backlog

NetInv ==
  /\ NetType
  /\ \A d, e \in Fds : conn[d] = conn[e] => conn[d] = NoConn \/ d = e
  /\ \A c \in Conns : Waiting(c) => ~Open(c)
  /\ \A c \in Conns : peer[c] = "idle" => c \notin backlog

LEMMA NetInvInit == NetInit => NetInv
BY ClientAssumption DEF NetInit, NetInv, NetType, Waiting, Open

(* accept puts a connection that waited behind a descriptor that was free.  *)
LEMMA AcceptNet ==
  ASSUME NetInv, NEW c \in backlog, FreeFds # {}, Accepting(c)
  PROVE  /\ NetInv' /\ \A x \in Conns : Waiting(x)' => Waiting(x) /\ x # c
         /\ Lowest \in Fds /\ conn[Lowest] = NoConn
         /\ \A d \in Fds : conn'[d] = IF d = Lowest THEN c ELSE conn[d]
<1>1. Lowest \in Fds /\ conn[Lowest] = NoConn
  BY LowestIsFree
<1>2. \A d \in Fds : conn'[d] = IF d = Lowest THEN c ELSE conn[d]
  BY <1>1 DEF Accepting, NetInv, NetType
<1>3. c \in Conns /\ Waiting(c) /\ ~Open(c) /\ c # NoConn
  BY ClientAssumption DEF NetInv, NetType, Waiting
<1>4. /\ UNCHANGED <<peer, unread, room, quota>> /\ backlog' = backlog \ {c}
      /\ conn' \in [Fds -> Conns \cup {NoConn}]
  BY <1>3 DEF Accepting, NetInv, NetType
<1>5. \A x \in Conns : Waiting(x)' => Waiting(x) /\ x # c
  BY <1>3, <1>4 DEF NetInv, Waiting
<1>6. NetType'
  BY <1>4 DEF NetInv, NetType
<1>7. \A d, e \in Fds : conn'[d] = conn'[e] => conn'[d] = NoConn \/ d = e
  BY <1>1, <1>2, <1>3 DEF NetInv, Open
<1>8. \A x \in Conns : Waiting(x)' => ~Open(x)'
  BY <1>1, <1>2, <1>5 DEF NetInv, Open
<1>9. \A x \in Conns : peer'[x] = "idle" => x \notin backlog'
  BY <1>4 DEF NetInv
<1> QED BY <1>1, <1>2, <1>5, <1>6, <1>7, <1>8, <1>9 DEF NetInv

(* close takes a connection away from its descriptor.                       *)
LEMMA CloseNet ==
  ASSUME NetInv, NEW d \in Fds, Closing(d)
  PROVE  /\ NetInv' /\ \A x \in Conns : Waiting(x)' <=> Waiting(x)
         /\ \A e \in Fds : conn'[e] = IF e = d THEN NoConn ELSE conn[e]
<1>1. \A e \in Fds : conn'[e] = IF e = d THEN NoConn ELSE conn[e]
  BY DEF Closing, NetInv, NetType
<1>2. /\ UNCHANGED <<backlog, peer, unread, room, quota>>
      /\ conn' \in [Fds -> Conns \cup {NoConn}]
  BY DEF Closing, NetInv, NetType
<1>3. NetType' /\ \A x \in Conns : Waiting(x)' <=> Waiting(x)
  BY <1>2 DEF NetInv, NetType, Waiting
<1>4. \A x \in Conns : Waiting(x)' => ~Open(x)'
  BY <1>1, <1>3, ClientAssumption DEF NetInv, Open
<1> QED BY <1>1, <1>2, <1>3, <1>4 DEF NetInv

(* Nothing else a server or a client does changes what is behind a          *)
(* descriptor.                                                              *)
Talks ==
  \/ \E c \in Conns : Failing(c) \/ Writing(c) \/ WriteFailing(c) \/ Peer(c)
  \/ \E c \in Conns, n \in Nat : n <= unread[c] /\ Reading(c, n)
  \/ UNCHANGED netVars

LEMMA TalkNet ==
  ASSUME NetInv, Talks
  PROVE  /\ NetInv' /\ UNCHANGED conn
         /\ \A x \in Conns : Waiting(x)' => Waiting(x)
<1> DEFINE Kept == /\ NetType' /\ UNCHANGED conn
                   /\ \A x \in Conns : Waiting(x)' => Waiting(x)
                   /\ \A x \in Conns : peer'[x] = "idle" => x \notin backlog'
<1> USE DEF NetInv, NetType, Waiting
<1>1. ASSUME NEW c \in Conns, Failing(c) \/ WriteFailing(c) PROVE Kept
  BY <1>1 DEF Failing, WriteFailing, Broken
<1>2. ASSUME NEW c \in Conns, Writing(c) PROVE Kept
  BY <1>2 DEF Writing
<1>3. ASSUME NEW c \in Conns, NEW n \in Nat, n <= unread[c], Reading(c, n) PROVE Kept
  <2>1. unread' \in [Conns -> Nat] /\ \A x \in Conns : unread'[x] <= unread[x]
    BY <1>3 DEF Reading
  <2>2. \A x \in Conns : unread'[x] + quota[x] <= Quota[x]
    BY <2>1, ClientAssumption
  <2> QED BY <1>3, <2>1, <2>2 DEF Reading
<1>4. ASSUME NEW c \in Conns, PeerSend(c) PROVE Kept
  <2>1. /\ unread' \in [Conns -> Nat] /\ quota' \in [Conns -> Nat]
        /\ \A x \in Conns : unread'[x] + quota'[x] = unread[x] + quota[x]
    BY <1>4 DEF PeerSend
  <2>2. \A x \in Conns : unread'[x] + quota'[x] <= Quota[x]
    BY <2>1
  <2> QED BY <1>4, <2>1, <2>2 DEF PeerSend
<1>5. ASSUME NEW c \in Conns, PeerConnect(c) PROVE Kept
  BY <1>5 DEF PeerConnect
<1>6. ASSUME NEW c \in Conns, PeerRead(c) PROVE Kept
  BY <1>6 DEF PeerRead
<1>7. ASSUME NEW c \in Conns, PeerFin(c) \/ PeerReset(c) PROVE Kept
  BY <1>7 DEF PeerFin, PeerReset
<1>8. ASSUME UNCHANGED netVars PROVE Kept
  BY <1>8 DEF netVars
<1>9. Kept
  BY <1>1, <1>2, <1>3, <1>4, <1>5, <1>6, <1>7, <1>8 DEF Talks, Peer
<1> HIDE DEF NetType, Waiting
<1> QED BY <1>9 DEF Open

(* What can be read stays so until it is read.                              *)
LEMMA ReadableStays ==
  ASSUME NetInv, NEW x \in Conns, Readable(x),
         \/ \E c \in Conns : Failing(c) \/ Writing(c) \/ WriteFailing(c) \/ Peer(c)
         \/ \E c \in Conns \ {x}, n \in Nat : Reading(c, n)
         \/ \E c \in Conns : Accepting(c)
         \/ \E d \in Fds : Closing(d)
         \/ UNCHANGED netVars
  PROVE  Readable(x)'
<1> USE DEF NetInv, NetType, Readable
<1>1. ASSUME NEW c \in Conns, Failing(c) \/ Writing(c) \/ WriteFailing(c)
      PROVE  Readable(x)'
  BY <1>1 DEF Failing, Writing, WriteFailing
<1>2. ASSUME NEW c \in Conns, Peer(c) PROVE Readable(x)'
  BY <1>2 DEF Peer, PeerConnect, PeerSend, PeerRead, PeerFin, PeerReset
<1>3. ASSUME NEW c \in Conns \ {x}, NEW n \in Nat, Reading(c, n) PROVE Readable(x)'
  BY <1>3 DEF Reading
<1>4. ASSUME \/ \E c \in Conns : Accepting(c)
             \/ \E d \in Fds : Closing(d)
             \/ UNCHANGED netVars
      PROVE  Readable(x)'
  BY <1>4 DEF Accepting, Closing, netVars
<1> QED BY <1>1, <1>2, <1>3, <1>4
=============================================================================
