------------------------- MODULE SelectServerProofs -------------------------
(***************************************************************************)
(* Proofs about the select server, for every number of connections,        *)
(* descriptors and members of an fd_set.                                   *)
(***************************************************************************)
EXTENDS SelectServer, StreamClientsProofs

(* The elements in use are those of the open descriptors, one each, and     *)
(* those are what select watches.                                           *)
Table ==
  /\ \A s \in Slots : client[s] \in Fds => s <= maxi /\ conn[client[s]] # NoConn
  /\ \A s, t \in Slots : client[s] = client[t] => client[s] = -1 \/ s = t
  /\ \A d \in Fds : conn[d] # NoConn => \E s \in Slots : client[s] = d

Watched ==
  /\ allset = {LFd} \cup {d \in Fds : conn[d] # NoConn}
  /\ \A d \in allset : d <= maxfd

(* Main owes only what it is writing.                                       *)
OwesNow ==
  /\ pc = "write" =>
       /\ i \in Slots /\ i <= maxi /\ client[i] \in Fds /\ n > 0
       /\ owed[conn[client[i]]] = n
  /\ \A c \in Conns :
       ~(pc = "write" /\ i \in Slots /\ client[i] \in Fds /\ c = conn[client[i]])
         => owed[c] = 0

(* A pass of the loop: nready counts what is left of what select reported,  *)
(* and all of it can be read.  Before the accept everything reported is     *)
(* open, so the new connection's descriptor is not among it.                *)
Remaining(j) == {s \in Slots : j <= s /\ Due(s)}

AllReadable(j) == \A s \in Remaining(j) : Readable(conn[client[s]])

Left(j, k) == Cardinality(Remaining(j)) = k /\ AllReadable(j)

Pass ==
  /\ pc = "accept" =>
       /\ i = 0 /\ nready > 0 /\ Left(0, nready - 1)
       /\ \A d \in Fds : d \in rset => conn[d] # NoConn
  /\ pc = "scan" => nready > 0 /\ Left(i, nready)
  /\ pc = "write" => nready > 0 /\ Left(i + 1, nready - 1)

SelectInv == TypeOK /\ NetInv /\ Table /\ Watched /\ OwesNow /\ Pass

(* The elements as numbers.                                                 *)
LEMMA SlotsAreNats ==
  /\ Slots \subseteq Nat /\ IsFiniteSet(Slots)
  /\ \A s \in Slots : s <= FdSetSize - 1
  /\ \A k \in Nat : k <= FdSetSize - 1 => k \in Slots
  /\ Fds \subseteq Nat /\ (\A d \in Fds : d > 0) /\ -1 \notin Fds /\ LFd \notin Fds
<1>1. FdSetSize - 1 \in Nat
  BY SelectAssumption
<1> QED BY <1>1, FS_Interval, SelectAssumption, ClientAssumption DEF Slots, Fds, LFd

(* An element in use holds a descriptor of a connection.                    *)
LEMMA InUse ==
  ASSUME TypeOK, NEW s \in Slots
  PROVE  /\ client[s] >= 0 <=> client[s] \in Fds
         /\ client[s] < 0 <=> client[s] = -1
         /\ Due(s) <=> client[s] \in Fds /\ client[s] \in rset
<1>1. client[s] = -1 \/ client[s] \in Fds
  BY DEF TypeOK
<1>2. \A d \in Fds : d >= 0 /\ ~(d < 0) /\ d # -1
  BY SlotsAreNats
<1>3. client[s] >= 0 <=> client[s] \in Fds
  <2>1. ~(-1 >= 0) /\ -1 \notin Fds
    BY SlotsAreNats
  <2> QED BY <1>1, <1>2, <2>1
<1>4. client[s] < 0 <=> client[s] = -1
  BY <1>1, <1>2
<1> QED BY <1>3, <1>4 DEF Due

LEMMA SelectInvInit == Init => SelectInv
<1> SUFFICES ASSUME Init PROVE SelectInv
  OBVIOUS
<1>1. NetInv /\ \A d \in Fds : conn[d] = NoConn
  BY NetInvInit DEF Init, NetInit
<1>2. /\ pc = "select" /\ \A s \in Slots : client[s] = -1
      /\ \A c \in Conns : owed[c] = 0
  BY DEF Init
<1>3. TypeOK
  <2>1. FdSetSize \in Nat /\ FdSetSize > 0 /\ BufSiz \in Nat
    BY SelectAssumption
  <2>2. client \in [Slots -> {-1} \cup Fds] /\ allset = {LFd} /\ rset = {} /\ maxfd = LFd
    BY DEF Init
  <2>3. owed \in [Conns -> 0 .. BufSiz] /\ n \in 0 .. BufSiz
    BY <2>1 DEF Init
  <2>4. maxi \in -1 .. FdSetSize - 1 /\ nready \in Nat /\ i \in 0 .. FdSetSize
    BY <2>1 DEF Init
  <2>5. NetType
    BY <1>1 DEF NetInv
  <2> QED BY <2>2, <2>3, <2>4, <2>5 DEF Init, TypeOK
<1>4. Watched
  BY <1>1 DEF Init, Watched, LFd
<1>5. Table /\ OwesNow /\ Pass
  BY <1>1, <1>2, SlotsAreNats DEF Table, OwesNow, Pass
<1> QED BY <1>1, <1>3, <1>4, <1>5 DEF SelectInv

(* What is left when the loop has passed element j.                         *)
LEMMA RemainingStep ==
  ASSUME TypeOK, NEW j \in Nat
  PROVE  /\ IsFiniteSet(Remaining(j)) /\ Cardinality(Remaining(j)) \in Nat
         /\ ~(j \in Slots /\ Due(j)) => Remaining(j + 1) = Remaining(j)
         /\ j \in Slots /\ Due(j) =>
              /\ j \in Remaining(j)
              /\ Remaining(j + 1) = Remaining(j) \ {j}
              /\ Cardinality(Remaining(j + 1)) = Cardinality(Remaining(j)) - 1
<1>1. IsFiniteSet(Remaining(j))
  BY SlotsAreNats, FS_Subset DEF Remaining
<1>2. Cardinality(Remaining(j)) \in Nat
  BY <1>1, FS_CardinalityType
<1>3. \A s \in Slots : j + 1 <= s <=> j <= s /\ s # j
  BY SlotsAreNats
<1>4. ASSUME NEW s \in Slots
      PROVE  s \in Remaining(j + 1) <=> s \in Remaining(j) \ {j}
  BY <1>3 DEF Remaining
<1>5. Remaining(j + 1) \subseteq Slots /\ Remaining(j) \subseteq Slots
  BY DEF Remaining
<1>6. Remaining(j + 1) = Remaining(j) \ {j}
  BY <1>4, <1>5
<1>7. j \in Remaining(j) <=> j \in Slots /\ Due(j)
  BY DEF Remaining
<1>8. j \in Remaining(j) =>
        Cardinality(Remaining(j) \ {j}) = Cardinality(Remaining(j)) - 1
  BY <1>1, FS_RemoveElement
<1>9. j \notin Remaining(j) => Remaining(j) \ {j} = Remaining(j)
  OBVIOUS
<1> QED BY <1>1, <1>2, <1>6, <1>7, <1>8, <1>9

(* As long as nready is positive there is something left.                   *)
LEMMA ScanAt ==
  ASSUME SelectInv, pc = "scan"
  PROVE  /\ i \in Slots /\ i <= maxi /\ nready > 0 /\ Left(i, nready)
         /\ Due(i) => Readable(conn[client[i]])
<1>1. Left(i, nready) /\ nready > 0
  BY DEF SelectInv, Pass
<1>2. i \in Nat /\ maxi \in Int
  BY SelectAssumption DEF SelectInv, TypeOK
<1>3. Remaining(i) # {}
  BY <1>1, FS_EmptySet DEF Left
<1>4. PICK s \in Slots : i <= s /\ Due(s)
  BY <1>3 DEF Remaining
<1>5. s <= maxi /\ s <= FdSetSize - 1 /\ s \in Nat
  BY <1>4, InUse, SlotsAreNats DEF SelectInv, Table
<1>6. i <= maxi /\ i \in Slots
  BY <1>2, <1>4, <1>5, SlotsAreNats, SelectAssumption
<1>7. Due(i) => i \in Remaining(i)
  BY <1>2, <1>6 DEF Remaining
<1> QED BY <1>1, <1>6, <1>7 DEF Left, AllReadable

(* In a turn of the loop the element is that of an open connection.         *)
LEMMA TurnAt ==
  ASSUME SelectInv, Turn
  PROVE  /\ pc = "scan" /\ ~down /\ i \in Slots /\ i <= maxi /\ Due(i)
         /\ client[i] \in Fds /\ conn[client[i]] \in Conns
         /\ \A c \in Conns : owed[c] = 0
<1>1. pc = "scan" /\ ~down /\ i \in Slots /\ i <= maxi /\ Due(i)
  BY ScanAt DEF Turn
<1>2. client[i] \in Fds
  BY <1>1, InUse DEF SelectInv
<1>3. conn[client[i]] \in Conns
  BY <1>1, <1>2 DEF SelectInv, Table, NetInv, NetType
<1> QED BY <1>1, <1>2, <1>3 DEF SelectInv, OwesNow

LEMMA WriteAt ==
  ASSUME SelectInv, pc = "write"
  PROVE  /\ i \in Slots /\ i <= maxi /\ client[i] \in Fds /\ conn[client[i]] \in Conns
         /\ n \in Nat \ {0} /\ owed[conn[client[i]]] = n
         /\ \A c \in Conns : c # conn[client[i]] => owed[c] = 0
<1>1. i \in Slots /\ i <= maxi /\ client[i] \in Fds
  BY DEF SelectInv, OwesNow
<1>2. conn[client[i]] \in Conns
  BY <1>1 DEF SelectInv, Table, NetInv, NetType
<1>3. n \in Nat
  BY SelectAssumption DEF SelectInv, TypeOK
<1> QED BY <1>1, <1>2, <1>3 DEF SelectInv, OwesNow

(* What is in the table and ready is so after a step that leaves the table, *)
(* its connections and what can be read of them alone.                      *)
LEMMA LeftStays ==
  ASSUME TypeOK, Table, NEW j, NEW k, Left(j, k),
         \A s \in Slots : j <= s =>
             (Due(s)' <=> Due(s)) /\ (Due(s) => conn'[client'[s]] = conn[client[s]]),
         \A s \in Remaining(j) : Readable(conn[client[s]]) => Readable(conn[client[s]])'
  PROVE  Left(j, k)'
<1>1. Remaining(j)' = Remaining(j)
  BY DEF Remaining
<1>2. ASSUME NEW s \in Remaining(j)
      PROVE  Readable(conn[client[s]])'
  <2>1. (conn[client[s]])' = conn[client[s]]
    BY DEF Remaining
  <2>2. Readable(conn[client[s]])
    BY DEF Left, AllReadable
  <2> QED BY <2>1, <2>2 DEF Readable
<1> QED BY <1>1, <1>2 DEF Left, AllReadable

(* What the pass has left after element i.  No element of it is i's, nor    *)
(* its connection.                                                          *)
Rest(j, m) ==
  /\ j = i + 1 /\ m = nready - 1 /\ nready > 0 /\ Left(j, m)
  /\ \A s \in Remaining(j) :
       /\ s \in Slots \ {i} /\ j <= s /\ client[s] \in Fds /\ client[s] # client[i]
       /\ conn[client[s]] \in Conns /\ conn[client[s]] # conn[client[i]]

LEMMA RestOf ==
  ASSUME SelectInv, Turn \/ pc = "write"
  PROVE  \E j \in Nat, m \in Nat : Rest(j, m)
<1>1. i \in Slots /\ i \in Nat /\ client[i] \in Fds /\ nready \in Nat /\ nready > 0
  BY TurnAt, ScanAt, WriteAt, SlotsAreNats DEF SelectInv, TypeOK, Pass
<1>2. Left(i + 1, nready - 1)
  <2>1. CASE Turn
    <3>1. Left(i, nready) /\ Due(i)
      BY <2>1, TurnAt, ScanAt
    <3>2. /\ Remaining(i + 1) = Remaining(i) \ {i}
          /\ Cardinality(Remaining(i + 1)) = Cardinality(Remaining(i)) - 1
      BY <1>1, <3>1, RemainingStep DEF SelectInv
    <3> QED BY <3>1, <3>2 DEF Left, AllReadable
  <2>2. CASE pc = "write"
    BY <2>2 DEF SelectInv, Pass
  <2> QED BY <2>1, <2>2
<1>3. PICK j \in Nat, m \in Nat : j = i + 1 /\ m = nready - 1
  BY <1>1
<1>4. ASSUME NEW s \in Remaining(j)
      PROVE  /\ s \in Slots \ {i} /\ j <= s /\ client[s] \in Fds /\ client[s] # client[i]
             /\ conn[client[s]] \in Conns /\ conn[client[s]] # conn[client[i]]
  <2>1. s \in Slots /\ s # i /\ j <= s /\ Due(s)
    BY <1>1, <1>3 DEF Remaining
  <2>2. client[s] \in Fds
    BY <2>1, InUse DEF SelectInv
  <2>3. client[s] # client[i] /\ conn[client[s]] # NoConn
    BY <1>1, <2>1, <2>2, SlotsAreNats DEF SelectInv, Table
  <2> QED BY <1>1, <2>1, <2>2, <2>3 DEF SelectInv, NetInv, NetType
<1> QED BY <1>1, <1>2, <1>3, <1>4 DEF Rest

LEMMA RestStays ==
  ASSUME SelectInv, NEW c \in Conns, c = conn[client[i]],
         NEW j \in Nat, NEW m \in Nat, Rest(j, m),
         i \in Slots, UNCHANGED rset,
         \A s \in Slots \ {i} : client'[s] = client[s],
         \A d \in Fds \ {client[i]} : conn'[d] = conn[d],
         \A x \in Conns \ {c} : Readable(x) => Readable(x)'
  PROVE  Left(j, m)'
<1>1. \A s \in Slots : j <= s => s # i
  BY SlotsAreNats DEF Rest
<1>2. \A s \in Slots : j <= s => (Due(s)' <=> Due(s))
  BY <1>1 DEF Due
<1>3. \A s \in Slots : j <= s /\ Due(s) => s \in Remaining(j)
  BY DEF Remaining
<1>4. \A s \in Slots : j <= s /\ Due(s) => conn'[client'[s]] = conn[client[s]]
  BY <1>3 DEF Rest
<1>5. ASSUME NEW s \in Remaining(j), Readable(conn[client[s]])
      PROVE  Readable(conn[client[s]])'
  <2>1. PICK x \in Conns \ {c} : x = conn[client[s]]
    BY DEF Rest
  <2>2. (conn[client[s]])' = x
    BY <1>4, <2>1 DEF Remaining
  <2>3. Readable(x)'
    BY <1>5, <2>1
  <2> QED BY <2>2, <2>3 DEF Readable
<1>6. Left(j, m)
  BY DEF Rest
<1> QED BY <1>2, <1>4, <1>5, <1>6, LeftStays DEF SelectInv

LEMMA ServedPass ==
  ASSUME TypeOK, i \in Slots, Served,
         NEW j \in Nat, NEW m \in Nat, Rest(j, m), Left(j, m)'
  PROVE  /\ Pass' /\ nready' \in Nat /\ i' \in 0 .. FdSetSize
         /\ pc' \in {"select", "scan"}
<1>1. i' = j /\ nready' = m /\ pc' \in {"select", "scan"} /\ (pc' = "scan" => m > 0)
  <2>1. i' = j /\ nready' = m /\ pc' = IF m = 0 THEN "select" ELSE "scan"
    BY DEF Served, Rest
  <2>2. m # 0 => m > 0
    OBVIOUS
  <2> QED BY <2>1, <2>2
<1>2. i' \in 0 .. FdSetSize
  BY SelectAssumption DEF Served, Slots
<1>3. Left(i, nready)'
  BY <1>1 DEF Left, AllReadable, Remaining
<1> QED BY <1>1, <1>2, <1>3 DEF Pass

-----------------------------------------------------------------------------
(* A step of the clients, or one that changes nothing but down.             *)
LEMMA QuietKeeps ==
  ASSUME SelectInv, UNCHANGED <<tableVars, rset, nready, i, n, pc, owed>>,
         down' \in BOOLEAN,
         (\E c \in Conns : Peer(c)) \/ UNCHANGED netVars
  PROVE  SelectInv'
<1>1. NetInv' /\ UNCHANGED conn
  BY TalkNet DEF SelectInv, Talks
<1>2. \A x \in Conns : Readable(x) => Readable(x)'
  BY ReadableStays DEF SelectInv
<1>3. UNCHANGED <<client, allset, maxfd, maxi, rset, nready, i, n, pc, owed>>
  BY DEF tableVars
<1>4. TypeOK'
  BY <1>1, <1>3 DEF SelectInv, TypeOK, NetInv
<1>5. Table' /\ Watched' /\ OwesNow'
  BY <1>1, <1>3 DEF SelectInv, Table, Watched, OwesNow
<1>6. ASSUME NEW j, NEW k, Left(j, k) PROVE Left(j, k)'
  <2>1. \A s \in Slots : (Due(s)' <=> Due(s)) /\ conn'[client'[s]] = conn[client[s]]
    BY <1>1, <1>3 DEF Due
  <2>2. ASSUME NEW s \in Remaining(j), Readable(conn[client[s]])
        PROVE  Readable(conn[client[s]])'
    <3>1. PICK x \in Conns : x = conn[client[s]]
      BY InUse DEF Remaining, SelectInv, Table, NetInv, NetType
    <3>2. (conn[client[s]])' = x
      BY <1>1, <1>3, <3>1
    <3> QED BY <1>2, <2>2, <3>1, <3>2 DEF Readable
  <2> QED BY <1>6, <2>1, <2>2, LeftStays DEF SelectInv
<1>7. Pass'
  <2>1. pc = "accept" => Left(0, nready - 1)'
    <3> SUFFICES ASSUME pc = "accept" PROVE Left(0, nready - 1)'
      OBVIOUS
    <3>1. PICK k : k = nready - 1 /\ Left(0, k)
      BY DEF SelectInv, Pass
    <3>2. Left(0, k)'
      BY <1>6, <3>1
    <3> QED BY <1>3, <3>1, <3>2 DEF Left, AllReadable, Remaining
  <2>2. ASSUME Left(i, nready) PROVE Left(i, nready)'
    <3>1. PICK j, k : j = i /\ k = nready /\ Left(j, k)
      BY <2>2
    <3>2. Left(j, k)'
      BY <1>6, <3>1
    <3> QED BY <1>3, <3>1, <3>2 DEF Left, AllReadable, Remaining
  <2>3. ASSUME Left(i + 1, nready - 1) PROVE Left(i + 1, nready - 1)'
    <3>1. PICK j, k : j = i + 1 /\ k = nready - 1 /\ Left(j, k)
      BY <2>3
    <3>2. Left(j, k)'
      BY <1>6, <3>1
    <3> QED BY <1>3, <3>1, <3>2 DEF Left, AllReadable, Remaining
  <2> QED BY <1>1, <1>3, <2>1, <2>2, <2>3 DEF SelectInv, Pass
<1> QED BY <1>1, <1>4, <1>5, <1>7 DEF SelectInv
LEMMA SelectKeeps == SelectInv /\ Select => SelectInv'
<1> SUFFICES ASSUME SelectInv, Select PROVE SelectInv'
  OBVIOUS
<1> DEFINE R == {d \in allset : /\ d <= maxfd
                               /\ IF d = LFd THEN backlog # {} ELSE Readable(conn[d])}
           S == {s \in Slots : client[s] \in R \ {LFd}}
<1>1. /\ pc = "select" /\ i' = 0 /\ R # {}
      /\ rset' = R /\ nready' = Cardinality(R)
      /\ pc' = IF LFd \in R THEN "accept" ELSE "scan"
      /\ UNCHANGED <<tableVars, n, down, owed, netVars>>
  BY DEF Select
<1>2. UNCHANGED <<client, allset, maxfd, maxi, n, down, owed>> /\ UNCHANGED netVars
  BY <1>1 DEF tableVars
<1>3. /\ NetInv' /\ UNCHANGED conn
      /\ \A d \in R \ {LFd} : d \in Fds /\ conn[d] # NoConn /\ Readable(conn[d])'
  <2>1. NetInv' /\ UNCHANGED conn
    BY <1>2, TalkNet DEF SelectInv, Talks
  <2>2. \A d \in R \ {LFd} : d \in Fds /\ conn[d] # NoConn /\ Readable(conn[d])
    BY DEF SelectInv, Watched
  <2> QED BY <1>2, <2>1, <2>2 DEF Readable, netVars
<1>4. IsFiniteSet(R) /\ Cardinality(R) \in Nat /\ (Cardinality(R) = 0 <=> R = {})
  <2>1. IsFiniteSet({LFd} \cup Fds)
    <3>1. IsFiniteSet(Fds)
      BY FS_Interval, ClientAssumption DEF Fds
    <3>2. IsFiniteSet(Fds \cup {LFd})
      BY <3>1, FS_AddElement
    <3>3. {LFd} \cup Fds = Fds \cup {LFd}
      OBVIOUS
    <3> QED BY <3>2, <3>3
  <2>2. R \subseteq {LFd} \cup Fds
    BY DEF SelectInv, Watched
  <2> QED BY <2>1, <2>2, FS_Subset, FS_CardinalityType, FS_EmptySet
<1>5. Cardinality(S) = Cardinality(R \ {LFd})
  <2>1. IsFiniteSet(S) /\ IsFiniteSet(R \ {LFd})
    BY <1>4, SlotsAreNats, FS_Subset
  <2> DEFINE f == [s \in S |-> client[s]]
  <2>2. f \in [S -> R \ {LFd}]
    OBVIOUS
  <2>3. \A s, t \in S : f[s] = f[t] => s = t
    BY <1>3, SlotsAreNats DEF SelectInv, Table
  <2>4. \A d \in R \ {LFd} : \E s \in S : f[s] = d
    BY <1>3 DEF SelectInv, Table
  <2> HIDE DEF f
  <2>5. f \in Bijection(S, R \ {LFd})
    BY <2>2, <2>3, <2>4 DEF Bijection, Injection, Surjection, IsInjective
  <2> HIDE DEF S, R
  <2> QED BY <2>1, <2>5, FS_Bijection DEF ExistsBijection
<1>6. Remaining(0)' = S /\ AllReadable(0)'
  <2>1. \A s \in Slots : Due(s)' <=> client[s] \in Fds /\ client[s] \in R
    BY <1>1, <1>2, InUse DEF SelectInv, Due
  <2>2. Remaining(0)' = S
    <3>1. \A s \in Slots :
            (client[s] \in Fds /\ client[s] \in R) <=> client[s] \in R \ {LFd}
      BY <1>3, SlotsAreNats
    <3>2. \A s \in Slots : 0 <= s
      BY SlotsAreNats
    <3>3. Remaining(0)' = {s \in Slots : 0 <= s /\ Due(s)'}
      BY DEF Remaining
    <3> QED BY <2>1, <3>1, <3>2, <3>3
  <2>3. \A s \in S : (Readable(conn[client[s]]))'
    BY <1>2, <1>3
  <2> QED BY <2>2, <2>3 DEF AllReadable
<1>7. TypeOK'
  <2>1. /\ nready' \in Nat /\ i' \in 0 .. FdSetSize /\ rset' \subseteq {LFd} \cup Fds
        /\ pc' \in {"select", "accept", "scan", "write"}
    BY <1>1, <1>4, SelectAssumption DEF SelectInv, TypeOK
  <2> QED BY <1>2, <1>3, <2>1 DEF SelectInv, TypeOK, NetInv
<1>8. Table' /\ Watched' /\ OwesNow'
  BY <1>1, <1>2, <1>3 DEF SelectInv, Table, Watched, OwesNow
<1>9. Pass'
  <2>1. CASE LFd \in R
    <3>1. pc' = "accept" /\ Cardinality(S) = nready' - 1 /\ nready' > 0
      <4>1. Cardinality(R \ {LFd}) = Cardinality(R) - 1
        BY <1>4, <2>1, FS_RemoveElement
      <4>2. Cardinality(R) > 0
        BY <1>1, <1>4
      <4> QED BY <1>1, <1>5, <2>1, <4>1, <4>2
    <3>2. Left(0, nready - 1)'
      BY <1>6, <3>1 DEF Left
    <3> QED BY <1>1, <1>3, <3>1, <3>2, SlotsAreNats DEF Pass
  <2>2. CASE LFd \notin R
    <3>1. R \ {LFd} = R
      BY <2>2
    <3>2. pc' = "scan" /\ Cardinality(S) = nready' /\ nready' > 0
      BY <1>1, <1>4, <1>5, <2>2, <3>1
    <3>3. Left(i, nready)'
      BY <1>1, <1>6, <3>2 DEF Left, Remaining, AllReadable
    <3> QED BY <3>2, <3>3 DEF Pass
  <2> QED BY <2>1, <2>2
<1> QED BY <1>3, <1>7, <1>8, <1>9 DEF SelectInv

LEMMA VacantIsFree ==
  ASSUME Vacant # {}, TypeOK
  PROVE  Min(Vacant) \in Slots /\ client[Min(Vacant)] = -1
<1>1. Vacant \in SUBSET Nat
  BY SlotsAreNats DEF Vacant
<1>2. Min(Vacant) \in Vacant
  BY <1>1, MinOfNats
<1> QED BY <1>2, InUse DEF Vacant

LEMMA AcceptKeeps == SelectInv /\ Accept => SelectInv'
<1> SUFFICES ASSUME SelectInv, Accept PROVE SelectInv'
  OBVIOUS
<1>1. pc = "accept"
  BY DEF Accept
<1>2. CASE down' = TRUE /\ UNCHANGED <<tableVars, rset, nready, i, n, pc, owed, netVars>>
  BY <1>2, QuietKeeps
<1>3. ASSUME NEW c \in backlog, FreeFds # {}, Vacant # {}, Accepting(c),
             client' = [client EXCEPT ![Min(Vacant)] = Lowest],
             maxi' = IF Min(Vacant) > maxi THEN Min(Vacant) ELSE maxi,
             allset' = allset \cup {Lowest}, maxfd' = MaxFdWith,
             nready' = AfterAccept, i' = 0,
             pc' = IF AfterAccept = 0 THEN "select" ELSE "scan",
             UNCHANGED <<rset, n, down, owed>>
      PROVE  SelectInv'
  <2>1. PICK s \in Slots, d \in Fds :
          s = Min(Vacant) /\ client[s] = -1 /\ d = Lowest /\ conn[d] = NoConn
    BY <1>3, VacantIsFree, LowestIsFree DEF SelectInv
  <2>2. NetInv' /\ \A e \in Fds : conn'[e] = IF e = d THEN c ELSE conn[e]
    BY <1>3, <2>1, AcceptNet DEF SelectInv
  <2>3. /\ client' \in [Slots -> {-1} \cup Fds]
        /\ \A t \in Slots : client'[t] = IF t = s THEN d ELSE client[t]
    BY <1>3, <2>1 DEF SelectInv, TypeOK
  <2>4. /\ maxi' \in -1 .. FdSetSize - 1 /\ maxi <= maxi' /\ s <= maxi'
        /\ maxi \in Int /\ maxi' \in Int
    <3>1. s \in Nat /\ s <= FdSetSize - 1 /\ maxi \in -1 .. FdSetSize - 1
      BY SlotsAreNats DEF SelectInv, TypeOK
    <3>2. maxi' = IF s > maxi THEN s ELSE maxi
      BY <1>3, <2>1
    <3> QED BY <3>1, <3>2, SelectAssumption
  <2>5. nready' = nready - 1 /\ nready' \in Nat /\ Left(0, nready') /\ d \notin rset
    BY <1>1, <1>3, <2>1 DEF AfterAccept, SelectInv, Pass, TypeOK
  <2>6. pc' \in {"select", "scan"} /\ (pc' = "scan" => nready' > 0)
    <3>1. pc' = IF nready' = 0 THEN "select" ELSE "scan"
      BY <1>3
    <3>2. nready' \in Nat
      BY <2>5
    <3>3. nready' # 0 => nready' > 0
      BY <3>2
    <3> QED BY <3>1, <3>3
  <2>7. /\ maxfd' \in {LFd} \cup Fds /\ maxfd \in Nat /\ maxfd' \in Nat
        /\ maxfd <= maxfd' /\ d <= maxfd'
    <3>1. maxfd \in {LFd} \cup Fds /\ maxfd \in Nat /\ d \in Nat
      BY SlotsAreNats DEF SelectInv, TypeOK, LFd
    <3>2. maxfd' = IF d > maxfd THEN d ELSE maxfd
      BY <1>3, <2>1 DEF MaxFdWith
    <3> QED BY <3>1, <3>2
  <2>8. TypeOK'
    <3>1. allset' \subseteq {LFd} \cup Fds /\ i' \in 0 .. FdSetSize /\ NetType'
      BY <1>3, <2>1, <2>2, SelectAssumption DEF SelectInv, TypeOK, NetInv
    <3> QED BY <1>3, <2>3, <2>4, <2>5, <2>6, <2>7, <3>1 DEF SelectInv, TypeOK
  <2>9. c # NoConn
    BY ClientAssumption DEF SelectInv, NetInv, NetType
  <2>10. Table'
    <3>1. \A t \in Slots : client[t] # d
      BY <2>1 DEF SelectInv, Table
    <3>2. \A t \in Slots : client'[t] \in Fds => t <= maxi' /\ conn'[client'[t]] # NoConn
      <4> SUFFICES ASSUME NEW t \in Slots, client'[t] \in Fds
                   PROVE  t <= maxi' /\ conn'[client'[t]] # NoConn
        OBVIOUS
      <4>1. CASE t = s
        BY <2>1, <2>2, <2>3, <2>4, <2>9, <4>1
      <4>2. CASE t # s
        <5>1. t <= maxi /\ conn[client[t]] # NoConn /\ client[t] \in Fds
          BY <2>3, <4>2 DEF SelectInv, Table
        <5>2. t \in Nat
          BY SlotsAreNats
        <5>3. t <= maxi'
          BY <2>4, <5>1, <5>2
        <5> QED BY <2>2, <2>3, <2>9, <4>2, <5>1, <5>3
      <4> QED BY <4>1, <4>2
    <3>3. \A t, u \in Slots : client'[t] = client'[u] => client'[t] = -1 \/ t = u
      BY <2>1, <2>3, <3>1 DEF SelectInv, Table
    <3>4. \A e \in Fds : conn'[e] # NoConn => \E t \in Slots : client'[t] = e
      <4> SUFFICES ASSUME NEW e \in Fds, conn'[e] # NoConn, e # d
                   PROVE  \E t \in Slots : client'[t] = e
        BY <2>1, <2>3
      <4>1. PICK t \in Slots : client[t] = e
        BY <2>2 DEF SelectInv, Table
      <4>2. t # s
        BY <2>1, <4>1, SlotsAreNats
      <4> QED BY <2>3, <4>1, <4>2
    <3> QED BY <3>2, <3>3, <3>4 DEF Table
  <2>11. Watched'
    <3>1. allset' = allset \cup {d}
      BY <1>3, <2>1
    <3>2. allset' = {LFd} \cup {e \in Fds : conn'[e] # NoConn}
      BY <2>1, <2>2, <2>9, <3>1 DEF SelectInv, Watched
    <3>3. ASSUME NEW e \in allset' PROVE e <= maxfd'
      <4>1. e \in Nat
        BY <3>2, <3>3, SlotsAreNats DEF LFd
      <4>2. e = d \/ e <= maxfd
        BY <3>1, <3>3 DEF SelectInv, Watched
      <4> QED BY <2>7, <4>1, <4>2
    <3> QED BY <3>2, <3>3 DEF Watched
  <2>12. OwesNow'
    BY <1>1, <1>3, <2>6 DEF SelectInv, OwesNow
  <2>13. PICK k \in Nat : k = nready' /\ Left(0, k)
    BY <2>5
  <2>14. Left(0, k)'
    <3>1. \A t \in Slots : (Due(t)' <=> Due(t)) /\ (Due(t) => t # s)
      <4> SUFFICES ASSUME NEW t \in Slots
                   PROVE  (Due(t)' <=> Due(t)) /\ (Due(t) => t # s)
        OBVIOUS
      <4>1. CASE t = s
        BY <1>3, <2>1, <2>3, <2>5, <4>1, InUse, SlotsAreNats DEF Due, SelectInv
      <4>2. CASE t # s
        BY <1>3, <2>3, <4>2 DEF Due
      <4> QED BY <4>1, <4>2
    <3>2. \A t \in Slots : Due(t) =>
            client[t] \in Fds /\ conn[client[t]] \in Conns /\ client[t] # d
      BY <2>1, InUse DEF SelectInv, Table, NetInv, NetType
    <3>3. \A t \in Slots : Due(t) => conn'[client'[t]] = conn[client[t]]
      BY <2>2, <2>3, <3>1, <3>2
    <3>4. \A x \in Conns : Readable(x) => Readable(x)'
      BY <1>3, ReadableStays DEF SelectInv, NetInv, NetType
    <3>5. \A t \in Remaining(0) :
            Readable(conn[client[t]]) => Readable(conn[client[t]])'
      <4> SUFFICES ASSUME NEW t \in Remaining(0), Readable(conn[client[t]])
                   PROVE  Readable(conn[client[t]])'
        OBVIOUS
      <4>1. PICK x \in Conns : x = conn[client[t]]
        BY <3>2 DEF Remaining
      <4>2. (conn[client[t]])' = x
        BY <3>3, <4>1 DEF Remaining
      <4> QED BY <3>4, <4>1, <4>2 DEF Readable
    <3> QED BY <2>13, <3>1, <3>3, <3>5, LeftStays DEF SelectInv
  <2>15. Pass'
    BY <1>3, <2>6, <2>13, <2>14 DEF Pass, Left, AllReadable, Remaining
  <2> QED BY <2>2, <2>8, <2>10, <2>11, <2>12, <2>15 DEF SelectInv
<1> QED BY <1>2, <1>3, Zenon DEF Accept
(* Main moves on to the next element.                                       *)
LEMMA SkipKeeps == SelectInv /\ Skip => SelectInv'
<1> SUFFICES ASSUME SelectInv, Skip PROVE SelectInv'
  OBVIOUS
<1>1. /\ pc = "scan"
      /\ UNCHANGED <<tableVars, rset, nready, n, down, owed, netVars>>
  BY DEF Skip
<1>2. i \in Slots /\ i <= maxi /\ nready > 0 /\ Left(i, nready)
  BY <1>1, ScanAt
<1>3. i \in Nat /\ maxi \in Int /\ i + 1 \in 0 .. FdSetSize /\ ~(i > maxi)
  <2>1. i \in Nat /\ i <= FdSetSize - 1 /\ maxi \in Int
    BY <1>2, SlotsAreNats DEF SelectInv, TypeOK
  <2> QED BY <1>2, <2>1, SelectAssumption
<1>4. ~Due(i) /\ i' = i + 1 /\ pc' = pc
  BY <1>3 DEF Skip
<1>5. /\ UNCHANGED <<client, allset, maxfd, maxi, rset, nready, n, down, owed, netVars>>
      /\ UNCHANGED <<conn, unread, peer>>
  BY <1>1 DEF tableVars, netVars
<1>6. NetInv'
  BY <1>5, TalkNet DEF SelectInv, Talks, netVars
<1>7. TypeOK'
  BY <1>3, <1>4, <1>5, <1>6 DEF SelectInv, TypeOK, NetInv
<1>8. Table' /\ Watched' /\ OwesNow'
  BY <1>1, <1>4, <1>5 DEF SelectInv, Table, Watched, OwesNow
<1>9. Left(i, nready)'
  <2>1. Remaining(i + 1) = Remaining(i)
    BY <1>3, <1>4, RemainingStep DEF SelectInv
  <2>2. Left(i + 1, nready)
    BY <1>2, <2>1 DEF Left, AllReadable
  <2>3. Remaining(i)' = Remaining(i + 1)
    BY <1>4, <1>5 DEF Remaining, Due
  <2> QED BY <1>5, <2>2, <2>3 DEF Left, AllReadable, Readable
<1>10. Pass'
  BY <1>1, <1>2, <1>4, <1>5, <1>9 DEF Pass
<1> QED BY <1>6, <1>7, <1>8, <1>10 DEF SelectInv

(* What a turn that reads something does.                                   *)
LEMMA ReadSomeAt ==
  ASSUME SelectInv, ReadSome
  PROVE  \E c \in Conns, k \in 1 .. BufSiz :
           /\ c = conn[client[i]] /\ k <= unread[c] /\ Reading(c, k) /\ n' = k
           /\ owed[c] = 0 /\ owed' = [owed EXCEPT ![c] = k]
<1>1. PICK c \in Conns : c = conn[client[i]] /\ owed[c] = 0
  BY TurnAt DEF ReadSome
<1>2. unread[c] \in Nat /\ BufSiz \in Nat
  BY SelectAssumption DEF SelectInv, NetInv, NetType
<1>3. PICK k : k = Min({unread[c], BufSiz})
  OBVIOUS
<1>4. k \in Nat /\ k <= unread[c] /\ k <= BufSiz
  BY <1>2, <1>3, MinOfTwo
<1>5. k > 0 /\ Reading(c, k) /\ n' = k /\ owed' = [owed EXCEPT ![c] = owed[c] + k]
  BY <1>1, <1>3 DEF ReadSome
<1>6. k \in 1 .. BufSiz /\ owed[c] + k = k
  BY <1>1, <1>2, <1>4, <1>5
<1> QED BY <1>1, <1>4, <1>5, <1>6

LEMMA ReadSomeKeeps == SelectInv /\ ReadSome => SelectInv'
<1> SUFFICES ASSUME SelectInv, ReadSome PROVE SelectInv'
  OBVIOUS
<1>1. /\ Turn /\ pc = "scan" /\ i \in Slots /\ i <= maxi /\ client[i] \in Fds
      /\ \A c \in Conns : owed[c] = 0
  BY TurnAt DEF ReadSome
<1>2. PICK c \in Conns, k \in 1 .. BufSiz :
        /\ c = conn[client[i]] /\ k <= unread[c] /\ Reading(c, k) /\ n' = k
        /\ owed' = [owed EXCEPT ![c] = k]
  BY ReadSomeAt
<1>3. pc' = "write" /\ UNCHANGED <<client, allset, maxfd, maxi, rset, nready, i, down>>
  BY DEF ReadSome, tableVars
<1>4. k > 0 /\ k \in Nat /\ k \in 0 .. BufSiz
  BY SelectAssumption
<1>5. NetInv' /\ UNCHANGED conn
  BY <1>2, <1>4, TalkNet DEF SelectInv, Talks
<1>6. /\ owed' \in [Conns -> 0 .. BufSiz] /\ owed'[c] = k
      /\ \A x \in Conns \ {c} : owed'[x] = 0
  BY <1>1, <1>2, <1>4 DEF SelectInv, TypeOK
<1>7. TypeOK'
  BY <1>2, <1>3, <1>4, <1>5, <1>6 DEF SelectInv, TypeOK, NetInv
<1>8. Table' /\ Watched'
  BY <1>3, <1>5 DEF SelectInv, Table, Watched
<1>9. OwesNow'
  BY <1>1, <1>2, <1>3, <1>4, <1>5, <1>6 DEF OwesNow
<1>10. PICK j \in Nat, m \in Nat : Rest(j, m)
  BY <1>1, RestOf
<1>11. Left(j, m)'
  <2>1. \A x \in Conns \ {c} : Readable(x) => Readable(x)'
    BY <1>2, <1>4, ReadableStays DEF SelectInv
  <2> QED BY <1>1, <1>2, <1>3, <1>5, <1>10, <2>1, RestStays
<1>12. Pass'
  BY <1>3, <1>10, <1>11 DEF Pass, Left, AllReadable, Remaining, Rest
<1> QED BY <1>5, <1>7, <1>8, <1>9, <1>12 DEF SelectInv

(* End of file: the element, the watched descriptor and the descriptor are  *)
(* given up together.                                                       *)
LEMMA ReadEndKeeps == SelectInv /\ ReadEnd => SelectInv'
<1> SUFFICES ASSUME SelectInv, ReadEnd PROVE SelectInv'
  OBVIOUS
<1>1. /\ Turn /\ pc = "scan" /\ i \in Slots /\ i <= maxi
      /\ \A c \in Conns : owed[c] = 0
  BY TurnAt DEF ReadEnd
<1>2. PICK c \in Conns, d \in Fds : d = client[i] /\ c = conn[d]
  BY <1>1, TurnAt
<1>3. /\ Served /\ UNCHANGED <<rset, maxfd, maxi, n, down, owed>> /\ Closing(d)
      /\ client' = [client EXCEPT ![i] = -1] /\ allset' = allset \ {d}
  BY <1>2 DEF ReadEnd, Forget
<1>4. NetInv' /\ \A e \in Fds : conn'[e] = IF e = d THEN NoConn ELSE conn[e]
  BY <1>3, CloseNet DEF SelectInv
<1>5. /\ client' \in [Slots -> {-1} \cup Fds]
      /\ \A s \in Slots : client'[s] = IF s = i THEN -1 ELSE client[s]
  BY <1>1, <1>3 DEF SelectInv, TypeOK
<1>6. PICK j \in Nat, m \in Nat : Rest(j, m)
  BY <1>1, RestOf
<1>7. Left(j, m)'
  <2>1. \A x \in Conns \ {c} : Readable(x) => Readable(x)'
    BY <1>3, ReadableStays DEF SelectInv
  <2> QED BY <1>1, <1>2, <1>3, <1>4, <1>5, <1>6, <2>1, RestStays
<1>8. Pass' /\ nready' \in Nat /\ i' \in 0 .. FdSetSize /\ pc' \in {"select", "scan"}
  BY <1>1, <1>3, <1>6, <1>7, ServedPass DEF SelectInv
<1>9. TypeOK'
  BY <1>3, <1>4, <1>5, <1>8 DEF SelectInv, TypeOK, NetInv
<1>10. Table'
  <2>1. \A s \in Slots :
          client'[s] \in Fds => s # i /\ client[s] = client'[s] /\ client'[s] # d
    BY <1>1, <1>2, <1>5, SlotsAreNats DEF SelectInv, Table
  <2>2. \A s \in Slots : client'[s] \in Fds => s <= maxi' /\ conn'[client'[s]] # NoConn
    BY <1>3, <1>4, <2>1 DEF SelectInv, Table
  <2>3. \A s, t \in Slots : client'[s] = client'[t] => client'[s] = -1 \/ s = t
    BY <1>5 DEF SelectInv, Table
  <2>4. \A e \in Fds : conn'[e] # NoConn => \E s \in Slots : client'[s] = e
    BY <1>2, <1>4, <1>5 DEF SelectInv, Table
  <2> QED BY <2>2, <2>3, <2>4 DEF Table
<1>11. Watched'
  BY <1>2, <1>3, <1>4, SlotsAreNats DEF SelectInv, Watched
<1>12. OwesNow'
  BY <1>1, <1>3, <1>8 DEF OwesNow
<1> QED BY <1>4, <1>8, <1>9, <1>10, <1>11, <1>12 DEF SelectInv

(* The turn ends with the table as it was and nothing owed: read or write   *)
(* failed, or all was written.                                              *)
LEMMA TurnOver ==
  ASSUME SelectInv, Turn \/ pc = "write", NEW c \in Conns, c = conn[client[i]],
         Failing(c) \/ Writing(c) \/ WriteFailing(c), Served,
         owed' = [owed EXCEPT ![c] = 0], UNCHANGED <<tableVars, rset, n, down>>
  PROVE  SelectInv'
<1>1. NetInv' /\ UNCHANGED conn
  BY TalkNet DEF SelectInv, Talks
<1>2. UNCHANGED <<client, allset, maxfd, maxi>>
  BY DEF tableVars
<1>3. PICK j \in Nat, m \in Nat : Rest(j, m)
  BY RestOf
<1>4. i \in Slots /\ \A x \in Conns \ {c} : owed[x] = 0
  BY TurnAt, WriteAt
<1>5. Left(j, m)'
  <2>1. \A x \in Conns \ {c} : Readable(x) => Readable(x)'
    BY ReadableStays DEF SelectInv
  <2> QED BY <1>1, <1>2, <1>3, <1>4, <2>1, RestStays
<1>6. Pass' /\ nready' \in Nat /\ i' \in 0 .. FdSetSize /\ pc' \in {"select", "scan"}
  BY <1>3, <1>4, <1>5, ServedPass DEF SelectInv
<1>7. owed' \in [Conns -> 0 .. BufSiz] /\ \A x \in Conns : owed'[x] = 0
  BY <1>4, SelectAssumption DEF SelectInv, TypeOK
<1>8. TypeOK'
  BY <1>1, <1>2, <1>6, <1>7 DEF SelectInv, TypeOK, NetInv
<1>9. Table' /\ Watched' /\ OwesNow'
  BY <1>1, <1>2, <1>6, <1>7 DEF SelectInv, Table, Watched, OwesNow
<1> QED BY <1>1, <1>6, <1>8, <1>9 DEF SelectInv

LEMMA ReadErrorKeeps == SelectInv /\ ReadError => SelectInv'
<1> SUFFICES ASSUME SelectInv, ReadError PROVE SelectInv'
  OBVIOUS
<1>1. PICK c \in Conns : c = conn[client[i]] /\ owed[c] = 0
  BY TurnAt DEF ReadError
<1>2. owed' = [owed EXCEPT ![c] = 0]
  BY <1>1 DEF ReadError, SelectInv, TypeOK
<1> QED BY <1>1, <1>2, TurnOver DEF ReadError

LEMMA WriteAllKeeps == SelectInv /\ WriteAll => SelectInv'
<1> SUFFICES ASSUME SelectInv, WriteAll PROVE SelectInv'
  OBVIOUS
<1>1. PICK c \in Conns : c = conn[client[i]] /\ owed[c] = n /\ n \in Nat
  BY WriteAt DEF WriteAll
<1>2. owed' = [owed EXCEPT ![c] = owed[c] - n]
  BY <1>1 DEF WriteAll
<1>3. owed[c] - n = 0
  BY <1>1
<1>4. owed' = [owed EXCEPT ![c] = 0]
  BY <1>2, <1>3
<1> QED BY <1>1, <1>4, TurnOver DEF WriteAll

LEMMA WriteFailsKeeps == SelectInv /\ WriteFails => SelectInv'
<1> SUFFICES ASSUME SelectInv, WriteFails PROVE SelectInv'
  OBVIOUS
<1>1. pc = "write" /\ UNCHANGED <<tableVars, rset, n>>
  BY DEF WriteFails
<1>2. PICK c \in Conns : c = conn[client[i]]
  BY <1>1, WriteAt
<1>3. CASE WriteFailing(c) /\ owed' = [owed EXCEPT ![c] = 0] /\ Served /\ UNCHANGED down
  BY <1>1, <1>2, <1>3, TurnOver
<1>4. CASE down' = TRUE /\ UNCHANGED <<owed, nready, i, pc, netVars>>
  BY <1>1, <1>4, QuietKeeps
<1> QED BY <1>2, <1>3, <1>4 DEF WriteFails

LEMMA SelectInvNext == SelectInv /\ [Next]_vars => SelectInv'
<1> SUFFICES ASSUME SelectInv, [Next]_vars PROVE SelectInv'
  OBVIOUS
<1>1. CASE Clients \/ UNCHANGED vars
  BY <1>1, QuietKeeps DEF Clients, vars, loopVars, SelectInv, TypeOK
<1> QED BY <1>1, SelectKeeps, AcceptKeeps, SkipKeeps, ReadSomeKeeps, ReadEndKeeps,
          ReadErrorKeeps, WriteAllKeeps, WriteFailsKeeps DEF Next, Server

-----------------------------------------------------------------------------
(* Every variable keeps its type in every execution.                        *)
THEOREM SelectTypeCorrect == Spec => []TypeOK
<1>1. SelectInv => TypeOK
  BY DEF SelectInv
<1> QED BY <1>1, SelectInvInit, SelectInvNext, PTL DEF Spec

(* The sets of select, the table client[] and the open descriptors agree.   *)
THEOREM WatchedAllAlways == Spec => []WatchedAll
<1>1. ASSUME SelectInv PROVE WatchedAll
  <2>1. ASSUME NEW d \in allset \ {LFd}
        PROVE  Cardinality({s \in Slots : client[s] = d /\ s <= maxi}) = 1
    <3>1. d \in Fds /\ conn[d] # NoConn
      BY <1>1 DEF SelectInv, Watched
    <3>2. PICK s \in Slots : client[s] = d
      BY <1>1, <3>1 DEF SelectInv, Table
    <3>3. {t \in Slots : client[t] = d /\ t <= maxi} = {s}
      BY <1>1, <3>1, <3>2, SlotsAreNats DEF SelectInv, Table
    <3> QED BY <3>3, FS_Singleton
  <2>2. \A s \in Slots : client[s] >= 0 => client[s] \in allset
    BY <1>1, InUse DEF SelectInv, Table, Watched
  <2> QED BY <1>1, <2>1, <2>2 DEF SelectInv, Watched, WatchedAll
<1> QED BY <1>1, SelectInvInit, SelectInvNext, PTL DEF Spec

(* The read of a turn does not wait, and nready counts exactly what select  *)
(* reported and main has not come to.                                       *)
THEOREM ReadsOnlyReadyAlways == Spec => []ReadsOnlyReady
<1>1. ASSUME SelectInv PROVE ReadsOnlyReady
  <2>1. Turn => Readable(conn[client[i]]) /\ nready > 0
    BY <1>1, ScanAt, TurnAt
  <2>2. ASSUME pc = "scan" PROVE Cardinality({s \in i .. maxi : Due(s)}) = nready
    <3>1. i \in Nat /\ maxi \in Int /\ maxi <= FdSetSize - 1 /\ Left(i, nready)
      BY <1>1, <2>2, ScanAt, SelectAssumption DEF SelectInv, TypeOK
    <3>2. \A s \in i .. maxi : s \in Slots
      BY <3>1, SelectAssumption DEF Slots
    <3>3. \A s \in Slots : Due(s) => s <= maxi
      BY <1>1, InUse DEF SelectInv, Table
    <3>4. \A s \in Slots : i <= s /\ s <= maxi => s \in i .. maxi
      BY <3>1, SlotsAreNats
    <3>5. \A s \in i .. maxi : i <= s
      BY <3>1
    <3>6. {s \in i .. maxi : Due(s)} = Remaining(i)
      BY <3>2, <3>3, <3>4, <3>5 DEF Remaining
    <3> QED BY <3>1, <3>6 DEF Left
  <2> QED BY <2>1, <2>2 DEF ReadsOnlyReady
<1> QED BY <1>1, SelectInvInit, SelectInvNext, PTL DEF Spec

(* Every connection gets an echo service of its own.                        *)
THEOREM SelectServerEchoes == Spec => ImplementsEchoService
<1> USE DEF Phase
<1>1. Init => Abstract!Init
  BY ClientAssumption DEF Init, NetInit, Abstract!Init, Open
<1>2. ASSUME SelectInv, [Next]_vars PROVE [Abstract!Next]_(Abstract!vars)
  <2>1. ASSUME UNCHANGED <<conn, owed>> PROVE UNCHANGED Abstract!vars
    BY <2>1 DEF Abstract!vars, Open
  <2>2. CASE Accept
    <3>1. ASSUME NEW c \in backlog, Accepting(c), FreeFds # {} PROVE Abstract!Take(c)
      <4>1. /\ Lowest \in Fds /\ conn[Lowest] = NoConn /\ c \in Conns /\ ~Open(c)
            /\ \A d \in Fds : conn'[d] = IF d = Lowest THEN c ELSE conn[d]
        BY <1>2, <3>1, AcceptNet DEF SelectInv, NetInv, NetType, Waiting
      <4>2. UNCHANGED owed /\ \A x \in Conns : owed[x] = 0
        BY <1>2, <2>2 DEF Accept, SelectInv, OwesNow
      <4>3. \A x \in Conns : Open(x)' <=> Open(x) \/ x = c
        BY <4>1, ClientAssumption DEF Open
      <4>4. Phase(c) = "outside" /\ Phase(c)' = "reading"
        BY <4>1, <4>2, <4>3
      <4>5. \A x \in Conns \ {c} : Phase(x)' = Phase(x)
        BY <4>2, <4>3
      <4> QED BY <4>1, <4>2, <4>4, <4>5 DEF Abstract!Take
    <3> QED BY <1>2, <2>1, <2>2, <3>1
            DEF Accept, netVars, Abstract!Next, SelectInv, NetInv, NetType
  <2>3. CASE ReadSome
    <3>1. PICK c \in Conns, k \in 1 .. BufSiz :
            /\ c = conn[client[i]] /\ Reading(c, k) /\ owed[c] = 0
            /\ owed' = [owed EXCEPT ![c] = k]
      BY <1>2, <2>3, ReadSomeAt
    <3>2. Open(c) /\ UNCHANGED conn /\ k > 0
      BY <1>2, <2>3, <3>1, TurnAt, SelectAssumption DEF ReadSome, Open, Reading
    <3>3. owed'[c] = k /\ \A x \in Conns \ {c} : owed'[x] = owed[x]
      BY <1>2, <3>1 DEF SelectInv, TypeOK
    <3>4. Phase(c) = "reading" /\ Phase(c)' = "replying"
      BY <3>1, <3>2, <3>3 DEF Open
    <3>5. \A x \in Conns \ {c} : Phase(x)' = Phase(x)
      BY <3>2, <3>3 DEF Open
    <3>6. Abstract!Receive(c)
      BY <3>1, <3>4, <3>5 DEF Abstract!Receive
    <3> QED BY <3>6 DEF Abstract!Next
  <2>4. ASSUME NEW c \in Conns, c = conn[client[i]], pc = "write", UNCHANGED conn,
               owed' = [owed EXCEPT ![c] = 0]
        PROVE  Abstract!Reply(c)
    <3>1. Open(c) /\ owed[c] > 0
      BY <1>2, <2>4, WriteAt DEF Open
    <3>2. owed'[c] = 0 /\ \A x \in Conns \ {c} : owed'[x] = owed[x]
      BY <1>2, <2>4 DEF SelectInv, TypeOK
    <3>3. Phase(c) = "replying" /\ Phase(c)' = "reading"
      BY <2>4, <3>1, <3>2 DEF Open
    <3>4. \A x \in Conns \ {c} : Phase(x)' = Phase(x)
      BY <2>4, <3>2 DEF Open
    <3> QED BY <2>4, <3>3, <3>4 DEF Abstract!Reply
  <2>5. CASE WriteAll
    <3>1. PICK c \in Conns : c = conn[client[i]] /\ owed[c] = n /\ n \in Nat /\ pc = "write"
      BY <1>2, <2>5, WriteAt DEF WriteAll
    <3>2. UNCHANGED conn /\ owed' = [owed EXCEPT ![c] = owed[c] - n]
      BY <2>5, <3>1 DEF WriteAll, Writing
    <3>3. owed[c] - n = 0
      BY <3>1
    <3>4. Abstract!Reply(c)
      BY <2>4, <3>1, <3>2, <3>3
    <3> QED BY <3>4 DEF Abstract!Next
  <2>6. CASE WriteFails
    <3>1. PICK c \in Conns : c = conn[client[i]] /\ pc = "write"
      BY <1>2, <2>6, WriteAt DEF WriteFails
    <3>2. CASE UNCHANGED conn /\ owed' = [owed EXCEPT ![c] = 0]
      BY <2>4, <3>1, <3>2 DEF Abstract!Next
    <3>3. CASE UNCHANGED <<owed, netVars>>
      BY <2>1, <3>3 DEF netVars
    <3> QED BY <2>6, <3>1, <3>2, <3>3 DEF WriteFails, WriteFailing
  <2>7. CASE ReadEnd
    <3>1. PICK d \in Fds, c \in Conns :
            d = client[i] /\ c = conn[d] /\ \A x \in Conns : owed[x] = 0
      BY <1>2, <2>7, TurnAt DEF ReadEnd
    <3>2. Closing(d) /\ UNCHANGED owed
      BY <2>7, <3>1 DEF ReadEnd
    <3>3. \A e \in Fds : conn'[e] = IF e = d THEN NoConn ELSE conn[e]
      BY <1>2, <3>2, CloseNet DEF SelectInv
    <3>4. Open(c) /\ \A x \in Conns : Open(x)' <=> Open(x) /\ x # c
      BY <1>2, <3>1, <3>3, ClientAssumption DEF Open, SelectInv, NetInv, NetType
    <3>5. Abstract!Drop({c})
      BY <3>1, <3>2, <3>4 DEF Abstract!Drop
    <3> QED BY <3>5 DEF Abstract!Next
  <2>8. CASE ReadError
    <3>1. UNCHANGED <<conn, owed>>
      BY <2>8 DEF ReadError, Failing
    <3> QED BY <2>1, <3>1
  <2>9. CASE Clients
    <3>1. UNCHANGED <<conn, owed>>
      BY <1>2, <2>9, TalkNet DEF SelectInv, Clients, Talks
    <3> QED BY <2>1, <3>1
  <2>10. CASE Select \/ Skip \/ UNCHANGED vars
    <3>1. UNCHANGED <<conn, owed>>
      BY <2>10 DEF Select, Skip, vars, netVars
    <3> QED BY <2>1, <3>1
  <2> QED BY <1>2, <2>2, <2>3, <2>5, <2>6, <2>7, <2>8, <2>9, <2>10 DEF Next, Server
<1> QED BY <1>1, <1>2, SelectInvInit, SelectInvNext, PTL
        DEF Spec, ImplementsEchoService, Abstract!Spec
=============================================================================
