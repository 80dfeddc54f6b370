-------------------------- MODULE PollServerProofs --------------------------
(***************************************************************************)
(* Proofs about the poll server, for every number of connections,          *)
(* descriptors and elements of client[].                                   *)
(***************************************************************************)
EXTENDS PollServer, StreamClientsProofs

(* The elements in use are those of the open descriptors, one each.         *)
Table ==
  /\ \A s \in Slots : fd[s] \in Fds => s <= maxi /\ conn[fd[s]] # NoConn
  /\ \A s, t \in Slots : fd[s] = fd[t] => fd[s] = -1 \/ s = t
  /\ \A d \in Fds : conn[d] # NoConn => \E s \in Slots : fd[s] = d

(* Main owes only what it is writing.                                       *)
OwesNow ==
  /\ pc = "write" =>
       /\ i \in Slots /\ fd[i] \in Fds /\ nleft > 0
       /\ owed[conn[fd[i]]] = nleft
  /\ \A c \in Conns :
       ~(pc = "write" /\ i \in Slots /\ fd[i] \in Fds /\ c = conn[fd[i]]) => owed[c] = 0

(* A pass of the loop.  g is maxi as it was when poll filled in the table:  *)
(* what poll reported lies at or below g, and nready counts what is left of *)
(* it, so that main turns back to poll before it comes to an element it has *)
(* just added.                                                              *)
Remaining(j, g) == {s \in Slots : j <= s /\ s <= g /\ Due(s)}

AllReadable(j, g) == \A s \in Remaining(j, g) : Readable(conn[fd[s]])

Left(j, g, k) == Cardinality(Remaining(j, g)) = k /\ AllReadable(j, g)

Pass ==
  /\ pc = "accept" =>
       /\ i = 1 /\ nready > 0 /\ Left(1, maxi, nready - 1)
       /\ \A s \in Slots : s <= maxi /\ revents[s] => fd[s] \in Fds
  /\ pc = "scan" =>
       nready > 0 /\ \E g \in Nat : g <= maxi /\ Left(i, g, nready)
  /\ pc = "write" =>
       nready > 0 /\ \E g \in Nat : i <= g /\ g <= maxi /\ Left(i + 1, g, nready - 1)

PollInv == TypeOK /\ NetInv /\ Table /\ OwesNow /\ Pass

(* The elements as numbers.                                                 *)
LEMMA SlotsAreNats ==
  /\ Slots \subseteq Nat /\ IsFiniteSet(Slots)
  /\ \A s \in Slots : s >= 1 /\ s <= OpenMax - 1
  /\ \A k \in Nat : 1 <= k /\ k <= OpenMax - 1 => k \in Slots
  /\ Fds \subseteq Nat /\ (\A d \in Fds : d > 0) /\ -1 \notin Fds
<1>1. OpenMax - 1 \in Nat
  BY PollAssumption
<1> QED BY <1>1, FS_Interval, PollAssumption, ClientAssumption DEF Slots, Fds

LEMMA PollInvInit == Init => PollInv
<1> SUFFICES ASSUME Init PROVE PollInv
  OBVIOUS
<1>1. NetInv /\ \A d \in Fds : conn[d] = NoConn
  BY NetInvInit DEF Init, NetInit
<1>2. /\ pc = "poll" /\ \A s \in Slots : fd[s] = -1
      /\ \A c \in Conns : owed[c] = 0
  BY DEF Init
<1>3. TypeOK
  <2>1. OpenMax \in Nat /\ OpenMax > 1 /\ MaxLine \in Nat
    BY PollAssumption
  <2>2. fd \in [Slots -> {-1} \cup Fds] /\ revents \in [Slots -> BOOLEAN]
    BY DEF Init
  <2>3. owed \in [Conns -> 0 .. MaxLine] /\ n \in 0 .. MaxLine /\ nleft \in 0 .. MaxLine
    BY <2>1 DEF Init
  <2>4. maxi \in 0 .. OpenMax - 1 /\ nready \in Nat /\ i \in 1 .. OpenMax
    BY <2>1 DEF Init
  <2>5. NetType
    BY <1>1 DEF NetInv
  <2> QED BY <2>2, <2>3, <2>4, <2>5 DEF Init, TypeOK
<1>4. Table /\ OwesNow /\ Pass
  BY <1>1, <1>2, SlotsAreNats DEF Table, OwesNow, Pass
<1> QED BY <1>1, <1>3, <1>4 DEF PollInv

(* What is left when the loop has passed element j.                         *)
LEMMA RemainingStep ==
  ASSUME TypeOK, NEW j \in Nat, NEW g \in Nat
  PROVE  /\ IsFiniteSet(Remaining(j, g)) /\ Cardinality(Remaining(j, g)) \in Nat
         /\ ~(j \in Slots /\ j <= g /\ Due(j)) => Remaining(j + 1, g) = Remaining(j, g)
         /\ j \in Slots /\ j <= g /\ Due(j) =>
              /\ j \in Remaining(j, g)
              /\ Remaining(j + 1, g) = Remaining(j, g) \ {j}
              /\ Cardinality(Remaining(j + 1, g)) = Cardinality(Remaining(j, g)) - 1
<1>1. IsFiniteSet(Remaining(j, g))
  BY SlotsAreNats, FS_Subset DEF Remaining
<1>2. Cardinality(Remaining(j, g)) \in Nat
  BY <1>1, FS_CardinalityType
<1>3. ~(j \in Slots /\ j <= g /\ Due(j)) => Remaining(j + 1, g) = Remaining(j, g)
  <2> SUFFICES ASSUME ~(j \in Slots /\ j <= g /\ Due(j)), NEW s \in Slots
               PROVE  j + 1 <= s /\ s <= g /\ Due(s) <=> j <= s /\ s <= g /\ Due(s)
    BY DEF Remaining
  <2>1. s \in Nat
    BY SlotsAreNats
  <2>2. CASE s = j
    BY <2>1, <2>2
  <2>3. CASE s # j
    BY <2>1, <2>3
  <2> QED BY <2>2, <2>3
<1>4. ASSUME j \in Slots, j <= g, Due(j)
      PROVE  /\ j \in Remaining(j, g)
             /\ Remaining(j + 1, g) = Remaining(j, g) \ {j}
             /\ Cardinality(Remaining(j + 1, g)) = Cardinality(Remaining(j, g)) - 1
  <2>1. j \in Remaining(j, g) /\ Remaining(j + 1, g) = Remaining(j, g) \ {j}
    <3>1. \A s \in Slots : j + 1 <= s <=> j <= s /\ s # j
      BY SlotsAreNats
    <3>2. j \in Slots /\ j <= j /\ j <= g /\ Due(j)
      BY <1>4
    <3>3. j \in Remaining(j, g)
      BY <3>2 DEF Remaining
    <3>4. ASSUME NEW s \in Slots
          PROVE  s \in Remaining(j + 1, g) <=> s \in Remaining(j, g) \ {j}
      BY <3>1 DEF Remaining
    <3>5. Remaining(j + 1, g) \subseteq Slots /\ Remaining(j, g) \subseteq Slots
      BY DEF Remaining
    <3> QED BY <3>3, <3>4, <3>5
  <2> QED BY <2>1, <1>1, FS_RemoveElement
<1> QED BY <1>1, <1>2, <1>3, <1>4

(* As long as nready is positive there is something left, so the element    *)
(* the loop is at is no new one.                                            *)
LEMMA ScanAt ==
  ASSUME PollInv, pc = "scan"
  PROVE  /\ i \in Slots /\ i <= maxi
         /\ \E g \in Nat :
              /\ i <= g /\ g <= maxi /\ Left(i, g, nready) /\ nready > 0
              /\ Due(i) => Readable(conn[fd[i]])
<1>1. PICK g \in Nat : g <= maxi /\ Left(i, g, nready) /\ nready > 0
  BY DEF PollInv, Pass
<1>2. i \in Nat /\ i >= 1 /\ maxi \in Nat /\ maxi <= OpenMax - 1
  BY PollAssumption DEF PollInv, TypeOK
<1>3. Remaining(i, g) # {}
  BY <1>1, FS_EmptySet DEF Left
<1>4. PICK s \in Slots : i <= s /\ s <= g
  BY <1>3 DEF Remaining
<1>5. i <= g /\ i <= maxi /\ i \in Slots
  BY <1>1, <1>2, <1>4, SlotsAreNats, PollAssumption
<1>6. Due(i) => i \in Remaining(i, g)
  BY <1>2, <1>5 DEF Remaining
<1> QED BY <1>1, <1>5, <1>6 DEF Left, AllReadable

(* In a turn of the loop the element is that of an open connection.         *)
LEMMA TurnAt ==
  ASSUME PollInv, Turn
  PROVE  /\ pc = "scan" /\ ~down /\ i \in Slots /\ i <= maxi /\ Due(i)
         /\ fd[i] \in Fds /\ conn[fd[i]] \in Conns
         /\ \A c \in Conns : owed[c] = 0
<1>1. pc = "scan" /\ ~down /\ i \in Slots /\ i <= maxi /\ Due(i)
  BY ScanAt DEF Turn
<1>2. fd[i] \in Fds
  BY <1>1 DEF PollInv, TypeOK, Due
<1>3. conn[fd[i]] \in Conns
  BY <1>1, <1>2 DEF PollInv, Table, NetInv, NetType
<1> QED BY <1>1, <1>2, <1>3 DEF PollInv, OwesNow

(* What is in the table and ready is so after a step that leaves the table, *)
(* its connections and what can be read of them alone.                      *)
LEMMA LeftStays ==
  ASSUME TypeOK, Table, NEW j, NEW g, NEW k, Left(j, g, k),
         \A s \in Slots : j <= s /\ s <= g =>
             (Due(s)' <=> Due(s)) /\ (Due(s) => conn'[fd'[s]] = conn[fd[s]]),
         \A s \in Remaining(j, g) : Readable(conn[fd[s]]) => Readable(conn[fd[s]])'
  PROVE  Left(j, g, k)'
<1>1. Remaining(j, g)' = Remaining(j, g)
  BY DEF Remaining
<1>2. ASSUME NEW s \in Remaining(j, g)
      PROVE  Readable(conn[fd[s]])'
  <2>1. (conn[fd[s]])' = conn[fd[s]]
    BY DEF Remaining
  <2>2. Readable(conn[fd[s]])
    BY DEF Left, AllReadable
  <2> QED BY <2>1, <2>2 DEF Readable
<1> QED BY <1>1, <1>2 DEF Left, AllReadable

-----------------------------------------------------------------------------
LEMMA PollKeeps == PollInv /\ Poll => PollInv'
<1> SUFFICES ASSUME PollInv, Poll PROVE PollInv'
  OBVIOUS
<1> DEFINE R == {s \in Slots : Ready(s)}
           more == IF backlog # {} THEN 1 ELSE 0
<1>1. /\ pc = "poll" /\ i' = 1 /\ (R # {} \/ backlog # {})
      /\ revents' = [s \in Slots |-> IF s <= maxi THEN s \in R ELSE revents[s]]
      /\ nready' = Cardinality(R) + more
      /\ pc' = IF backlog # {} THEN "accept" ELSE "scan"
      /\ UNCHANGED <<fd, maxi, n, nleft, down, owed, netVars>>
  BY DEF Poll
<1>2. IsFiniteSet(R) /\ Cardinality(R) \in Nat /\ (Cardinality(R) = 0 <=> R = {})
  BY SlotsAreNats, FS_Subset, FS_CardinalityType, FS_EmptySet
<1>3. /\ revents' \in [Slots -> BOOLEAN]
      /\ \A s \in Slots : s <= maxi => (revents'[s] <=> s \in R)
  <2>1. \A s \in Slots : (IF s <= maxi THEN s \in R ELSE revents[s]) \in BOOLEAN
    <3>1. \A s \in Slots : (s \in R) \in BOOLEAN /\ revents[s] \in BOOLEAN
      BY DEF PollInv, TypeOK
    <3> QED BY <3>1, Zenon
  <2>2. revents' \in [Slots -> BOOLEAN]
    BY <1>1, <2>1, Zenon
  <2>3. \A s \in Slots : revents'[s] = IF s <= maxi THEN s \in R ELSE revents[s]
    BY <1>1, Zenon
  <2> QED BY <2>2, <2>3
<1>4. NetInv' /\ UNCHANGED conn /\ \A c \in Conns : Readable(c)' <=> Readable(c)
  <2>1. NetInv'
    BY <1>1, TalkNet DEF PollInv, Talks
  <2> QED BY <1>1, <2>1 DEF netVars, Readable
<1>5. TypeOK'
  <2>1. nready' \in Nat /\ i' \in 1 .. OpenMax
    BY <1>1, <1>2, PollAssumption
  <2> QED BY <1>1, <1>3, <1>4, <2>1 DEF PollInv, TypeOK, NetInv
<1>6. Table' /\ OwesNow'
  BY <1>1, <1>4 DEF PollInv, Table, OwesNow
<1>7. Remaining(1, maxi)' = R /\ AllReadable(1, maxi)'
  <2>1. \A s \in Slots : s <= maxi => (Due(s)' <=> s \in R)
    BY <1>1, <1>3 DEF Due, Ready
  <2>2. \A s \in R : s <= maxi /\ Readable(conn[fd[s]])' /\ s >= 1
    BY <1>1, SlotsAreNats DEF Ready, Readable, netVars
  <2>3. Remaining(1, maxi)' = R
    BY <1>1, <2>1, <2>2, SlotsAreNats DEF Remaining
  <2>4. \A s \in R : (Readable(conn[fd[s]]))'
    BY <1>1, <2>2 DEF Readable, netVars
  <2> QED BY <2>3, <2>4 DEF AllReadable
<1>8. Pass'
  <2>1. maxi' = maxi /\ maxi \in Nat /\ pc' # "write"
    BY <1>1, PollAssumption DEF PollInv, TypeOK
  <2>2. CASE backlog # {}
    <3>1. nready' > 0 /\ nready' - 1 = Cardinality(R) /\ pc' = "accept"
      BY <1>1, <1>2, <2>2
    <3>2. Left(1, maxi, nready - 1)'
      BY <1>7, <3>1 DEF Left
    <3>3. \A s \in Slots : s <= maxi /\ revents'[s] => fd[s] \in Fds
      BY <1>3 DEF Ready, PollInv, TypeOK
    <3> QED BY <1>1, <3>1, <3>2, <3>3 DEF Pass
  <2>3. CASE backlog = {}
    <3>1. nready' > 0 /\ nready' = Cardinality(R) /\ pc' = "scan"
      BY <1>1, <1>2, <2>3
    <3>2. Left(i, maxi, nready)'
      BY <1>1, <1>7, <3>1 DEF Left, Remaining, AllReadable
    <3> QED BY <1>1, <2>1, <3>1, <3>2 DEF Pass
  <2> QED BY <2>2, <2>3
<1> QED BY <1>4, <1>5, <1>6, <1>8 DEF PollInv
LEMMA VacantIsFree ==
  ASSUME Vacant # {}, TypeOK
  PROVE  Min(Vacant) \in Slots /\ fd[Min(Vacant)] = -1
<1>1. Vacant \in SUBSET Nat
  BY SlotsAreNats DEF Vacant
<1>2. Min(Vacant) \in Vacant
  BY <1>1, MinOfNats
<1>3. PICK s \in Slots : s = Min(Vacant) /\ fd[s] < 0
  BY <1>2 DEF Vacant
<1>4. fd[s] = -1
  <2>1. fd[s] \in {-1} \cup Fds
    BY DEF TypeOK
  <2>2. \A d \in Fds : ~(d < 0)
    BY SlotsAreNats
  <2> QED BY <1>3, <2>1, <2>2
<1> QED BY <1>3, <1>4

(* A step of the clients, or one that changes nothing but down.             *)
LEMMA QuietKeeps ==
  ASSUME PollInv, UNCHANGED <<tableVars, nready, i, n, nleft, pc, owed>>,
         down' \in BOOLEAN,
         (\E c \in Conns : Peer(c)) \/ UNCHANGED netVars
  PROVE  PollInv'
<1>1. NetInv' /\ UNCHANGED conn
  BY TalkNet DEF PollInv, Talks
<1>2. \A x \in Conns : Readable(x) => Readable(x)'
  BY ReadableStays DEF PollInv
<1>3. UNCHANGED <<fd, revents, maxi, nready, i, n, nleft, pc, owed>>
  BY DEF tableVars
<1>4. TypeOK'
  BY <1>1, <1>3 DEF PollInv, TypeOK, NetInv
<1>5. Table' /\ OwesNow'
  BY <1>1, <1>3 DEF PollInv, Table, OwesNow
<1>6. ASSUME NEW j, NEW g, NEW k, Left(j, g, k) PROVE Left(j, g, k)'
  <2>1. \A s \in Slots : (Due(s)' <=> Due(s)) /\ conn'[fd'[s]] = conn[fd[s]]
    BY <1>1, <1>3 DEF Due
  <2>2. ASSUME NEW s \in Remaining(j, g), Readable(conn[fd[s]])
        PROVE  Readable(conn[fd[s]])'
    <3>1. PICK x \in Conns : x = conn[fd[s]]
      BY DEF Remaining, Due, PollInv, TypeOK, Table, NetInv, NetType
    <3>2. (conn[fd[s]])' = x
      BY <1>1, <1>3, <3>1
    <3> QED BY <1>2, <2>2, <3>1, <3>2 DEF Readable
  <2> QED BY <1>6, <2>1, <2>2, LeftStays DEF PollInv
<1>7. Pass'
  <2>1. pc = "accept" => Left(1, maxi, nready - 1)'
    <3> SUFFICES ASSUME pc = "accept" PROVE Left(1, maxi, nready - 1)'
      OBVIOUS
    <3>1. PICK g, k : g = maxi /\ k = nready - 1 /\ Left(1, g, k)
      BY DEF PollInv, Pass
    <3>2. Left(1, g, k)'
      BY <1>6, <3>1
    <3> QED BY <1>3, <3>1, <3>2 DEF Left, AllReadable, Remaining
  <2>2. ASSUME NEW g \in Nat, Left(i, g, nready) PROVE Left(i, g, nready)'
    <3>1. PICK j, k : j = i /\ k = nready /\ Left(j, g, k)
      BY <2>2
    <3>2. Left(j, g, k)'
      BY <1>6, <3>1
    <3> QED BY <1>3, <3>1, <3>2 DEF Left, AllReadable, Remaining
  <2>3. ASSUME NEW g \in Nat, Left(i + 1, g, nready - 1)
        PROVE  Left(i + 1, g, nready - 1)'
    <3>1. PICK j, k : j = i + 1 /\ k = nready - 1 /\ Left(j, g, k)
      BY <2>3
    <3>2. Left(j, g, k)'
      BY <1>6, <3>1
    <3> QED BY <1>3, <3>1, <3>2 DEF Left, AllReadable, Remaining
  <2> QED BY <1>3, <2>1, <2>2, <2>3 DEF PollInv, Pass
<1> QED BY <1>1, <1>4, <1>5, <1>7 DEF PollInv

LEMMA AcceptKeeps == PollInv /\ Accept => PollInv'
<1> SUFFICES ASSUME PollInv, Accept PROVE PollInv'
  OBVIOUS
<1>1. pc = "accept"
  BY DEF Accept
<1>2. CASE down' = TRUE /\ UNCHANGED <<tableVars, nready, i, n, nleft, pc, owed, netVars>>
  BY <1>2, QuietKeeps
<1>3. ASSUME NEW c \in backlog, FreeFds # {}, Vacant # {}, Accepting(c),
             fd' = [fd EXCEPT ![Min(Vacant)] = Lowest],
             maxi' = MaxiWith(Min(Vacant)),
             \E g \in IF Min(Vacant) > maxi THEN BOOLEAN ELSE {revents[Min(Vacant)]} :
                  revents' = [revents EXCEPT ![Min(Vacant)] = g],
             nready' = AfterAccept, i' = 1,
             pc' = IF AfterAccept <= 0 THEN "poll" ELSE "scan",
             UNCHANGED <<n, nleft, down, owed>>
      PROVE  PollInv'
  <2>1. PICK s \in Slots, d \in Fds :
          s = Min(Vacant) /\ fd[s] = -1 /\ d = Lowest /\ conn[d] = NoConn
    BY <1>3, VacantIsFree, LowestIsFree DEF PollInv
  <2>2. NetInv' /\ \A e \in Fds : conn'[e] = IF e = d THEN c ELSE conn[e]
    BY <1>3, <2>1, AcceptNet DEF PollInv
  <2>3. /\ fd' \in [Slots -> {-1} \cup Fds]
        /\ \A t \in Slots : fd'[t] = IF t = s THEN d ELSE fd[t]
    BY <1>3, <2>1 DEF PollInv, TypeOK
  <2>4. /\ revents' \in [Slots -> BOOLEAN]
        /\ \A t \in Slots \ {s} : revents'[t] = revents[t]
        /\ s <= maxi => revents'[s] = revents[s]
    <3>1. PICK g \in BOOLEAN :
            revents' = [revents EXCEPT ![s] = g] /\ (s <= maxi => g = revents[s])
      <4>1. s \in Nat /\ maxi \in Nat /\ revents[s] \in BOOLEAN
        BY SlotsAreNats DEF PollInv, TypeOK
      <4>2. PICK g \in IF s > maxi THEN BOOLEAN ELSE {revents[s]} :
                 revents' = [revents EXCEPT ![s] = g]
        BY <1>3, <2>1
      <4>3. s <= maxi => ~(s > maxi)
        BY <4>1
      <4>4. g \in BOOLEAN /\ (s <= maxi => g = revents[s])
        <5>1. CASE s > maxi
          BY <4>2, <4>3, <5>1
        <5>2. CASE ~(s > maxi)
          BY <4>1, <4>2, <5>2
        <5> QED BY <5>1, <5>2
      <4> QED BY <4>2, <4>4
    <3> QED BY <2>1, <3>1 DEF PollInv, TypeOK
  <2>5. /\ maxi' \in Nat /\ maxi' \in 0 .. OpenMax - 1
        /\ maxi \in Nat /\ maxi <= maxi' /\ s <= maxi'
    BY <1>3, <2>1, SlotsAreNats, PollAssumption DEF MaxiWith, PollInv, TypeOK
  <2>6. /\ nready' = nready - 1 /\ nready' \in Nat /\ Left(1, maxi, nready')
        /\ \A t \in Slots : t <= maxi /\ revents[t] => fd[t] \in Fds
    BY <1>1, <1>3 DEF AfterAccept, PollInv, Pass, TypeOK
  <2>7. pc' \in {"poll", "scan"} /\ (pc' = "scan" => nready' > 0)
    BY <1>3, <2>6 DEF AfterAccept
  <2>8. TypeOK'
    BY <1>3, <2>2, <2>3, <2>4, <2>5, <2>6, <2>7, PollAssumption
       DEF PollInv, TypeOK, NetInv
  <2>9. Table'
    <3>1. c # NoConn
      BY ClientAssumption DEF PollInv, NetInv, NetType
    <3>2. \A t \in Slots : fd[t] # d
      BY <2>1 DEF PollInv, Table
    <3>3. \A t \in Slots : fd'[t] \in Fds => t <= maxi' /\ conn'[fd'[t]] # NoConn
      <4> SUFFICES ASSUME NEW t \in Slots, fd'[t] \in Fds
                   PROVE  t <= maxi' /\ conn'[fd'[t]] # NoConn
        OBVIOUS
      <4>1. CASE t = s
        BY <2>1, <2>2, <2>3, <2>5, <3>1, <4>1
      <4>2. CASE t # s
        <5>1. t <= maxi /\ conn[fd[t]] # NoConn /\ fd[t] \in Fds
          BY <2>3, <4>2 DEF PollInv, Table
        <5>2. t \in Nat
          BY SlotsAreNats
        <5>3. t <= maxi'
          BY <2>5, <5>1, <5>2
        <5> QED BY <2>2, <2>3, <3>1, <4>2, <5>1, <5>3
      <4> QED BY <4>1, <4>2
    <3>4. \A t, u \in Slots : fd'[t] = fd'[u] => fd'[t] = -1 \/ t = u
      BY <2>1, <2>3, <3>2 DEF PollInv, Table
    <3>5. \A e \in Fds : conn'[e] # NoConn => \E t \in Slots : fd'[t] = e
      <4> SUFFICES ASSUME NEW e \in Fds, conn'[e] # NoConn, e # d
                   PROVE  \E t \in Slots : fd'[t] = e
        BY <2>1, <2>3
      <4>1. PICK t \in Slots : fd[t] = e
        BY <2>2 DEF PollInv, Table
      <4>2. t # s
        BY <2>1, <4>1, SlotsAreNats
      <4> QED BY <2>3, <4>1, <4>2
    <3> QED BY <3>3, <3>4, <3>5 DEF Table
  <2>10. OwesNow'
    BY <1>1, <1>3, <2>7 DEF PollInv, OwesNow
  <2>11. PICK g \in Nat, k \in Nat : g = maxi /\ k = nready'
    BY <2>5, <2>6
  <2>12. Left(1, g, k)'
    <3>1. \A t \in Slots : t <= g => (Due(t)' <=> Due(t)) /\ (Due(t) => t # s)
      <4> SUFFICES ASSUME NEW t \in Slots, t <= g
                   PROVE  (Due(t)' <=> Due(t)) /\ (Due(t) => t # s)
        OBVIOUS
      <4>1. CASE t = s
        <5>1. ~revents[s] /\ ~revents'[s]
          BY <2>1, <2>4, <2>6, <2>11, <4>1, SlotsAreNats
        <5> QED BY <4>1, <5>1 DEF Due
      <4>2. CASE t # s
        BY <2>3, <2>4, <4>2 DEF Due
      <4> QED BY <4>1, <4>2
    <3>2. \A t \in Slots : Due(t) => fd[t] \in Fds /\ conn[fd[t]] \in Conns /\ fd[t] # d
      BY <2>1 DEF Due, PollInv, TypeOK, Table, NetInv, NetType
    <3>3. \A t \in Slots : t <= g /\ Due(t) => conn'[fd'[t]] = conn[fd[t]]
      BY <2>2, <2>3, <3>1, <3>2
    <3>4. \A x \in Conns : Readable(x) => Readable(x)'
      BY <1>3, ReadableStays DEF PollInv, NetInv, NetType
    <3>5. \A t \in Remaining(1, g) : Readable(conn[fd[t]]) => Readable(conn[fd[t]])'
      <4> SUFFICES ASSUME NEW t \in Remaining(1, g), Readable(conn[fd[t]])
                   PROVE  Readable(conn[fd[t]])'
        OBVIOUS
      <4>1. PICK x \in Conns : x = conn[fd[t]]
        BY <3>2 DEF Remaining
      <4>2. (conn[fd[t]])' = x
        BY <3>3, <4>1 DEF Remaining
      <4> QED BY <3>4, <4>1, <4>2 DEF Readable
    <3>6. Left(1, g, k)
      BY <2>6, <2>11
    <3> QED BY <3>1, <3>3, <3>5, <3>6, LeftStays DEF PollInv
  <2>13. g <= maxi' /\ k = nready' /\ i' = 1
    BY <1>3, <2>5, <2>11
  <2>14. Pass'
    BY <2>7, <2>12, <2>13 DEF Pass, Left, AllReadable, Remaining
  <2> QED BY <2>2, <2>8, <2>9, <2>10, <2>14 DEF PollInv
<1> QED BY <1>2, <1>3, Zenon DEF Accept
(* Main moves on to the next element.                                       *)
LEMMA SkipKeeps == PollInv /\ Skip => PollInv'
<1> SUFFICES ASSUME PollInv, Skip PROVE PollInv'
  OBVIOUS
<1>1. /\ pc = "scan"
      /\ UNCHANGED <<tableVars, nready, n, nleft, down, owed, netVars>>
  BY DEF Skip
<1>2. PICK g \in Nat : /\ i <= g /\ g <= maxi /\ Left(i, g, nready) /\ nready > 0
                       /\ i \in Slots
  BY <1>1, ScanAt
<1>3. i \in Nat /\ i \in Slots /\ i + 1 \in 1 .. OpenMax /\ ~(i > LastScanned)
  BY <1>2, SlotsAreNats, PollAssumption DEF Slots, PollInv, TypeOK, LastScanned
<1>4. ~Due(i) /\ i' = i + 1 /\ pc' = pc
  BY <1>3 DEF Skip
<1>5. UNCHANGED <<fd, revents, maxi, nready, n, nleft, down, owed, netVars,
                  conn, unread, peer>>
  BY <1>1 DEF tableVars, netVars
<1>6. NetInv'
  BY <1>5, TalkNet DEF PollInv, Talks, netVars
<1>7. TypeOK'
  BY <1>3, <1>4, <1>5, <1>6 DEF PollInv, TypeOK, NetInv
<1>8. Table' /\ OwesNow'
  BY <1>1, <1>4, <1>5 DEF PollInv, Table, OwesNow
<1>9. Left(i, g, nready)'
  <2>1. Remaining(i + 1, g) = Remaining(i, g)
    BY <1>2, <1>3, <1>4, RemainingStep DEF PollInv
  <2>2. Left(i + 1, g, nready)
    BY <1>2, <2>1 DEF Left, AllReadable
  <2>3. Remaining(i, g)' = Remaining(i + 1, g)
    BY <1>4, <1>5 DEF Remaining, Due
  <2> QED BY <1>5, <2>2, <2>3 DEF Left, AllReadable, Readable
<1>10. Pass'
  BY <1>1, <1>2, <1>4, <1>5, <1>9 DEF Pass
<1> QED BY <1>6, <1>7, <1>8, <1>10 DEF PollInv

(* What the pass has left after element i.  No element of it is i's, nor    *)
(* its connection.                                                          *)
Rest(g, j, m) ==
  /\ j = i + 1 /\ m = nready - 1 /\ nready > 0 /\ i <= g /\ g <= maxi
  /\ Left(j, g, m)
  /\ \A s \in Remaining(j, g) :
       /\ s \in Slots \ {i} /\ j <= s /\ fd[s] \in Fds /\ fd[s] # fd[i]
       /\ conn[fd[s]] \in Conns /\ conn[fd[s]] # conn[fd[i]]

LEMMA RestOf ==
  ASSUME PollInv, Turn \/ pc = "write"
  PROVE  \E g \in Nat, j \in Nat, m \in Nat : Rest(g, j, m)
<1>1. i \in Slots /\ i \in Nat /\ fd[i] \in Fds /\ nready \in Nat /\ nready > 0
  BY TurnAt, ScanAt DEF PollInv, TypeOK, OwesNow, Pass
<1>2. PICK g \in Nat : i <= g /\ g <= maxi /\ Left(i + 1, g, nready - 1)
  <2>1. CASE Turn
    <3>1. PICK g \in Nat : i <= g /\ g <= maxi /\ Left(i, g, nready) /\ Due(i)
      BY <2>1, TurnAt, ScanAt
    <3>2. /\ Remaining(i + 1, g) = Remaining(i, g) \ {i}
          /\ Cardinality(Remaining(i + 1, g)) = Cardinality(Remaining(i, g)) - 1
      BY <1>1, <3>1, RemainingStep DEF PollInv
    <3> QED BY <3>1, <3>2 DEF Left, AllReadable
  <2>2. CASE pc = "write"
    BY <2>2 DEF PollInv, Pass
  <2> QED BY <2>1, <2>2
<1>3. PICK j \in Nat, m \in Nat : j = i + 1 /\ m = nready - 1
  BY <1>1
<1>4. ASSUME NEW s \in Remaining(j, g)
      PROVE  /\ s \in Slots \ {i} /\ j <= s /\ fd[s] \in Fds /\ fd[s] # fd[i]
             /\ conn[fd[s]] \in Conns /\ conn[fd[s]] # conn[fd[i]]
  <2>1. s \in Slots /\ s # i /\ j <= s /\ Due(s)
    BY <1>1, <1>3 DEF Remaining
  <2>2. fd[s] \in Fds
    BY <2>1 DEF PollInv, TypeOK, Due
  <2>3. fd[s] # fd[i] /\ conn[fd[s]] # NoConn
    BY <1>1, <2>1, <2>2, SlotsAreNats DEF PollInv, Table
  <2> QED BY <1>1, <2>1, <2>2, <2>3 DEF PollInv, NetInv, NetType
<1> QED BY <1>1, <1>2, <1>3, <1>4 DEF Rest

LEMMA RestStays ==
  ASSUME PollInv, NEW c \in Conns, c = conn[fd[i]],
         NEW g \in Nat, NEW j \in Nat, NEW m \in Nat, Rest(g, j, m),
         i \in Slots, UNCHANGED revents,
         \A s \in Slots \ {i} : fd'[s] = fd[s],
         \A d \in Fds \ {fd[i]} : conn'[d] = conn[d],
         \A x \in Conns \ {c} : Readable(x) => Readable(x)'
  PROVE  Left(j, g, m)'
<1>1. \A s \in Slots : j <= s => s # i
  BY SlotsAreNats DEF Rest
<1>2. \A s \in Slots : j <= s /\ s <= g => (Due(s)' <=> Due(s))
  BY <1>1 DEF Due
<1>3. \A s \in Slots : j <= s /\ s <= g /\ Due(s) => s \in Remaining(j, g)
  BY DEF Remaining
<1>4. \A s \in Slots : j <= s /\ s <= g /\ Due(s) => conn'[fd'[s]] = conn[fd[s]]
  BY <1>3 DEF Rest
<1>5. ASSUME NEW s \in Remaining(j, g), Readable(conn[fd[s]])
      PROVE  Readable(conn[fd[s]])'
  <2>1. PICK x \in Conns \ {c} : x = conn[fd[s]]
    BY DEF Rest
  <2>2. (conn[fd[s]])' = x
    BY <1>4, <2>1 DEF Remaining
  <2>3. Readable(x)'
    BY <1>5, <2>1
  <2> QED BY <2>2, <2>3 DEF Readable
<1>6. Left(j, g, m)
  BY DEF Rest
<1> QED BY <1>2, <1>4, <1>5, <1>6, LeftStays DEF PollInv

LEMMA ServedPass ==
  ASSUME TypeOK, i \in Slots, Served, UNCHANGED maxi,
         NEW g \in Nat, NEW j \in Nat, NEW m \in Nat, Rest(g, j, m), Left(j, g, m)'
  PROVE  /\ Pass' /\ nready' \in Nat /\ i' \in 1 .. OpenMax
         /\ pc' \in {"poll", "scan"}
<1>1. i' = j /\ nready' = m /\ pc' \in {"poll", "scan"} /\ (pc' = "scan" => m > 0)
  BY DEF Served, Rest
<1>2. i' \in 1 .. OpenMax
  BY PollAssumption DEF Served, Slots
<1>3. Left(i, g, nready)'
  BY <1>1 DEF Left, AllReadable, Remaining
<1>4. g <= maxi'
  BY DEF Rest
<1> QED BY <1>1, <1>2, <1>3, <1>4 DEF Pass

LEMMA ReadSomeKeeps == PollInv /\ ReadSome => PollInv'
<1> SUFFICES ASSUME PollInv, ReadSome PROVE PollInv'
  OBVIOUS
<1>1. /\ Turn /\ pc = "scan" /\ ~down /\ i \in Slots /\ i <= maxi /\ Due(i)
      /\ \A c \in Conns : owed[c] = 0
  BY TurnAt DEF ReadSome
<1>2. PICK c \in Conns : c = conn[fd[i]]
  BY <1>1, TurnAt
<1>3. PICK k \in 1 .. MaxLine :
        /\ k <= unread[c] /\ Reading(c, k) /\ n' = k /\ nleft' = k
        /\ owed' = [owed EXCEPT ![c] = owed[c] + k]
  <2>1. unread[c] \in Nat /\ MaxLine \in Nat
    BY PollAssumption DEF PollInv, NetInv, NetType
  <2>2. PICK k : k = Min({unread[c], MaxLine})
    OBVIOUS
  <2>3. k \in Nat /\ k <= unread[c] /\ k <= MaxLine
    BY <2>1, <2>2, MinOfTwo
  <2>4. /\ k > 0 /\ Reading(c, k) /\ n' = k /\ nleft' = k
        /\ owed' = [owed EXCEPT ![c] = owed[c] + k]
    BY <1>2, <2>2 DEF ReadSome
  <2>5. k \in 1 .. MaxLine
    BY <2>1, <2>3, <2>4
  <2> QED BY <2>3, <2>4, <2>5
<1>4. pc' = "write" /\ UNCHANGED <<fd, revents, maxi, nready, i, down>>
  BY DEF ReadSome, tableVars
<1>5. NetInv' /\ UNCHANGED conn
  BY <1>3, TalkNet DEF PollInv, Talks
<1>6. /\ owed' \in [Conns -> 0 .. MaxLine] /\ owed'[c] = k
      /\ \A x \in Conns \ {c} : owed'[x] = 0
  <2>1. owed[c] + k = k /\ k \in 0 .. MaxLine
    BY <1>1, PollAssumption
  <2> QED BY <1>1, <1>3, <2>1 DEF PollInv, TypeOK
<1>7. TypeOK'
  BY <1>3, <1>4, <1>5, <1>6, PollAssumption DEF PollInv, TypeOK, NetInv
<1>8. Table'
  BY <1>4, <1>5 DEF PollInv, Table
<1>9. OwesNow'
  <2>1. fd[i] \in Fds /\ k > 0
    BY <1>1, TurnAt
  <2> QED BY <1>1, <1>2, <1>3, <1>4, <1>5, <1>6, <2>1 DEF OwesNow
<1>10. PICK g \in Nat, j \in Nat, m \in Nat : Rest(g, j, m)
  BY <1>1, RestOf
<1>11. Left(j, g, m)'
  <2>1. \A x \in Conns \ {c} : Readable(x) => Readable(x)'
    BY <1>3, ReadableStays DEF PollInv
  <2> QED BY <1>1, <1>2, <1>4, <1>5, <1>10, <2>1, RestStays
<1>12. Pass'
  BY <1>4, <1>10, <1>11 DEF Pass, Left, AllReadable, Remaining, Rest
<1> QED BY <1>5, <1>7, <1>8, <1>9, <1>12 DEF PollInv

(* End of file, or ECONNRESET: the element and the descriptor are given up  *)
(* together.                                                                *)
LEMMA ReadEndKeeps == PollInv /\ ReadEnd => PollInv'
<1> SUFFICES ASSUME PollInv, ReadEnd PROVE PollInv'
  OBVIOUS
<1>1. /\ Turn /\ pc = "scan" /\ i \in Slots /\ i <= maxi
      /\ \A c \in Conns : owed[c] = 0
  BY TurnAt DEF ReadEnd
<1>2. PICK c \in Conns, d \in Fds : d = fd[i] /\ c = conn[d]
  BY <1>1, TurnAt
<1>3. /\ Served /\ UNCHANGED <<revents, maxi, n, nleft, down, owed>> /\ Closing(d)
      /\ fd' = [fd EXCEPT ![i] = -1]
  BY <1>2 DEF ReadEnd, CloseSlot
<1>4. NetInv' /\ \A e \in Fds : conn'[e] = IF e = d THEN NoConn ELSE conn[e]
  BY <1>3, CloseNet DEF PollInv
<1>5. /\ fd' \in [Slots -> {-1} \cup Fds]
      /\ \A s \in Slots : fd'[s] = IF s = i THEN -1 ELSE fd[s]
  BY <1>1, <1>3 DEF PollInv, TypeOK
<1>6. PICK g \in Nat, j \in Nat, m \in Nat : Rest(g, j, m)
  BY <1>1, RestOf
<1>7. Left(j, g, m)'
  <2>1. \A x \in Conns \ {c} : Readable(x) => Readable(x)'
    BY <1>3, ReadableStays DEF PollInv
  <2> QED BY <1>2, <1>3, <1>4, <1>5, <1>6, <2>1, RestStays
<1>8. Pass' /\ nready' \in Nat /\ i' \in 1 .. OpenMax /\ pc' \in {"poll", "scan"}
  BY <1>1, <1>3, <1>6, <1>7, ServedPass DEF PollInv
<1>9. TypeOK'
  BY <1>3, <1>4, <1>5, <1>8 DEF PollInv, TypeOK, NetInv
<1>10. Table'
  <2>1. \A s \in Slots : fd'[s] \in Fds => s # i /\ fd[s] = fd'[s] /\ fd'[s] # d
    BY <1>1, <1>2, <1>5, SlotsAreNats DEF PollInv, Table
  <2>2. \A s \in Slots : fd'[s] \in Fds => s <= maxi' /\ conn'[fd'[s]] # NoConn
    BY <1>3, <1>4, <2>1 DEF PollInv, Table
  <2>3. \A s, t \in Slots : fd'[s] = fd'[t] => fd'[s] = -1 \/ s = t
    BY <1>5 DEF PollInv, Table
  <2>4. \A e \in Fds : conn'[e] # NoConn => \E s \in Slots : fd'[s] = e
    BY <1>2, <1>4, <1>5 DEF PollInv, Table
  <2> QED BY <2>2, <2>3, <2>4 DEF Table
<1>11. OwesNow'
  BY <1>1, <1>3, <1>8 DEF OwesNow
<1> QED BY <1>4, <1>8, <1>9, <1>10, <1>11 DEF PollInv

(* A write in Writen that leaves something, or the last one.                *)
LEMMA WriteAt ==
  ASSUME PollInv, pc = "write"
  PROVE  /\ i \in Slots /\ fd[i] \in Fds /\ conn[fd[i]] \in Conns
         /\ nleft \in Nat \ {0} /\ owed[conn[fd[i]]] = nleft
         /\ \A c \in Conns : c # conn[fd[i]] => owed[c] = 0
<1>1. i \in Slots /\ fd[i] \in Fds
  BY DEF PollInv, OwesNow
<1>2. conn[fd[i]] \in Conns
  BY <1>1 DEF PollInv, Table, NetInv, NetType
<1>3. nleft \in Nat
  BY PollAssumption DEF PollInv, TypeOK
<1> QED BY <1>1, <1>2, <1>3 DEF PollInv, OwesNow

(* Writen is done: nothing is owed.                                         *)
LEMMA WrittenKeeps ==
  ASSUME PollInv, pc = "write", NEW c \in Conns, c = conn[fd[i]],
         Writing(c) \/ WriteFailing(c), Served, owed' = [owed EXCEPT ![c] = 0],
         nleft' \in 0 .. MaxLine, UNCHANGED <<tableVars, n, down>>
  PROVE  PollInv'
<1>1. NetInv' /\ UNCHANGED conn
  BY TalkNet DEF PollInv, Talks
<1>2. UNCHANGED <<fd, revents, maxi>>
  BY DEF tableVars
<1>3. PICK g \in Nat, j \in Nat, m \in Nat : Rest(g, j, m)
  BY RestOf
<1>4. Left(j, g, m)'
  <2>1. \A x \in Conns \ {c} : Readable(x) => Readable(x)'
    BY ReadableStays DEF PollInv
  <2> QED BY <1>1, <1>2, <1>3, <2>1, RestStays, WriteAt
<1>5. Pass' /\ nready' \in Nat /\ i' \in 1 .. OpenMax /\ pc' \in {"poll", "scan"}
  BY <1>2, <1>3, <1>4, ServedPass, WriteAt DEF PollInv
<1>6. owed' \in [Conns -> 0 .. MaxLine] /\ \A x \in Conns : owed'[x] = 0
  BY WriteAt, PollAssumption DEF PollInv, TypeOK
<1>7. TypeOK'
  BY <1>1, <1>2, <1>5, <1>6 DEF PollInv, TypeOK, NetInv
<1>8. Table' /\ OwesNow'
  BY <1>1, <1>2, <1>5, <1>6 DEF PollInv, Table, OwesNow
<1> QED BY <1>1, <1>5, <1>7, <1>8 DEF PollInv

LEMMA WriteSomeKeeps == PollInv /\ WriteSome => PollInv'
<1> SUFFICES ASSUME PollInv, WriteSome PROVE PollInv'
  OBVIOUS
<1>1. pc = "write" /\ UNCHANGED <<fd, revents, maxi, n, down>> /\ UNCHANGED tableVars
  BY DEF WriteSome, tableVars
<1>2. PICK c \in Conns : c = conn[fd[i]] /\ owed[c] = nleft
  BY <1>1, WriteAt
<1>3. PICK k \in 1 .. nleft :
        /\ Writing(c) /\ nleft' = nleft - k
        /\ owed' = [owed EXCEPT ![c] = owed[c] - k]
        /\ IF k = nleft THEN Served ELSE UNCHANGED <<nready, i, pc>>
  BY <1>2 DEF WriteSome, AllWritten
<1>4. nleft' \in 0 .. MaxLine /\ owed[c] - k = nleft' /\ (k = nleft <=> nleft' = 0)
      /\ nleft' >= 0
  BY <1>1, <1>2, <1>3, WriteAt, PollAssumption DEF PollInv, TypeOK
<1>5. CASE k = nleft
  <2>1. owed' = [owed EXCEPT ![c] = 0]
    BY <1>3, <1>4, <1>5
  <2> QED BY <1>1, <1>2, <1>3, <1>4, <1>5, <2>1, WrittenKeeps
<1>6. CASE k # nleft
  <2>1. NetInv' /\ UNCHANGED conn
    BY <1>3, TalkNet DEF PollInv, Talks
  <2>2. UNCHANGED <<nready, i, pc>> /\ owed' = [owed EXCEPT ![c] = nleft'] /\ nleft' > 0
    <3>1. UNCHANGED <<nready, i, pc>>
      BY <1>3, <1>6
    <3>2. nleft' > 0
      BY <1>3, <1>4, <1>6
    <3> QED BY <1>3, <1>4, <3>1, <3>2
  <2>3. owed' \in [Conns -> 0 .. MaxLine]
    BY <1>4, <2>2 DEF PollInv, TypeOK
  <2>4. TypeOK'
    BY <1>1, <1>4, <2>1, <2>2, <2>3 DEF PollInv, TypeOK, NetInv
  <2>5. Table'
    BY <1>1, <2>1 DEF PollInv, Table
  <2>6. OwesNow'
    BY <1>1, <1>2, <2>1, <2>2, WriteAt DEF OwesNow, PollInv, TypeOK
  <2>7. PICK g \in Nat, j \in Nat, m \in Nat : Rest(g, j, m)
    BY <1>1, RestOf
  <2>8. Left(j, g, m)'
    <3>1. \A x \in Conns \ {c} : Readable(x) => Readable(x)'
      BY <1>3, ReadableStays DEF PollInv
    <3> QED BY <1>1, <1>2, <2>1, <2>7, <3>1, RestStays, WriteAt
  <2>9. Pass'
    BY <1>1, <2>2, <2>7, <2>8 DEF Pass, Left, AllReadable, Remaining, Rest
  <2> QED BY <2>1, <2>4, <2>5, <2>6, <2>9 DEF PollInv
<1> QED BY <1>5, <1>6

LEMMA WriteFailsKeeps == PollInv /\ WriteFails => PollInv'
<1> SUFFICES ASSUME PollInv, WriteFails PROVE PollInv'
  OBVIOUS
<1>1. pc = "write" /\ UNCHANGED <<tableVars, n, nleft>>
  BY DEF WriteFails
<1>2. PICK c \in Conns : c = conn[fd[i]]
  BY <1>1, WriteAt
<1>3. CASE WriteFailing(c) /\ owed' = [owed EXCEPT ![c] = 0] /\ Served /\ UNCHANGED down
  BY <1>1, <1>2, <1>3, WrittenKeeps DEF PollInv, TypeOK
<1>4. CASE down' = TRUE /\ UNCHANGED <<owed, nready, i, pc, netVars>>
  BY <1>1, <1>4, QuietKeeps
<1> QED BY <1>2, <1>3, <1>4 DEF WriteFails

LEMMA PollInvNext == PollInv /\ [Next]_vars => PollInv'
<1> SUFFICES ASSUME PollInv, [Next]_vars PROVE PollInv'
  OBVIOUS
<1>1. CASE Clients \/ UNCHANGED vars
  BY <1>1, QuietKeeps DEF Clients, vars, loopVars, PollInv, TypeOK
<1> QED BY <1>1, PollKeeps, AcceptKeeps, SkipKeeps, ReadSomeKeeps, ReadEndKeeps,
          WriteSomeKeeps, WriteFailsKeeps DEF Next, Server

-----------------------------------------------------------------------------
(* Every variable keeps its type in every execution.                        *)
THEOREM PollTypeCorrect == Spec => []TypeOK
<1>1. PollInv => TypeOK
  BY DEF PollInv
<1> QED BY <1>1, PollInvInit, PollInvNext, PTL DEF Spec

(* Every open connection is in one element of client[], below maxi, and     *)
(* every element in use is that of an open connection.                      *)
THEOREM WatchedAllAlways == Spec => []WatchedAll
<1>1. ASSUME PollInv PROVE WatchedAll
  <2>1. ASSUME NEW d \in Fds, conn[d] # NoConn
        PROVE  Cardinality({s \in Slots : fd[s] = d /\ s <= maxi}) = 1
    <3>1. PICK s \in Slots : fd[s] = d
      BY <1>1, <2>1 DEF PollInv, Table
    <3>2. {t \in Slots : fd[t] = d /\ t <= maxi} = {s}
      BY <1>1, <3>1, SlotsAreNats DEF PollInv, Table
    <3> QED BY <3>2, FS_Singleton
  <2>2. \A s \in Slots : fd[s] > 0 => fd[s] \in Fds
    BY <1>1 DEF PollInv, TypeOK
  <2>3. \A s \in Slots : fd[s] > 0 => s <= maxi /\ conn[fd[s]] # NoConn
    BY <1>1, <2>2 DEF PollInv, Table
  <2> QED BY <2>1, <2>3 DEF WatchedAll
<1> QED BY <1>1, PollInvInit, PollInvNext, PTL DEF Spec

(* The read of a turn does not wait: the connection can be read, whatever   *)
(* is in revents of an element nobody initialized.                          *)
THEOREM ReadsOnlyReadyAlways == Spec => []ReadsOnlyReady
<1>1. ASSUME PollInv PROVE ReadsOnlyReady
  BY <1>1, ScanAt, TurnAt DEF ReadsOnlyReady
<1> QED BY <1>1, PollInvInit, PollInvNext, PTL DEF Spec

(* Every connection gets an echo service of its own: what main sends back   *)
(* is all of what it received, however many writes Writen needs, before it  *)
(* receives more.                                                           *)
THEOREM PollServerEchoes == Spec => ImplementsEchoService
<1> USE DEF Phase
<1> DEFINE Echo(c) == IF owed[c] > 0 THEN n ELSE 0
<1>1. Init => Abstract!Init
  BY ClientAssumption DEF Init, NetInit, Abstract!Init, Open
<1>2. ASSUME PollInv, [Next]_vars PROVE [Abstract!Next]_(Abstract!vars)
  <2>1. ASSUME UNCHANGED conn, \A c \in Conns : (owed'[c] > 0 <=> owed[c] > 0),
               (\E c \in Conns : owed[c] > 0) => n' = n
        PROVE  UNCHANGED Abstract!vars
    <3>1. \A c \in Conns : Phase(c)' = Phase(c) /\ Echo(c)' = Echo(c)
      BY <2>1 DEF Open
    <3> QED BY <3>1 DEF Abstract!vars
  <2>2. CASE Accept
    <3>1. ASSUME NEW c \in backlog, Accepting(c), FreeFds # {} PROVE Abstract!Take(c)
      <4>1. /\ Lowest \in Fds /\ conn[Lowest] = NoConn /\ c \in Conns /\ ~Open(c)
            /\ \A d \in Fds : conn'[d] = IF d = Lowest THEN c ELSE conn[d]
        BY <1>2, <3>1, AcceptNet DEF PollInv, NetInv, NetType, Waiting
      <4>2. UNCHANGED <<owed, n>> /\ \A x \in Conns : owed[x] = 0
        BY <1>2, <2>2 DEF Accept, PollInv, OwesNow
      <4>3. \A x \in Conns : Open(x)' <=> Open(x) \/ x = c
        BY <4>1, ClientAssumption DEF Open
      <4>4. Phase(c) = "outside" /\ Phase(c)' = "reading"
        BY <4>1, <4>2, <4>3
      <4>5. \A x \in Conns \ {c} : Phase(x)' = Phase(x)
        BY <4>2, <4>3
      <4>6. \A x \in Conns : Echo(x)' = Echo(x)
        BY <4>2
      <4> QED BY <4>1, <4>4, <4>5, <4>6 DEF Abstract!Take
    <3>2. ASSUME UNCHANGED <<owed, n, conn>> PROVE UNCHANGED Abstract!vars
      BY <2>1, <3>2
    <3> QED BY <1>2, <2>2, <3>1, <3>2
            DEF Accept, netVars, Abstract!Next, PollInv, NetInv, NetType
  <2>3. CASE ReadSome
    <3>1. PICK c \in Conns : c = conn[fd[i]] /\ Open(c) /\ \A x \in Conns : owed[x] = 0
      BY <1>2, <2>3, TurnAt DEF ReadSome, Open
    <3>2. PICK k \in 1 .. MaxLine : n' = k /\ owed' = [owed EXCEPT ![c] = owed[c] + k]
                                  /\ UNCHANGED conn
      <4>1. unread[c] \in Nat /\ MaxLine \in Nat
        BY <1>2, PollAssumption DEF PollInv, NetInv, NetType
      <4>2. PICK k : k = Min({unread[c], MaxLine})
        OBVIOUS
      <4>3. k \in Nat /\ k <= MaxLine
        BY <4>1, <4>2, MinOfTwo
      <4>4. k > 0 /\ Reading(c, k) /\ n' = k /\ owed' = [owed EXCEPT ![c] = owed[c] + k]
        BY <2>3, <3>1, <4>2 DEF ReadSome
      <4>5. k \in 1 .. MaxLine
        BY <4>1, <4>3, <4>4
      <4> QED BY <4>4, <4>5 DEF Reading
    <3>3. owed[c] + k = k /\ k > 0
      BY <3>1, PollAssumption
    <3>4. owed'[c] = k /\ \A x \in Conns \ {c} : owed'[x] = 0
      BY <1>2, <3>1, <3>2, <3>3 DEF PollInv, TypeOK
    <3>5. Phase(c) = "reading" /\ Echo(c) = 0 /\ Phase(c)' = "replying" /\ Echo(c)' = k
      BY <3>1, <3>2, <3>3, <3>4 DEF Open
    <3>6. \A x \in Conns \ {c} : Phase(x)' = Phase(x) /\ Echo(x)' = Echo(x) /\ Echo(x) = 0
      BY <3>1, <3>2, <3>4 DEF Open
    <3>7. Abstract!Receive(c)
      BY <3>2, <3>5, <3>6 DEF Abstract!Receive
    <3> QED BY <3>7 DEF Abstract!Next
  <2>4. ASSUME NEW c \in Conns, c = conn[fd[i]], pc = "write", UNCHANGED <<conn, n>>,
               owed' = [owed EXCEPT ![c] = 0]
        PROVE  Abstract!Reply(c)
    <3>1. Open(c) /\ owed[c] > 0 /\ \A x \in Conns \ {c} : owed[x] = 0
      BY <1>2, <2>4, WriteAt DEF Open
    <3>2. owed'[c] = 0 /\ \A x \in Conns \ {c} : owed'[x] = 0
      BY <1>2, <2>4, <3>1 DEF PollInv, TypeOK
    <3>3. Phase(c) = "replying" /\ Phase(c)' = "reading" /\ Echo(c)' = 0
      BY <2>4, <3>1, <3>2 DEF Open
    <3>4. \A x \in Conns \ {c} : Phase(x)' = Phase(x) /\ Echo(x)' = Echo(x)
      BY <2>4, <3>1, <3>2 DEF Open
    <3> QED BY <3>3, <3>4 DEF Abstract!Reply
  <2>5. CASE WriteSome
    <3>1. PICK c \in Conns : c = conn[fd[i]] /\ owed[c] = nleft /\ nleft \in Nat
                           /\ pc = "write" /\ UNCHANGED n
      BY <1>2, <2>5, WriteAt DEF WriteSome
    <3>2. PICK k \in 1 .. nleft : UNCHANGED conn /\ owed' = [owed EXCEPT ![c] = owed[c] - k]
      BY <2>5, <3>1 DEF WriteSome, Writing
    <3>3. CASE k = nleft
      <4>1. owed[c] - k = 0
        BY <3>1, <3>3
      <4>2. Abstract!Reply(c)
        BY <2>4, <3>1, <3>2, <4>1
      <4> QED BY <4>2 DEF Abstract!Next
    <3>4. CASE k # nleft
      <4>1. owed[c] - k > 0 /\ owed[c] > 0
        BY <3>1, <3>4
      <4>2. \A x \in Conns : owed'[x] > 0 <=> owed[x] > 0
        BY <1>2, <3>2, <4>1 DEF PollInv, TypeOK
      <4> QED BY <2>1, <3>1, <3>2, <4>2
    <3> QED BY <3>3, <3>4
  <2>6. CASE WriteFails
    <3>1. PICK c \in Conns : c = conn[fd[i]] /\ pc = "write" /\ UNCHANGED n
      BY <1>2, <2>6, WriteAt DEF WriteFails
    <3>2. CASE UNCHANGED conn /\ owed' = [owed EXCEPT ![c] = 0]
      BY <2>4, <3>1, <3>2 DEF Abstract!Next
    <3>3. CASE UNCHANGED <<owed, netVars>>
      BY <2>1, <3>1, <3>3 DEF netVars
    <3> QED BY <2>6, <3>1, <3>2, <3>3 DEF WriteFails, WriteFailing
  <2>7. CASE ReadEnd
    <3>1. PICK d \in Fds, c \in Conns :
            d = fd[i] /\ c = conn[d] /\ \A x \in Conns : owed[x] = 0
      BY <1>2, <2>7, TurnAt DEF ReadEnd
    <3>2. Closing(d) /\ UNCHANGED <<owed, n>>
      BY <2>7, <3>1 DEF ReadEnd
    <3>3. \A e \in Fds : conn'[e] = IF e = d THEN NoConn ELSE conn[e]
      BY <1>2, <3>2, CloseNet DEF PollInv
    <3>4. Open(c) /\ \A x \in Conns : Open(x)' <=> Open(x) /\ x # c
      BY <1>2, <3>1, <3>3, ClientAssumption DEF Open, PollInv, NetInv, NetType
    <3>5. Abstract!Drop({c})
      BY <3>1, <3>2, <3>4 DEF Abstract!Drop
    <3> QED BY <3>5 DEF Abstract!Next
  <2>8. CASE Clients
    <3>1. UNCHANGED <<conn, owed, n>>
      BY <1>2, <2>8, TalkNet DEF PollInv, Clients, Talks, loopVars
    <3> QED BY <2>1, <3>1
  <2>9. CASE Poll \/ Skip \/ UNCHANGED vars
    <3>1. UNCHANGED <<conn, owed, n>>
      BY <2>9 DEF Poll, Skip, vars, loopVars, netVars
    <3> QED BY <2>1, <3>1
  <2> QED BY <1>2, <2>2, <2>3, <2>5, <2>6, <2>7, <2>8, <2>9 DEF Next, Server
<1> QED BY <1>1, <1>2, PollInvInit, PollInvNext, PTL
        DEF Spec, ImplementsEchoService, Abstract!Spec
=============================================================================
