-------------------------- MODULE EpollLoopProofs ---------------------------
(***************************************************************************)
(* Proofs about the epoll echo server, for every number of slots,          *)
(* descriptors and connections.                                            *)
(***************************************************************************)
EXTENDS EpollLoop, FiniteSetTheorems, TLAPS

(* An entry that is active is registered as it remembers, and alone with    *)
(* its descriptor; nothing else is registered.                              *)
Registered ==
  /\ \A s, t \in Entries : status[s] = 1 /\ status[t] = 1 /\ fd[s] = fd[t] => s = t
  /\ \A s \in Entries : status[s] = 1 => reg[fd[s]] = <<s, event[s]>>
  /\ \A d \in Descriptors :
       reg[d] # NotWatched => \E s \in Entries : status[s] = 1 /\ fd[s] = d

Listens ==
  /\ status[Listener] = 1 /\ fd[Listener] = LFd
  /\ event[Listener] = "in" /\ call_back[Listener] = "acceptconn"

(* A slot that is active serves an open connection, and waits for what its  *)
(* callback needs.                                                          *)
Serves(s) ==
  /\ fd[s] \in Fds /\ conn[fd[s]] \in Conns
  /\ \/ call_back[s] = "recvdata" /\ event[s] = "in"
     \/ call_back[s] = "senddata" /\ event[s] = "out"

(* A connection is behind one descriptor at most, and never waits again;    *)
(* the ones no slot serves are those that were accepted when none was free. *)
Waiting(c) == peer[c] = "idle" \/ c \in backlog

ConnsOnce ==
  /\ \A d, e \in Fds : conn[d] = conn[e] => conn[d] = NoConn \/ d = e
  /\ \A c \in Conns : Waiting(c) => c \notin lost /\ \A d \in Fds : conn[d] # c
  /\ \A c \in Conns : peer[c] = "idle" => c \notin backlog
  /\ \A d \in Fds : conn[d] # NoConn =>
       (conn[d] \notin lost <=> \E s \in Slots : status[s] = 1 /\ fd[s] = d)

Table ==
  /\ Registered /\ Listens /\ (\A s \in Slots : status[s] = 1 => Serves(s))
  /\ ConnsOnce

(* The events of a batch that main has not come to are those of active      *)
(* entries, one each, and about the connection they were reported for.      *)
Fresh(e) ==
  /\ status[e[1]] = 1 /\ event[e[1]] = e[2]
  /\ e[1] # Listener => conn[fd[e[1]]] = e[3]

Batch ==
  /\ pc # "dispatch" => batch = {}
  /\ \A e \in batch : Fresh(e)
  /\ \A e, f \in batch : e[1] = f[1] => e = f

EpollInv == TypeOK /\ Table /\ Batch

-----------------------------------------------------------------------------
(* Min of FiniteSetsExt on numbers.                                         *)
LEMMA MinOfNats ==
  ASSUME NEW S \in SUBSET Nat, S # {}
  PROVE  Min(S) \in S /\ \A x \in S : Min(S) <= x
<1> DEFINE R == {ss \in Nat \X Nat : ss[1] < ss[2]}
<1>1. IsWellFoundedOn(R, Nat)
  BY NatLessThanWellFounded, Zenon DEF OpToRel
<1>2. PICK x \in S : \A y \in S : ~(<<y, x>> \in R)
  <2> HIDE DEF R
  <2> QED BY <1>1, WFMin
<1>3. ASSUME NEW y \in S PROVE ~(y < x)
  <2>1. ~(<<y, x>> \in R)
    BY <1>2
  <2>2. <<y, x>> \in Nat \X Nat
    OBVIOUS
  <2>3. ~(<<y, x>>[1] < <<y, x>>[2])
    BY <2>1, <2>2
  <2> QED BY <2>3
<1>4. \A y \in S : x <= y
  BY <1>3
<1> QED BY <1>4 DEF Min

(* The listening socket's entry and descriptor are not those of a slot or   *)
(* of a connection.                                                         *)
LEMMA Numbers ==
  /\ Slots \subseteq Nat /\ Fds \subseteq Nat
  /\ Entries = Slots \cup {Listener} /\ Listener \notin Slots
  /\ Descriptors = Fds \cup {LFd} /\ LFd \notin Fds
  /\ \A s \in Entries : s # -1
<1>1. MaxEvents \in Nat /\ MaxEvents > 0 /\ FdMax \in Nat /\ FdMax > 0
  BY SizeAssumption
<1>2. Slots \subseteq Nat /\ Fds \subseteq Nat /\ Listener \notin Slots /\ LFd \notin Fds
  BY <1>1 DEF Slots, Fds, Listener, LFd
<1>3. Entries = Slots \cup {Listener}
  BY <1>1 DEF Slots, Entries, Listener
<1>4. Descriptors = Fds \cup {LFd}
  BY <1>1 DEF Fds, Descriptors, LFd
<1>5. \A s \in Entries : s # -1
  BY <1>1 DEF Entries
<1> QED BY <1>2, <1>3, <1>4, <1>5

(* The slots a pass looks at are slots, and so is the next one, or it is    *)
(* the element after the last, from which % brings the scan back.           *)
LEMMA ScanNumbers ==
  ASSUME checkpos \in Entries
  PROVE  Scanned \subseteq Slots /\ NextCheckpos \in Entries
<1>1. /\ MaxEvents \in Nat \ {0} /\ ScanLen \in Nat \ {0} /\ checkpos \in Nat
  BY SizeAssumption DEF Entries
<1>2. \A k \in Nat : k % MaxEvents \in 0 .. MaxEvents - 1
  BY <1>1
<1>3. \A k \in 0 .. ScanLen - 1 : checkpos + k \in Nat
  BY <1>1
<1>4. checkpos + ScanLen - 1 \in Nat
  BY <1>1
<1>5. Scanned \subseteq Slots
  BY <1>2, <1>3 DEF Scanned, Slots
<1>6. (checkpos + ScanLen - 1) % MaxEvents \in 0 .. MaxEvents - 1
  BY <1>2, <1>4
<1>7. NextCheckpos \in Entries
  BY <1>1, <1>6 DEF NextCheckpos, Entries
<1> QED BY <1>5, <1>7

LEMMA EpollInvInit == Init => EpollInv
<1> SUFFICES ASSUME Init PROVE EpollInv
  OBVIOUS
<1> USE SizeAssumption DEF Init
<1>1. TypeOK
  BY Numbers DEF TypeOK, Slots, Entries, Fds, Descriptors, LFd, Listener
<1>2. /\ Listener \in Entries /\ status[Listener] = 1 /\ fd[Listener] = LFd
      /\ \A s \in Slots : status[s] = 0
  BY Numbers DEF LFd
<1>3. Registered /\ Listens
  BY <1>2, Numbers DEF Registered, Listens, NotWatched
<1>4. ConnsOnce /\ Batch
  BY <1>2 DEF ConnsOnce, Waiting, Batch
<1> QED BY <1>1, <1>2, <1>3, <1>4 DEF EpollInv, Table

-----------------------------------------------------------------------------
(* The three ways the table changes.  A connection that is served again:    *)
LEMMA WatchAgain ==
  ASSUME TypeOK, Table, NEW s \in Slots, status[s] = 1, NEW cb, NEW e,
         \/ cb = "recvdata" /\ e = "in"
         \/ cb = "senddata" /\ e = "out",
         Watch(s, fd[s], cb, e), UNCHANGED <<conn, lost, backlog, peer>>
  PROVE  /\ Table' /\ \A t \in Entries : status'[t] = status[t] /\ fd'[t] = fd[t]
         /\ \A t \in Entries \ {s} : call_back'[t] = call_back[t] /\ event'[t] = event[t]
         /\ call_back'[s] = cb /\ event'[s] = e
<1>1. s \in Entries /\ s # Listener /\ fd[s] \in Fds /\ fd[s] \in Descriptors
  BY Numbers DEF Table, Serves
<1>2. /\ \A t \in Entries : status'[t] = status[t] /\ fd'[t] = fd[t]
      /\ \A t \in Entries \ {s} : call_back'[t] = call_back[t] /\ event'[t] = event[t]
      /\ call_back'[s] = cb /\ event'[s] = e
      /\ \A d \in Descriptors : reg'[d] = IF d = fd[s] THEN <<s, e>> ELSE reg[d]
  BY <1>1 DEF Watch, TypeOK
<1>3. Registered'
  <2>1. \A t \in Entries : fd[t] \in Descriptors
    BY DEF TypeOK
  <2>2. \A t, u \in Entries : status'[t] = 1 /\ status'[u] = 1 /\ fd'[t] = fd'[u] => t = u
    BY <1>2 DEF Table, Registered
  <2>3. \A t \in Entries : status'[t] = 1 => reg'[fd'[t]] = <<t, event'[t]>>
    BY <1>1, <1>2, <2>1 DEF Table, Registered
  <2>4. \A d \in Descriptors :
          reg'[d] # NotWatched => \E t \in Entries : status'[t] = 1 /\ fd'[t] = d
    BY <1>1, <1>2 DEF Table, Registered
  <2> QED BY <2>2, <2>3, <2>4 DEF Registered
<1>4. Listens' /\ \A t \in Slots : status'[t] = 1 => Serves(t)'
  <2>1. Listens'
    BY <1>1, <1>2, Numbers DEF Table, Listens
  <2>2. ASSUME NEW t \in Slots, status'[t] = 1 PROVE Serves(t)'
    <3>1. fd'[t] = fd[t] /\ Serves(t) /\ t \in Entries
      BY <1>2, <2>2, Numbers DEF Table
    <3> QED BY <1>2, <3>1 DEF Serves
  <2> QED BY <2>1, <2>2
<1>5. ConnsOnce'
  BY <1>2, Numbers DEF Table, ConnsOnce, Waiting
<1> QED BY <1>2, <1>3, <1>4, <1>5 DEF Table

(* a new connection in a free slot;                                         *)
LEMMA WatchNew ==
  ASSUME TypeOK, Table, NEW s \in Slots, status[s] = 0, NEW d \in Fds, conn[d] = NoConn,
         NEW c \in Conns, c \in backlog, backlog' = backlog \ {c},
         \A x \in Fds : conn'[x] = IF x = d THEN c ELSE conn[x],
         Watch(s, d, "recvdata", "in"), UNCHANGED <<lost, peer>>
  PROVE  /\ Table'
         /\ \A t \in Entries \ {s} :
              /\ status'[t] = status[t] /\ fd'[t] = fd[t]
              /\ call_back'[t] = call_back[t] /\ event'[t] = event[t]
         /\ status'[s] = 1 /\ fd'[s] = d /\ call_back'[s] = "recvdata"
<1>1. s \in Entries /\ s # Listener /\ d \in Descriptors /\ d # LFd
  BY Numbers
<1>2. /\ \A t \in Entries \ {s} :
           /\ status'[t] = status[t] /\ fd'[t] = fd[t]
           /\ call_back'[t] = call_back[t] /\ event'[t] = event[t]
      /\ status'[s] = 1 /\ fd'[s] = d /\ call_back'[s] = "recvdata" /\ event'[s] = "in"
      /\ \A x \in Descriptors : reg'[x] = IF x = d THEN <<s, "in">> ELSE reg[x]
  BY <1>1 DEF Watch, TypeOK
<1>3. \A x \in Fds : conn'[x] = IF x = d THEN c ELSE conn[x]
  OBVIOUS
<1>4. \A t \in Entries : status[t] = 1 => fd[t] # d /\ fd[t] \in Descriptors /\ t # s
  BY <1>1, Numbers, SizeAssumption DEF Table, Listens, Serves, TypeOK
<1>5. Registered'
  <2>1. \A t, u \in Entries : status'[t] = 1 /\ status'[u] = 1 /\ fd'[t] = fd'[u] => t = u
    BY <1>2, <1>4 DEF Table, Registered
  <2>2. \A t \in Entries : status'[t] = 1 => reg'[fd'[t]] = <<t, event'[t]>>
    <3> SUFFICES ASSUME NEW t \in Entries, status'[t] = 1
                 PROVE  reg'[fd'[t]] = <<t, event'[t]>>
      OBVIOUS
    <3>1. CASE t = s
      BY <1>1, <1>2, <3>1
    <3>2. CASE t # s
      <4>1. /\ status[t] = 1 /\ fd'[t] = fd[t] /\ event'[t] = event[t]
            /\ fd[t] # d /\ fd[t] \in Descriptors
        BY <1>2, <1>4, <3>2
      <4>2. reg'[fd[t]] = reg[fd[t]]
        BY <1>2, <4>1
      <4> QED BY <4>1, <4>2 DEF Table, Registered
    <3> QED BY <3>1, <3>2
  <2>3. \A x \in Descriptors :
          reg'[x] # NotWatched => \E t \in Entries : status'[t] = 1 /\ fd'[t] = x
    BY <1>1, <1>2, <1>4 DEF Table, Registered
  <2> QED BY <2>1, <2>2, <2>3 DEF Registered
<1>6. Listens'
  BY <1>1, <1>2, Numbers DEF Table, Listens
<1>7. ASSUME NEW t \in Slots, status'[t] = 1 PROVE Serves(t)'
  <2>1. CASE t = s
    BY <1>2, <1>3, <2>1 DEF Serves
  <2>2. CASE t # s
    <3>1. /\ status[t] = 1 /\ fd'[t] = fd[t] /\ fd[t] # d
          /\ call_back'[t] = call_back[t] /\ event'[t] = event[t]
      BY <1>2, <1>4, <1>7, <2>2, Numbers
    <3>2. Serves(t)
      BY <3>1 DEF Table
    <3> QED BY <1>3, <3>1, <3>2 DEF Serves
  <2> QED BY <2>1, <2>2
<1>8. ConnsOnce'
  <2>1. c \notin lost /\ \A x \in Fds : conn[x] # c
    BY <1>1 DEF Table, ConnsOnce, Waiting
  <2>2. \A x, y \in Fds : conn'[x] = conn'[y] => conn'[x] = NoConn \/ x = y
    BY <1>3, <2>1 DEF Table, ConnsOnce
  <2>3. \A x \in Conns : Waiting(x)' => x \notin lost' /\ \A y \in Fds : conn'[y] # x
    BY <1>1, <1>3 DEF Table, ConnsOnce, Waiting
  <2>4. \A x \in Fds : conn'[x] # NoConn =>
          (conn'[x] \notin lost' <=> \E t \in Slots : status'[t] = 1 /\ fd'[t] = x)
    BY <1>2, <1>3, <1>4, <2>1, Numbers DEF Table, ConnsOnce
  <2> QED BY <2>2, <2>3, <2>4 DEF Table, ConnsOnce
<1> QED BY <1>2, <1>3, <1>5, <1>6, <1>7, <1>8 DEF Table

(* and connections that are closed.                                         *)
LEMMA CloseTable ==
  ASSUME TypeOK, Table, NEW S \in SUBSET Slots, \A s \in S : status[s] = 1,
         Close(S), UNCHANGED <<lost, backlog, peer>>
  PROVE  /\ Table' /\ reg' \in [Descriptors -> (Entries \X {"in", "out"}) \cup {NotWatched}]
         /\ conn' \in [Fds -> Conns \cup {NoConn}] /\ status' \in [Entries -> {0, 1}]
         /\ \A t \in Entries : status'[t] = IF t \in S THEN 0 ELSE status[t]
         /\ \A t \in Slots \ S : status[t] = 1 => conn'[fd[t]] = conn[fd[t]]
<1> DEFINE fds == {fd[s] : s \in S}
<1>1. /\ \A t \in Entries : status'[t] = IF t \in S THEN 0 ELSE status[t]
      /\ \A d \in Descriptors : reg'[d] = IF d \in fds THEN NotWatched ELSE reg[d]
      /\ \A d \in Fds : conn'[d] = IF d \in fds THEN NoConn ELSE conn[d]
      /\ UNCHANGED <<fd, event, call_back, idle>>
  BY DEF Close
<1>2. /\ reg' \in [Descriptors -> (Entries \X {"in", "out"}) \cup {NotWatched}]
      /\ conn' \in [Fds -> Conns \cup {NoConn}] /\ status' \in [Entries -> {0, 1}]
  BY DEF Close, TypeOK
<1>3. /\ \A t \in Entries : status[t] = 1 /\ t \notin S => fd[t] \notin fds
      /\ Listener \notin S /\ S \subseteq Entries
  <2>1. Listener \notin S /\ S \subseteq Entries
    BY Numbers
  <2>2. ASSUME NEW t \in Entries, status[t] = 1, NEW s \in S, fd[t] = fd[s] PROVE t = s
    BY <2>1, <2>2 DEF Table, Registered
  <2> QED BY <2>1, <2>2
<1>4. \A t \in Slots \ S : status[t] = 1 => conn'[fd[t]] = conn[fd[t]]
  BY <1>1, <1>3, Numbers DEF Table, Serves
<1>5. Registered'
  <2>1. \A t, u \in Entries : status'[t] = 1 /\ status'[u] = 1 /\ fd'[t] = fd'[u] => t = u
    BY <1>1 DEF Table, Registered
  <2>2. \A t \in Entries : status'[t] = 1 => reg'[fd'[t]] = <<t, event'[t]>>
    BY <1>1, <1>3 DEF Table, Registered, TypeOK
  <2>3. \A d \in Descriptors :
          reg'[d] # NotWatched => \E t \in Entries : status'[t] = 1 /\ fd'[t] = d
    BY <1>1 DEF Table, Registered
  <2> QED BY <2>1, <2>2, <2>3 DEF Registered
<1>6. Listens' /\ \A t \in Slots : status'[t] = 1 => Serves(t)'
  <2>1. Listens'
    BY <1>1, <1>3, Numbers DEF Table, Listens
  <2>2. ASSUME NEW t \in Slots, status'[t] = 1 PROVE Serves(t)'
    <3>1. t \notin S /\ status[t] = 1 /\ Serves(t)
      BY <1>1, <2>2, Numbers DEF Table
    <3> QED BY <1>1, <1>4, <3>1 DEF Serves
  <2> QED BY <2>1, <2>2
<1>7. ConnsOnce'
  <2>1. \A x, y \in Fds : conn'[x] = conn'[y] => conn'[x] = NoConn \/ x = y
    BY <1>1 DEF Table, ConnsOnce
  <2>2. \A x \in Conns : Waiting(x)' => x \notin lost' /\ \A y \in Fds : conn'[y] # x
    BY <1>1, SizeAssumption DEF Table, ConnsOnce, Waiting
  <2>3. \A d \in Fds : conn'[d] # NoConn =>
          (conn'[d] \notin lost' <=> \E t \in Slots : status'[t] = 1 /\ fd'[t] = d)
    <3> SUFFICES ASSUME NEW d \in Fds, conn'[d] # NoConn
                 PROVE  conn'[d] \notin lost
                          <=> \E t \in Slots : status'[t] = 1 /\ fd[t] = d
      BY <1>1
    <3>1. conn'[d] = conn[d] /\ d \notin fds
      BY <1>1
    <3>2. \A t \in Slots : fd[t] = d => (status'[t] = 1 <=> status[t] = 1)
      BY <1>1, <3>1, Numbers
    <3>3. conn[d] \notin lost <=> \E t \in Slots : status[t] = 1 /\ fd[t] = d
      BY <3>1 DEF Table, ConnsOnce
    <3> QED BY <3>1, <3>2, <3>3
  <2> QED BY <2>1, <2>2, <2>3 DEF Table, ConnsOnce
<1> QED BY <1>1, <1>2, <1>4, <1>5, <1>6, <1>7 DEF Table
-----------------------------------------------------------------------------
(* The batch as it was left by a callback of entry e[1].                    *)
LEMMA BatchAfter ==
  ASSUME EpollInv, pc = "dispatch", NEW e \in batch, batch' = batch \ {e},
         pc' = IF batch' = {} THEN "scan" ELSE "dispatch",
         \A t \in Entries \ {e[1]} : status[t] = 1 =>
           /\ status'[t] = 1 /\ event'[t] = event[t]
           /\ t # Listener => conn'[fd'[t]] = conn[fd[t]]
  PROVE  Batch' /\ pc' \in {"scan", "dispatch"}
         /\ batch' \subseteq Entries \X {"in", "out"} \X (Conns \cup {NoConn})
<1>1. ASSUME NEW f \in batch' PROVE Fresh(f)'
  <2>1. f \in batch /\ f # e /\ f[1] \in Entries
    BY <1>1 DEF EpollInv, TypeOK
  <2>2. f[1] # e[1] /\ Fresh(f)
    BY <2>1 DEF EpollInv, Batch
  <2> QED BY <2>1, <2>2 DEF Fresh
<1>2. pc' # "dispatch" => batch' = {}
  OBVIOUS
<1>3. \A f, g \in batch' : f[1] = g[1] => f = g
  BY DEF EpollInv, Batch
<1>4. Batch'
  BY <1>1, <1>2, <1>3 DEF Batch
<1> QED BY <1>4 DEF EpollInv, TypeOK

LEMMA ScanTimeoutsKeeps == EpollInv /\ ScanTimeouts => EpollInv'
<1> SUFFICES ASSUME EpollInv, ScanTimeouts PROVE EpollInv'
  OBVIOUS
<1>1. /\ pc = "scan" /\ pc' = "wait" /\ Close(Expired) /\ checkpos' = NextCheckpos
      /\ UNCHANGED <<len, batch, backlog, peer, unread, room, owed, lost>>
  BY DEF ScanTimeouts, peerVars, histVars
<1>2. /\ Expired \in SUBSET Slots /\ \A s \in Expired : status[s] = 1
      /\ NextCheckpos \in Entries
  BY ScanNumbers DEF Expired, EpollInv, TypeOK
<1>3. /\ Table' /\ reg' \in [Descriptors -> (Entries \X {"in", "out"}) \cup {NotWatched}]
      /\ conn' \in [Fds -> Conns \cup {NoConn}] /\ status' \in [Entries -> {0, 1}]
  BY <1>1, <1>2, CloseTable DEF EpollInv
<1>4. TypeOK'
  BY <1>1, <1>2, <1>3 DEF EpollInv, TypeOK, Close
<1>5. Batch'
  BY <1>1 DEF EpollInv, Batch
<1> QED BY <1>3, <1>4, <1>5 DEF EpollInv

LEMMA EpollWaitKeeps == EpollInv /\ EpollWait => EpollInv'
<1> SUFFICES ASSUME EpollInv, EpollWait PROVE EpollInv'
  OBVIOUS
<1> DEFINE D == {x \in Descriptors : reg[x] # NotWatched /\ Ready(x)}
           ev(d) == <<reg[d][1], reg[d][2], IF d = LFd THEN NoConn ELSE conn[d]>>
<1>1. /\ pc = "wait" /\ batch' = {ev(d) : d \in D}
      /\ pc' = IF batch' = {} THEN "scan" ELSE "dispatch"
      /\ UNCHANGED <<fd, event, call_back, status, idle, len, checkpos, reg, conn, backlog>>
      /\ UNCHANGED <<peer, unread, room, owed, lost>>
  BY DEF EpollWait, tableVars, kernelVars, peerVars, histVars
<1>2. ASSUME NEW d \in D
      PROVE  \E s \in Entries :
               /\ status[s] = 1 /\ fd[s] = d /\ reg[d] = <<s, event[s]>>
               /\ ev(d) = <<s, event[s], IF d = LFd THEN NoConn ELSE conn[d]>>
               /\ event[s] \in {"in", "out"}
               /\ s # Listener => d # LFd
  <2>1. PICK s \in Entries : status[s] = 1 /\ fd[s] = d
    BY DEF EpollInv, Table, Registered
  <2>2. reg[d] = <<s, event[s]>>
    BY <2>1 DEF EpollInv, Table, Registered
  <2>3. event[s] \in {"in", "out"} /\ (s # Listener => d # LFd)
    BY <2>1, Numbers DEF EpollInv, Table, Listens, Serves
  <2> QED BY <2>1, <2>2, <2>3
<1>3. Table'
  BY <1>1 DEF EpollInv, Table, Registered, Listens, Serves, ConnsOnce, Waiting
<1>4. \A f \in batch' : f \in Entries \X {"in", "out"} \X (Conns \cup {NoConn}) /\ Fresh(f)'
  <2> SUFFICES ASSUME NEW d \in D
               PROVE  /\ ev(d) \in Entries \X {"in", "out"} \X (Conns \cup {NoConn})
                      /\ Fresh(ev(d))'
    BY <1>1
  <2>1. PICK s \in Entries :
          /\ status[s] = 1 /\ fd[s] = d /\ event[s] \in {"in", "out"}
          /\ ev(d) = <<s, event[s], IF d = LFd THEN NoConn ELSE conn[d]>>
          /\ s # Listener => d # LFd
    BY <1>2
  <2>2. d = LFd \/ conn[d] \in Conns \cup {NoConn}
    BY Numbers DEF EpollInv, TypeOK
  <2> QED BY <1>1, <2>1, <2>2 DEF Fresh
<1>5. \A f, g \in batch' : f[1] = g[1] => f = g
  <2> SUFFICES ASSUME NEW d \in D, NEW x \in D, ev(d)[1] = ev(x)[1] PROVE d = x
    BY <1>1
  <2>1. PICK s \in Entries : fd[s] = d /\ ev(d)[1] = s
    BY <1>2
  <2>2. PICK t \in Entries : fd[t] = x /\ ev(x)[1] = t
    BY <1>2
  <2> QED BY <2>1, <2>2
<1> HIDE DEF D, ev
<1>6. TypeOK' /\ Batch'
  BY <1>1, <1>4, <1>5 DEF EpollInv, TypeOK, Batch
<1> QED BY <1>3, <1>6 DEF EpollInv
-----------------------------------------------------------------------------
(* The entry of an event whose turn it is.                                  *)
LEMMA TurnOf ==
  ASSUME EpollInv, NEW e \in batch
  PROVE  /\ e[1] \in Entries /\ status[e[1]] = 1
         /\ e[1] = Listener <=> call_back[e[1]] = "acceptconn"
         /\ e[1] # Listener => e[1] \in Slots /\ Serves(e[1])
<1>1. e[1] \in Entries /\ status[e[1]] = 1
  BY DEF EpollInv, TypeOK, Batch, Fresh
<1>2. e[1] # Listener => e[1] \in Slots /\ Serves(e[1])
  BY <1>1, Numbers DEF EpollInv, Table
<1> QED BY <1>1, <1>2 DEF EpollInv, Table, Listens, Serves

(* recv takes what is there and fits, and the byte that is written behind a *)
(* full buffer leaves the count as it is.                                   *)
LEMMA Received ==
  ASSUME NEW k \in Nat \ {0}
  PROVE  /\ Min({k, BufLen}) \in 1 .. BufLen /\ Min({k, BufLen}) <= k
         /\ Terminated(Min({k, BufLen})) = Min({k, BufLen})
<1>1. BufLen \in Nat /\ BufLen > 0 /\ BufLen % LowByte = 0
  BY SizeAssumption
<1>2. PICK m : m = Min({k, BufLen})
  OBVIOUS
<1>3. m \in {k, BufLen} /\ m <= k /\ m <= BufLen
  BY <1>1, <1>2, MinOfNats
<1>4. m \in 1 .. BufLen
  BY <1>1, <1>3
<1>5. Terminated(m) = m
  BY <1>1, <1>4 DEF Terminated
<1> QED BY <1>2, <1>3, <1>4, <1>5

(* What acceptconn does.                                                    *)
Accepts(c, d, s) ==
  /\ c \in backlog /\ d \in Fds /\ conn[d] = NoConn
  /\ conn' = [conn EXCEPT ![d] = c] /\ backlog' = backlog \ {c}
  /\ s \in Slots /\ status[s] = 0 /\ Watch(s, d, "recvdata", "in") /\ UNCHANGED lost

Loses(c, d) ==
  /\ c \in backlog /\ d \in Fds /\ conn[d] = NoConn
  /\ conn' = [conn EXCEPT ![d] = c] /\ backlog' = backlog \ {c}
  /\ lost' = lost \cup {c} /\ UNCHANGED <<tableVars, reg>>

LEMMA AcceptConnDoes ==
  ASSUME EpollInv, AcceptConn
  PROVE  \/ UNCHANGED <<tableVars, reg, conn, backlog, lost>>
         \/ \E c, d, s : Accepts(c, d, s)
         \/ \E c, d : Loses(c, d)
<1> SUFFICES ASSUME NEW c \in backlog, FreeFds # {},
                    conn' = [conn EXCEPT ![Min(FreeFds)] = c], backlog' = backlog \ {c},
                    \/ Vacant = {} /\ lost' = lost \cup {c} /\ UNCHANGED <<tableVars, reg>>
                    \/ /\ Vacant # {} /\ UNCHANGED lost
                       /\ Watch(Min(Vacant), Min(FreeFds), "recvdata", "in")
             PROVE  (\E x, d, s : Accepts(x, d, s)) \/ (\E x, d : Loses(x, d))
  BY DEF AcceptConn
<1>1. PICK d : d = Min(FreeFds) /\ d \in Fds /\ conn[d] = NoConn
  <2>1. FreeFds \in SUBSET Nat
    BY Numbers DEF FreeFds
  <2>2. Min(FreeFds) \in FreeFds
    BY <2>1, MinOfNats
  <2> QED BY <2>2 DEF FreeFds
<1>2. CASE Vacant = {}
  BY <1>1, <1>2 DEF Loses
<1>3. CASE Vacant # {}
  <2>1. Vacant \in SUBSET Nat
    BY Numbers DEF Vacant
  <2>2. Min(Vacant) \in Vacant
    BY <1>3, <2>1, MinOfNats
  <2>3. PICK s : s = Min(Vacant) /\ s \in Slots /\ status[s] = 0
    BY <2>2 DEF Vacant
  <2> QED BY <1>1, <1>3, <2>3 DEF Accepts
<1> QED BY <1>2, <1>3

(* Types of a step that watches a slot.                                     *)
LEMMA WatchTypes ==
  ASSUME TypeOK, NEW s \in Slots, NEW d \in Fds,
         NEW cb \in {"recvdata", "senddata"}, NEW e \in {"in", "out"}, Watch(s, d, cb, e)
  PROVE  /\ fd' \in [Entries -> Descriptors]
         /\ event' \in [Entries -> {"none", "in", "out"}]
         /\ call_back' \in [Entries -> {"null", "acceptconn", "recvdata", "senddata"}]
         /\ status' \in [Entries -> {0, 1}] /\ idle' \in [Entries -> 0 .. IdleMax + 1]
         /\ reg' \in [Descriptors -> (Entries \X {"in", "out"}) \cup {NotWatched}]
<1>1. s \in Entries /\ d \in Descriptors /\ 0 \in 0 .. IdleMax + 1
  BY Numbers, SizeAssumption
<1> QED BY <1>1 DEF Watch, TypeOK

LEMMA AcceptsKeeps ==
  ASSUME EpollInv, pc = "dispatch", NEW e \in batch, batch' = batch \ {e},
         pc' = IF batch' = {} THEN "scan" ELSE "dispatch", e[1] = Listener, AcceptConn,
         UNCHANGED <<len, checkpos, peerVars, owed>>
  PROVE  EpollInv'
<1>1. UNCHANGED <<len, checkpos, peer, unread, room, owed>>
  BY DEF peerVars
<1>2. CASE UNCHANGED <<tableVars, reg, conn, backlog, lost>>
  <2>1. UNCHANGED <<fd, event, call_back, status, idle, reg, conn, backlog, lost>>
    BY <1>2 DEF tableVars
  <2>2. /\ Batch' /\ pc' \in {"scan", "dispatch"}
        /\ batch' \subseteq Entries \X {"in", "out"} \X (Conns \cup {NoConn})
    BY <2>1, BatchAfter
  <2>3. Table'
    BY <1>1, <2>1 DEF EpollInv, Table, Registered, Listens, Serves, ConnsOnce, Waiting
  <2>4. TypeOK'
    BY <1>1, <2>1, <2>2 DEF EpollInv, TypeOK
  <2> QED BY <2>2, <2>3, <2>4 DEF EpollInv
<1>3. ASSUME NEW c, NEW d, NEW s, Accepts(c, d, s) PROVE EpollInv'
  <2>1. c \in Conns /\ s \in Entries /\ s # Listener
    BY <1>3, Numbers DEF Accepts, EpollInv, TypeOK
  <2>2. \A x \in Fds : conn'[x] = IF x = d THEN c ELSE conn[x]
    BY <1>3 DEF Accepts, EpollInv, TypeOK
  <2>3. /\ Table'
        /\ \A t \in Entries \ {s} :
             /\ status'[t] = status[t] /\ fd'[t] = fd[t]
             /\ call_back'[t] = call_back[t] /\ event'[t] = event[t]
    BY <1>1, <1>3, <2>1, <2>2, WatchNew DEF Accepts, EpollInv
  <2>4. \A t \in Entries \ {Listener} : status[t] = 1 =>
          /\ status'[t] = 1 /\ event'[t] = event[t] /\ conn'[fd'[t]] = conn[fd[t]]
    <3> SUFFICES ASSUME NEW t \in Entries \ {Listener}, status[t] = 1
                 PROVE  /\ status'[t] = 1 /\ event'[t] = event[t]
                        /\ conn'[fd'[t]] = conn[fd[t]]
      OBVIOUS
    <3>1. t # s /\ fd[t] \in Fds /\ conn[fd[t]] \in Conns
      BY <1>3, Numbers DEF Accepts, EpollInv, Table, Serves
    <3>2. fd[t] # d
      BY <1>3, <3>1, SizeAssumption DEF Accepts
    <3> QED BY <2>2, <2>3, <3>1, <3>2
  <2>5. /\ Batch' /\ pc' \in {"scan", "dispatch"}
        /\ batch' \subseteq Entries \X {"in", "out"} \X (Conns \cup {NoConn})
    BY <2>4, BatchAfter
  <2>6. /\ conn' \in [Fds -> Conns \cup {NoConn}] /\ backlog' \subseteq Conns
        /\ lost' \subseteq Conns
    BY <1>3, <2>1 DEF Accepts, EpollInv, TypeOK
  <2>7. TypeOK'
    BY <1>1, <1>3, <2>5, <2>6, WatchTypes DEF Accepts, EpollInv, TypeOK
  <2> QED BY <2>3, <2>5, <2>7 DEF EpollInv
<1>4. ASSUME NEW c, NEW d, Loses(c, d) PROVE EpollInv'
  <2>1. UNCHANGED <<fd, event, call_back, status, idle, reg>>
    BY <1>4 DEF Loses, tableVars
  <2>2. /\ c \in Conns /\ c \in backlog /\ d \in Fds /\ conn[d] = NoConn
        /\ lost' = lost \cup {c} /\ backlog' = backlog \ {c}
        /\ \A x \in Fds : conn'[x] = IF x = d THEN c ELSE conn[x]
        /\ conn' \in [Fds -> Conns \cup {NoConn}]
    BY <1>4 DEF Loses, EpollInv, TypeOK
  <2>3. \A t \in Slots : status[t] = 1 => fd[t] # d /\ conn'[fd[t]] = conn[fd[t]]
    BY <2>2, SizeAssumption DEF EpollInv, Table, Serves
  <2>4. Registered' /\ Listens' /\ \A s \in Slots : status'[s] = 1 => Serves(s)'
    BY <2>1, <2>3 DEF EpollInv, Table, Registered, Listens, Serves
  <2>5. ConnsOnce'
    <3>1. c \notin lost /\ \A x \in Fds : conn[x] # c
      BY <2>2 DEF EpollInv, Table, ConnsOnce, Waiting
    <3>2. \A x, y \in Fds : conn'[x] = conn'[y] => conn'[x] = NoConn \/ x = y
      BY <2>2, <3>1 DEF EpollInv, Table, ConnsOnce
    <3>3. /\ \A x \in Conns : Waiting(x)' => x \notin lost' /\ \A y \in Fds : conn'[y] # x
          /\ \A x \in Conns : peer'[x] = "idle" => x \notin backlog'
      BY <1>1, <2>2 DEF EpollInv, Table, ConnsOnce, Waiting
    <3>4. \A x \in Fds : conn'[x] # NoConn =>
            (conn'[x] \notin lost' <=> \E t \in Slots : status'[t] = 1 /\ fd'[t] = x)
      BY <2>1, <2>2, <2>3, <3>1 DEF EpollInv, Table, ConnsOnce
    <3> QED BY <3>2, <3>3, <3>4 DEF ConnsOnce
  <2>6. /\ Batch' /\ pc' \in {"scan", "dispatch"}
        /\ batch' \subseteq Entries \X {"in", "out"} \X (Conns \cup {NoConn})
    BY <2>1, <2>3, Numbers, BatchAfter
  <2>7. TypeOK'
    BY <1>1, <2>1, <2>2, <2>6 DEF EpollInv, TypeOK
  <2> QED BY <2>4, <2>5, <2>6, <2>7 DEF EpollInv, Table
<1> QED BY <1>2, <1>3, <1>4, AcceptConnDoes

(* A callback of a slot serves it again or closes it.                       *)
LEMMA SlotKeeps ==
  ASSUME EpollInv, pc = "dispatch", NEW e \in batch, batch' = batch \ {e},
         pc' = IF batch' = {} THEN "scan" ELSE "dispatch",
         NEW s \in Slots, s = e[1], status[s] = 1,
         \/ /\ \/ Watch(s, fd[s], "recvdata", "in")
               \/ Watch(s, fd[s], "senddata", "out")
            /\ UNCHANGED conn
         \/ Close({s}),
         len' \in [Entries -> 0 .. BufLen], unread' \in [Conns -> Nat],
         owed' \in [Conns -> Int], room' \in [Conns -> BOOLEAN],
         UNCHANGED <<checkpos, backlog, peer, lost>>
  PROVE  EpollInv'
<1> DEFINE Others == \A t \in Entries \ {s} : status[t] = 1 =>
                       /\ status'[t] = 1 /\ event'[t] = event[t]
                       /\ t # Listener => conn'[fd'[t]] = conn[fd[t]]
           TableTypes == /\ fd' \in [Entries -> Descriptors]
                         /\ event' \in [Entries -> {"none", "in", "out"}]
                         /\ call_back' \in [Entries ->
                              {"null", "acceptconn", "recvdata", "senddata"}]
                         /\ status' \in [Entries -> {0, 1}]
                         /\ idle' \in [Entries -> 0 .. IdleMax + 1]
                         /\ reg' \in [Descriptors ->
                                        (Entries \X {"in", "out"}) \cup {NotWatched}]
                         /\ conn' \in [Fds -> Conns \cup {NoConn}]
<1>1. ASSUME NEW cb \in {"recvdata", "senddata"}, NEW ev \in {"in", "out"},
             \/ cb = "recvdata" /\ ev = "in"
             \/ cb = "senddata" /\ ev = "out",
             Watch(s, fd[s], cb, ev), UNCHANGED conn
      PROVE  Table' /\ Others /\ TableTypes
  <2>1. /\ Table' /\ \A t \in Entries : status'[t] = status[t] /\ fd'[t] = fd[t]
        /\ \A t \in Entries \ {s} : event'[t] = event[t]
    BY <1>1, WatchAgain DEF EpollInv
  <2>2. fd[s] \in Fds
    BY DEF EpollInv, Table, Serves
  <2>3. TableTypes
    BY <1>1, <2>2, WatchTypes DEF EpollInv, TypeOK
  <2> QED BY <1>1, <2>1, <2>3
<1>2. ASSUME Close({s}) PROVE Table' /\ Others /\ TableTypes
  <2>1. /\ Table' /\ reg' \in [Descriptors -> (Entries \X {"in", "out"}) \cup {NotWatched}]
        /\ conn' \in [Fds -> Conns \cup {NoConn}] /\ status' \in [Entries -> {0, 1}]
        /\ \A t \in Entries : status'[t] = IF t \in {s} THEN 0 ELSE status[t]
        /\ \A t \in Slots \ {s} : status[t] = 1 => conn'[fd[t]] = conn[fd[t]]
    BY <1>2, CloseTable DEF EpollInv
  <2>2. UNCHANGED <<fd, event, call_back, idle>>
    BY <1>2 DEF Close
  <2> QED BY <2>1, <2>2, Numbers DEF EpollInv, TypeOK
<1>3. Table' /\ Others /\ TableTypes
  BY <1>1, <1>2
<1>4. /\ Batch' /\ pc' \in {"scan", "dispatch"}
      /\ batch' \subseteq Entries \X {"in", "out"} \X (Conns \cup {NoConn})
  BY <1>3, BatchAfter
<1>5. TypeOK'
  BY <1>3, <1>4 DEF EpollInv, TypeOK
<1> QED BY <1>3, <1>4, <1>5 DEF EpollInv

(* What recvdata and senddata do.                                           *)
Receives(s, c) ==
  \E k \in 1 .. BufLen :
    /\ k <= unread[c] /\ unread' = [unread EXCEPT ![c] = @ - k]
    /\ owed' = [owed EXCEPT ![c] = @ + k] /\ len' = [len EXCEPT ![s] = k]
    /\ Watch(s, fd[s], "senddata", "out") /\ UNCHANGED conn

LEMMA RecvDataDoes ==
  ASSUME EpollInv, NEW s \in Slots, NEW c \in Conns, c = conn[fd[s]], RecvData(s)
  PROVE  Receives(s, c) \/ (Close({s}) /\ UNCHANGED <<unread, owed, len>>)
<1>1. CASE unread[c] > 0
  <2>1. PICK k : k = Min({unread[c], BufLen})
    OBVIOUS
  <2>2. k \in 1 .. BufLen /\ k <= unread[c] /\ Terminated(k) = k
    <3>1. unread[c] \in Nat \ {0}
      BY <1>1 DEF EpollInv, TypeOK
    <3> QED BY <2>1, <3>1, Received
  <2>3. /\ unread' = [unread EXCEPT ![c] = unread[c] - k]
        /\ owed' = [owed EXCEPT ![c] = owed[c] + k] /\ len' = [len EXCEPT ![s] = k]
        /\ Watch(s, fd[s], "senddata", "out") /\ UNCHANGED conn
    BY <1>1, <2>1, <2>2 DEF RecvData
  <2> QED BY <2>2, <2>3 DEF Receives
<1>2. CASE unread[c] = 0
  BY <1>2 DEF RecvData
<1> QED BY <1>1, <1>2 DEF RecvData

LEMMA DispatchKeeps == EpollInv /\ Dispatch => EpollInv'
<1> SUFFICES ASSUME EpollInv, Dispatch PROVE EpollInv'
  OBVIOUS
<1>1. PICK e \in batch :
        /\ pc = "dispatch" /\ batch' = batch \ {e}
        /\ pc' = IF batch' = {} THEN "scan" ELSE "dispatch"
        /\ UNCHANGED checkpos
        /\ \/ CallBack(e[1])
           \/ event[e[1]] # e[2]
  BY DEF Dispatch
<1>2. PICK s \in Entries :
        /\ s = e[1] /\ status[s] = 1 /\ (s = Listener <=> call_back[s] = "acceptconn")
        /\ s # Listener => s \in Slots /\ Serves(s)
  BY TurnOf
<1>3. CallBack(s)
  BY <1>1, <1>2 DEF EpollInv, Batch, Fresh
<1>4. CASE call_back[s] = "acceptconn"
  <2>1. AcceptConn /\ UNCHANGED <<len, peerVars, owed>>
    BY <1>3, <1>4 DEF CallBack
  <2> QED BY <1>1, <1>2, <1>4, <2>1, AcceptsKeeps
<1>5. CASE call_back[s] = "recvdata"
  <2>1. s \in Slots /\ Serves(s)
    BY <1>2, <1>5
  <2>2. PICK c \in Conns : c = conn[fd[s]]
    BY <2>1 DEF Serves
  <2>3. RecvData(s) /\ UNCHANGED <<backlog, peer, room, lost>>
    BY <1>3, <1>5 DEF CallBack
  <2>4. CASE Receives(s, c)
    <3>1. PICK k \in 1 .. BufLen :
            /\ k <= unread[c] /\ unread' = [unread EXCEPT ![c] = unread[c] - k]
            /\ owed' = [owed EXCEPT ![c] = owed[c] + k] /\ len' = [len EXCEPT ![s] = k]
      BY <2>4 DEF Receives
    <3>2. unread[c] - k \in Nat /\ owed[c] + k \in Int /\ k \in 0 .. BufLen
      BY <3>1, SizeAssumption DEF EpollInv, TypeOK
    <3>3. /\ unread' \in [Conns -> Nat] /\ owed' \in [Conns -> Int]
          /\ len' \in [Entries -> 0 .. BufLen] /\ room' \in [Conns -> BOOLEAN]
      BY <2>3, <3>1, <3>2 DEF EpollInv, TypeOK
    <3>4. Watch(s, fd[s], "senddata", "out") /\ UNCHANGED conn
      BY <2>4 DEF Receives
    <3> QED BY <1>1, <1>2, <2>1, <2>3, <3>3, <3>4, SlotKeeps
  <2>5. CASE Close({s}) /\ UNCHANGED <<unread, owed, len>>
    <3>1. /\ unread' \in [Conns -> Nat] /\ owed' \in [Conns -> Int]
          /\ len' \in [Entries -> 0 .. BufLen] /\ room' \in [Conns -> BOOLEAN]
      BY <2>3, <2>5 DEF EpollInv, TypeOK
    <3> QED BY <1>1, <1>2, <2>1, <2>3, <2>5, <3>1, SlotKeeps
  <2> QED BY <2>1, <2>2, <2>3, <2>4, <2>5, RecvDataDoes
<1>6. CASE call_back[s] = "senddata"
  <2>1. s \in Slots /\ Serves(s)
    BY <1>2, <1>6
  <2>2. SendData(s) /\ UNCHANGED <<len, backlog, peer, unread, lost>>
    BY <1>3, <1>6 DEF CallBack
  <2>3. PICK c \in Conns : c = conn[fd[s]]
    BY <2>1 DEF Serves
  <2>4. /\ owed' \in [Conns -> Int] /\ room' \in [Conns -> BOOLEAN]
        /\ \/ Watch(s, fd[s], "recvdata", "in") /\ UNCHANGED conn
           \/ Close({s})
    <3>1. CASE Close({s}) /\ UNCHANGED <<room, owed>>
      BY <3>1 DEF EpollInv, TypeOK
    <3>2. ASSUME NEW k \in IF PartialSends THEN 1 .. len[s] ELSE {len[s]},
                 owed' = [owed EXCEPT ![c] = owed[c] - k],
                 NEW b \in BOOLEAN, room' = [room EXCEPT ![c] = b]
          PROVE  owed' \in [Conns -> Int] /\ room' \in [Conns -> BOOLEAN]
      <4>1. k \in Int
        BY SizeAssumption DEF EpollInv, TypeOK
      <4>2. owed[c] - k \in Int
        BY <4>1 DEF EpollInv, TypeOK
      <4> QED BY <3>2, <4>2 DEF EpollInv, TypeOK
    <3> QED BY <2>2, <2>3, <3>1, <3>2 DEF SendData
  <2>5. len' \in [Entries -> 0 .. BufLen] /\ unread' \in [Conns -> Nat]
    BY <2>2 DEF EpollInv, TypeOK
  <2> QED BY <1>1, <1>2, <2>1, <2>2, <2>4, <2>5, SlotKeeps
<1> QED BY <1>3, <1>4, <1>5, <1>6 DEF CallBack
-----------------------------------------------------------------------------
(* The clock, the clients and SIGPIPE leave the table alone.                *)
LEMMA QuietKeeps ==
  ASSUME EpollInv,
         UNCHANGED <<fd, event, call_back, status, len, checkpos, reg, conn, owed, lost>>,
         \/ UNCHANGED <<pc, batch>>
         \/ pc' = "ended" /\ batch' = {},
         idle' \in [Entries -> 0 .. IdleMax + 1], backlog' \subseteq Conns,
         peer' \in [Conns -> {"idle", "open", "fin", "reset"}],
         unread' \in [Conns -> Nat],
         room' \in [Conns -> BOOLEAN],
         \A c \in Conns : Waiting(c)' => Waiting(c),
         \A c \in Conns : peer'[c] = "idle" => c \notin backlog'
  PROVE  EpollInv'
<1>1. TypeOK'
  BY DEF EpollInv, TypeOK
<1>2. Registered' /\ Listens' /\ \A s \in Slots : status'[s] = 1 => Serves(s)'
  BY DEF EpollInv, Table, Registered, Listens, Serves
<1>3. ConnsOnce'
  <2>1. \A c \in Conns : Waiting(c)' => c \notin lost' /\ \A d \in Fds : conn'[d] # c
    BY DEF EpollInv, Table, ConnsOnce
  <2> QED BY <2>1 DEF EpollInv, Table, ConnsOnce
<1>4. Batch'
  <2>1. \A e \in batch : Fresh(e) => Fresh(e)'
    BY DEF Fresh
  <2> QED BY <2>1 DEF EpollInv, Batch
<1> QED BY <1>1, <1>2, <1>3, <1>4 DEF EpollInv, Table

LEMMA PeerKeeps == ASSUME EpollInv, NEW c \in Conns, Peer(c) PROVE EpollInv'
<1> DEFINE Types ==
             /\ backlog' \subseteq Conns
             /\ peer' \in [Conns -> {"idle", "open", "fin", "reset"}]
             /\ unread' \in [Conns -> Nat]
             /\ room' \in [Conns -> BOOLEAN]
           WaitsLess ==
             /\ \A x \in Conns : Waiting(x)' => Waiting(x)
             /\ \A x \in Conns : peer'[x] = "idle" => x \notin backlog'
<1> USE DEF EpollInv, TypeOK, Table, ConnsOnce, Waiting
<1>1. CASE PeerConnect(c)
  <2>1. Types /\ WaitsLess
    BY <1>1 DEF PeerConnect
  <2> QED BY <1>1, <2>1, QuietKeeps DEF PeerConnect, tableVars, loopVars, histVars
<1>2. CASE PeerSend(c)
  <2>1. unread[c] + 1 \in Nat
    BY <1>2 DEF PeerSend
  <2>2. Types /\ WaitsLess
    BY <1>2, <2>1 DEF PeerSend, kernelVars
  <2> QED BY <1>2, <2>2, QuietKeeps
          DEF PeerSend, tableVars, loopVars, kernelVars, histVars
<1>3. CASE PeerRead(c)
  <2>1. Types /\ WaitsLess
    BY <1>3 DEF PeerRead, kernelVars
  <2> QED BY <1>3, <2>1, QuietKeeps
          DEF PeerRead, tableVars, loopVars, kernelVars, histVars
<1>4. CASE PeerFin(c)
  <2>1. Types /\ WaitsLess
    BY <1>4 DEF PeerFin, kernelVars
  <2> QED BY <1>4, <2>1, QuietKeeps
          DEF PeerFin, tableVars, loopVars, kernelVars, histVars
<1>5. CASE PeerReset(c)
  <2>1. Types /\ WaitsLess
    BY <1>5 DEF PeerReset
  <2> QED BY <1>5, <2>1, QuietKeeps DEF PeerReset, tableVars, loopVars, histVars
<1> QED BY <1>1, <1>2, <1>3, <1>4, <1>5 DEF Peer

LEMMA EpollInvNext == EpollInv /\ [Next]_vars => EpollInv'
<1> SUFFICES ASSUME EpollInv, [Next]_vars PROVE EpollInv'
  OBVIOUS
<1>1. ASSUME UNCHANGED <<fd, event, call_back, status, len, checkpos, reg, conn>>,
             UNCHANGED <<owed, lost>>,
             \/ UNCHANGED <<pc, batch>>
             \/ pc' = "ended" /\ batch' = {},
             idle' \in [Entries -> 0 .. IdleMax + 1],
             UNCHANGED <<backlog, peer, unread, room>>
      PROVE  EpollInv'
  <2>1. /\ \A c \in Conns : Waiting(c)' => Waiting(c)
        /\ \A c \in Conns : peer'[c] = "idle" => c \notin backlog'
    BY <1>1 DEF EpollInv, Table, ConnsOnce, Waiting
  <2> QED BY <1>1, <2>1, QuietKeeps DEF EpollInv, TypeOK
<1>2. CASE Tick
  <2>1. idle' \in [Entries -> 0 .. IdleMax + 1]
    <3>1. \A s \in Entries : idle[s] \in 0 .. IdleMax + 1 /\
            (idle[s] <= IdleMax => idle[s] + 1 \in 0 .. IdleMax + 1)
      BY SizeAssumption DEF EpollInv, TypeOK
    <3> QED BY <1>2, <3>1 DEF Tick
  <2> QED BY <1>1, <1>2, <2>1 DEF Tick, loopVars, kernelVars, peerVars, histVars
<1>3. CASE Terminate
  BY <1>1, <1>3 DEF Terminate, tableVars, kernelVars, peerVars, histVars, EpollInv, TypeOK
<1>4. CASE UNCHANGED vars
  BY <1>1, <1>4
     DEF vars, tableVars, loopVars, kernelVars, peerVars, histVars, EpollInv, TypeOK
<1> QED BY <1>2, <1>3, <1>4, ScanTimeoutsKeeps, EpollWaitKeeps, DispatchKeeps, PeerKeeps
        DEF Next, Server

-----------------------------------------------------------------------------
(* Every variable keeps its type in every execution.                        *)
THEOREM EpollTypeCorrect == Spec => []TypeOK
<1>1. EpollInv => TypeOK
  BY DEF EpollInv
<1> QED BY <1>1, EpollInvInit, EpollInvNext, PTL DEF Spec

(* The table and the interest list of the kernel agree, for the listening   *)
(* socket too.                                                              *)
THEOREM TableMatchesKernelAlways == Spec => []TableMatchesKernel
<1>1. ASSUME EpollInv PROVE TableMatchesKernel
  <2>1. \A s \in Entries : status[s] = 1 => reg[fd[s]] = <<s, event[s]>>
    BY <1>1 DEF EpollInv, Table, Registered
  <2>2. ASSUME NEW d \in Descriptors, reg[d] # NotWatched
        PROVE  status[reg[d][1]] = 1 /\ fd[reg[d][1]] = d
    <3>1. PICK s \in Entries : status[s] = 1 /\ fd[s] = d
      BY <1>1, <2>2 DEF EpollInv, Table, Registered
    <3>2. reg[d] = <<s, event[s]>>
      BY <2>1, <3>1
    <3> QED BY <3>1, <3>2
  <2>3. \A s \in Slots : status[s] = 1 => fd[s] # LFd /\ conn[fd[s]] # NoConn
    BY <1>1, Numbers, SizeAssumption DEF EpollInv, Table, Serves
  <2> QED BY <1>1, <2>1, <2>2, <2>3 DEF TableMatchesKernel, EpollInv, Table, Listens
<1> QED BY <1>1, EpollInvInit, EpollInvNext, PTL DEF Spec

(* Only acceptconn at the limit of the table leaves a descriptor open and   *)
(* unwatched.                                                               *)
THEOREM DescriptorsOwnedAlways == Spec => []DescriptorsOwned
<1>1. ASSUME EpollInv PROVE DescriptorsOwned
  <2> SUFFICES ASSUME NEW d \in Fds, conn[d] # NoConn
               PROVE  reg[d] = NotWatched <=> conn[d] \in lost
    BY DEF DescriptorsOwned
  <2>1. conn[d] \notin lost <=> \E s \in Slots : status[s] = 1 /\ fd[s] = d
    BY <1>1 DEF EpollInv, Table, ConnsOnce
  <2>2. ASSUME NEW s \in Slots, status[s] = 1, fd[s] = d PROVE reg[d] # NotWatched
    <3>1. reg[d] = <<s, event[s]>> /\ s # -1
      BY <1>1, <2>2, Numbers DEF EpollInv, Table, Registered
    <3> QED BY <3>1 DEF NotWatched
  <2>3. ASSUME reg[d] # NotWatched PROVE \E s \in Slots : status[s] = 1 /\ fd[s] = d
    BY <1>1, <2>3, Numbers DEF EpollInv, Table, Registered, Listens
  <2> QED BY <2>1, <2>2, <2>3
<1> QED BY <1>1, EpollInvInit, EpollInvNext, PTL DEF Spec

(* No event of a batch is stale when its turn comes.                        *)
THEOREM BatchFreshAlways == Spec => []BatchFresh
<1>1. EpollInv => BatchFresh
  BY DEF EpollInv, Batch, Fresh, BatchFresh
<1> QED BY <1>1, EpollInvInit, EpollInvNext, PTL DEF Spec
-----------------------------------------------------------------------------
(* When send takes all it is given, the bytes owed to a connection are the  *)
(* ones in its slot's buffer, and there are none while it is read from.     *)
OwesSlot ==
  /\ \A c \in Conns : Waiting(c) => owed[c] = 0
  /\ \A s \in Slots : status[s] = 1 =>
       /\ call_back[s] = "recvdata" => owed[conn[fd[s]]] = 0
       /\ call_back[s] = "senddata" =>
            len[s] \in 1 .. BufLen /\ owed[conn[fd[s]]] = len[s]

(* A connection is served by one slot, whose callback is its phase.         *)
LEMMA ServedBySlot ==
  ASSUME EpollInv
  PROVE  /\ \A s \in Slots : status[s] = 1 => ServedBy(conn[fd[s]]) = {s}
         /\ \A c \in Conns : Waiting(c) => ServedBy(c) = {}
         /\ \A s, t \in Slots :
              status[s] = 1 /\ status[t] = 1 /\ conn[fd[s]] = conn[fd[t]] => s = t
<1>1. ASSUME NEW s \in Slots, status[s] = 1, NEW t \in Slots, status[t] = 1,
             conn[fd[s]] = conn[fd[t]]
      PROVE  s = t
  <2>1. fd[s] = fd[t]
    BY <1>1, SizeAssumption DEF EpollInv, Table, Serves, ConnsOnce
  <2> QED BY <1>1, <2>1, Numbers DEF EpollInv, Table, Registered
<1>2. \A s \in Slots : status[s] = 1 => ServedBy(conn[fd[s]]) = {s}
  BY <1>1 DEF ServedBy
<1>3. \A c \in Conns : Waiting(c) => ServedBy(c) = {}
  BY DEF ServedBy, EpollInv, Table, Serves, ConnsOnce
<1> QED BY <1>1, <1>2, <1>3

(* What a step that changes no slot is for the service.                     *)
LEMMA SlotsSame ==
  ASSUME UNCHANGED <<fd, call_back, status, owed>>,
         \A s \in Slots : status[s] = 1 => conn'[fd[s]] = conn[fd[s]]
  PROVE  UNCHANGED Abstract!vars
<1>1. \A c \in Conns : ServedBy(c)' = ServedBy(c)
  BY DEF ServedBy
<1>2. \A c \in Conns : Phase(c)' = Phase(c)
  BY <1>1 DEF Phase
<1> QED BY <1>2 DEF Abstract!vars

(* Closing the connections of some slots.                                   *)
LEMMA CloseEchoes ==
  ASSUME EpollInv, OwesSlot, NEW S \in SUBSET Slots, \A s \in S : status[s] = 1,
         Close(S), UNCHANGED <<owed, len, lost, backlog, peer>>
  PROVE  OwesSlot' /\ Abstract!Next
<1> DEFINE D == {conn[fd[s]] : s \in S}
<1>1. /\ \A t \in Slots : status'[t] = IF t \in S THEN 0 ELSE status[t]
      /\ \A t \in Slots \ S : status[t] = 1 => conn'[fd[t]] = conn[fd[t]]
  BY CloseTable, Numbers DEF EpollInv
<1>2. UNCHANGED <<fd, event, call_back>>
  BY DEF Close
<1>3. \A t \in Slots : status'[t] = 1 <=> status[t] = 1 /\ t \notin S
  BY <1>1
<1>4. ASSUME NEW c \in Conns, c \in D PROVE Phase(c) # "outside" /\ Phase(c)' = "outside"
  <2>1. PICK s \in S : c = conn[fd[s]]
    BY <1>4
  <2>2. ServedBy(c) = {s}
    BY <2>1, ServedBySlot
  <2>3. ServedBy(c)' = {}
    BY <1>1, <1>2, <1>3, <2>1, <2>2 DEF ServedBy
  <2> QED BY <2>2, <2>3 DEF Phase
<1>5. ASSUME NEW c \in Conns, c \notin D PROVE Phase(c)' = Phase(c)
  <2>1. ServedBy(c)' = ServedBy(c)
    BY <1>1, <1>2, <1>3, <1>5 DEF ServedBy
  <2> QED BY <1>2, <2>1 DEF Phase
<1>6. D \in SUBSET Conns
  BY DEF EpollInv, Table, Serves
<1>7. Abstract!Drop(D)
  <2>1. \A c \in Conns : Phase(c)' = IF c \in D THEN "outside" ELSE Phase(c)
    BY <1>4, <1>5
  <2> HIDE DEF D
  <2> QED BY <1>4, <1>6, <2>1 DEF Abstract!Drop
<1>8. OwesSlot'
  BY <1>1, <1>2, <1>3 DEF OwesSlot, Waiting
<1> QED BY <1>6, <1>7, <1>8 DEF Abstract!Next

(* A new connection.                                                        *)
LEMMA AcceptsEchoes ==
  ASSUME EpollInv, OwesSlot, NEW c, NEW d, NEW s, Accepts(c, d, s),
         UNCHANGED <<len, owed, peer>>
  PROVE  OwesSlot' /\ Abstract!Next
<1>1. /\ c \in Conns /\ Waiting(c) /\ d \in Fds /\ s \in Slots /\ status[s] = 0
      /\ \A x \in Fds : conn'[x] = IF x = d THEN c ELSE conn[x]
  BY DEF Accepts, EpollInv, TypeOK, Waiting
<1>2. /\ \A t \in Entries \ {s} :
           /\ status'[t] = status[t] /\ fd'[t] = fd[t]
           /\ call_back'[t] = call_back[t] /\ event'[t] = event[t]
      /\ status'[s] = 1 /\ fd'[s] = d /\ call_back'[s] = "recvdata"
  BY <1>1, WatchNew DEF Accepts, EpollInv
<1>3. \A t \in Slots : status[t] = 1 =>
        t # s /\ fd[t] \in Fds /\ fd[t] # d /\ conn[fd[t]] # c
  BY <1>1, SizeAssumption DEF Accepts, EpollInv, Table, Serves, ConnsOnce
<1>4. \A t \in Slots : t # s =>
        /\ status'[t] = status[t] /\ fd'[t] = fd[t] /\ call_back'[t] = call_back[t]
        /\ status[t] = 1 => conn'[fd'[t]] = conn[fd[t]]
  <2> SUFFICES ASSUME NEW t \in Slots, t # s
               PROVE  /\ status'[t] = status[t] /\ fd'[t] = fd[t]
                      /\ call_back'[t] = call_back[t]
                      /\ status[t] = 1 => conn'[fd'[t]] = conn[fd[t]]
    OBVIOUS
  <2>1. status'[t] = status[t] /\ fd'[t] = fd[t] /\ call_back'[t] = call_back[t]
    BY <1>2, Numbers
  <2>2. status[t] = 1 => conn'[fd[t]] = conn[fd[t]]
    BY <1>1, <1>3
  <2> QED BY <2>1, <2>2
<1>5. conn'[fd'[s]] = c
  BY <1>1, <1>2
<1>6. Phase(c) = "outside" /\ Phase(c)' = "reading"
  <2>1. ServedBy(c) = {}
    BY <1>1, ServedBySlot
  <2>2. ASSUME NEW t \in Slots PROVE status'[t] = 1 /\ conn'[fd'[t]] = c <=> t = s
    <3>1. CASE t = s
      BY <1>2, <1>5, <3>1
    <3>2. CASE t # s
      BY <1>3, <1>4, <3>2
    <3> QED BY <3>1, <3>2
  <2>3. ServedBy(c)' = {s}
    BY <1>1, <2>2 DEF ServedBy
  <2> QED BY <1>2, <2>1, <2>3 DEF Phase
<1>7. ASSUME NEW x \in Conns, x # c PROVE Phase(x)' = Phase(x)
  <2>1. ASSUME NEW t \in Slots
        PROVE  status'[t] = 1 /\ conn'[fd'[t]] = x <=> status[t] = 1 /\ conn[fd[t]] = x
    <3>1. CASE t = s
      BY <1>1, <1>5, <1>7, <3>1
    <3>2. CASE t # s
      BY <1>4, <3>2
    <3> QED BY <3>1, <3>2
  <2>2. ServedBy(x)' = ServedBy(x)
    BY <2>1 DEF ServedBy
  <2>3. ServedBy(x) \subseteq Slots \ {s}
    BY <1>1 DEF ServedBy
  <2>4. \A t \in ServedBy(x) : call_back'[t] = call_back[t]
    BY <1>4, <2>3
  <2> QED BY <2>2, <2>4 DEF Phase
<1>8. Abstract!Take(c)
  <2>1. \A x \in Conns : Phase(x)' = IF x = c THEN "reading" ELSE Phase(x)
    BY <1>6, <1>7
  <2> QED BY <1>1, <1>6, <2>1 DEF Abstract!Take
<1>9. OwesSlot'
  <2>1. \A x \in Conns : Waiting(x)' => Waiting(x)
    BY DEF Accepts, Waiting
  <2>2. owed[c] = 0
    BY <1>1 DEF OwesSlot
  <2>3. ASSUME NEW t \in Slots, status'[t] = 1
        PROVE  /\ call_back'[t] = "recvdata" => owed'[conn'[fd'[t]]] = 0
               /\ call_back'[t] = "senddata" =>
                    len'[t] \in 1 .. BufLen /\ owed'[conn'[fd'[t]]] = len'[t]
    <3>1. CASE t = s
      BY <1>2, <1>5, <2>2, <3>1
    <3>2. CASE t # s
      BY <1>4, <2>3, <3>2 DEF OwesSlot
    <3> QED BY <3>1, <3>2
  <2> QED BY <2>1, <2>3 DEF OwesSlot
<1> QED BY <1>1, <1>8, <1>9 DEF Abstract!Next

(* A slot that receives or replies: what is owed to its connection becomes  *)
(* k.                                                                       *)
LEMMA AgainEchoes ==
  ASSUME EpollInv, OwesSlot, NEW s \in Slots, status[s] = 1,
         NEW c \in Conns, c = conn[fd[s]], NEW k \in 0 .. BufLen,
         owed' = [owed EXCEPT ![c] = k],
         \/ /\ call_back[s] = "recvdata" /\ k > 0
            /\ Watch(s, fd[s], "senddata", "out") /\ len' = [len EXCEPT ![s] = k]
         \/ /\ call_back[s] = "senddata" /\ k = 0
            /\ Watch(s, fd[s], "recvdata", "in") /\ UNCHANGED len,
         UNCHANGED <<conn, lost, backlog, peer>>
  PROVE  OwesSlot' /\ Abstract!Next
<1> DEFINE cb == IF k > 0 THEN "senddata" ELSE "recvdata"
<1>1. /\ \A t \in Entries : status'[t] = status[t] /\ fd'[t] = fd[t]
      /\ \A t \in Entries \ {s} : call_back'[t] = call_back[t]
      /\ call_back'[s] = cb
  BY WatchAgain DEF EpollInv
<1>2. /\ owed'[c] = k /\ \A x \in Conns \ {c} : owed'[x] = owed[x]
      /\ \A t \in Slots \ {s} : len'[t] = len[t]
      /\ k > 0 => len'[s] = k
  BY Numbers DEF EpollInv, TypeOK
<1>3. \A t \in Slots : status[t] = 1 /\ t # s => conn[fd[t]] # c /\ conn[fd[t]] \in Conns
  BY ServedBySlot DEF EpollInv, Table, Serves
<1>4. \A x \in Conns : ServedBy(x)' = ServedBy(x)
  BY <1>1, Numbers DEF ServedBy
<1>5. ServedBy(c) = {s}
  BY ServedBySlot
<1>6. ASSUME NEW x \in Conns \ {c} PROVE Phase(x)' = Phase(x)
  <2>1. ServedBy(x) \subseteq Entries \ {s}
    BY Numbers DEF ServedBy
  <2>2. \A t \in ServedBy(x) : call_back'[t] = call_back[t]
    BY <1>1, <2>1
  <2> QED BY <1>4, <2>2 DEF Phase
<1>7. /\ Phase(c) = IF call_back[s] = "senddata" THEN "replying" ELSE "reading"
      /\ Phase(c)' = IF k > 0 THEN "replying" ELSE "reading"
  BY <1>1, <1>4, <1>5 DEF Phase
<1>8. OwesSlot'
  <2>1. ~Waiting(c) /\ \A x \in Conns : Waiting(x)' <=> Waiting(x)
    BY <1>5, ServedBySlot DEF Waiting
  <2>2. ASSUME NEW t \in Slots, status'[t] = 1
        PROVE  /\ call_back'[t] = "recvdata" => owed'[conn'[fd'[t]]] = 0
               /\ call_back'[t] = "senddata" =>
                    len'[t] \in 1 .. BufLen /\ owed'[conn'[fd'[t]]] = len'[t]
    <3>1. status[t] = 1 /\ conn'[fd'[t]] = conn[fd[t]]
      BY <1>1, <2>2, Numbers
    <3>2. CASE t = s
      BY <1>1, <1>2, <3>1, <3>2, SizeAssumption
    <3>3. CASE t # s
      BY <1>1, <1>2, <1>3, <3>1, <3>3, Numbers DEF OwesSlot
    <3> QED BY <3>2, <3>3
  <2> QED BY <1>2, <2>1, <2>2 DEF OwesSlot
<1>9. CASE call_back[s] = "recvdata"
  <2>1. owed[c] = 0 /\ k \in 1 .. BufLen
    BY <1>9, SizeAssumption DEF OwesSlot
  <2>2. Abstract!Receive(c)
    BY <1>6, <1>7, <1>9, <2>1 DEF Abstract!Receive
  <2> QED BY <1>8, <2>2 DEF Abstract!Next
<1>10. CASE call_back[s] = "senddata"
  <2>1. Abstract!Reply(c)
    BY <1>6, <1>7, <1>10 DEF Abstract!Reply
  <2> QED BY <1>8, <2>1 DEF Abstract!Next
<1> QED BY <1>9, <1>10

(* A step that changes no slot.                                             *)
LEMMA QuietEchoes ==
  ASSUME OwesSlot, UNCHANGED <<fd, call_back, status, len, owed>>,
         \A s \in Slots : status[s] = 1 => conn'[fd[s]] = conn[fd[s]],
         \A c \in Conns : Waiting(c)' => Waiting(c)
  PROVE  OwesSlot' /\ UNCHANGED Abstract!vars
<1>1. OwesSlot'
  BY DEF OwesSlot
<1> QED BY <1>1, SlotsSame

LEMMA AcceptConnEchoes ==
  ASSUME EpollInv, OwesSlot, AcceptConn, UNCHANGED <<len, owed, peer>>
  PROVE  OwesSlot' /\ [Abstract!Next]_(Abstract!vars)
<1>1. CASE UNCHANGED <<tableVars, reg, conn, backlog, lost>>
  BY <1>1, QuietEchoes DEF tableVars, Waiting
<1>2. ASSUME NEW c, NEW d, NEW s, Accepts(c, d, s) PROVE OwesSlot' /\ Abstract!Next
  BY <1>2, AcceptsEchoes
<1>3. ASSUME NEW c, NEW d, Loses(c, d)
      PROVE  OwesSlot' /\ UNCHANGED Abstract!vars
  <2>1. \A x \in Fds : x # d => conn'[x] = conn[x]
    BY <1>3 DEF Loses, EpollInv, TypeOK
  <2>2. \A s \in Slots : status[s] = 1 => fd[s] \in Fds /\ fd[s] # d
    BY <1>3, SizeAssumption DEF Loses, EpollInv, Table, Serves
  <2>3. UNCHANGED <<fd, call_back, status>> /\ \A x \in Conns : Waiting(x)' => Waiting(x)
    BY <1>3 DEF Loses, tableVars, Waiting
  <2> QED BY <2>1, <2>2, <2>3, QuietEchoes
<1> QED BY <1>1, <1>2, <1>3, AcceptConnDoes

LEMMA RecvDataEchoes ==
  ASSUME EpollInv, OwesSlot, NEW s \in Slots, status[s] = 1, call_back[s] = "recvdata",
         RecvData(s), UNCHANGED <<lost, backlog, peer>>
  PROVE  OwesSlot' /\ Abstract!Next
<1>1. PICK c \in Conns : c = conn[fd[s]]
  BY DEF EpollInv, Table, Serves
<1>2. CASE Receives(s, c)
  <2>1. PICK k \in 1 .. BufLen :
          /\ owed' = [owed EXCEPT ![c] = owed[c] + k] /\ len' = [len EXCEPT ![s] = k]
          /\ Watch(s, fd[s], "senddata", "out") /\ UNCHANGED conn
    BY <1>2 DEF Receives
  <2>2. owed[c] = 0
    BY <1>1 DEF OwesSlot
  <2>3. owed[c] + k = k /\ k \in 0 .. BufLen /\ k > 0
    BY <2>2, SizeAssumption
  <2> QED BY <1>1, <2>1, <2>3, AgainEchoes
<1>3. CASE Close({s}) /\ UNCHANGED <<unread, owed, len>>
  BY <1>3, CloseEchoes
<1> QED BY <1>1, <1>2, <1>3, RecvDataDoes

LEMMA SendDataEchoes ==
  ASSUME EpollInv, OwesSlot, ~PartialSends, NEW s \in Slots, status[s] = 1,
         call_back[s] = "senddata", SendData(s), UNCHANGED <<len, lost, backlog, peer>>
  PROVE  OwesSlot' /\ Abstract!Next
<1>1. PICK c \in Conns : c = conn[fd[s]]
  BY DEF EpollInv, Table, Serves
<1>2. CASE Close({s}) /\ UNCHANGED <<room, owed>>
  BY <1>2, CloseEchoes
<1>3. CASE /\ owed' = [owed EXCEPT ![c] = owed[c] - len[s]]
           /\ Watch(s, fd[s], "recvdata", "in") /\ UNCHANGED conn
  <2>1. owed[c] = len[s] /\ len[s] \in Nat
    BY <1>1, SizeAssumption DEF OwesSlot
  <2>2. owed[c] - len[s] = 0 /\ 0 \in 0 .. BufLen
    BY <2>1, SizeAssumption
  <2>3. owed' = [owed EXCEPT ![c] = 0]
    BY <1>3, <2>2
  <2> QED BY <1>1, <1>3, <2>2, <2>3, AgainEchoes
<1> QED BY <1>1, <1>2, <1>3 DEF SendData

(* The loop with its table implements the echo service, when send takes     *)
(* all it is given.                                                         *)
THEOREM EpollEchoes == ~PartialSends => (Spec => ImplementsEchoService)
<1> SUFFICES ASSUME ~PartialSends PROVE Spec => ImplementsEchoService
  OBVIOUS
<1>1. Init => OwesSlot /\ Abstract!Init
  <2> SUFFICES ASSUME Init PROVE OwesSlot /\ Abstract!Init
    OBVIOUS
  <2>1. \A s \in Slots : status[s] = 0
    BY Numbers DEF Init
  <2>2. \A c \in Conns : Phase(c) = "outside"
    BY <2>1 DEF Phase, ServedBy
  <2>3. owed = [c \in Conns |-> 0]
    BY DEF Init
  <2> QED BY <2>1, <2>2, <2>3 DEF OwesSlot, Abstract!Init
<1>2. EpollInv /\ OwesSlot /\ [Next]_vars
        => OwesSlot' /\ [Abstract!Next]_(Abstract!vars)
  <2> SUFFICES ASSUME EpollInv, OwesSlot, [Next]_vars
               PROVE  OwesSlot' /\ [Abstract!Next]_(Abstract!vars)
    OBVIOUS
  <2>1. CASE ScanTimeouts
    <3>1. /\ Close(Expired)
          /\ UNCHANGED <<len, backlog, peer, owed, lost>>
      BY <2>1 DEF ScanTimeouts, peerVars, histVars
    <3>2. Expired \in SUBSET Slots /\ \A s \in Expired : status[s] = 1
      BY ScanNumbers DEF Expired, EpollInv, TypeOK
    <3> QED BY <3>1, <3>2, CloseEchoes
  <2>2. CASE Dispatch
    <3>1. PICK e \in batch : CallBack(e[1]) \/ event[e[1]] # e[2]
      BY <2>2 DEF Dispatch
    <3>2. PICK s \in Entries :
            /\ s = e[1] /\ status[s] = 1 /\ (s = Listener <=> call_back[s] = "acceptconn")
            /\ s # Listener => s \in Slots /\ Serves(s)
      BY TurnOf
    <3>3. CallBack(s)
      BY <3>1, <3>2 DEF EpollInv, Batch, Fresh
    <3>4. CASE /\ call_back[s] = "acceptconn" /\ AcceptConn
               /\ UNCHANGED <<len, peerVars, owed>>
      BY <3>4, AcceptConnEchoes DEF peerVars
    <3>5. CASE /\ call_back[s] = "recvdata" /\ RecvData(s)
               /\ UNCHANGED <<backlog, peer, room, lost>>
      BY <3>2, <3>5, RecvDataEchoes
    <3>6. CASE /\ call_back[s] = "senddata" /\ SendData(s)
               /\ UNCHANGED <<len, backlog, peer, unread, lost>>
      BY <3>2, <3>6, SendDataEchoes
    <3> QED BY <3>3, <3>4, <3>5, <3>6 DEF CallBack
  <2>3. CASE \E c \in Conns : Peer(c)
    <3>1. UNCHANGED <<fd, call_back, status, len, owed, conn>>
      BY <2>3 DEF Peer, PeerConnect, PeerSend, PeerRead, PeerFin, PeerReset, tableVars,
                  kernelVars, histVars
    <3>2. \A c \in Conns : Waiting(c)' => Waiting(c)
      BY <2>3 DEF Peer, PeerConnect, PeerSend, PeerRead, PeerFin, PeerReset, kernelVars,
                  Waiting, EpollInv, TypeOK
    <3> QED BY <3>1, <3>2, QuietEchoes
  <2>4. CASE EpollWait \/ Terminate \/ Tick \/ UNCHANGED vars
    BY <2>4, QuietEchoes
       DEF EpollWait, Terminate, Tick, vars, tableVars, kernelVars, peerVars,
           histVars, Waiting
  <2> QED BY <2>1, <2>2, <2>3, <2>4 DEF Next, Server
<1> QED BY <1>1, <1>2, EpollInvInit, EpollInvNext, PTL
        DEF Spec, ImplementsEchoService, Abstract!Spec
=============================================================================
