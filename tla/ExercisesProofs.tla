--------------------------- MODULE ExercisesProofs --------------------------
(***************************************************************************)
(* Proofs about the programs of the repository that stand on their own:    *)
(* the producer and its consumers, the String class, the complex class,    *)
(* the service hall and the parent that reaps its children, for every      *)
(* number of threads, messages, objects, texts, numbers and children; and  *)
(* about the socket wrappers, with a writer and a reader of their own.     *)
(***************************************************************************)
EXTENDS MCExercises, MCWrap, FiniteSetTheorems, SequenceTheorems, TLAPS

(* The elements of a list that loses its head, or gets one, or is appended  *)
(* to.                                                                      *)
LEMMA ToSetTail ==
  ASSUME NEW S, NEW s \in Seq(S), s # <<>>
  PROVE  ToSet(s) = {Head(s)} \cup ToSet(Tail(s))
<1>1. ASSUME NEW m \in DOMAIN s PROVE s[m] \in {Head(s)} \cup ToSet(Tail(s))
  <2>1. CASE m = 1
    BY <2>1
  <2>2. CASE m # 1
    <3>1. m - 1 \in DOMAIN Tail(s) /\ Tail(s)[m - 1] = s[m]
      BY <2>2
    <3> QED BY <3>1 DEF ToSet
  <2> QED BY <2>1, <2>2
<1>2. ASSUME NEW m \in DOMAIN Tail(s) PROVE Tail(s)[m] \in ToSet(s)
  <2>1. m + 1 \in DOMAIN s /\ Tail(s)[m] = s[m + 1]
    OBVIOUS
  <2> QED BY <2>1 DEF ToSet
<1>3. Head(s) \in ToSet(s)
  <2>1. 1 \in DOMAIN s /\ Head(s) = s[1]
    OBVIOUS
  <2> QED BY <2>1 DEF ToSet
<1> QED BY <1>1, <1>2, <1>3 DEF ToSet

LEMMA ToSetCons ==
  ASSUME NEW S, NEW s \in Seq(S), NEW e \in S
  PROVE  ToSet(<<e>> \o s) = {e} \cup ToSet(s)
<1> DEFINE t == <<e>> \o s
<1>1. t \in Seq(S) /\ t # <<>> /\ Head(t) = e /\ Tail(t) = s
  <2>1. t \in Seq(S) /\ Len(t) = Len(s) + 1
    OBVIOUS
  <2>2. t[1] = e /\ \A m \in 1 .. Len(s) : t[m + 1] = s[m]
    OBVIOUS
  <2>3. Tail(t) \in Seq(S) /\ Len(Tail(t)) = Len(s)
    BY <2>1
  <2>4. \A m \in 1 .. Len(s) : Tail(t)[m] = s[m]
    BY <2>1, <2>2
  <2>5. Tail(t) = s
    BY <2>3, <2>4
  <2> QED BY <2>1, <2>2, <2>5
<1> HIDE DEF t
<1>2. ToSet(t) = {Head(t)} \cup ToSet(Tail(t))
  BY <1>1, ToSetTail
<1> QED BY <1>1, <1>2 DEF t

LEMMA ToSetAppend ==
  ASSUME NEW S, NEW s \in Seq(S), NEW e \in S
  PROVE  ToSet(Append(s, e)) = ToSet(s) \cup {e}
<1>1. /\ DOMAIN Append(s, e) = DOMAIN s \cup {Len(s) + 1}
      /\ Append(s, e)[Len(s) + 1] = e
      /\ \A m \in DOMAIN s : Append(s, e)[m] = s[m]
  OBVIOUS
<1> QED BY <1>1, Zenon DEF ToSet

-----------------------------------------------------------------------------
(* The producer and the consumers.  Held are the consumers with a node: the *)
(* ones between taking it and freeing it.                                   *)
Held == {k \in Consumers : mp[k] # Nothing}
HeldNodes == {mp[k] : k \in Held}

Accounted ==
  /\ ToSet(head) \cup HeldNodes \cup ToSet(consumed) = 1 .. produced
  /\ Len(head) + Cardinality(Held) + Len(consumed) = produced

PCInv ==
  /\ TypeOK
  /\ \A k \in Consumers : cpc[k] = "consume" <=> mp[k] # Nothing
  /\ IsFiniteSet(Held) /\ Accounted

LEMMA PCInvInit == Init => PCInv
<1> SUFFICES ASSUME Init PROVE PCInv
  OBVIOUS
<1>1. TypeOK
  <2>1. head \in Seq(Msgs) /\ consumed \in Seq(Msgs) /\ produced \in 0 .. MsgMax
    BY ValueAssumption DEF Init
  <2> QED BY <2>1 DEF Init, TypeOK
<1>2. Held = {} /\ HeldNodes = {}
  BY DEF Init, Held, HeldNodes
<1>3. ToSet(head) = {} /\ ToSet(consumed) = {} /\ Len(head) = 0 /\ Len(consumed) = 0
  BY DEF Init, ToSet
<1>4. IsFiniteSet(Held) /\ Cardinality(Held) = 0
  BY <1>2, FS_EmptySet
<1>5. Accounted
  BY <1>2, <1>3, <1>4 DEF Accounted, Init
<1> QED BY <1>1, <1>4, <1>5 DEF PCInv, Init

(* What one of the three places loses another gets.                         *)
LEMMA SumAfter ==
  ASSUME NEW a \in Nat, NEW b \in Nat, NEW d \in Nat, NEW m, a + b + d = m
  PROVE  (a - 1) + (b + 1) + d = m /\ a + (b - 1) + (d + 1) = m
  OBVIOUS

(* A node goes from the list to a consumer that holds none.                 *)
LEMMA TakeHeadKeeps ==
  ASSUME PCInv, NEW k \in Consumers, cpc[k] # "consume", TakeHead(k),
         UNCHANGED <<produced, ppc, consumed>>
  PROVE  PCInv'
<1>1. CASE head = <<>>
  <2>1. crashed' = TRUE /\ UNCHANGED <<head, cpc, mp>>
    BY <1>1 DEF TakeHead
  <2> QED BY <2>1 DEF PCInv, TypeOK, Held, HeldNodes, Accounted
<1>2. CASE head # <<>>
  <2>1. /\ head' = Tail(head) /\ mp' = [mp EXCEPT ![k] = Head(head)]
        /\ cpc' = [cpc EXCEPT ![k] = "consume"] /\ UNCHANGED crashed
    BY <1>2 DEF TakeHead
  <2>2. head \in Seq(Msgs) /\ Head(head) \in Msgs /\ Tail(head) \in Seq(Msgs)
    BY <1>2 DEF PCInv, TypeOK
  <2>3. Len(Tail(head)) = Len(head) - 1 /\ Len(head) \in Nat /\ Len(consumed) \in Nat
    BY <1>2, <2>2 DEF PCInv, TypeOK
  <2>4. mp[k] = Nothing /\ Head(head) # Nothing /\ k \notin Held
    BY <2>2, ValueAssumption DEF PCInv, Msgs, Held
  <2>5. /\ mp'[k] = Head(head) /\ \A x \in Consumers \ {k} : mp'[x] = mp[x]
        /\ cpc'[k] = "consume" /\ \A x \in Consumers \ {k} : cpc'[x] = cpc[x]
    BY <2>1 DEF PCInv, TypeOK
  <2>6. Held' = Held \cup {k}
    BY <2>4, <2>5 DEF Held
  <2>7. HeldNodes' = HeldNodes \cup {Head(head)}
    BY <2>4, <2>5, <2>6 DEF HeldNodes, Held
  <2>8. IsFiniteSet(Held') /\ Cardinality(Held') = Cardinality(Held) + 1
    BY <2>4, <2>6, FS_AddElement DEF PCInv
  <2>9. ToSet(head) = {Head(head)} \cup ToSet(Tail(head))
    BY <1>2, <2>2, ToSetTail
  <2>10. Cardinality(Held) \in Nat
    BY FS_CardinalityType DEF PCInv
  <2>11. (ToSet(head) \cup HeldNodes \cup ToSet(consumed) = 1 .. produced)'
    BY <2>1, <2>7, <2>9 DEF PCInv, Accounted
  <2>12. Len(head') + Cardinality(Held') + Len(consumed') = produced'
    <3>1. Len(head) + Cardinality(Held) + Len(consumed) = produced
      BY DEF PCInv, Accounted
    <3>2. Len(head') = Len(head) - 1 /\ UNCHANGED <<consumed, produced>>
      BY <2>1, <2>3
    <3> QED BY <2>3, <2>8, <2>10, <3>1, <3>2, SumAfter
  <2>13. TypeOK'
    BY <2>1, <2>2 DEF PCInv, TypeOK
  <2>14. \A x \in Consumers : cpc'[x] = "consume" <=> mp'[x] # Nothing
    BY <2>4, <2>5 DEF PCInv
  <2> QED BY <2>8, <2>11, <2>12, <2>13, <2>14 DEF PCInv, Accounted
<1> QED BY <1>1, <1>2

(* A node goes from a consumer to the consumed ones.                        *)
LEMMA ConsumeKeeps == ASSUME PCInv, NEW k \in Consumers, Consume(k) PROVE PCInv'
<1>1. /\ consumed' = Append(consumed, mp[k]) /\ mp' = [mp EXCEPT ![k] = Nothing]
      /\ cpc' = [cpc EXCEPT ![k] = "test"] /\ UNCHANGED <<head, produced, ppc, crashed>>
      /\ mp[k] # Nothing /\ mp[k] \in Msgs
  BY DEF Consume, PCInv, TypeOK
<1>2. /\ consumed \in Seq(Msgs) /\ consumed' \in Seq(Msgs)
      /\ Len(consumed') = Len(consumed) + 1
  BY <1>1 DEF PCInv, TypeOK
<1>3. /\ mp'[k] = Nothing /\ \A x \in Consumers \ {k} : mp'[x] = mp[x]
      /\ cpc'[k] = "test" /\ \A x \in Consumers \ {k} : cpc'[x] = cpc[x]
  BY <1>1 DEF PCInv, TypeOK
<1>4. k \in Held /\ Held' = Held \ {k}
  BY <1>1, <1>3 DEF Held
<1>5. HeldNodes = HeldNodes' \cup {mp[k]}
  BY <1>3, <1>4 DEF HeldNodes, Held
<1>6. IsFiniteSet(Held') /\ Cardinality(Held') = Cardinality(Held) - 1
  BY <1>4, FS_RemoveElement DEF PCInv
<1>7. Cardinality(Held) \in Nat /\ Len(head) \in Nat /\ Len(consumed) \in Nat
  BY FS_CardinalityType DEF PCInv, TypeOK
<1>8. ToSet(consumed') = ToSet(consumed) \cup {mp[k]}
  BY <1>1, <1>2, ToSetAppend
<1>9. (ToSet(head) \cup HeldNodes \cup ToSet(consumed) = 1 .. produced)'
  BY <1>1, <1>5, <1>8 DEF PCInv, Accounted
<1>10. Len(head') + Cardinality(Held') + Len(consumed') = produced'
  <2>1. Len(head) + Cardinality(Held) + Len(consumed) = produced
    BY DEF PCInv, Accounted
  <2>2. Len(head) + (Cardinality(Held) - 1) + (Len(consumed) + 1) = produced
    BY <1>7, <2>1, SumAfter
  <2> QED BY <1>1, <1>2, <1>6, <2>2
<1>11. TypeOK'
  BY <1>1, <1>2 DEF PCInv, TypeOK
<1>12. \A x \in Consumers : cpc'[x] = "consume" <=> mp'[x] # Nothing
  BY <1>3 DEF PCInv
<1> QED BY <1>6, <1>9, <1>10, <1>11, <1>12 DEF PCInv, Accounted

LEMMA PushKeeps == ASSUME PCInv, Push PROVE PCInv'
<1>1. /\ produced' = produced + 1 /\ head' = <<produced + 1>> \o head /\ ppc' = "signal"
      /\ produced < MsgMax /\ UNCHANGED <<cpc, mp, consumed, crashed>>
  BY DEF Push, Link
<1>2. /\ produced \in Nat /\ produced + 1 \in Msgs /\ produced' \in 0 .. MsgMax
      /\ 1 .. produced + 1 = (1 .. produced) \cup {produced + 1}
  BY <1>1, ValueAssumption DEF PCInv, TypeOK, Msgs
<1>3. head \in Seq(Msgs) /\ head' \in Seq(Msgs) /\ Len(head') = Len(head) + 1
  BY <1>1, <1>2 DEF PCInv, TypeOK
<1>4. ToSet(head') = {produced + 1} \cup ToSet(head)
  BY <1>1, <1>2, <1>3, ToSetCons
<1>5. Held' = Held /\ HeldNodes' = HeldNodes
  BY <1>1 DEF Held, HeldNodes
<1>6. Cardinality(Held) \in Nat /\ Len(head) \in Nat /\ Len(consumed) \in Nat
  BY FS_CardinalityType DEF PCInv, TypeOK
<1>7. (ToSet(head) \cup HeldNodes \cup ToSet(consumed) = 1 .. produced)'
  BY <1>1, <1>2, <1>4, <1>5 DEF PCInv, Accounted
<1>8. (Len(head) + Cardinality(Held) + Len(consumed) = produced)'
  BY <1>1, <1>2, <1>3, <1>5, <1>6 DEF PCInv, Accounted
<1>9. TypeOK'
  BY <1>1, <1>2, <1>3 DEF PCInv, TypeOK
<1> QED BY <1>1, <1>5, <1>7, <1>8, <1>9 DEF PCInv, Accounted

LEMMA PCInvNext == PCInv /\ [Next]_vars => PCInv'
<1> SUFFICES ASSUME PCInv, [Next]_vars PROVE PCInv'
  OBVIOUS
<1>1. ASSUME cpc' \in [Consumers -> {"test", "waiting", "woken", "consume"}],
             \A k \in Consumers : cpc'[k] = "consume" <=> cpc[k] = "consume",
             ppc' \in {"push", "signal"},
             UNCHANGED <<head, produced, mp, consumed, crashed>>
      PROVE  PCInv'
  BY <1>1 DEF PCInv, TypeOK, Held, HeldNodes, Accounted
<1>2. CASE Signal
  <2>1. /\ cpc' \in [Consumers -> {"test", "waiting", "woken", "consume"}]
        /\ \A k \in Consumers : cpc'[k] = "consume" <=> cpc[k] = "consume"
    BY <1>2 DEF Signal, WakeOne, Waiting, PCInv, TypeOK
  <2> QED BY <1>1, <1>2, <2>1 DEF Signal
<1>3. ASSUME NEW k \in Consumers, SpuriousWake(k) PROVE PCInv'
  <2>1. /\ cpc' \in [Consumers -> {"test", "waiting", "woken", "consume"}]
        /\ \A x \in Consumers : cpc'[x] = "consume" <=> cpc[x] = "consume"
    BY <1>3 DEF SpuriousWake, PCInv, TypeOK
  <2> QED BY <1>1, <1>3, <2>1 DEF SpuriousWake, PCInv, TypeOK
<1>4. ASSUME NEW k \in Consumers, Test(k) PROVE PCInv'
  <2>1. CASE head # <<>> /\ TakeHead(k)
    BY <1>4, <2>1, TakeHeadKeeps DEF Test
  <2>2. CASE cpc' = [cpc EXCEPT ![k] = "waiting"] /\ UNCHANGED <<head, mp, crashed>>
    <3>1. /\ cpc' \in [Consumers -> {"test", "waiting", "woken", "consume"}]
          /\ \A x \in Consumers : cpc'[x] = "consume" <=> cpc[x] = "consume"
      BY <1>4, <2>2 DEF Test, PCInv, TypeOK
    <3> QED BY <1>1, <1>4, <2>2, <3>1 DEF Test, PCInv, TypeOK
  <2> QED BY <1>4, <2>1, <2>2 DEF Test
<1>5. ASSUME NEW k \in Consumers, Wake(k) PROVE PCInv'
  BY <1>5, TakeHeadKeeps DEF Wake
<1>6. CASE UNCHANGED vars
  BY <1>1, <1>6 DEF vars, PCInv, TypeOK
<1> QED BY <1>2, <1>3, <1>4, <1>5, <1>6, PushKeeps, ConsumeKeeps
        DEF Next, Producer, Consumer

(* Every node that was made is in the list, with a consumer or consumed,    *)
(* and in one of these only.                                                *)
THEOREM NodesPreservedAlways == ExercisesSpec => []NodesPreserved
<1>1. ExercisesInit => PCInv
  BY PCInvInit DEF ExercisesInit
<1>2. PCInv /\ [ExercisesNext]_allVars => PCInv'
  BY PCInvNext DEF ExercisesNext, PCStep, allVars
<1>3. PCInv => NodesPreserved
  BY DEF PCInv, Accounted, Held, HeldNodes, NodesPreserved
<1> QED BY <1>1, <1>2, <1>3, PTL DEF ExercisesSpec

-----------------------------------------------------------------------------
(* The String class.  Owned: the buffers of h are those of the objects in   *)
(* Q, one each, with the texts they were given.                             *)
Owned(h, Q) ==
  /\ \A q \in Q : m_data[q] # Nowhere =>
       m_data[q] \in DOMAIN h /\ h[m_data[q]].text = value[q]
  /\ \A q, r \in Q : q # r /\ m_data[q] # Nowhere => m_data[q] # m_data[r]
  /\ DOMAIN h = {m_data[q] : q \in Q} \ {Nowhere}

HeapType(h) == DOMAIN h \subseteq Addresses /\ \A p \in DOMAIN h : h[p].text \in Texts

StringInv ==
  /\ m_data \in [Objects -> Addresses \cup {Nowhere}]
  /\ value \in [Objects -> Texts \cup {<<>>}]
  /\ failed \in BOOLEAN /\ HeapType(heap)
  /\ ~failed => ~undefined /\ Owned(heap, Objects)

LEMMA StringInvInit == Strings!Init => StringInv
<1> SUFFICES ASSUME Strings!Init PROVE StringInv
  OBVIOUS
<1>1. DOMAIN heap = {}
  BY DEF Strings!Init
<1>2. Owned(heap, Objects) /\ HeapType(heap)
  BY <1>1 DEF Strings!Init, Owned, HeapType
<1> QED BY <1>2 DEF Strings!Init, StringInv

(* An object gets a buffer of its own when the others have theirs and its   *)
(* own old one is gone.                                                     *)
LEMMA GiveKeeps ==
  ASSUME StringInv, NEW o \in Objects, NEW t \in Texts, NEW h, HeapType(h),
         ~failed => Owned(h, Objects \ {o}), Strings!Give(o, t, h)
  PROVE  StringInv'
<1>1. PICK p \in Addresses \ DOMAIN h :
        /\ m_data' = [m_data EXCEPT ![o] = p] /\ heap' = Strings!With(h, p, t)
        /\ undefined' = (heap'[p].size <= Len(t))
        /\ value' = [value EXCEPT ![o] = t] /\ UNCHANGED failed
  BY DEF Strings!Give
<1>2. /\ DOMAIN heap' = DOMAIN h \cup {p}
      /\ heap'[p].size = Len(t) + 1 /\ heap'[p].text = t
      /\ \A q \in DOMAIN h : heap'[q] = h[q]
  BY <1>1 DEF Strings!With, Strings!SizeFor
<1>3. ~undefined'
  <2>1. Len(t) \in Nat
    BY ExercisesAssumption
  <2>2. ~(heap'[p].size <= Len(t))
    BY <1>2, <2>1
  <2> QED BY <1>1, <2>2
<1>4. HeapType(heap')
  BY <1>2 DEF HeapType
<1>5. /\ m_data'[o] = p /\ \A q \in Objects \ {o} : m_data'[q] = m_data[q]
      /\ value'[o] = t /\ \A q \in Objects \ {o} : value'[q] = value[q]
      /\ p # Nowhere
  BY <1>1, ExercisesAssumption DEF StringInv
<1>6. ASSUME ~failed PROVE Owned(heap, Objects)'
  <2>1. Owned(h, Objects \ {o})
    BY <1>6
  <2>2. \A q \in Objects \ {o} : m_data[q] # p
    BY <1>5, <2>1 DEF Owned
  <2>3. ASSUME NEW q \in Objects, m_data'[q] # Nowhere
        PROVE  m_data'[q] \in DOMAIN heap' /\ heap'[m_data'[q]].text = value'[q]
    <3>1. CASE q = o
      BY <1>2, <1>5, <3>1
    <3>2. CASE q # o
      <4>1. m_data[q] \in DOMAIN h /\ h[m_data[q]].text = value[q]
        BY <1>5, <2>1, <2>3, <3>2 DEF Owned
      <4> QED BY <1>2, <1>5, <3>2, <4>1
    <3> QED BY <3>1, <3>2
  <2>4. ASSUME NEW q \in Objects, NEW r \in Objects, q # r, m_data'[q] # Nowhere
        PROVE  m_data'[q] # m_data'[r]
    BY <1>5, <2>1, <2>2, <2>4 DEF Owned
  <2>5. DOMAIN heap' = {m_data'[q] : q \in Objects} \ {Nowhere}
    BY <1>2, <1>5, <2>1 DEF Owned
  <2> QED BY <2>3, <2>4, <2>5 DEF Owned
<1> QED BY <1>1, <1>3, <1>4, <1>6 DEF StringInv

(* What is left when the buffer of o is given back.                         *)
LEMMA WithoutOwned ==
  ASSUME StringInv, NEW o \in Objects, m_data[o] # Nowhere
  PROVE  /\ HeapType(Strings!Without(heap, m_data[o]))
         /\ ~failed => Owned(Strings!Without(heap, m_data[o]), Objects \ {o})
<1>1. PICK h : h = Strings!Without(heap, m_data[o])
  OBVIOUS
<1>2. DOMAIN h = DOMAIN heap \ {m_data[o]} /\ \A p \in DOMAIN h : h[p] = heap[p]
  BY <1>1 DEF Strings!Without
<1>3. HeapType(h)
  BY <1>2 DEF StringInv, HeapType
<1>4. ASSUME ~failed PROVE Owned(h, Objects \ {o})
  <2>1. Owned(heap, Objects)
    BY <1>4 DEF StringInv
  <2>2. \A q \in Objects \ {o} : m_data[q] # m_data[o]
    BY <2>1 DEF Owned
  <2> QED BY <1>2, <2>1, <2>2 DEF Owned
<1> QED BY <1>1, <1>3, <1>4

LEMMA StringInvNext == StringInv /\ [Strings!Next]_stringVars => StringInv'
<1> SUFFICES ASSUME StringInv, [Strings!Next]_stringVars PROVE StringInv'
  OBVIOUS
<1>1. CASE UNCHANGED stringVars
  BY <1>1 DEF stringVars, StringInv, Owned, HeapType
<1>2. ASSUME NEW o \in Objects, m_data[o] = Nowhere, ~failed
      PROVE  Owned(heap, Objects \ {o})
  BY <1>2 DEF StringInv, Owned
<1>3. ASSUME NEW o \in Objects, Strings!Construct(o) PROVE StringInv'
  <2>1. PICK t \in Texts : Strings!Give(o, t, heap)
    BY <1>3 DEF Strings!Construct
  <2>2. m_data[o] = Nowhere /\ HeapType(heap)
    BY <1>3 DEF Strings!Construct, Strings!Live, StringInv
  <2> QED BY <1>2, <2>1, <2>2, GiveKeeps
<1>4. ASSUME NEW o \in Objects, NEW str \in Objects, Strings!Copy(o, str) PROVE StringInv'
  <2>1. m_data[o] = Nowhere /\ m_data[str] # Nowhere /\ HeapType(heap)
    BY <1>4 DEF Strings!Copy, Strings!Live, StringInv
  <2>2. CASE m_data[str] \in DOMAIN heap /\ Strings!Give(o, heap[m_data[str]].text, heap)
    <3>1. heap[m_data[str]].text \in Texts
      BY <2>2 DEF StringInv, HeapType
    <3> QED BY <1>2, <2>1, <2>2, <3>1, GiveKeeps
  <2>3. CASE m_data[str] \notin DOMAIN heap /\ Strings!Undefined
    <3>1. failed
      BY <2>1, <2>3 DEF StringInv, Owned
    <3> QED BY <2>3, <3>1 DEF Strings!Undefined, StringInv
  <2> QED BY <1>4, <2>2, <2>3 DEF Strings!Copy, Strings!Allocated
<1>5. ASSUME NEW o \in Objects, NEW str \in Objects, Strings!Assign(o, str)
      PROVE  StringInv'
  <2>1. PICK h : h = Strings!Without(heap, m_data[o])
    OBVIOUS
  <2>2. o # str /\ m_data[o] # Nowhere /\ m_data[str] # Nowhere
    BY <1>5 DEF Strings!Assign, Strings!Live, Strings!Itself
  <2>3. HeapType(h) /\ (~failed => Owned(h, Objects \ {o}))
    BY <2>1, <2>2, WithoutOwned
  <2>4. IF m_data[o] \notin DOMAIN heap \/ m_data[str] \notin DOMAIN h
        THEN Strings!Undefined
        ELSE \/ Strings!Give(o, h[m_data[str]].text, h)
             \/ heap' = h /\ failed' = TRUE /\ UNCHANGED <<m_data, undefined, value>>
    BY <1>5, <2>1 DEF Strings!Assign, Strings!Allocated
  <2>5. CASE /\ Strings!Undefined
             /\ m_data[o] \notin DOMAIN heap \/ m_data[str] \notin DOMAIN h
    <3>1. failed
      BY <2>2, <2>3, <2>5 DEF StringInv, Owned
    <3> QED BY <2>5, <3>1 DEF Strings!Undefined, StringInv
  <2>6. CASE Strings!Give(o, h[m_data[str]].text, h) /\ m_data[str] \in DOMAIN h
    <3>1. h[m_data[str]].text \in Texts
      BY <2>3, <2>6 DEF HeapType
    <3> QED BY <2>3, <2>6, <3>1, GiveKeeps
  <2>7. CASE heap' = h /\ failed' = TRUE /\ UNCHANGED <<m_data, undefined, value>>
    BY <2>3, <2>7 DEF StringInv
  <2> QED BY <2>4, <2>5, <2>6, <2>7
<1>6. ASSUME NEW o \in Objects, Strings!Destroy(o) PROVE StringInv'
  <2>1. m_data[o] # Nowhere
    BY <1>6 DEF Strings!Destroy, Strings!Live
  <2>2. CASE /\ heap' = Strings!Without(heap, m_data[o])
             /\ m_data' = [m_data EXCEPT ![o] = Nowhere]
             /\ value' = [value EXCEPT ![o] = <<>>] /\ UNCHANGED <<undefined, failed>>
    <3>1. HeapType(heap') /\ (~failed => Owned(heap', Objects \ {o}))
      BY <2>1, <2>2, WithoutOwned
    <3>2. /\ m_data'[o] = Nowhere /\ \A q \in Objects \ {o} : m_data'[q] = m_data[q]
          /\ \A q \in Objects \ {o} : value'[q] = value[q]
      BY <2>2 DEF StringInv
    <3>3. ~failed => Owned(heap, Objects)'
      BY <3>1, <3>2 DEF Owned
    <3> QED BY <2>2, <3>1, <3>3 DEF StringInv
  <2>3. CASE m_data[o] \notin DOMAIN heap /\ Strings!Undefined
    <3>1. failed
      BY <2>1, <2>3 DEF StringInv, Owned
    <3> QED BY <2>3, <3>1 DEF Strings!Undefined, StringInv
  <2> QED BY <1>6, <2>2, <2>3 DEF Strings!Destroy, Strings!Allocated
<1> QED BY <1>1, <1>3, <1>4, <1>5, <1>6 DEF Strings!Next

(* Each object has a buffer of its own with its text, no other buffer is    *)
(* allocated, and none is used after it was given back, until an operator=  *)
(* runs out of memory.                                                      *)
THEOREM OwnBuffersAlways == ExercisesSpec => []OwnBuffers
<1>1. ExercisesInit => StringInv
  BY StringInvInit DEF ExercisesInit
<1>2. StringInv /\ [ExercisesNext]_allVars => StringInv'
  BY StringInvNext DEF ExercisesNext, StringStep, allVars
<1>3. StringInv => OwnBuffers
  BY DEF StringInv, Owned, OwnBuffers, Strings!OwnBuffers, Strings!Live, Strings!Allocated
<1> QED BY <1>1, <1>2, <1>3, PTL DEF ExercisesSpec

-----------------------------------------------------------------------------
(* The complex class.                                                       *)
Numbers == [re : Int, im : Int]
ComplexInv == complexes \in [Variables -> Numbers]

LEMMA ProductOfNorms ==
  ASSUME NEW a \in Int, NEW b \in Int, NEW x \in Int, NEW y \in Int
  PROVE  (a * x - b * y) * (a * x - b * y) + (a * y + b * x) * (a * y + b * x)
           = (a * a + b * b) * (x * x + y * y)
  OBVIOUS

LEMMA MemberStored ==
  ASSUME NEW r \in Numbers, NEW a \in Int
  PROVE  /\ [r EXCEPT !.re = a] = [re |-> a, im |-> r.im]
         /\ [r EXCEPT !.im = a] = [re |-> r.re, im |-> a]
<1>1. DOMAIN r = {"re", "im"}
  BY DEF Numbers
<1>2. /\ [r EXCEPT !.re = a] = [m \in {"re", "im"} |-> IF m = "re" THEN a ELSE r[m]]
      /\ [r EXCEPT !.im = a] = [m \in {"re", "im"} |-> IF m = "im" THEN a ELSE r[m]]
  BY <1>1 DEF Numbers
<1>3. [r EXCEPT !.re = a] = [re |-> a, im |-> r.im]
  BY <1>2
<1>4. [r EXCEPT !.im = a] = [re |-> r.re, im |-> a]
  BY <1>2
<1> QED BY <1>3, <1>4

(* Storing a member of a variable, or all of it.                            *)
StoreRe(s, v, a) == [s EXCEPT ![v].re = a]
StoreIm(s, v, b) == [s EXCEPT ![v].im = b]
Store(s, v, x) == [s EXCEPT ![v] = x]

LEMMA StoreMember ==
  ASSUME NEW s \in [Variables -> Numbers], NEW v \in Variables, NEW a \in Int
  PROVE  /\ StoreRe(s, v, a) = Store(s, v, Complex!complex(a, s[v].im))
         /\ StoreIm(s, v, a) = Store(s, v, Complex!complex(s[v].re, a))
<1>1. StoreRe(s, v, a) = Store(s, v, Complex!complex(a, s[v].im))
  BY MemberStored DEF StoreRe, Store, Complex!complex
<1>2. StoreIm(s, v, a) = Store(s, v, Complex!complex(s[v].re, a))
  BY MemberStored DEF StoreIm, Store, Complex!complex
<1> QED BY <1>1, <1>2

LEMMA StoreAll ==
  ASSUME NEW s \in [Variables -> Numbers], NEW v \in Variables, NEW x \in Numbers
  PROVE  /\ Store(s, v, x) \in [Variables -> Numbers] /\ Store(s, v, x)[v] = x
         /\ \A w \in Variables \ {v} : Store(s, v, x)[w] = s[w]
         /\ \A y \in Numbers : Store(Store(s, v, x), v, y) = Store(s, v, y)
  BY DEF Store

LEMMA ComplexMembers ==
  ASSUME NEW a \in Int, NEW b \in Int
  PROVE  /\ Complex!complex(a, b) \in Numbers
         /\ Complex!complex(a, b).re = a /\ Complex!complex(a, b).im = b
  BY DEF Complex!complex, Numbers

(* One member after the other; the second sees what the first has stored.   *)
LEMMA TwoStores ==
  ASSUME NEW s \in [Variables -> Numbers], NEW v \in Variables, NEW w \in Variables,
         NEW a \in Int, NEW b \in Int
  PROVE  /\ StoreRe(s, v, a)[w].im = s[w].im
         /\ StoreIm(StoreRe(s, v, a), v, b) = Store(s, v, Complex!complex(a, b))
         /\ StoreRe(StoreIm(s, v, b), v, a) = Store(s, v, Complex!complex(a, b))
<1>1. s[v].re \in Int /\ s[v].im \in Int
  BY DEF Numbers
<1>2. PICK r, q, t \in Numbers :
        /\ r = Complex!complex(a, s[v].im) /\ r.re = a /\ r.im = s[v].im
        /\ q = Complex!complex(s[v].re, b) /\ q.re = s[v].re /\ q.im = b
        /\ t = Complex!complex(a, b)
  BY <1>1, ComplexMembers
<1>3. PICK s1 \in [Variables -> Numbers] :
        /\ s1 = StoreRe(s, v, a) /\ s1 = Store(s, v, r) /\ s1[v] = r
        /\ \A x \in Variables \ {v} : s1[x] = s[x]
  BY <1>2, StoreMember, StoreAll
<1>4. s1[w].im = s[w].im
  BY <1>2, <1>3
<1>5. StoreIm(s1, v, b) = Store(s, v, t)
  <2>1. StoreIm(s1, v, b) = Store(s1, v, t)
    BY <1>2, <1>3, StoreMember
  <2> QED BY <1>3, <2>1, StoreAll
<1>6. PICK s2 \in [Variables -> Numbers] :
        s2 = StoreIm(s, v, b) /\ s2 = Store(s, v, q) /\ s2[v] = q
  <2>1. StoreIm(s, v, b) = Store(s, v, q)
    BY <1>2, StoreMember
  <2>2. Store(s, v, q) \in [Variables -> Numbers] /\ Store(s, v, q)[v] = q
    BY StoreAll
  <2> QED BY <2>1, <2>2
<1>7. StoreRe(s2, v, a) = Store(s, v, t)
  <2>1. StoreRe(s2, v, a) = Store(s2, v, t)
    BY <1>2, <1>6, StoreMember
  <2>2. Store(Store(s, v, q), v, t) = Store(s, v, t)
    BY StoreAll
  <2> QED BY <1>6, <2>1, <2>2
<1> QED BY <1>2, <1>3, <1>4, <1>5, <1>6, <1>7

(* Storing member by member through a pointer that may point to the         *)
(* argument comes to the same as storing the whole.                         *)
LEMMA StoredByMembers ==
  ASSUME ComplexInv, NEW v \in Variables, NEW w \in Variables
  PROVE  /\ Complex!doapl(complexes, v, w)
              = Store(complexes, v, Complex!Plus(complexes[v], complexes[w]))
         /\ Complex!doami(complexes, v, w)
              = Store(complexes, v, Complex!Minus(complexes[v], complexes[w]))
         /\ Complex!doaml(complexes, v, w)
              = Store(complexes, v, Complex!Times(complexes[v], complexes[w]))
<1>1. PICK x \in Numbers, y \in Numbers : x = complexes[v] /\ y = complexes[w]
  BY DEF ComplexInv
<1>2. /\ x.re \in Int /\ x.im \in Int /\ y.re \in Int /\ y.im \in Int
      /\ complexes \in [Variables -> Numbers]
  BY DEF ComplexInv, Numbers
<1>3. Complex!doapl(complexes, v, w) = Store(complexes, v, Complex!Plus(x, y))
  <2>1. PICK a \in Int, b \in Int : a = x.re + y.re /\ b = x.im + y.im
    BY <1>2
  <2>2. PICK s1 : s1 = StoreRe(complexes, v, a)
    OBVIOUS
  <2>3. Complex!doapl(complexes, v, w) = StoreIm(s1, v, s1[v].im + s1[w].im)
    BY <1>1, <2>1, <2>2 DEF Complex!doapl, StoreRe, StoreIm
  <2>4. s1[v].im = x.im /\ s1[w].im = y.im
    BY <1>1, <1>2, <2>2, TwoStores
  <2>5. Complex!doapl(complexes, v, w) = Store(complexes, v, Complex!complex(a, b))
    BY <1>2, <2>1, <2>2, <2>3, <2>4, TwoStores
  <2> QED BY <2>1, <2>5 DEF Complex!Plus
<1>4. Complex!doami(complexes, v, w) = Store(complexes, v, Complex!Minus(x, y))
  <2>1. PICK a \in Int, b \in Int : a = x.re - y.re /\ b = x.im - y.im
    BY <1>2
  <2>2. PICK s1 : s1 = StoreRe(complexes, v, a)
    OBVIOUS
  <2>3. Complex!doami(complexes, v, w) = StoreIm(s1, v, s1[v].im - s1[w].im)
    BY <1>1, <2>1, <2>2 DEF Complex!doami, StoreRe, StoreIm
  <2>4. s1[v].im = x.im /\ s1[w].im = y.im
    BY <1>1, <1>2, <2>2, TwoStores
  <2>5. Complex!doami(complexes, v, w) = Store(complexes, v, Complex!complex(a, b))
    BY <1>2, <2>1, <2>2, <2>3, <2>4, TwoStores
  <2> QED BY <2>1, <2>5 DEF Complex!Minus
<1>5. Complex!doaml(complexes, v, w) = Store(complexes, v, Complex!Times(x, y))
  <2>1. PICK a \in Int, b \in Int :
          a = x.re * y.re - x.im * y.im /\ b = x.re * y.im + x.im * y.re
    BY <1>2
  <2>2. Complex!doaml(complexes, v, w) = StoreRe(StoreIm(complexes, v, b), v, a)
    BY <1>1, <2>1 DEF Complex!doaml, StoreRe, StoreIm
  <2>3. Complex!doaml(complexes, v, w) = Store(complexes, v, Complex!complex(a, b))
    BY <1>2, <2>1, <2>2, TwoStores
  <2> QED BY <2>1, <2>3 DEF Complex!Times
<1> QED BY <1>1, <1>3, <1>4, <1>5

(* The operators on complex numbers give complex numbers.                   *)
LEMMA OperatorsClosed ==
  ASSUME NEW x \in Numbers, NEW y \in Numbers, NEW d \in Int
  PROVE  /\ Complex!Plus(x, y) \in Numbers /\ Complex!Minus(x, y) \in Numbers
         /\ Complex!Times(x, y) \in Numbers
         /\ Complex!Expressions(x, y, d) \subseteq Numbers
<1> USE DEF Numbers, Complex!complex
<1>1. /\ Complex!Plus(x, y) \in Numbers /\ Complex!PlusDouble(x, d) \in Numbers
      /\ Complex!DoublePlus(d, y) \in Numbers /\ Complex!complex(d, d) \in Numbers
  BY DEF Complex!Plus, Complex!PlusDouble, Complex!DoublePlus
<1>2. /\ Complex!Minus(x, y) \in Numbers /\ Complex!MinusDouble(x, d) \in Numbers
      /\ Complex!DoubleMinus(d, y) \in Numbers
  BY DEF Complex!Minus, Complex!MinusDouble, Complex!DoubleMinus
<1>3. /\ Complex!Times(x, y) \in Numbers /\ Complex!TimesDouble(x, d) \in Numbers
      /\ Complex!DoubleTimes(d, y) \in Numbers
  BY DEF Complex!Times, Complex!TimesDouble, Complex!DoubleTimes
<1>4. Complex!Negative(x) \in Numbers /\ Complex!conj(x) \in Numbers
  BY DEF Complex!Negative, Complex!conj
<1>5. Complex!Expressions(x, y, d) \subseteq Numbers
  BY <1>1, <1>2, <1>3, <1>4 DEF Complex!Expressions
<1> QED BY <1>1, <1>2, <1>3, <1>5

LEMMA ComplexInvNext == ComplexInv /\ [Complex!Next]_complexes => ComplexInv'
<1> SUFFICES ASSUME ComplexInv, Complex!Next PROVE ComplexInv'
  BY DEF ComplexInv
<1>1. ASSUME NEW v \in Variables, Complex!Assign(v) PROVE ComplexInv'
  <2>1. PICK u \in Variables, w \in Variables, d \in Doubles :
          \E x \in Complex!Expressions(complexes[u], complexes[w], d) :
            complexes' = [complexes EXCEPT ![v] = x]
    BY <1>1 DEF Complex!Assign
  <2>2. Complex!Expressions(complexes[u], complexes[w], d) \subseteq Numbers
    <3>1. complexes[u] \in Numbers /\ complexes[w] \in Numbers /\ d \in Int
      BY ExercisesAssumption DEF ComplexInv
    <3> QED BY <3>1, OperatorsClosed
  <2> QED BY <2>1, <2>2 DEF ComplexInv
<1>2. ASSUME NEW v \in Variables, NEW w \in Variables, Complex!Compound(v, w)
      PROVE  ComplexInv'
  <2>1. PICK x : /\ complexes' = Store(complexes, v, x)
                 /\ x \in {Complex!Plus(complexes[v], complexes[w]),
                           Complex!Minus(complexes[v], complexes[w]),
                           Complex!Times(complexes[v], complexes[w])}
    BY <1>2, StoredByMembers DEF Complex!Compound
  <2>2. complexes[v] \in Numbers /\ complexes[w] \in Numbers /\ 0 \in Int
    BY DEF ComplexInv
  <2>3. /\ Complex!Plus(complexes[v], complexes[w]) \in Numbers
        /\ Complex!Minus(complexes[v], complexes[w]) \in Numbers
        /\ Complex!Times(complexes[v], complexes[w]) \in Numbers
    BY <2>2, OperatorsClosed
  <2> QED BY <2>1, <2>3 DEF ComplexInv, Store
<1> QED BY <1>1, <1>2 DEF Complex!Next

(* The laws the operators obey, of all numbers.                             *)
LEMMA OperatorLaws ==
  ASSUME NEW x \in Numbers, NEW y \in Numbers, NEW d \in Int,
         NEW z, z = Complex!complex(d, 0)
  PROVE  /\ Complex!PlusDouble(x, d) = Complex!Plus(x, z)
         /\ Complex!DoublePlus(d, y) = Complex!Plus(z, y)
         /\ Complex!MinusDouble(x, d) = Complex!Minus(x, z)
         /\ Complex!DoubleMinus(d, y) = Complex!Minus(z, y)
         /\ Complex!TimesDouble(x, d) = Complex!Times(x, z)
         /\ Complex!DoubleTimes(d, y) = Complex!Times(z, y)
         /\ Complex!Equal(Complex!Minus(x, y), z) = Complex!Equal(x, Complex!Plus(y, z))
         /\ Complex!Differ(x, y) = ~Complex!Equal(x, y)
         /\ Complex!EqualDouble(x, d) = Complex!Equal(x, z)
         /\ Complex!DifferDouble(x, d) = Complex!Differ(x, z)
         /\ Complex!DoubleEqual(d, y) = Complex!Equal(z, y)
         /\ Complex!DoubleDiffer(d, y) = Complex!Differ(z, y)
         /\ Complex!Times(x, Complex!conj(x)) = Complex!complex(Complex!norm(x), 0)
         /\ Complex!norm(Complex!Times(x, y)) = Complex!norm(x) * Complex!norm(y)
         /\ Complex!Plus(x, Complex!Negative(x)) = Complex!complex(0, 0)
<1> USE DEF Numbers, Complex!complex
<1>1. /\ Complex!PlusDouble(x, d) = Complex!Plus(x, z)
      /\ Complex!DoublePlus(d, y) = Complex!Plus(z, y)
      /\ Complex!MinusDouble(x, d) = Complex!Minus(x, z)
      /\ Complex!DoubleMinus(d, y) = Complex!Minus(z, y)
  BY DEF Complex!PlusDouble, Complex!DoublePlus, Complex!Plus,
         Complex!MinusDouble, Complex!DoubleMinus, Complex!Minus
<1>2. /\ Complex!TimesDouble(x, d) = Complex!Times(x, z)
      /\ Complex!DoubleTimes(d, y) = Complex!Times(z, y)
  BY DEF Complex!TimesDouble, Complex!DoubleTimes, Complex!Times
<1>3. Complex!Equal(Complex!Minus(x, y), z) = Complex!Equal(x, Complex!Plus(y, z))
  BY DEF Complex!Equal, Complex!Minus, Complex!Plus
<1>4. /\ Complex!Differ(x, y) = ~Complex!Equal(x, y)
      /\ Complex!EqualDouble(x, d) = Complex!Equal(x, z)
      /\ Complex!DifferDouble(x, d) = Complex!Differ(x, z)
      /\ Complex!DoubleEqual(d, y) = Complex!Equal(z, y)
      /\ Complex!DoubleDiffer(d, y) = Complex!Differ(z, y)
  BY DEF Complex!Differ, Complex!Equal, Complex!EqualDouble, Complex!DifferDouble,
         Complex!DoubleEqual, Complex!DoubleDiffer
<1>5. Complex!Times(x, Complex!conj(x)) = Complex!complex(Complex!norm(x), 0)
  BY DEF Complex!Times, Complex!conj, Complex!norm
<1>6. Complex!norm(Complex!Times(x, y)) = Complex!norm(x) * Complex!norm(y)
  BY ProductOfNorms DEF Complex!norm, Complex!Times
<1>7. Complex!Plus(x, Complex!Negative(x)) = Complex!complex(0, 0)
  BY DEF Complex!Plus, Complex!Negative
<1> QED BY <1>1, <1>2, <1>3, <1>4, <1>5, <1>6, <1>7

(* The operators agree with each other on all that the variables may hold.  *)
THEOREM ArithmeticConsistentAlways == ExercisesSpec => []ArithmeticConsistent
<1>1. ExercisesInit => ComplexInv
  BY DEF ExercisesInit, Complex!Init, Complex!complex, ComplexInv, Numbers
<1>2. ComplexInv /\ [ExercisesNext]_allVars => ComplexInv'
  BY ComplexInvNext DEF ExercisesNext, ComplexStep, allVars
<1>3. ComplexInv => ArithmeticConsistent
  <2> SUFFICES ASSUME ComplexInv PROVE Complex!ArithmeticConsistent
    BY DEF ArithmeticConsistent
  <2>1. ASSUME NEW v \in Variables, NEW w \in Variables, NEW d \in Doubles
        PROVE  complexes[v] \in Numbers /\ complexes[w] \in Numbers /\ d \in Int
    BY ExercisesAssumption DEF ComplexInv
  <2> QED BY <2>1, StoredByMembers, OperatorLaws DEF Complex!ArithmeticConsistent, Store
<1> QED BY <1>1, <1>2, <1>3, PTL DEF ExercisesSpec
-----------------------------------------------------------------------------
(* sem_pthread.c.  A window is free or a customer is served at it; main has *)
(* created the threads below i and joined those below j; and what is on its *)
(* stack is the number of the last thread created.                          *)
Served == {t \in Hall!Customers : tpc[t] = "served"}

Numbered ==
  /\ customer_id = Unknown \/ customer_id = i - 1
  /\ \A t \in Hall!Customers :
       tpc[t] \in {"saved", "served", "done"}
         => id[t] \in t .. CustomerNum - 1 \cup {Unknown}

HallInv ==
  /\ Hall!TypeOK /\ Windows = sem + Cardinality(Served)
  /\ \A t \in Hall!Customers : tpc[t] = "none" <=> t >= i
  /\ mpc \in {"join", "returned"} => i = CustomerNum
  /\ mpc = "returned" => j = CustomerNum
  /\ \A t \in Hall!Customers : t < j => tpc[t] = "done"
  /\ Numbered

LEMMA ServedFinite == IsFiniteSet(Served) /\ Cardinality(Served) \in Nat
<1>1. IsFiniteSet(Hall!Customers)
  BY ExercisesAssumption, FS_Interval DEF Hall!Customers
<1>2. Served \subseteq Hall!Customers
  BY DEF Served
<1> QED BY <1>1, <1>2, FS_Subset, FS_CardinalityType

LEMMA HallInvInit == Hall!Init => HallInv
<1> SUFFICES ASSUME Hall!Init PROVE HallInv
  OBVIOUS
<1>1. Served = {}
  BY DEF Hall!Init, Served
<1>2. Cardinality(Served) = 0
  BY <1>1, FS_EmptySet
<1> QED BY <1>2, ExercisesAssumption DEF Hall!Init, HallInv, Hall!TypeOK, Hall!Customers, Numbered

(* main: none of its steps begins or ends a service.                        *)
LEMMA MainKeeps == HallInv /\ Hall!Main => HallInv'
<1> SUFFICES ASSUME HallInv, Hall!Main PROVE HallInv'
  OBVIOUS
<1> USE ExercisesAssumption DEF HallInv, Hall!TypeOK, Hall!Customers, Numbered
<1>1. ASSUME mpc = "create", i < CustomerNum, customer_id' = i,
             tpc' = [tpc EXCEPT ![i] = "arrived"], i' = i + 1,
             UNCHANGED <<sem, mpc, j, id>>
      PROVE  HallInv'
  <2>1. i \in Hall!Customers /\ tpc[i] = "none" /\ ~(i < j)
    BY <1>1
  <2>2. \A t \in Hall!Customers : tpc'[t] = IF t = i THEN "arrived" ELSE tpc[t]
    BY <1>1
  <2>3. Served' = Served
    BY <2>1, <2>2 DEF Served
  <2> QED BY <1>1, <2>1, <2>2, <2>3
<1>2. CASE /\ Hall!Create /\ mpc' = "exited"
           /\ UNCHANGED <<customer_id, tpc, i>>
  <2>1. Served' = Served
    BY <1>2 DEF Served
  <2> QED BY <1>2, <2>1 DEF Hall!Create
<1>3. CASE Hall!LeaveLoop
  <2>1. Served' = Served
    BY <1>3 DEF Hall!LeaveLoop, Served
  <2> QED BY <1>3, <2>1 DEF Hall!LeaveLoop
<1>4. CASE Hall!Join
  <2>1. Served' = Served
    BY <1>4 DEF Hall!Join, Served
  <2> QED BY <1>4, <2>1 DEF Hall!Join
<1> QED BY <1>1, <1>2, <1>3, <1>4 DEF Hall!Main, Hall!Create

LEMMA CustomerKeeps ==
  ASSUME HallInv, NEW t \in Hall!Customers, Hall!Customer(t) PROVE HallInv'
<1> USE ExercisesAssumption DEF HallInv, Hall!TypeOK
<1>1. /\ UNCHANGED <<mpc, i, j, customer_id>> /\ tpc[t] \in {"arrived", "saved", "served"}
      /\ t < i /\ ~(t < j)
  BY DEF Hall!Customer, Hall!SaveId, Hall!SemWait, Hall!SemPost, Hall!Customers
<1>2. ASSUME NEW p \in {"saved", "served", "done"}, tpc' = [tpc EXCEPT ![t] = p],
             Windows = sem' + Cardinality(Served'), sem' \in 0 .. Windows,
             UNCHANGED id \/ id' = [id EXCEPT ![t] = customer_id],
             id'[t] \in t .. CustomerNum - 1 \cup {Unknown}
      PROVE  HallInv'
  <2>1. \A x \in Hall!Customers : tpc'[x] = IF x = t THEN p ELSE tpc[x]
    BY <1>2
  <2>2. \A x \in Hall!Customers : x # t => id'[x] = id[x]
    BY <1>2
  <2>3. Hall!TypeOK'
    BY <1>1, <1>2
  <2>4. Numbered'
    BY <1>1, <1>2, <2>1, <2>2 DEF Numbered
  <2> QED BY <1>1, <1>2, <2>1, <2>3, <2>4 DEF Hall!Customers
<1>3. CASE Hall!SaveId(t)
  <2>1. Served' = Served
    BY <1>3 DEF Hall!SaveId, Served
  <2>2. customer_id \in t .. CustomerNum - 1 \cup {Unknown}
    BY <1>1 DEF Numbered, Hall!Customers
  <2> QED BY <1>2, <1>3, <2>1, <2>2 DEF Hall!SaveId
<1>4. CASE Hall!SemWait(t)
  <2>1. Served' = Served \cup {t} /\ t \notin Served
    BY <1>4 DEF Hall!SemWait, Served
  <2>2. Cardinality(Served') = Cardinality(Served) + 1
    BY <2>1, ServedFinite, FS_AddElement
  <2>3. Windows = sem' + Cardinality(Served') /\ sem' \in 0 .. Windows
    BY <1>4, <2>2, ServedFinite DEF Hall!SemWait
  <2> QED BY <1>2, <1>4, <2>3 DEF Hall!SemWait, Numbered
<1>5. CASE Hall!SemPost(t)
  <2>1. Served' = Served \ {t} /\ t \in Served
    BY <1>5 DEF Hall!SemPost, Served
  <2>2. Cardinality(Served') = Cardinality(Served) - 1
    BY <2>1, ServedFinite, FS_RemoveElement
  <2>3. Cardinality(Served) # 0
    BY <2>1, ServedFinite, FS_EmptySet
  <2>4. Windows = sem' + Cardinality(Served') /\ sem' \in 0 .. Windows
    BY <1>5, <2>2, <2>3, ServedFinite DEF Hall!SemPost, Hall!Posted
  <2> QED BY <1>2, <1>5, <2>4 DEF Hall!SemPost, Numbered
<1> QED BY <1>3, <1>4, <1>5 DEF Hall!Customer

LEMMA HallInvNext == HallInv /\ [ExercisesNext]_allVars => HallInv'
<1> SUFFICES ASSUME HallInv, [ExercisesNext]_allVars PROVE HallInv'
  OBVIOUS
<1>1. CASE HallStep
  BY <1>1, MainKeeps, CustomerKeeps DEF HallStep, Hall!Next
<1>2. CASE UNCHANGED hallVars
  BY <1>2 DEF hallVars, HallInv, Hall!TypeOK, Numbered, Served
<1> QED BY <1>1, <1>2 DEF ExercisesNext, allVars

(* main returns when all are served, and a thread never reads the number of *)
(* an earlier customer.                                                     *)
THEOREM SafelyServedAlways == ExercisesSpec => []Hall!SafelyServed
<1>1. ExercisesInit => HallInv
  BY HallInvInit DEF ExercisesInit
<1>2. HallInv => Hall!SafelyServed
  BY DEF HallInv, Numbered, Hall!SafelyServed, Hall!Customers, Hall!TypeOK
<1> QED BY <1>1, <1>2, HallInvNext, PTL DEF ExercisesSpec

(* As long as main waits for a thread, that one is done or another can go   *)
(* on: with nobody at a window every window is free.                        *)
THEOREM NobodyStuckAlways == ExercisesSpec => []Hall!NobodyStuck
<1>1. ExercisesInit => HallInv
  BY HallInvInit DEF ExercisesInit
<1>2. HallInv => Hall!NobodyStuck
  <2> SUFFICES ASSUME HallInv, mpc = "join", j < CustomerNum, tpc[j] # "done",
                      \A t \in Hall!Customers : tpc[t] \notin {"arrived", "served"}
               PROVE  tpc[j] = "saved" /\ sem > 0 /\ j \in Hall!Customers
    BY DEF Hall!NobodyStuck
  <2> USE ExercisesAssumption DEF HallInv, Hall!TypeOK
  <2>1. j \in Hall!Customers /\ tpc[j] = "saved"
    BY DEF Hall!Customers
  <2>2. Cardinality(Served) = 0
    BY FS_EmptySet DEF Served
  <2> QED BY <2>1, <2>2
<1> QED BY <1>1, <1>2, HallInvNext, PTL DEF ExercisesSpec

(* catch_child.c: a SIGCHLD that comes before the handler is there waits,   *)
(* and the handler does not return while there is a zombie.                 *)
ReaperInv == Reaper!TypeOK /\ Reaper!ZombiesNoticed

LEMMA ReaperInvNext == ReaperInv /\ [ExercisesNext]_allVars => ReaperInv'
<1> SUFFICES ASSUME ReaperInv, [ExercisesNext]_allVars PROVE ReaperInv'
  OBVIOUS
<1> USE ExercisesAssumption
    DEF ReaperInv, Reaper!TypeOK, Reaper!ZombiesNoticed, Reaper!In, Reaper!Children,
        Reaper!Blocked, Reaper!Caught
<1>1. CASE Reaper!Fork
  BY <1>1 DEF Reaper!Fork
<1>2. CASE Reaper!Install \/ Reaper!Unblock \/ Reaper!Deliver \/ Reaper!Return
  BY <1>2 DEF Reaper!Install, Reaper!Unblock, Reaper!Deliver, Reaper!Return
<1>3. CASE Reaper!Reap
  BY <1>3 DEF Reaper!Reap
<1>4. CASE \E c \in Reaper!Children : Reaper!Exit(c)
  BY <1>4 DEF Reaper!Exit
<1>5. CASE UNCHANGED reaperVars
  BY <1>5 DEF reaperVars
<1> QED BY <1>1, <1>2, <1>3, <1>4, <1>5
        DEF ExercisesNext, ReaperStep, Reaper!Next, Reaper!Parent, allVars

(* No child that ended is overlooked, however many ends one SIGCHLD stands  *)
(* for.                                                                     *)
THEOREM ZombiesNoticedAlways == ExercisesSpec => []Reaper!ZombiesNoticed
<1>1. ExercisesInit => ReaperInv
  <2> SUFFICES ASSUME Reaper!Init PROVE ReaperInv
    BY DEF ExercisesInit
  <2>1. Reaper!TypeOK
    <3>1. forks \in 0 .. Forks
      BY ExercisesAssumption DEF Reaper!Init
    <3> QED BY <3>1 DEF Reaper!Init, Reaper!TypeOK
  <2>2. Reaper!In("zombie") = {}
    BY DEF Reaper!Init, Reaper!In
  <2> QED BY <2>1, <2>2 DEF ReaperInv, Reaper!ZombiesNoticed
<1>2. ReaperInv => Reaper!ZombiesNoticed
  BY DEF ReaperInv
<1> QED BY <1>1, <1>2, ReaperInvNext, PTL DEF ExercisesSpec
-----------------------------------------------------------------------------
(* Writen, Readn and Readline between a writer and a reader, for frames,    *)
(* streams, buffers and lines of any length.                                *)
(* Consecutive units, taken apart and put together.                         *)
LEMMA UnitsAre ==
  ASSUME NEW a \in Nat, NEW k \in Nat
  PROVE  /\ Stream!Units(a, k) \in Seq(Int) /\ Len(Stream!Units(a, k)) = k
         /\ \A m \in 1 .. k : Stream!Units(a, k)[m] = a + m
<1>1. \A m \in 1 .. k : a + m \in Int
  OBVIOUS
<1> QED BY <1>1 DEF Stream!Units

LEMMA UnitsJoin ==
  ASSUME NEW a \in Nat, NEW k \in Nat, NEW l \in Nat
  PROVE  Stream!Units(a, k) \o Stream!Units(a + k, l) = Stream!Units(a, k + l)
<1> DEFINE u == Stream!Units(a, k)
           v == Stream!Units(a + k, l)
           w == Stream!Units(a, k + l)
<1>0. a + k \in Nat /\ k + l \in Nat
  OBVIOUS
<1>1. /\ u \in Seq(Int) /\ Len(u) = k /\ \A m \in 1 .. k : u[m] = a + m
      /\ v \in Seq(Int) /\ Len(v) = l /\ \A m \in 1 .. l : v[m] = a + k + m
      /\ w \in Seq(Int) /\ Len(w) = k + l /\ \A m \in 1 .. k + l : w[m] = a + m
  BY <1>0, UnitsAre
<1> HIDE DEF u, v, w
<1>2. /\ u \o v \in Seq(Int) /\ Len(u \o v) = k + l
      /\ \A m \in 1 .. k + l : (u \o v)[m] = IF m <= k THEN u[m] ELSE v[m - k]
  BY <1>1, ConcatProperties
<1>3. ASSUME NEW m \in 1 .. k + l PROVE (u \o v)[m] = w[m]
  <2>1. CASE m <= k
    BY <1>1, <1>2, <2>1
  <2>2. CASE m > k
    <3>1. m - k \in 1 .. l /\ a + k + (m - k) = a + m /\ ~(m <= k)
      BY <2>2
    <3>2. v[m - k] = a + k + (m - k) /\ (u \o v)[m] = v[m - k]
      BY <1>1, <1>2, <3>1
    <3> QED BY <1>1, <3>1, <3>2
  <2>3. m <= k \/ m > k
    BY <1>0
  <2> QED BY <2>1, <2>2, <2>3
<1>4. u \o v = w
  BY <1>1, <1>2, <1>3, SeqEqual
<1> QED BY <1>4 DEF u, v, w

LEMMA UnitsFirst ==
  ASSUME NEW k \in Nat, NEW l \in Nat
  PROVE  Stream!Units(0, k) \o Stream!Units(k, l) = Stream!Units(0, k + l)
<1> DEFINE z == 0
<1>1. z \in Nat /\ z + k = k
  OBVIOUS
<1> HIDE DEF z
<1>2. Stream!Units(z, k) \o Stream!Units(z + k, l) = Stream!Units(z, k + l)
  BY <1>1, UnitsJoin
<1>3. Stream!Units(z, k) \o Stream!Units(k, l) = Stream!Units(z, k + l)
  BY <1>1, <1>2
<1> QED BY <1>3 DEF z

LEMMA UnitsSplit ==
  ASSUME NEW a \in Nat, NEW l \in Nat, NEW k \in 0 .. l
  PROVE  /\ SubSeq(Stream!Units(a, l), 1, k) = Stream!Units(a, k)
         /\ SubSeq(Stream!Units(a, l), k + 1, l) = Stream!Units(a + k, l - k)
<1> DEFINE w == Stream!Units(a, l)
           u == Stream!Units(a, k)
           v == Stream!Units(a + k, l - k)
<1>0. k \in Nat /\ a + k \in Nat /\ l - k \in Nat
  OBVIOUS
<1>1. /\ w \in Seq(Int) /\ Len(w) = l /\ \A m \in 1 .. l : w[m] = a + m
      /\ u \in Seq(Int) /\ Len(u) = k /\ \A m \in 1 .. k : u[m] = a + m
      /\ v \in Seq(Int) /\ Len(v) = l - k /\ \A m \in 1 .. l - k : v[m] = a + k + m
  BY <1>0, UnitsAre
<1> HIDE DEF u, v, w
<1>2. \A m \in 1 .. l : w[m] \in Int
  BY <1>1
<1>3. SubSeq(w, 1, k) = u
  <2>1. /\ SubSeq(w, 1, k) \in Seq(Int) /\ Len(SubSeq(w, 1, k)) = k
        /\ \A m \in 1 .. k : SubSeq(w, 1, k)[m] = w[m]
    BY <1>2, SubSeqProperties
  <2> QED BY <1>1, <2>1, SeqEqual
<1>4. SubSeq(w, k + 1, l) = v
  <2> DEFINE x == SubSeq(w, k + 1, l)
  <2>1. /\ x \in Seq(Int) /\ Len(x) = IF k + 1 <= l THEN l - (k + 1) + 1 ELSE 0
        /\ \A m \in 1 .. l - (k + 1) + 1 : x[m] = w[k + 1 + m - 1]
    BY <1>2, SubSeqProperties
  <2> HIDE DEF x
  <2>2. Len(x) = l - k
    BY <2>1
  <2>3. ASSUME NEW m \in 1 .. l - k PROVE x[m] = v[m]
    <3>1. m \in 1 .. l - (k + 1) + 1 /\ k + 1 + m - 1 = k + m /\ k + m \in 1 .. l
      OBVIOUS
    <3> QED BY <1>1, <2>1, <3>1
  <2>4. x = v
    BY <1>1, <2>1, <2>2, <2>3, SeqEqual
  <2> QED BY <2>4 DEF x
<1> QED BY <1>3, <1>4 DEF u, v, w

(* FlattenSeq is a recursive function: a solution of its equation.  That    *)
(* there is one and only one for the sequence at hand is part of the        *)
(* invariant below, and each call that returns makes the next one.          *)
Joins(f, s) ==
  f = [k \in 1 .. Len(s) |-> IF k = 1 THEN s[k] ELSE f[k - 1] \o s[k]]

Joinable(s) ==
  /\ \E f : Joins(f, s)
  /\ \A f, g : Joins(f, s) /\ Joins(g, s) => f = g

LEMMA FlattenIs ==
  ASSUME NEW s, Len(s) # 0
  PROVE  Stream!FlattenSeq(s) = (CHOOSE f : Joins(f, s))[Len(s)]
BY DEF Stream!FlattenSeq, Joins

LEMMA JoinableEmpty == ASSUME NEW s, Len(s) = 0 PROVE Joinable(s)
<1> DEFINE e == [k \in 1 .. Len(s) |-> <<>>]
<1>1. 1 .. Len(s) = {}
  OBVIOUS
<1>2. \A f : Joins(f, s) <=> f = e
  BY <1>1 DEF Joins
<1> QED BY <1>2 DEF Joinable

LEMMA JoinOneMore ==
  ASSUME NEW s, NEW t, Len(s) \in Nat, Len(t) = Len(s) + 1,
         \A k \in 1 .. Len(s) : t[k] = s[k], Joinable(s)
  PROVE  /\ Joinable(t)
         /\ Stream!FlattenSeq(t) = IF Len(s) = 0 THEN t[1]
                                   ELSE Stream!FlattenSeq(s) \o t[Len(s) + 1]
<1> DEFINE l == Len(s)
           Cut(f) == [k \in 1 .. l |-> f[k]]
           More(f) == [k \in 1 .. l + 1 |->
                         IF k <= l THEN f[k]
                         ELSE IF k = 1 THEN t[k] ELSE f[l] \o t[k]]
<1>1. ASSUME NEW f, Joins(f, s)
      PROVE  \A k \in 1 .. l : f[k] = IF k = 1 THEN s[k] ELSE f[k - 1] \o s[k]
  BY <1>1 DEF Joins
<1>2. ASSUME NEW f, Joins(f, t)
      PROVE  /\ \A k \in 1 .. l + 1 : f[k] = IF k = 1 THEN t[k] ELSE f[k - 1] \o t[k]
             /\ f = [k \in 1 .. l + 1 |-> f[k]]
  <2>1. f = [k \in 1 .. l + 1 |-> IF k = 1 THEN t[k] ELSE f[k - 1] \o t[k]]
    BY <1>2 DEF Joins
  <2> QED BY <2>1
<1>3. ASSUME NEW f, Joins(f, t) PROVE Joins(Cut(f), s)
  <2>1. ASSUME NEW k \in 1 .. l
        PROVE  f[k] = IF k = 1 THEN s[k] ELSE Cut(f)[k - 1] \o s[k]
    <3>1. k \in 1 .. l + 1 /\ (k # 1 => k - 1 \in 1 .. l)
      OBVIOUS
    <3> QED BY <1>2, <1>3, <3>1
  <2> QED BY <2>1 DEF Joins
<1>4. ASSUME NEW f, Joins(f, s) PROVE Joins(More(f), t)
  <2>1. ASSUME NEW k \in 1 .. l + 1
        PROVE  (IF k <= l THEN f[k] ELSE IF k = 1 THEN t[k] ELSE f[l] \o t[k])
               = IF k = 1 THEN t[k] ELSE More(f)[k - 1] \o t[k]
    <3>1. CASE k = 1
      BY <1>1, <1>4, <3>1
    <3>2. CASE k # 1 /\ k <= l
      <4>1. k - 1 \in 1 .. l + 1 /\ k - 1 <= l /\ k \in 1 .. l
        BY <3>2
      <4> QED BY <1>1, <1>4, <3>2, <4>1
    <3>3. CASE k # 1 /\ k > l
      <4>1. k = l + 1 /\ k - 1 = l /\ l \in 1 .. l + 1 /\ ~(k <= l) /\ l <= l
        BY <3>3
      <4>2. More(f)[l] = f[l]
        BY <4>1
      <4>3. More(f)[k - 1] = f[l]
        BY <4>1, <4>2
      <4> HIDE DEF More
      <4> QED BY <3>3, <4>1, <4>3
    <3> QED BY <3>1, <3>2, <3>3
  <2>2. More(f) = [k \in 1 .. l + 1 |-> IF k = 1 THEN t[k] ELSE More(f)[k - 1] \o t[k]]
    BY <2>1
  <2> QED BY <2>2 DEF Joins
<1>5. ASSUME NEW f, NEW g, Joins(f, t), Joins(g, t) PROVE f = g
  <2>1. Cut(f) = Cut(g)
    BY <1>3, <1>5 DEF Joinable
  <2>2. ASSUME NEW k \in 1 .. l PROVE f[k] = g[k]
    <3>1. Cut(f)[k] = f[k] /\ Cut(g)[k] = g[k]
      OBVIOUS
    <3> QED BY <2>1, <3>1
  <2>3. f[l + 1] = g[l + 1]
    <3>1. l + 1 \in 1 .. l + 1 /\ (l + 1 # 1 => l + 1 - 1 \in 1 .. l)
      OBVIOUS
    <3> QED BY <1>2, <1>5, <2>2, <3>1
  <2>4. \A k \in 1 .. l + 1 : f[k] = g[k]
    BY <2>2, <2>3
  <2> QED BY <1>2, <1>5, <2>4
<1>6. Joinable(t)
  BY <1>4, <1>5 DEF Joinable
<1>7. Stream!FlattenSeq(t) = IF l = 0 THEN t[1] ELSE Stream!FlattenSeq(s) \o t[l + 1]
  <2> DEFINE F == CHOOSE f : Joins(f, t)
             G == CHOOSE f : Joins(f, s)
  <2>1. Joins(F, t) /\ Joins(G, s)
    BY <1>6 DEF Joinable
  <2>2. Stream!FlattenSeq(t) = F[l + 1] /\ (l # 0 => Stream!FlattenSeq(s) = G[l])
    BY FlattenIs
  <2> HIDE DEF F, G
  <2>3. Cut(F) = G
    BY <1>3, <2>1 DEF Joinable
  <2>4. F[l + 1] = IF l = 0 THEN t[1] ELSE F[l] \o t[l + 1]
    <3>1. l + 1 \in 1 .. l + 1 /\ l + 1 - 1 = l /\ (l + 1 = 1 <=> l = 0)
      OBVIOUS
    <3> QED BY <1>2, <2>1, <3>1
  <2>5. l # 0 => F[l] = G[l]
    <3>1. l # 0 => l \in 1 .. l /\ Cut(F)[l] = F[l]
      OBVIOUS
    <3> QED BY <2>3, <3>1
  <2> QED BY <2>2, <2>4, <2>5
<1> QED BY <1>6, <1>7

(* The smaller of two numbers bounds what is read or written.               *)
LEMMA AtMostBoth ==
  ASSUME NEW a \in Nat, NEW b \in Nat
  PROVE  /\ Stream!Min({a, b}) \in Nat
         /\ Stream!Min({a, b}) <= a /\ Stream!Min({a, b}) <= b
<1>1. \E x \in {a, b} : \A y \in {a, b} : x <= y
  OBVIOUS
<1>2. Stream!Min({a, b}) \in {a, b} /\ \A y \in {a, b} : Stream!Min({a, b}) <= y
  BY <1>1 DEF Stream!Min
<1> QED BY <1>2

-----------------------------------------------------------------------------
(* What the calls that returned stored, one after the other, and what the   *)
(* call under way has stored.                                               *)
Whys == {"error", "full", "end", "newline"}
Calls == [k \in 1 .. Len(returned) |-> returned[k].stored]
Joined == Stream!FlattenSeq(Calls)
Current == IF rpc = "idle" THEN <<>> ELSE stored

Total == 1 .. N * Frames
Returns == [rc : Int, stored : Seq(Total), why : Whys]

Wrapped ==
  /\ Stream!TypeOK /\ returned \in Seq(Returns)
  /\ wpc = "idle" => wnleft = 0
  /\ wpc = "write" => sent > 0

(* Every unit is in one place: with the calls that returned, with the one   *)
(* under way, in my_read's buffer, in the stream, or not sent yet; and      *)
(* going through these places the units count up.                           *)
InOrder ==
  LET d == Len(Joined) IN
  /\ Joinable(Calls) /\ d \in Nat /\ Joined = Stream!Units(0, d)
  /\ Current = Stream!Units(d, Len(Current))
  /\ buf = Stream!Units(d + Len(Current), Len(buf))
  /\ pipe = Stream!Units(d + Len(Current) + Len(buf), Len(pipe))
  /\ Stream!Ptr = d + Len(Current) + Len(buf) + Len(pipe)

(* Between two Readns the reader has whole frames, and within one nleft     *)
(* says what is missing.                                                    *)
FrameCalls ==
  func = "Readn" =>
    /\ buf = <<>>
    /\ rpc = "call" => ~Stream!CameUpShort /\ nleft = N - Len(stored) /\ nleft > 0
    /\ rpc # "gone" /\ ~Stream!CameUpShort => Len(Joined) = N * Len(returned)
    /\ \A k \in 1 .. Len(returned) : returned[k].why = "error" => returned[k].rc = -1

(* Within a Readline n is the number of the character to come, there is     *)
(* room for it, and no newline has come.                                    *)
LineCalls ==
  (func = "Readline" /\ rpc = "call") =>
    /\ n = Len(stored) + 1 /\ n < MaxLen
    /\ \A k \in 1 .. Len(stored) : stored[k] \notin newlines

StreamInv ==
  /\ Wrapped /\ (rpc # "gone" => InOrder) /\ FrameCalls /\ LineCalls
  /\ Stream!CallsAsPromised

LEMMA PtrType ==
  ASSUME Wrapped
  PROVE  /\ Stream!Ptr \in Int /\ Stream!Ptr = N * sent - wnleft
         /\ wpc = "write" => Stream!Ptr \in Nat /\ Stream!Ptr + wnleft <= N * Frames
<1> USE WrapAssumption DEF Wrapped, Stream!TypeOK
<1>1. N * (sent - 1) + N = N * sent
  OBVIOUS
<1>2. N * sent \in Nat /\ N * Frames \in Nat /\ N * (sent - 1) \in Int
  OBVIOUS
<1>3. N * sent <= N * Frames
  <2>1. N * (Frames - sent) \in Nat /\ N * Frames = N * sent + N * (Frames - sent)
    OBVIOUS
  <2> QED BY <1>2, <2>1
<1>4. sent > 0 => N * (sent - 1) \in Nat
  OBVIOUS
<1>5. Stream!Ptr = N * sent - wnleft
  BY <1>1, <1>2 DEF Stream!Ptr
<1>6. sent > 0 => Stream!Ptr \in Nat
  <2> SUFFICES ASSUME sent > 0 PROVE Stream!Ptr \in Nat
    OBVIOUS
  <2>1. N * (sent - 1) \in Nat /\ N - wnleft \in Nat
    BY <1>4
  <2>2. \A a, b \in Nat : a + b \in Nat
    OBVIOUS
  <2>3. Stream!Ptr = N * (sent - 1) + (N - wnleft)
    BY DEF Stream!Ptr
  <2> QED BY ONLY <2>1, <2>2, <2>3
<1> QED BY <1>2, <1>3, <1>5, <1>6

LEMMA StreamInvInit == Stream!Init => StreamInv
<1> SUFFICES ASSUME Stream!Init PROVE StreamInv
  OBVIOUS
<1> USE WrapAssumption DEF Stream!Init
<1>0. N * Frames \in Nat
  OBVIOUS
<1>1. Wrapped
  <2>1. <<>> \in Seq(Total) /\ <<>> \in Seq(Returns) /\ Len(<<>>) = 0
    BY EmptySeq
  <2> QED BY <1>0, <2>1 DEF Wrapped, Stream!TypeOK, Total
<1>2. Len(Calls) = 0 /\ Calls = <<>> /\ Joined = <<>>
  <2>1. Len(returned) = 0
    OBVIOUS
  <2>2. Calls \in [1 .. 0 -> {}]
    BY <2>1 DEF Calls
  <2>3. Calls = <<>>
    BY <2>1 DEF Calls
  <2> QED BY <2>3 DEF Joined, Stream!FlattenSeq
<1>3. Stream!Units(0, 0) = <<>> /\ Stream!Ptr = 0
  <2>1. Stream!Units(0, 0) = <<>>
    BY UnitsAre, EmptySeq
  <2> QED BY <2>1 DEF Stream!Ptr
<1>4. InOrder
  BY <1>2, <1>3, JoinableEmpty DEF InOrder, Current
<1>5. FrameCalls /\ LineCalls
  BY <1>2 DEF FrameCalls, LineCalls
<1>6. Stream!CallsAsPromised
  BY DEF Stream!CallsAsPromised, Stream!FramesIntact, Stream!LineShape
<1> QED BY <1>1, <1>4, <1>5, <1>6 DEF StreamInv

(* Pieces of a sequence of units that may be sent.                          *)
LEMMA PieceOf ==
  ASSUME NEW s \in Seq(Total), NEW a \in Nat, NEW b \in Nat, 1 <= a, b <= Len(s)
  PROVE  SubSeq(s, a, b) \in Seq(Total) /\ Len(SubSeq(s, a, b)) =
           IF a <= b THEN b - a + 1 ELSE 0
<1>1. Len(s) \in Nat /\ \A m \in 1 .. Len(s) : s[m] \in Total
  BY LenProperties, ElementOfSeq
<1>2. \A m \in a .. b : s[m] \in Total
  BY <1>1
<1> QED BY <1>2, SubSeqProperties

LEMMA UnitsToSend ==
  ASSUME Wrapped, wpc = "write", NEW k \in 0 .. wnleft
  PROVE  /\ Stream!Units(Stream!Ptr, k) \in Seq(Total)
         /\ Len(Stream!Units(Stream!Ptr, k)) = k
<1> DEFINE p == Stream!Ptr
<1>0. wnleft \in Nat
  BY DEF Wrapped, Stream!TypeOK
<1>1. p \in Nat /\ p + wnleft <= N * Frames /\ N * Frames \in Nat
  BY PtrType, WrapAssumption
<1> HIDE DEF p
<1>2. ASSUME NEW m \in 1 .. k PROVE p + m \in Total
  <2>1. p + m <= N * Frames /\ 1 <= p + m /\ p + m \in Int
    BY <1>0, <1>1
  <2> QED BY <1>1, <2>1 DEF Total
<1>3. k \in Nat
  BY <1>0
<1>4. [m \in 1 .. k |-> p + m] \in Seq(Total)
  BY <1>2, <1>3
<1>5. Stream!Units(p, k) \in Seq(Total) /\ Len(Stream!Units(p, k)) = k
  BY <1>1, <1>3, <1>4, UnitsAre DEF Stream!Units
<1> QED BY <1>5 DEF p

(* What the steps that move something do to it.                             *)
LEMMA WriteSomeDoes ==
  ASSUME Wrapped, Stream!WriteSome
  PROVE  \E k \in 0 .. wnleft :
           /\ Len(pipe) + k <= Capacity
           /\ pipe' = pipe \o Stream!Units(Stream!Ptr, k)
           /\ wnleft' = wnleft - k /\ UNCHANGED sent
<1>1. /\ wnleft \in Nat /\ Capacity - Len(pipe) \in Nat
      /\ Len(pipe) \in Nat /\ Capacity \in Nat
  BY WrapAssumption DEF Wrapped, Stream!TypeOK
<1> DEFINE m == Stream!Min({wnleft, Capacity - Len(pipe)})
<1>2. m \in Nat /\ m <= wnleft /\ m <= Capacity - Len(pipe)
  BY <1>1, AtMostBoth
<1>3. PICK k \in {0} \cup 1 .. m :
        pipe' = pipe \o Stream!Units(Stream!Ptr, k) /\ wnleft' = wnleft - k
  BY DEF Stream!WriteSome, Stream!Interrupted
<1> HIDE DEF m
<1>4. k \in 0 .. wnleft /\ Len(pipe) + k <= Capacity
  BY <1>1, <1>2
<1>5. UNCHANGED sent
  BY DEF Stream!WriteSome
<1> QED BY <1>3, <1>4, <1>5

LEMMA ReadnSomeDoes ==
  ASSUME Wrapped, Stream!ReadnSome
  PROVE  \E k \in 0 .. Len(pipe) :
           /\ k <= nleft /\ nleft' = nleft - k
           /\ pipe' = SubSeq(pipe, k + 1, Len(pipe))
           /\ stored' = stored \o SubSeq(pipe, 1, k)
<1>1. nleft \in Nat /\ Len(pipe) \in Nat
  BY DEF Wrapped, Stream!TypeOK
<1> DEFINE m == Stream!Min({nleft, Len(pipe)})
<1>2. m \in Nat /\ m <= nleft /\ m <= Len(pipe)
  BY <1>1, AtMostBoth
<1>3. PICK k \in 0 .. m :
        /\ pipe' = SubSeq(pipe, k + 1, Len(pipe))
        /\ stored' = stored \o SubSeq(pipe, 1, k)
        /\ nleft' = nleft - k
  BY DEF Stream!ReadnSome, Stream!Asked
<1> HIDE DEF m
<1>4. k \in 0 .. Len(pipe) /\ k <= nleft
  BY <1>1, <1>2
<1> QED BY <1>3, <1>4

LEMMA FillDoes ==
  ASSUME Wrapped, Stream!Fill
  PROVE  \E k \in 1 .. Len(pipe) :
           /\ k <= BufLen
           /\ buf' = SubSeq(pipe, 1, k) /\ pipe' = SubSeq(pipe, k + 1, Len(pipe))
<1>1. BufLen \in Nat /\ Len(pipe) \in Nat
  BY WrapAssumption DEF Wrapped, Stream!TypeOK
<1> DEFINE m == Stream!Min({BufLen, Len(pipe)})
<1>2. m \in Nat /\ m <= BufLen /\ m <= Len(pipe)
  BY <1>1, AtMostBoth
<1>3. PICK k \in 1 .. m :
        buf' = SubSeq(pipe, 1, k) /\ pipe' = SubSeq(pipe, k + 1, Len(pipe))
  BY DEF Stream!Fill
<1> HIDE DEF m
<1>4. k \in 1 .. Len(pipe) /\ k <= BufLen
  BY <1>1, <1>2
<1> QED BY <1>3, <1>4

(* A call that returns adds its record to what the reader was given.        *)
LEMMA ReturnTypes ==
  ASSUME Wrapped, NEW rc \in Int, NEW why \in Whys, stored' \in Seq(Total),
         Stream!Return(rc, why)
  PROVE  /\ returned' \in Seq(Returns) /\ rpc' = "idle"
         /\ [rc |-> rc, stored |-> stored', why |-> why] \in Returns
         /\ returned' = Append(returned, [rc |-> rc, stored |-> stored', why |-> why])
<1>1. [rc |-> rc, stored |-> stored', why |-> why] \in Returns
  BY DEF Returns
<1> QED BY <1>1, AppendProperties DEF Wrapped, Stream!Return

LEMMA WrappedNext ==
  ASSUME StreamInv, [Stream!Next]_Stream!vars
  PROVE  Wrapped'
<1> USE DEF StreamInv
<1>0. /\ pipe \in Seq(Total) /\ Len(pipe) \in Nat /\ Len(pipe) <= Capacity
      /\ stored \in Seq(Total) /\ Len(stored) \in Nat
      /\ Len(stored) <= IF func = "Readn" THEN N ELSE MaxLen - 1
      /\ buf \in Seq(Total) /\ Len(buf) \in Nat /\ Len(buf) <= BufLen
      /\ newlines \subseteq Total /\ func \in {"Readn", "Readline"}
      /\ wpc \in {"idle", "write", "closed"} /\ wnleft \in 0 .. N /\ sent \in 0 .. Frames
      /\ rpc \in {"idle", "call", "gone"} /\ nleft \in 0 .. N /\ n \in 0 .. MaxLen
      /\ N \in Nat \ {0} /\ Frames \in Nat \ {0} /\ Capacity \in Nat \ {0}
      /\ BufLen \in Nat \ {0} /\ MaxLen \in Nat \ {0, 1}
      /\ returned \in Seq(Returns)
      /\ wpc = "idle" => wnleft = 0
      /\ wpc = "write" => sent > 0
  BY WrapAssumption DEF Wrapped, Stream!TypeOK, Total
<1>e. <<>> \in Seq(Total) /\ Len(<<>>) = 0
  BY EmptySeq
<1> DEFINE Typed ==
             /\ pipe \in Seq(Total) /\ Len(pipe) <= Capacity
             /\ stored \in Seq(Total)
             /\ Len(stored) <= IF func = "Readn" THEN N ELSE MaxLen - 1
             /\ buf \in Seq(Total) /\ Len(buf) <= BufLen
             /\ newlines \subseteq Total /\ func \in {"Readn", "Readline"}
             /\ wpc \in {"idle", "write", "closed"}
             /\ wnleft \in 0 .. N /\ sent \in 0 .. Frames
             /\ rpc \in {"idle", "call", "gone"} /\ nleft \in 0 .. N /\ n \in 0 .. MaxLen
             /\ returned \in Seq(Returns)
             /\ wpc = "idle" => wnleft = 0
             /\ wpc = "write" => sent > 0
<1>w. Typed' => Wrapped'
  BY DEF Wrapped, Stream!TypeOK, Total
<1>1. CASE Stream!WritenCall
  BY <1>0, <1>w, <1>1 DEF Stream!WritenCall, Stream!call
<1>2. CASE Stream!WriteSome
  <2>1. PICK k \in 0 .. wnleft :
          /\ Len(pipe) + k <= Capacity
          /\ pipe' = pipe \o Stream!Units(Stream!Ptr, k)
          /\ wnleft' = wnleft - k /\ UNCHANGED sent
    BY <1>2, WriteSomeDoes
  <2>2. pipe' \in Seq(Total) /\ Len(pipe') = Len(pipe) + k
    <3>1. /\ Stream!Units(Stream!Ptr, k) \in Seq(Total)
          /\ Len(Stream!Units(Stream!Ptr, k)) = k
      BY <1>2, UnitsToSend DEF Stream!WriteSome
    <3> QED BY <1>0, <2>1, <3>1, ConcatProperties
  <2>3. wpc' \in {"idle", "write"} /\ (wpc' = "idle" => wnleft' = 0) /\ sent > 0
    BY <1>0, <1>2 DEF Stream!WriteSome
  <2>4. UNCHANGED <<newlines, func, rpc, nleft, n, stored, returned, buf>>
    BY <1>2 DEF Stream!WriteSome, Stream!call
  <2>5. Len(pipe') <= Capacity /\ wnleft' \in 0 .. N
    BY <1>0, <2>1, <2>2
  <2> QED BY <1>0, <1>w, <2>1, <2>2, <2>3, <2>4, <2>5
<1>3. CASE Stream!WriteFails \/ Stream!CloseWriter
  BY <1>0, <1>w, <1>3 DEF Stream!WriteFails, Stream!CloseWriter, Stream!call
<1>4. CASE Stream!ReadFails \/ Stream!ReadnEnd \/ Stream!ReadlineEnd
  <2>1. /\ UNCHANGED <<newlines, func, pipe, wpc, wnleft, sent, nleft, n, stored, buf>>
        /\ \E rc \in Int, why \in Whys : Stream!Return(rc, why)
    <3>1. -1 \in Int /\ N - nleft \in Int /\ n - 1 \in Int
      BY <1>0
    <3> QED BY <1>4, <3>1 DEF Stream!ReadFails, Stream!ReadnEnd, Stream!ReadlineEnd,
                             Stream!writer, Whys
  <2>2. rpc' = "idle" /\ returned' \in Seq(Returns)
    BY <1>0, <2>1, ReturnTypes
  <2> QED BY <1>0, <1>w, <2>1, <2>2
<1>5. CASE Stream!GoAway
  BY <1>0, <1>w, <1>5 DEF Stream!GoAway, Stream!writer
<1>6. CASE Stream!ReadnCall \/ Stream!ReadlineCall
  <2>1. /\ UNCHANGED <<newlines, func, pipe, wpc, wnleft, sent, returned, buf>>
        /\ rpc' = "call" /\ stored' = <<>> /\ nleft' \in 0 .. N /\ n' \in 0 .. MaxLen
    BY <1>0, <1>6 DEF Stream!ReadnCall, Stream!ReadlineCall, Stream!writer
  <2> QED BY <1>0, <1>e, <1>w, <2>1
<1>7. CASE Stream!ReadnSome
  <2>1. PICK k \in 0 .. Len(pipe) :
           /\ k <= nleft /\ nleft' = nleft - k
           /\ pipe' = SubSeq(pipe, k + 1, Len(pipe))
           /\ stored' = stored \o SubSeq(pipe, 1, k)
    BY <1>7, ReadnSomeDoes
  <2>2. pipe' \in Seq(Total) /\ Len(pipe') <= Capacity
    BY <1>0, <2>1, PieceOf
  <2>3. SubSeq(pipe, 1, k) \in Seq(Total) /\ Len(SubSeq(pipe, 1, k)) = k
    BY <1>0, <2>1, PieceOf
  <2>4. stored' \in Seq(Total) /\ Len(stored') = Len(stored) + k
    BY <1>0, <2>1, <2>3, ConcatProperties
  <2>5. func = "Readn" /\ nleft = N - Len(stored)
    BY <1>7 DEF Stream!ReadnSome, Stream!Waiting, FrameCalls
  <2>6. Len(stored') <= N /\ nleft' \in 0 .. N
    BY <1>0, <2>1, <2>4, <2>5
  <2>7. UNCHANGED <<newlines, func, wpc, wnleft, sent, n, buf>>
    BY <1>7 DEF Stream!ReadnSome, Stream!writer
  <2>8. rpc' \in {"idle", "call"} /\ returned' \in Seq(Returns)
    <3>1. CASE nleft' <= 0
      <4>1. N - nleft' \in Int /\ "full" \in Whys
        BY <1>0, <2>6 DEF Whys
      <4>2. Stream!Return(N - nleft', "full")
        BY <1>7, <3>1 DEF Stream!ReadnSome
      <4> QED BY <2>4, <4>1, <4>2, ReturnTypes
    <3>2. CASE ~(nleft' <= 0)
      BY <1>0, <1>7, <3>2 DEF Stream!ReadnSome, Stream!Waiting
    <3> QED BY <3>1, <3>2
  <2> QED BY <1>0, <1>w, <2>2, <2>4, <2>5, <2>6, <2>7, <2>8
<1>8. CASE Stream!Fill
  <2>1. PICK k \in 1 .. Len(pipe) :
           /\ k <= BufLen
           /\ buf' = SubSeq(pipe, 1, k) /\ pipe' = SubSeq(pipe, k + 1, Len(pipe))
    BY <1>8, FillDoes
  <2>2. pipe' \in Seq(Total) /\ Len(pipe') <= Capacity
    BY <1>0, <2>1, PieceOf
  <2>3. buf' \in Seq(Total) /\ Len(buf') <= BufLen
    BY <1>0, <2>1, PieceOf
  <2>4. UNCHANGED <<newlines, func, wpc, wnleft, sent, rpc, nleft, n, stored, returned>>
    BY <1>8 DEF Stream!Fill, Stream!writer, Stream!call
  <2> QED BY <1>0, <1>w, <2>2, <2>3, <2>4
<1>9. CASE Stream!Take
  <2>1. buf # <<>> /\ stored' = Append(stored, Head(buf)) /\ buf' = Tail(buf)
    BY <1>9 DEF Stream!Take
  <2>2. Head(buf) \in Total /\ buf' \in Seq(Total) /\ Len(buf') <= BufLen
    BY <1>0, <2>1, HeadTailProperties
  <2>3. stored' \in Seq(Total) /\ Len(stored') = Len(stored) + 1
    BY <1>0, <2>1, <2>2, AppendProperties
  <2>4. func = "Readline" /\ n = Len(stored) + 1 /\ n < MaxLen
    BY <1>9 DEF Stream!Take, LineCalls
  <2>5. n' \in 0 .. MaxLen
    BY <1>0, <1>9, <2>4 DEF Stream!Take
  <2>6. rpc' \in {"idle", "call"} /\ returned' \in Seq(Returns)
    <3>1. \/ \E rc \in Int, why \in Whys : Stream!Return(rc, why)
          \/ UNCHANGED <<rpc, returned>>
      BY <1>0, <1>9 DEF Stream!Take, Whys
    <3>2. rpc = "call"
      BY <1>9 DEF Stream!Take
    <3> QED BY <1>0, <2>3, <3>1, <3>2, ReturnTypes
  <2>7. UNCHANGED <<newlines, func, pipe, wpc, wnleft, sent, nleft>>
    BY <1>9 DEF Stream!Take, Stream!writer
  <2>8. Len(stored') <= MaxLen - 1 /\ func' # "Readn"
    BY <1>0, <2>3, <2>4, <2>7
  <2> QED BY <1>0, <1>w, <2>2, <2>3, <2>5, <2>6, <2>7, <2>8
<1>10. CASE UNCHANGED Stream!vars
  <2>1. /\ UNCHANGED <<newlines, func, pipe, wpc, wnleft, sent, rpc, nleft, n>>
        /\ UNCHANGED <<stored, returned, buf>>
    BY <1>10 DEF Stream!vars, Stream!writer, Stream!call
  <2> QED BY <1>0, <1>w, <2>1
<1> QED BY <1>1, <1>2, <1>3, <1>4, <1>5, <1>6, <1>7, <1>8, <1>9, <1>10
        DEF Stream!Next, Stream!Writer, Stream!Reader

-----------------------------------------------------------------------------
(* The order of the units.                                                  *)
LEMMA ReturnJoins ==
  ASSUME returned \in Seq(Returns), Joinable(Calls), NEW d \in Nat, NEW c \in Nat,
         Joined = Stream!Units(0, d), Len(Joined) = d,
         NEW r \in Returns, r.stored = Stream!Units(d, c),
         returned' = Append(returned, r)
  PROVE  /\ Joinable(Calls)' /\ Joined' = Stream!Units(0, d + c)
         /\ Len(returned') = Len(returned) + 1
<1> DEFINE s == Calls
           t == Calls'
<1>1. /\ Len(returned) \in Nat /\ Len(returned') = Len(returned) + 1
      /\ \A k \in 1 .. Len(returned) : returned'[k] = returned[k]
      /\ returned'[Len(returned) + 1] = r
  BY AppendProperties, LenProperties
<1>2. Len(s) = Len(returned) /\ Len(t) = Len(s) + 1
  BY <1>1 DEF Calls
<1>3. t[Len(s) + 1] = r.stored /\ \A k \in 1 .. Len(s) : t[k] = s[k]
  BY <1>1, <1>2 DEF Calls
<1>e. Len(s) = 0 => s = <<>>
  <2>1. returned = <<>> => s = <<>>
    BY DEF Calls
  <2>2. Len(returned) = 0 => returned = <<>>
    BY EmptySeq
  <2> QED BY <1>2, <2>1, <2>2
<1>4. Len(s) = 0 => Joined = <<>>
  BY <1>e DEF Joined, Stream!FlattenSeq
<1>5. Joined' = Stream!FlattenSeq(t)
  BY DEF Joined
<1>6. Joined = Stream!FlattenSeq(s)
  BY DEF Joined
<1>8. Joinable(s)
  OBVIOUS
<1>9. Joinable(Calls)' <=> Joinable(t)
  BY DEF Joinable, Joins
<1> HIDE DEF s, t
<1>7. /\ Joinable(t)
      /\ Stream!FlattenSeq(t) = IF Len(s) = 0 THEN t[1]
                                ELSE Stream!FlattenSeq(s) \o t[Len(s) + 1]
  BY <1>1, <1>2, <1>3, <1>8, JoinOneMore
<1>10. Joined' = Stream!Units(0, d + c)
  <2>1. CASE Len(s) = 0
    <3>1. d = 0 /\ Joined' = Stream!Units(d, c)
      BY <1>3, <1>4, <1>5, <1>7, <2>1, EmptySeq
    <3> QED BY <3>1
  <2>2. CASE Len(s) # 0
    <3>1. Joined' = Stream!Units(0, d) \o Stream!Units(0 + d, c)
      BY <1>3, <1>5, <1>6, <1>7, <2>2
    <3> QED BY <3>1, UnitsJoin
  <2> QED BY <2>1, <2>2
<1> QED BY <1>1, <1>7, <1>9, <1>10

LEMMA SameCalls ==
  ASSUME UNCHANGED returned
  PROVE  /\ Calls' = Calls /\ Joined' = Joined
         /\ Joinable(Calls) => Joinable(Calls)'
<1> DEFINE s == Calls
           t == Calls'
<1>1. t = s
  BY DEF Calls
<1>2. Joined' = Stream!FlattenSeq(t) /\ Joined = Stream!FlattenSeq(s)
  BY DEF Joined
<1>3. Joinable(Calls)' <=> Joinable(t)
  BY DEF Joinable, Joins
<1> HIDE DEF s, t
<1>4. Joined' = Joined /\ (Joinable(s) => Joinable(t))
  BY <1>1, <1>2
<1> QED BY <1>1, <1>3, <1>4 DEF s, t

(* A step of the reader within a call leaves the units in order when it     *)
(* moves them from place to place; if the call returns, it hands over what  *)
(* it has stored.                                                           *)
LEMMA OrderKept ==
  ASSUME Wrapped, InOrder, NEW c \in Nat, NEW b \in Nat, NEW p \in Nat,
         stored' = Stream!Units(Len(Joined), c),
         buf' = Stream!Units(Len(Joined) + c, b),
         pipe' = Stream!Units(Len(Joined) + c + b, p),
         Stream!Ptr' = Len(Joined) + c + b + p,
         \/ rpc' = "call" /\ UNCHANGED returned
         \/ /\ rpc' = "idle"
            /\ \E r \in Returns : r.stored = stored' /\ returned' = Append(returned, r)
  PROVE  InOrder'
<1> DEFINE d == Len(Joined)
<1>1. d \in Nat /\ Joined = Stream!Units(0, d) /\ Joinable(Calls)
  BY DEF InOrder
<1>2. returned \in Seq(Returns)
  BY DEF Wrapped
<1>3. d + c \in Nat /\ d + c + b \in Nat
  BY <1>1
<1>4. Len(stored') = c /\ Len(buf') = b /\ Len(pipe') = p
  BY <1>1, <1>3, UnitsAre
<1>5. CASE rpc' = "call" /\ UNCHANGED returned
  <2>2. Joined' = Joined /\ Joinable(Calls)'
    BY <1>1, <1>5, SameCalls
  <2>3. Current' = stored'
    BY <1>5 DEF Current
  <2> QED BY <1>1, <1>4, <2>2, <2>3 DEF InOrder
<1>6. CASE /\ rpc' = "idle"
           /\ \E r \in Returns : r.stored = stored' /\ returned' = Append(returned, r)
  <2>1. Joinable(Calls)' /\ Joined' = Stream!Units(0, d + c)
    <3> HIDE DEF d
    <3> QED BY <1>1, <1>2, <1>6, ReturnJoins DEF d
  <2>2. Current' = <<>> /\ Len(<<>>) = 0
    BY <1>6 DEF Current
  <2>3. Len(Joined') = d + c
    BY <1>3, <2>1, UnitsAre
  <2>4. <<>> = Stream!Units(d + c, 0)
    BY <1>3, UnitsAre, EmptySeq
  <2>5. d + c + 0 = d + c
    BY <1>3
  <2> HIDE DEF d
  <2> QED BY <1>3, <1>4, <2>1, <2>2, <2>3, <2>4, <2>5 DEF InOrder, d
<1> QED BY <1>5, <1>6

LEMMA ReadnSomeMoves ==
  ASSUME Wrapped, InOrder, Stream!ReadnSome
  PROVE  \E k \in 0 .. Len(pipe) :
           /\ k <= nleft /\ nleft' = nleft - k
           /\ pipe' = SubSeq(pipe, k + 1, Len(pipe))
           /\ stored' = Stream!Units(Len(Joined), Len(stored) + k)
           /\ Len(stored') = Len(stored) + k
<1> DEFINE d == Len(Joined)
           c == Len(stored)
           p == Len(pipe)
<1>1. PICK k \in 0 .. Len(pipe) :
        /\ k <= nleft /\ nleft' = nleft - k
        /\ pipe' = SubSeq(pipe, k + 1, Len(pipe))
        /\ stored' = stored \o SubSeq(pipe, 1, k)
  BY ReadnSomeDoes
<1>2. rpc = "call" /\ buf = <<>> /\ Len(buf) = 0
  BY DEF Stream!ReadnSome, Stream!Waiting
<1>3. c \in Nat /\ p \in Nat /\ k \in Nat
  BY DEF Wrapped, Stream!TypeOK
<1>4. d \in Nat /\ stored = Stream!Units(d, c) /\ pipe = Stream!Units(d + c + 0, p)
  BY <1>2 DEF InOrder, Current
<1>5. d + c \in Nat /\ d + c + 0 = d + c /\ c + k \in Nat /\ k \in 0 .. p
  BY <1>3, <1>4
<1> HIDE DEF d, c
<1>6. SubSeq(pipe, 1, k) = Stream!Units(d + c, k)
  <2> DEFINE e == d + c
  <2>1. e \in Nat /\ pipe = Stream!Units(e, p)
    BY <1>4, <1>5
  <2> HIDE DEF e, p
  <2>2. SubSeq(Stream!Units(e, p), 1, k) = Stream!Units(e, k)
    BY <1>3, <1>5, <2>1, UnitsSplit
  <2> QED BY <2>1, <2>2 DEF e
<1>7. stored' = Stream!Units(d, c + k)
  <2>1. Stream!Units(d, c) \o Stream!Units(d + c, k) = Stream!Units(d, c + k)
    BY <1>3, <1>4, UnitsJoin
  <2> QED BY <1>1, <1>4, <1>6, <2>1
<1>8. Len(stored') = c + k
  BY <1>4, <1>5, <1>7, UnitsAre
<1> QED BY <1>1, <1>7, <1>8 DEF d, c

LEMMA InOrderNext ==
  ASSUME StreamInv, [Stream!Next]_Stream!vars, rpc' # "gone"
  PROVE  InOrder'
<1>0. Wrapped /\ Wrapped'
  BY WrappedNext DEF StreamInv
<1> DEFINE d == Len(Joined)
           b == Len(buf)
           p == Len(pipe)
           c == Len(Current)
<1>a. rpc # "gone"
  BY DEF Stream!Next, Stream!Writer, Stream!Reader, Stream!vars, Stream!writer,
         Stream!call, Stream!WritenCall, Stream!WriteSome, Stream!WriteFails,
         Stream!CloseWriter, Stream!ReadnCall, Stream!ReadnSome, Stream!ReadnEnd,
         Stream!ReadlineCall, Stream!Fill, Stream!ReadlineEnd, Stream!Take,
         Stream!ReadFails, Stream!Waiting, Stream!GoAway
<1>b. InOrder
  BY <1>a DEF StreamInv
<1>c. b \in Nat /\ p \in Nat /\ c \in Nat
  <2>1. Len(Current) \in Nat
    <3>1. Len(<<>>) \in Nat /\ Len(stored) \in Nat
      BY <1>0 DEF Wrapped, Stream!TypeOK
    <3>2. Current = <<>> \/ Current = stored
      BY DEF Current
    <3> QED BY <3>1, <3>2
  <2>2. Len(buf) \in Nat /\ Len(pipe) \in Nat
    BY <1>0 DEF Wrapped, Stream!TypeOK
  <2> QED BY <2>1, <2>2
<1>d. /\ d \in Nat /\ Joined = Stream!Units(0, d) /\ Joinable(Calls)
      /\ Current = Stream!Units(d, c) /\ buf = Stream!Units(d + c, b)
      /\ pipe = Stream!Units(d + c + b, p) /\ Stream!Ptr = d + c + b + p
  BY <1>b DEF InOrder
<1>e. rpc = "call" => stored = Stream!Units(d, c) /\ Len(stored) = c
  BY <1>d DEF Current
<1>f. /\ Stream!Ptr = N * sent - wnleft /\ Stream!Ptr' = N * sent' - wnleft'
      /\ wnleft \in Nat /\ N * sent \in Nat /\ N * (sent + 1) = N * sent + N
  <2>1. /\ N \in Nat /\ wnleft \in Nat /\ sent \in Nat /\ sent' \in Nat
        /\ wnleft' \in Nat
    BY <1>0, WrapAssumption DEF Wrapped, Stream!TypeOK
  <2>2. \A x, y \in Nat : N * (x - 1) + (N - y) = N * x - y /\ N * (x + 1) = N * x + N
    BY <2>1
  <2>3. N * sent \in Nat
    BY <2>1
  <2>4. /\ Stream!Ptr = N * (sent - 1) + (N - wnleft)
        /\ Stream!Ptr' = N * (sent' - 1) + (N - wnleft')
    BY DEF Stream!Ptr
  <2> QED BY <2>1, <2>2, <2>3, <2>4
<1>g. UNCHANGED Stream!writer => Stream!Ptr' = Stream!Ptr
  BY DEF Stream!writer, Stream!Ptr
<1> HIDE DEF d, b, p, c
<1>1. ASSUME UNCHANGED <<rpc, stored, returned, buf, pipe>>, Stream!Ptr' = Stream!Ptr
      PROVE  InOrder'
  <2>1. Joined' = Joined /\ Joinable(Calls)' /\ Current' = Current
    BY <1>1, <1>d, SameCalls DEF Current
  <2> QED BY <1>1, <1>b, <2>1 DEF InOrder
<1>2. CASE Stream!WritenCall
  <2>1. Stream!Ptr' = Stream!Ptr
    <3>1. wnleft = 0 /\ wnleft' = N /\ sent' = sent + 1 /\ N \in Nat
      BY <1>0, <1>2, WrapAssumption DEF Stream!WritenCall, Wrapped
    <3> QED BY <1>f, <3>1
  <2> QED BY <1>1, <1>2, <2>1 DEF Stream!WritenCall, Stream!call
<1>3. CASE Stream!WriteSome
  <2>1. PICK k \in 0 .. wnleft :
          /\ pipe' = pipe \o Stream!Units(Stream!Ptr, k)
          /\ wnleft' = wnleft - k /\ UNCHANGED sent
    BY <1>0, <1>3, WriteSomeDoes
  <2>2. k \in Nat /\ d + c + b \in Nat
    BY <1>c, <1>d, <1>f
  <2>3. pipe' = Stream!Units(d + c + b, p + k)
    BY <1>c, <1>d, <2>1, <2>2, UnitsJoin
  <2>4. Len(pipe') = p + k
    BY <1>c, <2>2, <2>3, UnitsAre
  <2>5. Stream!Ptr' = d + c + b + (p + k)
    <3>1. Stream!Ptr' = N * sent - (wnleft - k)
      BY <1>f, <2>1
    <3>2. \A x, y, z \in Nat : x - (y - z) = x - y + z
      OBVIOUS
    <3>3. Stream!Ptr' = Stream!Ptr + k
      BY <1>f, <2>2, <3>1, <3>2
    <3> QED BY <1>c, <1>d, <2>2, <3>3
  <2>6. UNCHANGED <<rpc, stored, returned, buf>>
    BY <1>3 DEF Stream!WriteSome, Stream!call
  <2>7. Current' = Current
    BY <2>6 DEF Current
  <2>8. Joined' = Joined /\ Joinable(Calls)'
    BY <1>d, <2>6, SameCalls
  <2> QED BY <1>d, <2>3, <2>4, <2>5, <2>6, <2>7, <2>8 DEF InOrder, d, c, b
<1>4. CASE Stream!WriteFails \/ Stream!CloseWriter
  <2>1. UNCHANGED <<rpc, stored, returned, buf, pipe, wnleft, sent>>
    BY <1>4 DEF Stream!WriteFails, Stream!CloseWriter, Stream!call
  <2> QED BY <1>1, <1>f, <2>1
<1>5. CASE Stream!ReadFails \/ Stream!ReadnEnd \/ Stream!ReadlineEnd
  <2>1. /\ UNCHANGED <<pipe, stored, buf>> /\ UNCHANGED Stream!writer /\ rpc = "call"
        /\ \E rc \in Int, why \in Whys : Stream!Return(rc, why)
    <3>1. -1 \in Int /\ N - nleft \in Int /\ n - 1 \in Int
      BY <1>0, WrapAssumption DEF Wrapped, Stream!TypeOK
    <3> QED BY <1>5, <3>1 DEF Stream!ReadFails, Stream!ReadnEnd, Stream!ReadlineEnd,
                             Stream!Waiting, Whys
  <2>2. stored' \in Seq(Total)
    BY <1>0 DEF Wrapped, Stream!TypeOK, Total
  <2>3. /\ rpc' = "idle"
        /\ \E r \in Returns : r.stored = stored' /\ returned' = Append(returned, r)
    BY <1>0, <2>1, <2>2, ReturnTypes DEF Returns
  <2> QED BY <1>0, <1>b, <1>c, <1>d, <1>e, <1>g, <2>1, <2>3, OrderKept DEF d
<1>6. CASE Stream!GoAway
  BY <1>6 DEF Stream!GoAway
<1>7. CASE Stream!ReadnCall \/ Stream!ReadlineCall
  <2>1. /\ UNCHANGED <<pipe, returned, buf>> /\ UNCHANGED Stream!writer
        /\ rpc = "idle" /\ rpc' = "call" /\ stored' = <<>>
    BY <1>7 DEF Stream!ReadnCall, Stream!ReadlineCall
  <2>2. Joined' = Joined /\ Joinable(Calls)' /\ Current' = Current
    BY <1>d, <2>1, SameCalls DEF Current
  <2> QED BY <1>b, <1>g, <2>1, <2>2 DEF InOrder
<1>8. CASE Stream!ReadnSome
  <2>1. PICK k \in 0 .. Len(pipe) :
           /\ pipe' = SubSeq(pipe, k + 1, Len(pipe))
           /\ stored' = Stream!Units(Len(Joined), Len(stored) + k)
    BY <1>0, <1>b, <1>8, ReadnSomeMoves
  <2>2. rpc = "call" /\ buf = <<>> /\ UNCHANGED buf /\ UNCHANGED Stream!writer
    BY <1>8 DEF Stream!ReadnSome, Stream!Waiting
  <2>3. k \in 0 .. p /\ k \in Nat /\ b = 0
    BY <1>c, <2>1, <2>2 DEF p, b
  <2>4. d + c \in Nat /\ d + c + b = d + c /\ c + k \in Nat /\ p - k \in Nat
    BY <1>c, <1>d, <2>3
  <2>5. pipe' = Stream!Units(d + c + k, p - k)
    <3> DEFINE e == d + c
    <3>1. e \in Nat /\ pipe = Stream!Units(e, p)
      BY <1>d, <2>4
    <3> HIDE DEF e
    <3>2. SubSeq(Stream!Units(e, p), k + 1, p) = Stream!Units(e + k, p - k)
      BY <1>c, <2>3, <3>1, UnitsSplit
    <3> QED BY <2>1, <3>1, <3>2 DEF e, p
  <2>6. stored' = Stream!Units(d, c + k)
    BY <1>e, <2>1, <2>2 DEF d
  <2>7. /\ d + (c + k) = d + c + k /\ d + (c + k) + 0 = d + c + k
        /\ Stream!Ptr' = d + (c + k) + 0 + (p - k)
    BY <1>c, <1>d, <1>g, <2>2, <2>3
  <2>8. buf' = Stream!Units(d + (c + k), 0)
    <3> DEFINE e == d + (c + k)
    <3>1. e \in Nat
      BY <1>d, <2>4
    <3> HIDE DEF e
    <3>2. Stream!Units(e, 0) = <<>>
      BY <3>1, UnitsAre, EmptySeq
    <3> QED BY <2>2, <3>2 DEF e
  <2>9. \/ rpc' = "call" /\ UNCHANGED returned
        \/ /\ rpc' = "idle"
           /\ \E r \in Returns : r.stored = stored' /\ returned' = Append(returned, r)
    <3>1. stored' \in Seq(Total) /\ N - nleft' \in Int /\ "full" \in Whys
      BY <1>0, WrapAssumption DEF Wrapped, Stream!TypeOK, Total, Whys
    <3>2. Stream!Return(N - nleft', "full") \/ UNCHANGED <<rpc, returned>>
      BY <1>8 DEF Stream!ReadnSome
    <3> QED BY <1>0, <2>2, <3>1, <3>2, ReturnTypes DEF Returns
  <2> HIDE DEF d
  <2> QED BY <1>0, <1>b, <2>4, <2>5, <2>6, <2>7, <2>8, <2>9, OrderKept DEF d
<1>9. CASE Stream!Fill
  <2>1. PICK k \in 1 .. Len(pipe) :
           buf' = SubSeq(pipe, 1, k) /\ pipe' = SubSeq(pipe, k + 1, Len(pipe))
    BY <1>0, <1>9, FillDoes
  <2>2. /\ rpc = "call" /\ buf = <<>> /\ UNCHANGED <<stored, rpc, returned>>
        /\ UNCHANGED Stream!writer
    BY <1>9 DEF Stream!Fill, Stream!Waiting, Stream!call
  <2>3. k \in 0 .. p /\ k \in Nat /\ b = 0
    BY <1>c, <2>1, <2>2 DEF p, b
  <2>4. d + c \in Nat /\ d + c + b = d + c /\ p - k \in Nat
    BY <1>c, <1>d, <2>3
  <2>5. buf' = Stream!Units(d + c, k) /\ pipe' = Stream!Units(d + c + k, p - k)
    <3> DEFINE e == d + c
    <3>1. e \in Nat /\ pipe = Stream!Units(e, p)
      BY <1>d, <2>4
    <3> HIDE DEF e
    <3>2. /\ SubSeq(Stream!Units(e, p), 1, k) = Stream!Units(e, k)
          /\ SubSeq(Stream!Units(e, p), k + 1, p) = Stream!Units(e + k, p - k)
      BY <1>c, <2>3, <3>1, UnitsSplit
    <3> QED BY <2>1, <3>1, <3>2 DEF e, p
  <2>6. Stream!Ptr' = d + c + k + (p - k)
    BY <1>c, <1>d, <1>g, <2>2, <2>3
  <2> QED BY <1>0, <1>b, <1>c, <1>e, <2>2, <2>3, <2>4, <2>5, <2>6, OrderKept DEF d
<1>10. CASE Stream!Take
  <2>1. /\ buf # <<>> /\ stored' = Append(stored, Head(buf)) /\ buf' = Tail(buf)
        /\ rpc = "call" /\ UNCHANGED pipe /\ UNCHANGED Stream!writer
    BY <1>10 DEF Stream!Take
  <2>2. buf \in Seq(Int) /\ stored \in Seq(Int) /\ d + c \in Nat
    BY <1>c, <1>d, <1>e, <2>1, UnitsAre
  <2>3. b > 0 /\ b - 1 \in Nat /\ 1 \in 0 .. b
    BY <1>c, <2>1, <2>2, EmptySeq DEF b
  <2> DEFINE e == d + c
  <2>e. e \in Nat /\ buf = Stream!Units(e, b)
    BY <1>d, <2>2
  <2> HIDE DEF e
  <2>4. Head(buf) = e + 1 /\ Head(buf) \in Int
    <3>1. Head(buf) = buf[1]
      BY <2>1, <2>2
    <3>2. 1 \in 1 .. b
      BY <2>3
    <3>3. Stream!Units(e, b)[1] = e + 1
      BY <1>c, <2>e, <3>2, UnitsAre
    <3> QED BY <2>e, <3>1, <3>3
  <2>5. buf' = Stream!Units(d + c + 1, b - 1)
    <3>1. buf' = SubSeq(buf, 2, b)
      BY <2>1, <2>2, TailIsSubSeq DEF b
    <3>2. SubSeq(Stream!Units(e, b), 1 + 1, b) = Stream!Units(e + 1, b - 1)
      BY <1>c, <2>3, <2>e, UnitsSplit
    <3>3. SubSeq(Stream!Units(e, b), 2, b) = Stream!Units(e + 1, b - 1)
      BY <3>2
    <3> QED BY <2>e, <3>1, <3>3 DEF e
  <2>6. stored' = Stream!Units(d, c + 1)
    <3>1. stored' = stored \o <<e + 1>>
      BY <2>1, <2>2, <2>4, AppendIsConcat
    <3>2. <<e + 1>> = Stream!Units(e, 1)
      <4>1. /\ Stream!Units(e, 1) \in Seq(Int) /\ Len(Stream!Units(e, 1)) = 1
            /\ Stream!Units(e, 1)[1] = e + 1
        <5>1. 1 \in Nat /\ 1 \in 1 .. 1
          OBVIOUS
        <5> QED BY <2>e, <5>1, UnitsAre
      <4>2. <<e + 1>> \in Seq(Int) /\ Len(<<e + 1>>) = 1 /\ <<e + 1>>[1] = e + 1
        BY <2>e
      <4> HIDE DEF Stream!Units
      <4> QED BY <4>1, <4>2, SeqEqual
    <3>3. Stream!Units(d, c) \o Stream!Units(d + c, 1) = Stream!Units(d, c + 1)
      <4>1. 1 \in Nat
        OBVIOUS
      <4> QED BY <1>c, <1>d, <4>1, UnitsJoin
    <3> QED BY <1>e, <2>1, <3>1, <3>2, <3>3 DEF e
  <2>7. /\ c + 1 \in Nat /\ d + (c + 1) = d + c + 1
        /\ d + (c + 1) + (b - 1) = d + c + b
        /\ Stream!Ptr' = d + (c + 1) + (b - 1) + p
    BY <1>c, <1>d, <1>g, <2>1, <2>3
  <2>8. \/ rpc' = "call" /\ UNCHANGED returned
        \/ /\ rpc' = "idle"
           /\ \E r \in Returns : r.stored = stored' /\ returned' = Append(returned, r)
    <3>1. stored' \in Seq(Total) /\ n \in Int /\ n + 1 \in Int
      BY <1>0 DEF Wrapped, Stream!TypeOK, Total
    <3>2. \/ \E rc \in Int, why \in Whys : Stream!Return(rc, why)
          \/ UNCHANGED <<rpc, returned>>
      BY <1>10, <3>1 DEF Stream!Take, Whys
    <3> QED BY <1>0, <2>1, <3>1, <3>2, ReturnTypes DEF Returns
  <2>9. pipe' = Stream!Units(d + (c + 1) + (b - 1), p)
    BY <1>d, <2>1, <2>7
  <2> QED BY <1>0, <1>b, <1>c, <2>3, <2>5, <2>6, <2>7, <2>8, <2>9, OrderKept DEF d
<1>11. CASE UNCHANGED Stream!vars
  BY <1>1, <1>11, <1>g DEF Stream!vars, Stream!call
<1> QED BY <1>2, <1>3, <1>4, <1>5, <1>6, <1>7, <1>8, <1>9, <1>10, <1>11
        DEF Stream!Next, Stream!Writer, Stream!Reader

-----------------------------------------------------------------------------
(* Readn.  While a call is under way, each that returned brought its frame. *)
LEMMA AllWhole ==
  ASSUME N \in Nat, FrameCalls, Stream!FramesIntact, func = "Readn", rpc = "call"
  PROVE  \A k \in 1 .. Len(returned) :
           /\ returned[k].why # "error" /\ returned[k].rc = Len(returned[k].stored)
           /\ returned[k].stored = Stream!Units(N * (k - 1), returned[k].rc)
           /\ ~(returned[k].rc < N)
<1> SUFFICES ASSUME NEW k \in 1 .. Len(returned)
             PROVE  /\ returned[k].why # "error"
                    /\ returned[k].rc = Len(returned[k].stored)
                    /\ returned[k].stored = Stream!Units(N * (k - 1), returned[k].rc)
                    /\ ~(returned[k].rc < N)
  OBVIOUS
<1>1. ~(k = Len(returned) /\ returned[k].rc < N)
  <2>1. returned # <<>> /\ ~Stream!CameUpShort
    <3>1. returned # <<>>
      OBVIOUS
    <3> QED BY <3>1 DEF FrameCalls
  <2> QED BY <2>1 DEF Stream!CameUpShort, Stream!Last
<1>2. returned[k].why # "error"
  <2>1. returned[k].why = "error" => k = Len(returned) /\ returned[k].rc = -1
    BY DEF Stream!FramesIntact, FrameCalls
  <2>2. -1 < N
    OBVIOUS
  <2> QED BY <1>1, <2>1, <2>2
<1> QED BY <1>1, <1>2 DEF Stream!FramesIntact

(* What a Readn returns is the frame after the ones before.                 *)
LEMMA FrameReturns ==
  ASSUME StreamInv, func = "Readn", UNCHANGED <<func, buf>>,
         rpc = "call", NEW c \in 0 .. N, stored' \in Seq(Total),
         stored' = Stream!Units(Len(Joined), c), Len(stored') = c,
         NEW rc \in Int, NEW why \in Whys, Stream!Return(rc, why),
         \/ why = "error" /\ rc = -1
         \/ why # "error" /\ rc = c /\ (c < N => Stream!EndOfStream')
  PROVE  FrameCalls' /\ Stream!FramesIntact'
<1> DEFINE r == [rc |-> rc, stored |-> stored', why |-> why]
           l == Len(returned)
<1>0. Wrapped /\ InOrder /\ FrameCalls /\ Stream!FramesIntact /\ N \in Nat \ {0}
  BY WrapAssumption DEF StreamInv, Stream!CallsAsPromised
<1>1. /\ r \in Returns /\ rpc' = "idle" /\ returned' = Append(returned, r)
      /\ returned \in Seq(Returns)
  BY <1>0, ReturnTypes DEF Wrapped
<1>2. r.rc = rc /\ r.stored = stored' /\ r.why = why
  OBVIOUS
<1> HIDE DEF r
<1>3. /\ l \in Nat /\ Len(returned') = l + 1 /\ returned' # <<>>
      /\ returned'[l + 1] = r /\ \A k \in 1 .. l : returned'[k] = returned[k]
  BY <1>1, AppendProperties, LenProperties
<1>4. Len(Joined) = N * l /\ buf = <<>>
  BY <1>0 DEF FrameCalls
<1>5. Stream!CameUpShort' <=> rc < N
  <2>1. Stream!Last(returned)' = r
    BY <1>3 DEF Stream!Last
  <2> QED BY <1>2, <1>3, <2>1 DEF Stream!CameUpShort
<1>6. ~(rc < N) => Len(Joined') = N * Len(returned')
  <2> SUFFICES ASSUME ~(rc < N) PROVE Len(Joined') = N * (l + 1)
    BY <1>3
  <2>1. c = N
    BY <1>0
  <2> DEFINE d == Len(Joined)
  <2>2. d \in Nat /\ Joined = Stream!Units(0, d) /\ Joinable(Calls)
    BY <1>0 DEF InOrder
  <2>3. r.stored = Stream!Units(d, c) /\ c \in Nat
    BY <1>2
  <2>4. Joined' = Stream!Units(0, d + c)
    <3> HIDE DEF d
    <3> QED BY <1>1, <2>2, <2>3, ReturnJoins DEF d
  <2>5. Len(Joined') = d + c
    BY <2>2, <2>3, <2>4, UnitsAre
  <2>6. N * (l + 1) = N * l + N
    BY <1>0, <1>3
  <2> QED BY <1>4, <2>1, <2>5, <2>6
<1>7. \A k \in 1 .. l : /\ returned[k].why # "error"
                        /\ returned[k].rc = Len(returned[k].stored)
                        /\ returned[k].stored = Stream!Units(N * (k - 1), returned[k].rc)
                        /\ ~(returned[k].rc < N)
  BY <1>0, AllWhole
<1>8. FrameCalls'
  <2>1. \A k \in 1 .. Len(returned') :
          returned'[k].why = "error" => returned'[k].rc = -1
    BY <1>2, <1>3, <1>7
  <2> QED BY <1>1, <1>4, <1>5, <1>6, <2>1 DEF FrameCalls
<1>9. Stream!FramesIntact'
  <2>1. ASSUME NEW k \in 1 .. l + 1
        PROVE  IF returned'[k].why = "error" THEN k = Len(returned')
               ELSE /\ returned'[k].rc = Len(returned'[k].stored)
                    /\ returned'[k].stored = Stream!Units(N * (k - 1), returned'[k].rc)
                    /\ returned'[k].rc < N => k = Len(returned') /\ Stream!EndOfStream'
    <3>1. CASE k \in 1 .. l
      BY <1>3, <1>7, <3>1
    <3>2. CASE k = l + 1
      <4>1. N * (k - 1) = Len(Joined)
        BY <1>3, <1>4, <3>2
      <4> QED BY <1>2, <1>3, <3>2, <4>1
    <3> QED BY <1>3, <3>1, <3>2
  <2> QED BY <1>3, <2>1 DEF Stream!FramesIntact
<1> QED BY <1>8, <1>9

LEMMA FramesNext ==
  ASSUME StreamInv, [Stream!Next]_Stream!vars
  PROVE  FrameCalls' /\ Stream!FramesIntact'
<1>0. Wrapped /\ FrameCalls /\ Stream!FramesIntact /\ Wrapped'
  BY WrappedNext DEF StreamInv, Stream!CallsAsPromised
<1>n. N \in Nat \ {0} /\ nleft \in 0 .. N /\ nleft' \in 0 .. N
  BY <1>0, WrapAssumption DEF Wrapped, Stream!TypeOK
<1>f. UNCHANGED func
  BY DEF Stream!Next, Stream!Writer, Stream!Reader, Stream!vars, Stream!WritenCall,
         Stream!WriteSome, Stream!WriteFails, Stream!CloseWriter, Stream!ReadnCall,
         Stream!ReadnSome, Stream!ReadnEnd, Stream!ReadlineCall, Stream!Fill,
         Stream!ReadlineEnd, Stream!Take, Stream!ReadFails, Stream!GoAway
<1> SUFFICES ASSUME func = "Readn" PROVE FrameCalls' /\ Stream!FramesIntact'
  BY <1>f DEF FrameCalls, Stream!FramesIntact
<1>1. ASSUME UNCHANGED <<nleft, stored, returned, buf>>,
             rpc' = rpc \/ rpc' = "gone", Stream!EndOfStream => Stream!EndOfStream'
      PROVE  FrameCalls' /\ Stream!FramesIntact'
  <2>1. Joined' = Joined
    BY <1>1, SameCalls
  <2>2. Stream!CameUpShort' <=> Stream!CameUpShort
    BY <1>1, <1>f DEF Stream!CameUpShort, Stream!Last
  <2>3. FrameCalls'
    BY <1>0, <1>1, <1>f, <2>1, <2>2 DEF FrameCalls
  <2>4. Stream!FramesIntact'
    BY <1>0, <1>1, <1>f DEF Stream!FramesIntact
  <2> QED BY <2>3, <2>4
<1>2. CASE Stream!Writer
  <2>1. UNCHANGED <<nleft, stored, returned, buf, rpc>>
    BY <1>2 DEF Stream!Writer, Stream!WritenCall, Stream!WriteSome, Stream!WriteFails,
                Stream!CloseWriter, Stream!call
  <2>2. Stream!EndOfStream => Stream!EndOfStream'
    BY <1>2 DEF Stream!Writer, Stream!WritenCall, Stream!WriteSome, Stream!WriteFails,
                Stream!CloseWriter, Stream!EndOfStream
  <2> QED BY <1>1, <2>1, <2>2
<1>3. CASE Stream!ReadnCall
  <2>1. /\ ~Stream!CameUpShort /\ UNCHANGED <<returned, buf, pipe, wpc>>
        /\ rpc = "idle" /\ rpc' = "call" /\ nleft' = N /\ stored' = <<>>
    BY <1>3 DEF Stream!ReadnCall, Stream!writer
  <2>2. Joined' = Joined
    BY <2>1, SameCalls
  <2>3. ~Stream!CameUpShort' /\ (Stream!EndOfStream' <=> Stream!EndOfStream)
    BY <2>1, <1>f DEF Stream!CameUpShort, Stream!Last, Stream!EndOfStream
  <2>4. N = N - 0 /\ N > 0 /\ Len(stored') = 0
    BY <1>n, <2>1
  <2>5. FrameCalls'
    BY <1>0, <1>f, <2>1, <2>2, <2>3, <2>4 DEF FrameCalls
  <2>6. Stream!FramesIntact'
    BY <1>0, <1>f, <2>1, <2>3 DEF Stream!FramesIntact
  <2> QED BY <2>5, <2>6
<1>4. CASE Stream!ReadnSome
  <2>0. /\ rpc = "call" /\ UNCHANGED <<buf, wpc>> /\ InOrder
        /\ nleft = N - Len(stored) /\ nleft > 0 /\ ~Stream!CameUpShort
    BY <1>0, <1>4
    DEF Stream!ReadnSome, Stream!Waiting, Stream!writer, FrameCalls, StreamInv
  <2>1. PICK k \in 0 .. Len(pipe) :
           /\ k <= nleft /\ nleft' = nleft - k
           /\ stored' = Stream!Units(Len(Joined), Len(stored) + k)
           /\ Len(stored') = Len(stored) + k
    BY <1>0, <1>4, <2>0, ReadnSomeMoves
  <2> DEFINE c == Len(stored) + k
  <2>2. c \in 0 .. N /\ nleft' = N - c /\ stored' \in Seq(Total)
    <3>1. stored \in Seq(Total) /\ pipe \in Seq(Total) /\ stored' \in Seq(Total)
      BY <1>0 DEF Wrapped, Stream!TypeOK, Total
    <3>2. Len(stored) \in Nat /\ Len(pipe) \in Nat
      BY <3>1, LenProperties
    <3> QED BY <1>n, <2>0, <2>1, <3>1, <3>2
  <2> HIDE DEF c
  <2>3. CASE nleft' <= 0
    <3>1. Stream!Return(N - nleft', "full")
      BY <1>4, <2>3 DEF Stream!ReadnSome
    <3>2. N - nleft' = c /\ ~(c < N) /\ N - nleft' \in Int
      BY <1>n, <2>2, <2>3
    <3>3. "full" \in Whys
      BY DEF Whys
    <3> QED BY <1>f, <2>0, <2>1, <2>2, <3>1, <3>2, <3>3, FrameReturns DEF c
  <2>4. CASE ~(nleft' <= 0)
    <3>1. UNCHANGED <<rpc, returned>>
      BY <1>4, <2>4 DEF Stream!ReadnSome
    <3>2. Joined' = Joined
      BY <3>1, SameCalls
    <3>3. ~Stream!CameUpShort'
      BY <1>f, <2>0, <3>1 DEF Stream!CameUpShort, Stream!Last
    <3>4. nleft' > 0 /\ Len(stored') = c
      BY <1>n, <2>1, <2>4 DEF c
    <3>5. FrameCalls'
      BY <1>0, <1>f, <2>0, <2>2, <3>1, <3>2, <3>3, <3>4 DEF FrameCalls
    <3>6. Stream!FramesIntact'
      BY <1>0, <1>f, <1>n, <2>0, <3>1, AllWhole DEF Stream!FramesIntact
    <3> QED BY <3>5, <3>6
  <2> QED BY <2>3, <2>4
<1>5. CASE Stream!ReadnEnd \/ Stream!ReadFails
  <2>1. /\ rpc = "call" /\ UNCHANGED <<pipe, wpc, stored, nleft, buf>> /\ InOrder
        /\ nleft = N - Len(stored) /\ nleft > 0
    BY <1>0, <1>5 DEF Stream!ReadnEnd, Stream!ReadFails, Stream!Waiting, Stream!writer,
                      FrameCalls, StreamInv
  <2> DEFINE c == Len(stored)
  <2>2. c \in 0 .. N /\ N - nleft = c /\ N - nleft \in Int /\ -1 \in Int
        /\ stored' \in Seq(Total)
    <3>1. Len(stored) \in Nat /\ stored' \in Seq(Total)
      BY <1>0 DEF Wrapped, Stream!TypeOK, Total
    <3> QED BY <1>n, <2>1, <3>1
  <2>3. stored' = Stream!Units(Len(Joined), c) /\ Len(stored') = c
    BY <2>1 DEF InOrder, Current
  <2>4. "error" \in Whys /\ "end" \in Whys
    BY DEF Whys
  <2> HIDE DEF c
  <2>5. CASE Stream!ReadnEnd
    <3>1. Stream!Return(N - nleft, "end") /\ Stream!EndOfStream'
      BY <2>1, <2>5 DEF Stream!ReadnEnd, Stream!EndOfStream
    <3> QED BY <1>f, <2>1, <2>2, <2>3, <2>4, <3>1, FrameReturns
  <2>6. CASE Stream!ReadFails
    <3>1. Stream!Return(-1, "error")
      BY <2>6 DEF Stream!ReadFails
    <3> QED BY <1>f, <2>1, <2>2, <2>3, <2>4, <3>1, FrameReturns
  <2> QED BY <1>5, <2>5, <2>6
<1>6. CASE Stream!GoAway
  <2>1. /\ UNCHANGED <<nleft, stored, returned, buf, pipe, wpc>> /\ rpc' = "gone"
    BY <1>6 DEF Stream!GoAway, Stream!writer
  <2> QED BY <1>1, <2>1 DEF Stream!EndOfStream
<1>7. CASE UNCHANGED Stream!vars
  <2>1. UNCHANGED <<nleft, stored, returned, buf, rpc, pipe, wpc>>
    BY <1>7 DEF Stream!vars, Stream!call, Stream!writer
  <2> QED BY <1>1, <2>1 DEF Stream!EndOfStream
<1>8. ~(Stream!ReadlineCall \/ Stream!Fill \/ Stream!ReadlineEnd \/ Stream!Take)
  BY DEF Stream!ReadlineCall, Stream!Fill, Stream!ReadlineEnd, Stream!Take
<1> QED BY <1>2, <1>3, <1>4, <1>5, <1>6, <1>7, <1>8 DEF Stream!Next, Stream!Reader

-----------------------------------------------------------------------------
(* Readline.  What one call promises.                                       *)
OneLine(r) ==
  /\ Len(r.stored) < MaxLen
  /\ \A k \in 1 .. Len(r.stored) :
       r.stored[k] \in newlines <=> r.why = "newline" /\ k = Len(r.stored)
  /\ r.rc = CASE r.why = "error" -> -1
              [] r.why = "full" -> Len(r.stored) + 1
              [] OTHER -> Len(r.stored)

LEMMA LineShapeIs ==
  Stream!LineShape <=>
    (func = "Readline" => \A k \in 1 .. Len(returned) : OneLine(returned[k]))
BY DEF Stream!LineShape, OneLine

LEMMA LinesNext ==
  ASSUME StreamInv, [Stream!Next]_Stream!vars
  PROVE  LineCalls' /\ Stream!LineShape'
<1>0. Wrapped /\ LineCalls /\ Stream!LineShape /\ Wrapped'
  BY WrappedNext DEF StreamInv, Stream!CallsAsPromised
<1>t. /\ MaxLen \in Nat \ {0, 1} /\ n \in 0 .. MaxLen /\ stored \in Seq(Total)
      /\ Len(stored) \in Nat /\ stored' \in Seq(Total) /\ returned \in Seq(Returns)
  BY <1>0, WrapAssumption DEF Wrapped, Stream!TypeOK, Total
<1>f. UNCHANGED <<func, newlines>>
  BY DEF Stream!Next, Stream!Writer, Stream!Reader, Stream!vars, Stream!WritenCall,
         Stream!WriteSome, Stream!WriteFails, Stream!CloseWriter, Stream!ReadnCall,
         Stream!ReadnSome, Stream!ReadnEnd, Stream!ReadlineCall, Stream!Fill,
         Stream!ReadlineEnd, Stream!Take, Stream!ReadFails, Stream!GoAway
<1>n. func # "Readline" => LineCalls' /\ Stream!LineShape'
  BY <1>f DEF LineCalls, Stream!LineShape
<1>s. (\A k \in 1 .. Len(returned') : OneLine(returned'[k])) => Stream!LineShape'
  BY <1>f DEF Stream!LineShape, OneLine
<1> SUFFICES ASSUME func = "Readline" PROVE LineCalls' /\ Stream!LineShape'
  BY <1>n
<1>l. \A k \in 1 .. Len(returned) : OneLine(returned[k])
  BY <1>0, LineShapeIs
<1>1. ASSUME UNCHANGED <<n, stored, returned>>, rpc' = rpc \/ rpc' = "gone"
      PROVE  LineCalls' /\ Stream!LineShape'
  <2>1. LineCalls'
    BY <1>0, <1>1, <1>f DEF LineCalls
  <2>2. Stream!LineShape'
    BY <1>0, <1>1, <1>f DEF Stream!LineShape
  <2> QED BY <2>1, <2>2
<1>2. ASSUME NEW rc \in Int, NEW why \in Whys, Stream!Return(rc, why),
             Len(stored') < MaxLen,
             \A k \in 1 .. Len(stored') :
               stored'[k] \in newlines <=> why = "newline" /\ k = Len(stored'),
             rc = CASE why = "error" -> -1
                    [] why = "full" -> Len(stored') + 1
                    [] OTHER -> Len(stored')
      PROVE  LineCalls' /\ Stream!LineShape'
  <2> DEFINE r == [rc |-> rc, stored |-> stored', why |-> why]
  <2>1. r \in Returns /\ rpc' = "idle" /\ returned' = Append(returned, r)
    BY <1>0, <1>2, <1>t, ReturnTypes
  <2>2. r.rc = rc /\ r.stored = stored' /\ r.why = why
    OBVIOUS
  <2>3. OneLine(r)
    BY <1>2 DEF OneLine
  <2> HIDE DEF r
  <2>4. /\ Len(returned) \in Nat /\ Len(returned') = Len(returned) + 1
        /\ returned'[Len(returned) + 1] = r
        /\ \A k \in 1 .. Len(returned) : returned'[k] = returned[k]
    BY <1>t, <2>1, AppendProperties, LenProperties
  <2>5. \A k \in 1 .. Len(returned') : OneLine(returned'[k])
    <3>1. ASSUME NEW k \in 1 .. Len(returned') PROVE OneLine(returned'[k])
      <4>1. k \in 1 .. Len(returned) \/ k = Len(returned) + 1
        BY <2>4
      <4> QED BY <1>l, <2>3, <2>4, <4>1
    <3> QED BY <3>1
  <2>6. Stream!LineShape'
    BY <1>s, <2>5
  <2> QED BY <2>1, <2>6 DEF LineCalls
<1>3. CASE Stream!Writer
  <2>1. UNCHANGED <<n, stored, returned, rpc>>
    BY <1>3 DEF Stream!Writer, Stream!WritenCall, Stream!WriteSome, Stream!WriteFails,
                Stream!CloseWriter, Stream!call
  <2> QED BY <1>1, <2>1
<1>4. CASE Stream!ReadlineCall
  <2>1. UNCHANGED returned /\ n' = 1 /\ stored' = <<>>
    BY <1>4 DEF Stream!ReadlineCall
  <2>2. LineCalls'
    BY <1>t, <2>1 DEF LineCalls
  <2>3. Stream!LineShape'
    BY <1>0, <1>f, <2>1 DEF Stream!LineShape
  <2> QED BY <2>2, <2>3
<1>5. CASE Stream!Fill \/ Stream!GoAway \/ UNCHANGED Stream!vars
  <2>1. UNCHANGED <<n, stored, returned>> /\ (rpc' = rpc \/ rpc' = "gone")
    BY <1>5 DEF Stream!Fill, Stream!GoAway, Stream!vars, Stream!call
  <2> QED BY <1>1, <2>1
<1>6. CASE Stream!ReadlineEnd \/ Stream!ReadFails
  <2>1. /\ UNCHANGED stored /\ n = Len(stored) + 1 /\ n < MaxLen
        /\ \A k \in 1 .. Len(stored) : stored[k] \notin newlines
    BY <1>0, <1>6 DEF Stream!ReadlineEnd, Stream!ReadFails, Stream!Waiting, LineCalls
  <2>2. \E rc \in Int, why \in {"error", "end"} :
          /\ Stream!Return(rc, why)
          /\ rc = IF why = "error" THEN -1 ELSE Len(stored)
    <3>1. n - 1 = Len(stored) /\ n - 1 \in Int /\ -1 \in Int
      BY <1>t, <2>1
    <3> QED BY <1>6, <3>1 DEF Stream!ReadlineEnd, Stream!ReadFails
  <2>3. PICK rc \in Int, why \in {"error", "end"} :
          Stream!Return(rc, why) /\ rc = IF why = "error" THEN -1 ELSE Len(stored)
    BY <2>2
  <2>4. why \in Whys /\ why # "newline" /\ why # "full" /\ Len(stored') < MaxLen
    BY <1>t, <2>1 DEF Whys
  <2> QED BY <1>2, <2>1, <2>3, <2>4
<1>7. CASE Stream!Take
  <2>1. /\ buf # <<>> /\ stored' = Append(stored, Head(buf)) /\ rpc = "call"
        /\ n = Len(stored) + 1 /\ n < MaxLen
        /\ \A k \in 1 .. Len(stored) : stored[k] \notin newlines
    BY <1>0, <1>7 DEF Stream!Take, LineCalls
  <2>2. Head(buf) \in Total
    BY <1>0, <2>1, HeadTailProperties DEF Wrapped, Stream!TypeOK, Total
  <2>3. /\ Len(stored') = n /\ stored'[n] = Head(buf)
        /\ \A k \in 1 .. n : k # n => stored'[k] \notin newlines
    <3>1. /\ Len(stored') = Len(stored) + 1 /\ stored'[Len(stored) + 1] = Head(buf)
          /\ \A k \in 1 .. Len(stored) : stored'[k] = stored[k]
      BY <1>t, <2>1, <2>2, AppendProperties
    <3>2. \A k \in 1 .. n : k # n => k \in 1 .. Len(stored)
      BY <1>t, <2>1
    <3> QED BY <2>1, <3>1, <3>2
  <2>4. n \in Int /\ n + 1 \in Int /\ n \in 1 .. n
    BY <1>t, <2>1
  <2>5. CASE Head(buf) \in newlines
    <3>1. Stream!Return(n, "newline") /\ "newline" \in Whys
      BY <1>7, <2>5 DEF Stream!Take, Whys
    <3> QED BY <1>2, <2>1, <2>3, <2>4, <2>5, <3>1
  <2>6. CASE Head(buf) \notin newlines
    <3>1. \A k \in 1 .. n : stored'[k] \notin newlines
      BY <2>3, <2>6
    <3>2. CASE Stream!Full
      <4>1. Stream!Return(n + 1, "full") /\ "full" \in Whys
        BY <1>7, <2>6, <3>2 DEF Stream!Take, Whys
      <4> QED BY <1>2, <2>1, <2>3, <2>4, <3>1, <4>1
    <3>3. CASE ~Stream!Full
      <4>1. n' = n + 1 /\ UNCHANGED <<rpc, returned>>
        BY <1>7, <2>6, <3>3 DEF Stream!Take
      <4>2. n' < MaxLen
        BY <1>t, <2>1, <3>3, <4>1 DEF Stream!Full
      <4>3. LineCalls'
        BY <1>f, <2>3, <3>1, <4>1, <4>2 DEF LineCalls
      <4>4. Stream!LineShape'
        BY <1>0, <1>f, <4>1 DEF Stream!LineShape
      <4> QED BY <4>3, <4>4
    <3> QED BY <3>2, <3>3
  <2> QED BY <2>5, <2>6
<1>8. ~(Stream!ReadnCall \/ Stream!ReadnSome \/ Stream!ReadnEnd)
  BY DEF Stream!ReadnCall, Stream!ReadnSome, Stream!ReadnEnd
<1> QED BY <1>3, <1>4, <1>5, <1>6, <1>7, <1>8 DEF Stream!Next, Stream!Reader

-----------------------------------------------------------------------------
LEMMA StreamInvNext ==
  StreamInv /\ [Stream!Next]_Stream!vars => StreamInv'
BY WrappedNext, InOrderNext, FramesNext, LinesNext DEF StreamInv, Stream!CallsAsPromised

(* Types, whatever the sizes: what a call stores fits into its buffer, and  *)
(* so does what my_read keeps.                                              *)
THEOREM WrapTypeCorrect == Stream!Spec => []Stream!TypeOK
<1>1. Stream!Init => StreamInv
  BY StreamInvInit
<1>2. StreamInv /\ [Stream!Next]_Stream!vars => StreamInv'
  BY StreamInvNext
<1>3. StreamInv => Stream!TypeOK
  BY DEF StreamInv, Wrapped
<1> QED BY <1>1, <1>2, <1>3, PTL DEF Stream!Spec

(* Whatever pieces the stream delivers, nothing is lost, repeated or        *)
(* reordered between the writer's buffer and the reader's.                  *)
THEOREM LosslessAlways == Stream!Spec => []Lossless
<1>1. Stream!Init => StreamInv
  BY StreamInvInit
<1>2. StreamInv /\ [Stream!Next]_Stream!vars => StreamInv'
  BY StreamInvNext
<1>3. StreamInv => Lossless
  <2> SUFFICES ASSUME StreamInv, rpc # "gone"
               PROVE  Joined \o Current \o buf \o pipe = Stream!Units(0, Stream!Ptr)
    BY DEF Lossless, Stream!Lossless, Joined, Calls, Current
  <2> DEFINE d == Len(Joined)
             c == Len(Current)
             b == Len(buf)
             p == Len(pipe)
  <2>1. /\ d \in Nat /\ Joined = Stream!Units(0, d) /\ Current = Stream!Units(d, c)
        /\ buf = Stream!Units(d + c, b) /\ pipe = Stream!Units(d + c + b, p)
        /\ Stream!Ptr = d + c + b + p
    BY DEF StreamInv, InOrder
  <2>2. b \in Nat /\ p \in Nat /\ Len(stored) \in Nat /\ Len(<<>>) \in Nat
    BY DEF StreamInv, Wrapped, Stream!TypeOK
  <2>3. c \in Nat
    <3>1. Current = <<>> \/ Current = stored
      BY DEF Current
    <3> QED BY <2>2, <3>1
  <2> HIDE DEF d, c, b, p
  <2>4. Joined \o Current = Stream!Units(0, d + c)
    BY <2>1, <2>3, UnitsFirst
  <2>5. Joined \o Current \o buf = Stream!Units(0, d + c + b)
    <3>1. d + c \in Nat
      BY <2>1, <2>3
    <3> QED BY <2>1, <2>2, <2>4, <3>1, UnitsFirst
  <2>6. Joined \o Current \o buf \o pipe = Stream!Units(0, d + c + b + p)
    <3>1. d + c + b \in Nat
      BY <2>1, <2>2, <2>3
    <3> QED BY <2>1, <2>2, <2>5, <3>1, UnitsFirst
  <2> QED BY <2>1, <2>6
<1> QED BY <1>1, <1>2, <1>3, PTL DEF Stream!Spec

(* Each Readn returns the frame of one Writen, whole unless the stream      *)
(* ended; each Readline a line, or what fits, or what the stream ended with.*)
THEOREM CallsAsPromisedAlways == Stream!Spec => []CallsAsPromised
<1>1. Stream!Init => StreamInv
  BY StreamInvInit
<1>2. StreamInv /\ [Stream!Next]_Stream!vars => StreamInv'
  BY StreamInvNext
<1>3. StreamInv => CallsAsPromised
  BY DEF StreamInv, CallsAsPromised
<1> QED BY <1>1, <1>2, <1>3, PTL DEF Stream!Spec
=============================================================================
