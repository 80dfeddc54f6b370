---------------------------- MODULE StringObjects ---------------------------
(***************************************************************************)
(* string.h: String objects that come and go in any order, and the buffers *)
(* new and delete[] hand out and take back for them.  An allocation may    *)
(* fail (the caller catches bad_alloc); a buffer that was given back may   *)
(* be handed out again.  A text is a sequence, its Len what strlen gives.  *)
(***************************************************************************)
EXTENDS Naturals, Sequences

CONSTANTS
  Objects,         (* the variables of type String                          *)
  Addresses,       (* where new may put a buffer                            *)
  Texts,           (* what Strings are made of; a null cstr is <<>>         *)
  Nowhere

VARIABLES
  m_data,          (* per object: its pointer, Nowhere outside its lifetime *)
  heap,            (* the allocated buffers: address -> size and text       *)
  undefined,       (* a freed buffer was read or freed, or one overrun      *)
  failed,          (* history: new has failed in an operator=               *)
  value            (* history: the text last given to the object            *)

vars == <<m_data, heap, undefined, failed, value>>

Init ==
  /\ m_data = [o \in Objects |-> Nowhere]
  /\ heap = <<>>
  /\ undefined = FALSE /\ failed = FALSE
  /\ value = [o \in Objects |-> <<>>]

Live(o) == m_data[o] # Nowhere
Allocated(h, p) == p \in DOMAIN h

SizeFor(t) == Len(t) + 1

(* new char[SizeFor(t)] at p, and strcpy of t into it.                      *)
With(h, p, t) ==
  [q \in DOMAIN h \cup {p} |->
     IF q = p THEN [size |-> SizeFor(t), text |-> t] ELSE h[q]]

(* delete[].                                                                *)
Without(h, p) == [q \in DOMAIN h \ {p} |-> h[q]]

(* The object o gets a copy of t in a new buffer, h being what is allocated *)
(* before.                                                                  *)
Give(o, t, h) ==
  /\ \E p \in Addresses \ DOMAIN h :
       /\ m_data' = [m_data EXCEPT ![o] = p]
       /\ heap' = With(h, p, t)
       /\ undefined' = (heap'[p].size <= Len(t))
  /\ value' = [value EXCEPT ![o] = t]
  /\ UNCHANGED failed

Undefined == undefined' = TRUE /\ UNCHANGED <<m_data, heap, failed, value>>

-----------------------------------------------------------------------------
(* The constructors.  When new fails in one there is no object.             *)
Construct(o) ==
  /\ ~undefined /\ ~Live(o)
  /\ \E t \in Texts : Give(o, t, heap)

Copy(o, str) ==
  /\ ~undefined /\ ~Live(o) /\ Live(str)
  /\ \/ Allocated(heap, m_data[str]) /\ Give(o, heap[m_data[str]].text, heap)
     \/ ~Allocated(heap, m_data[str]) /\ Undefined

(* Mutant: the assignment of an object to itself is not told apart. *)
NeverItself(o, str) == FALSE

Itself(o, str) == o = str

(* operator=: the old buffer is given back before the new one is asked for, *)
(* and the text of str is looked up after that.                             *)
Assign(o, str) ==
  /\ ~undefined /\ Live(o) /\ Live(str)
  /\ ~Itself(o, str)
  /\ LET h == Without(heap, m_data[o]) IN
     IF ~Allocated(heap, m_data[o]) \/ ~Allocated(h, m_data[str])
     THEN Undefined
     ELSE \/ Give(o, h[m_data[str]].text, h)
          \/ /\ heap' = h /\ failed' = TRUE
             /\ UNCHANGED <<m_data, undefined, value>>

Destroy(o) ==
  /\ ~undefined /\ Live(o)
  /\ \/ /\ Allocated(heap, m_data[o])
        /\ heap' = Without(heap, m_data[o])
        /\ m_data' = [m_data EXCEPT ![o] = Nowhere]
        /\ value' = [value EXCEPT ![o] = <<>>]
        /\ UNCHANGED <<undefined, failed>>
     \/ ~Allocated(heap, m_data[o]) /\ Undefined

Next ==
  \E o \in Objects :
    \/ Construct(o)
    \/ Destroy(o)
    \/ \E str \in Objects : Copy(o, str) \/ Assign(o, str)

-----------------------------------------------------------------------------
TypeOK ==
  /\ m_data \in [Objects -> Addresses \cup {Nowhere}]
  /\ DOMAIN heap \subseteq Addresses
  /\ \A p \in DOMAIN heap : heap[p].size \in Nat /\ heap[p].text \in Texts
  /\ undefined \in BOOLEAN /\ failed \in BOOLEAN
  /\ value \in [Objects -> Texts \cup {<<>>}]

(* In any order of constructions, copies, assignments (of an object to      *)
(* itself too) and destructions, each object has a buffer of its own with   *)
(* the text it was given, every other buffer has been given back, and no    *)
(* pointer is used after its delete[]; until an operator= runs out of       *)
(* memory, which leaves its object with the buffer it has given back.       *)
OwnBuffers ==
  ~failed =>
    /\ ~undefined
    /\ \A o \in Objects : Live(o) =>
         Allocated(heap, m_data[o]) /\ heap[m_data[o]].text = value[o]
    /\ \A o, q \in Objects : (o # q /\ Live(o)) => m_data[o] # m_data[q]
    /\ DOMAIN heap = {m_data[o] : o \in Objects} \ {Nowhere}
=============================================================================
