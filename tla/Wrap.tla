--------------------------------- MODULE Wrap -------------------------------
(***************************************************************************)
(* Writen, Readn and Readline of wrap.c at the two ends of one connection. *)
(* The writer sends with Writen, N units a call.  The reader takes what    *)
(* arrives with Readn or with Readline, one of the two for the whole       *)
(* connection; behind Readline is my_read, which hands out the characters  *)
(* of a buffer of its own.  The stream takes and gives any part of what a  *)
(* call asks for, and any call may be interrupted (EINTR).  A unit is a    *)
(* number: its place in all that is sent.                                  *)
(***************************************************************************)
EXTENDS Integers, Sequences, SequencesExt, FiniteSetsExt

CONSTANTS
  N,               (* the length of a frame, the argument of Writen, Readn  *)
  Frames,          (* bound: how many frames the writer has to send         *)
  Capacity,        (* how much the stream holds                             *)
  BufLen,          (* the size of read_buf, 100                             *)
  MaxLen           (* the argument maxlen of Readline                       *)

VARIABLES
  newlines,        (* the places of the stream that hold '\n'               *)
  pipe,            (* the units in the stream                               *)
  wpc, wnleft, sent,       (* the writer: its place, nleft, frames begun    *)
  func,            (* the function the reader calls                         *)
  rpc,             (* the reader: "idle", "call", "gone"                    *)
  nleft, n,        (* Readn's nleft, Readline's n                           *)
  stored,          (* what the current call has stored                      *)
  buf,             (* my_read: what is left in read_buf                     *)
  returned         (* history: of each call of the reader what it returned, *)
                   (* what it stored and why it ended                       *)

writer == <<wpc, wnleft, sent>>
call == <<rpc, nleft, n, stored, returned>>
vars == <<newlines, func, pipe, writer, call, buf>>

Init ==
  /\ func \in {"Readn", "Readline"}
  /\ newlines \in IF func = "Readn" THEN {{}} ELSE SUBSET (1 .. N * Frames)
  /\ pipe = <<>>
  /\ wpc = "idle" /\ wnleft = 0 /\ sent = 0
  /\ rpc = "idle" /\ nleft = 0 /\ n = 0 /\ stored = <<>>
  /\ buf = <<>> /\ returned = <<>>

Units(from, k) == [j \in 1 .. k |-> from + j]

-----------------------------------------------------------------------------
(* Writen.  ptr is where nleft says, so the next unit is a number.          *)
Ptr == N * (sent - 1) + (N - wnleft)

WritenCall ==
  /\ wpc = "idle" /\ sent < Frames
  /\ wpc' = "write" /\ wnleft' = N /\ sent' = sent + 1
  /\ UNCHANGED <<newlines, func, pipe, call, buf>>

(* What an interrupted write counts for.                                    *)
Interrupted == 0

WriteSome ==
  /\ wpc = "write" /\ rpc # "gone"
  /\ \E k \in {Interrupted} \cup 1 .. Min({wnleft, Capacity - Len(pipe)}) :
       /\ pipe' = pipe \o Units(Ptr, k)
       /\ wnleft' = wnleft - k
  /\ wpc' = IF wnleft' = 0 THEN "idle" ELSE "write"
  /\ UNCHANGED <<newlines, func, sent, call, buf>>

(* Writen returns -1, and the writer gives up.                              *)
WriteFails ==
  /\ wpc = "write" /\ rpc = "gone"
  /\ wpc' = "closed"
  /\ UNCHANGED <<newlines, func, pipe, wnleft, sent, call, buf>>

(* The writer ends the stream, in the middle of a frame too.                *)
CloseWriter ==
  /\ wpc # "closed"
  /\ wpc' = "closed"
  /\ UNCHANGED <<newlines, func, pipe, wnleft, sent, call, buf>>

-----------------------------------------------------------------------------
(* Ends of a call of the reader; it calls until one comes up short.         *)
Return(rc, why) ==
  /\ rpc' = "idle"
  /\ returned' = Append(returned, [rc |-> rc, stored |-> stored', why |-> why])

CameUpShort ==
  /\ returned # <<>>
  /\ Last(returned).rc < IF func = "Readn" THEN N ELSE 1

Waiting == rpc = "call" /\ buf = <<>>
EndOfStream == pipe = <<>> /\ wpc = "closed"

(* read fails inside Readn or my_read: -1.                                  *)
ReadFails ==
  /\ Waiting
  /\ UNCHANGED <<newlines, func, pipe, writer, nleft, n, stored, buf>>
  /\ Return(-1, "error")

GoAway ==
  /\ rpc # "gone"
  /\ rpc' = "gone"
  /\ UNCHANGED <<newlines, func, pipe, writer, nleft, n, stored, returned, buf>>

-----------------------------------------------------------------------------
(* Readn.  An interrupted read counts for 0.                                *)
ReadnCall ==
  /\ func = "Readn" /\ rpc = "idle" /\ ~CameUpShort
  /\ rpc' = "call" /\ nleft' = N /\ stored' = <<>>
  /\ UNCHANGED <<newlines, func, pipe, writer, n, returned, buf>>

Asked == nleft

ReadnSome ==
  /\ func = "Readn" /\ Waiting
  /\ \E k \in 0 .. Min({Asked, Len(pipe)}) :
       /\ pipe' = SubSeq(pipe, k + 1, Len(pipe))
       /\ stored' = stored \o SubSeq(pipe, 1, k)
       /\ nleft' = nleft - k
  /\ IF nleft' <= 0 THEN Return(N - nleft', "full") ELSE UNCHANGED <<rpc, returned>>
  /\ UNCHANGED <<newlines, func, writer, n, buf>>

(* Mutant: read is called again. *)
ReadnEndAgain ==
  /\ func = "Readn" /\ Waiting /\ EndOfStream
  /\ UNCHANGED vars

ReadnEnd ==
  /\ func = "Readn" /\ Waiting /\ EndOfStream
  /\ UNCHANGED <<newlines, func, pipe, writer, nleft, n, stored, buf>>
  /\ Return(N - nleft, "end")

-----------------------------------------------------------------------------
(* Readline.                                                                *)
(* Mutant: read_cnt is not static. *)
ReadlineCallFresh ==
  /\ func = "Readline" /\ rpc = "idle" /\ ~CameUpShort
  /\ rpc' = "call" /\ n' = 1 /\ stored' = <<>> /\ buf' = <<>>
  /\ UNCHANGED <<newlines, func, pipe, writer, nleft, returned>>

ReadlineCall ==
  /\ func = "Readline" /\ rpc = "idle" /\ ~CameUpShort
  /\ rpc' = "call" /\ n' = 1 /\ stored' = <<>>
  /\ UNCHANGED <<newlines, func, pipe, writer, nleft, returned, buf>>

(* my_read with an empty buffer: read gives some of what there is.          *)
Fill ==
  /\ func = "Readline" /\ Waiting
  /\ \E k \in 1 .. Min({BufLen, Len(pipe)}) :
       /\ buf' = SubSeq(pipe, 1, k)
       /\ pipe' = SubSeq(pipe, k + 1, Len(pipe))
  /\ UNCHANGED <<newlines, func, writer, call>>

ReadlineEnd ==
  /\ func = "Readline" /\ Waiting /\ EndOfStream
  /\ UNCHANGED <<newlines, func, pipe, writer, nleft, n, stored, buf>>
  /\ Return(n - 1, "end")

(* Mutant: the loop has room for one character more. *)
FullLate == n + 1 > MaxLen

Full == n + 1 = MaxLen

(* my_read hands out a character: the body of Readline's loop.              *)
Take ==
  /\ func = "Readline" /\ rpc = "call" /\ buf # <<>>
  /\ stored' = Append(stored, Head(buf))
  /\ buf' = Tail(buf)
  /\ \/ /\ Head(buf) \in newlines
        /\ Return(n, "newline")
        /\ UNCHANGED n
     \/ /\ Head(buf) \notin newlines /\ Full
        /\ Return(n + 1, "full")
        /\ n' = n + 1
     \/ /\ Head(buf) \notin newlines /\ ~Full
        /\ n' = n + 1
        /\ UNCHANGED <<rpc, returned>>
  /\ UNCHANGED <<newlines, func, pipe, writer, nleft>>

-----------------------------------------------------------------------------
Writer == WritenCall \/ WriteSome \/ WriteFails \/ CloseWriter
Reader ==
  \/ ReadnCall
  \/ ReadnSome
  \/ ReadnEnd
  \/ ReadlineCall
  \/ Fill
  \/ ReadlineEnd
  \/ Take

Next == Writer \/ Reader \/ ReadFails \/ GoAway

Spec == Init /\ [][Next]_vars

(* Both ends are scheduled, and no call is interrupted for ever.  The       *)
(* writer ends the stream when it has sent all.                             *)
FairSpec == Spec /\ WF_vars(Writer) /\ WF_vars(Reader)

-----------------------------------------------------------------------------
TypeOK ==
  LET Total == 1 .. N * Frames IN
  /\ newlines \subseteq Total /\ func \in {"Readn", "Readline"}
  /\ pipe \in Seq(Total) /\ Len(pipe) <= Capacity
  /\ wpc \in {"idle", "write", "closed"} /\ wnleft \in 0 .. N /\ sent \in 0 .. Frames
  /\ rpc \in {"idle", "call", "gone"} /\ nleft \in 0 .. N /\ n \in 0 .. MaxLen
  /\ stored \in Seq(Total) /\ Len(stored) <= IF func = "Readn" THEN N ELSE MaxLen - 1
  /\ buf \in Seq(Total) /\ Len(buf) <= BufLen

(* Whatever pieces the stream delivers and wherever calls are interrupted,  *)
(* nothing is lost, repeated or reordered between the writer's buffer and   *)
(* the reader's, my_read's buffer included.  What a failed call had stored  *)
(* is in the caller's buffer, though -1 does not say how much.              *)
Lossless ==
  LET calls == [k \in 1 .. Len(returned) |-> returned[k].stored]
      current == IF rpc = "idle" THEN <<>> ELSE stored
  IN rpc # "gone" => FlattenSeq(calls) \o current \o buf \o pipe = Units(0, Ptr)

(* Each Readn returns the frame one Writen sent, whole; only the last may   *)
(* be short, at the end of the stream.                                      *)
FramesIntact ==
  func = "Readn" => \A k \in 1 .. Len(returned) :
    LET r == returned[k] IN
    IF r.why = "error" THEN k = Len(returned)
    ELSE /\ r.rc = Len(r.stored) /\ r.stored = Units(N * (k - 1), r.rc)
         /\ r.rc < N => k = Len(returned) /\ EndOfStream

(* Readline stores a line with its newline, or as much as fits with the 0   *)
(* after it, or what the stream ended with.  It returns how much it stored, *)
(* one more when the line did not fit.                                      *)
LineShape ==
  func = "Readline" => \A k \in 1 .. Len(returned) :
    LET r == returned[k]
        s == r.stored
    IN /\ Len(s) < MaxLen
       /\ \A j \in 1 .. Len(s) : s[j] \in newlines <=> r.why = "newline" /\ j = Len(s)
       /\ r.rc = CASE r.why = "error" -> -1
                   [] r.why = "full" -> Len(s) + 1
                   [] OTHER -> Len(s)

(* However a call of the reader ends, it does what it is for.               *)
CallsAsPromised == FramesIntact /\ LineShape

(* The reader gets to the end of the stream, unless it fails or goes away.  *)
AllArrive == <>(rpc = "gone" \/ CameUpShort)
=============================================================================
