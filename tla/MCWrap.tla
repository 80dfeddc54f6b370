-------------------------------- MODULE MCWrap ------------------------------
(***************************************************************************)
(* The wrappers at the two ends of one stream, for TLC and for the proofs. *)
(***************************************************************************)
EXTENDS Integers

CONSTANTS N, Frames, Capacity, BufLen, MaxLen

ASSUME WrapAssumption ==
  /\ N \in Nat \ {0} /\ Frames \in Nat \ {0} /\ Capacity \in Nat \ {0}
  /\ BufLen \in Nat \ {0} /\ MaxLen \in Nat \ {0, 1}

VARIABLES
  newlines, pipe, wpc, wnleft, sent, func, rpc, nleft, n, stored, buf, returned

Stream == INSTANCE Wrap

StreamSpec == Stream!FairSpec

(* Nothing is lost, repeated or reordered between Writen and the reader.    *)
Lossless == Stream!Lossless

(* Readn returns a frame, Readline a line or what there is of it.           *)
CallsAsPromised == Stream!CallsAsPromised

(* The reader gets to the end of the stream, or gives up.                   *)
AllArrive == Stream!AllArrive
=============================================================================
