--------------------------- MODULE DeltaTransport ---------------------------
(***************************************************************************)
(* One socket of the pipeline with --pipeline-delta 1 (nn-pipeline.cpp):   *)
(* the sender keeps the row it sent last and sends the difference when the *)
(* next one has the same size, the receiver adds it to its copy.  Nothing  *)
(* is acknowledged, and the sender keeps the exact row while the receiver  *)
(* has what the encoding (F_16, Q80, Q40) left of it.                      *)
(*                                                                         *)
(* The numbers of a row are treated alike, so one stands for all; Eps is   *)
(* what one frame may be off through its encoding and the arithmetic of    *)
(* floats.  A socket that breaks is StagePipeline's business.              *)
(***************************************************************************)
EXTENDS Integers, Sequences

CONSTANTS
  DeltaEnabled,  \* --pipeline-delta
  DeltaMin,      \* --pipeline-delta-min-bytes, in numbers
  Sizes,         \* numbers of a row: batch sizes differ
  Values,        \* what a number may be
  Eps,           \* error of a frame
  Capacity,      \* frames the socket can buffer
  MaxRun         \* bound: frames without a full one among them

\* What the options may be; the theorems have it as their hypothesis.
DeltaOptions ==
  /\ DeltaEnabled \in BOOLEAN /\ DeltaMin \in Nat
  /\ Sizes \subseteq Nat \ {0} /\ Values \subseteq Int
  /\ Eps \in Nat /\ Capacity \in Nat /\ MaxRun \in Nat

VARIABLES
  prevSend,  \* prevSendBySocket: size 0 if empty
  link,      \* frames written and not read
  prevRecv,  \* prevRecvBySocket
  origin,    \* history: the row of the sender that prevRecv stands for
  failed     \* the receiver gave up: "delta base activation missing"

vars == <<prevSend, link, prevRecv, origin, failed>>

\* nth is a history: the frames since the last full row, that one included.
Rows    == [size : Nat, value : Int, nth : Nat]
NoRow   == [size |-> 0, value |-> 0, nth |-> 0]
Kinds   == {"full", "delta", "marker"}
\* base and row are histories: what the sender remembered before and after.
Frames  == [kind : Kinds, size : Nat, value : Int, base : Rows, row : Rows]

\* What encodeFromF32 and decodeToF32 make of a number may be off by one of these.
Errors == -Eps .. Eps

Near(a, b, e) == a - b <= e /\ b - a <= e

-----------------------------------------------------------------------------
Write(frame) ==
  /\ Len(link) < Capacity
  /\ link' = Append(link, frame)
  /\ prevSend' = frame.row
  /\ UNCHANGED <<prevRecv, origin, failed>>

UseDelta(size) == DeltaEnabled /\ size >= DeltaMin /\ prevSend.size = size

SendFull ==
  \E size \in Sizes, v \in Values, shift \in Errors :
    /\ ~UseDelta(size)
    /\ Write([kind |-> "full", size |-> size, value |-> v + shift, base |-> prevSend,
              row |-> [size |-> size, value |-> v, nth |-> 1]])

SendDelta ==
  \E size \in Sizes, v \in Values, shift \in Errors :
    /\ UseDelta(size) /\ prevSend.nth < MaxRun
    /\ Write([kind |-> "delta", size |-> size, value |-> v - prevSend.value + shift,
              base |-> prevSend,
              row |-> [size |-> size, value |-> v, nth |-> prevSend.nth + 1]])

\* A marker has no payload, and leaves both copies as they are.
SendMarker ==
  Write([kind |-> "marker", size |-> 0, value |-> 0, base |-> prevSend, row |-> prevSend])

BaseMissing(frame) == frame.kind = "delta" /\ prevRecv.size # frame.size

Decoded(frame) ==
  CASE frame.kind = "full"  -> [size |-> frame.size, value |-> frame.value]
    [] frame.kind = "delta" -> [size |-> frame.size, value |-> prevRecv.value + frame.value]
    [] OTHER                -> prevRecv

Recv ==
  /\ ~failed /\ link # <<>>
  /\ link' = Tail(link)
  /\ IF BaseMissing(Head(link))
     THEN failed' = TRUE /\ UNCHANGED <<prevRecv, origin>>
     ELSE /\ prevRecv' = Decoded(Head(link))
          /\ origin' = Head(link).row
          /\ UNCHANGED failed
  /\ UNCHANGED prevSend

Init ==
  /\ prevSend = NoRow /\ link = <<>>
  /\ prevRecv = [size |-> 0, value |-> 0]
  /\ origin = NoRow /\ failed = FALSE

Next == SendFull \/ SendDelta \/ SendMarker \/ Recv

Spec == Init /\ [][Next]_vars

-----------------------------------------------------------------------------
TypeOK ==
  /\ prevSend \in Rows /\ origin \in Rows
  /\ prevRecv \in [size : Nat, value : Int]
  /\ link \in Seq(Frames)
  /\ failed \in BOOLEAN

\* The receiver always has a row of the size the difference is for, whatever
\* sizes, markers and full rows are still in the socket ("delta base activation
\* missing" is never reached).
BaseKnown == ~failed

\* What the receiver has is off by at most one error for each frame since the
\* last full row: the errors add up, and no frame takes them back, because the
\* sender subtracts the row it had and not the one the receiver has.
DriftBound == Near(prevRecv.value, origin.value, Eps * origin.nth)

=============================================================================
