------------------------ MODULE DeltaTransportProofs ------------------------
(***************************************************************************)
(* The two copies of a row that a socket with delta transport keeps, for   *)
(* any sizes, values, error of a frame and number of frames on the way.    *)
(***************************************************************************)
EXTENDS DeltaTransport, TLAPS

-----------------------------------------------------------------------------
(* The inductive invariant.                                                *)

\* What a frame says about the row it stands for, given the row before it.
Truthful(f) ==
  /\ f.kind = "full"   => f.row.size = f.size /\ f.row.nth = 1 /\ Near(f.value, f.row.value, Eps)
  /\ f.kind = "delta"  => /\ f.base.size = f.size /\ f.row.size = f.size
                          /\ f.row.nth = f.base.nth + 1
                          /\ Near(f.value, f.row.value - f.base.value, Eps)
  /\ f.kind = "marker" => f.row = f.base

AllTruthful == \A i \in 1 .. Len(link) : Truthful(link[i])

\* Each frame in the socket goes on where the one before it ended, the first
\* one at the receiver's row, and the last one ends at the sender's.
Linked ==
  /\ link = <<>> => origin = prevSend
  /\ link # <<>> => link[1].base = origin /\ link[Len(link)].row = prevSend
  /\ \A i \in 1 .. Len(link) - 1 : link[i].row = link[i + 1].base

SameSize == prevRecv.size = origin.size

IInv == DeltaOptions /\ TypeOK /\ AllTruthful /\ Linked /\ SameSize /\ BaseKnown /\ DriftBound

-----------------------------------------------------------------------------
LEMMA InitInv == DeltaOptions /\ Init => IInv
<1> SUFFICES ASSUME DeltaOptions, Init PROVE IInv
  OBVIOUS
<1> USE DEF DeltaOptions
<1>1. TypeOK
  <2>1. NoRow \in Rows /\ <<>> \in Seq(Frames)
    BY DEF NoRow, Rows
  <2>2. prevRecv \in [size : Nat, value : Int]
    BY DEF Init
  <2>3. failed \in BOOLEAN /\ link \in Seq(Frames)
    BY <2>1 DEF Init
  <2>4. prevSend \in Rows /\ origin \in Rows
    BY <2>1 DEF Init
  <2> QED
    BY <2>2, <2>3, <2>4 DEF TypeOK
<1>2. AllTruthful /\ Linked /\ SameSize /\ BaseKnown
  BY DEF Init, AllTruthful, Linked, SameSize, BaseKnown, NoRow
<1>3. DriftBound
  BY DEF Init, DriftBound, Near, NoRow
<1> QED
  BY <1>1, <1>2, <1>3 DEF IInv

\* Any truthful frame that goes on from the sender's row may be written.
LEMMA WriteKeeps ==
  ASSUME IInv, NEW f \in Frames, Write(f), Truthful(f), f.base = prevSend
  PROVE  IInv'
<1> USE DEF IInv
<1>1. link' = Append(link, f) /\ prevSend' = f.row
  BY DEF Write
<1>2. UNCHANGED <<prevRecv, origin, failed>>
  BY DEF Write
<1>3. link \in Seq(Frames) /\ Len(link) \in Nat
  BY DEF TypeOK
<1>4. /\ link' \in Seq(Frames) /\ Len(link') = Len(link) + 1
      /\ \A i \in 1 .. Len(link) : link'[i] = link[i]
      /\ link'[Len(link) + 1] = f
  BY <1>1, <1>3
<1>5. TypeOK'
  BY <1>1, <1>2, <1>4 DEF TypeOK, Frames
<1>6. AllTruthful'
  <2> SUFFICES ASSUME NEW i \in 1 .. Len(link') PROVE Truthful(link'[i])
    BY DEF AllTruthful, Truthful
  <2>1. CASE i \in 1 .. Len(link)
    BY <2>1, <1>4 DEF AllTruthful
  <2>2. CASE i = Len(link) + 1
    BY <2>2, <1>4
  <2> QED
    BY <2>1, <2>2, <1>3, <1>4
<1>7. Linked'
  <2>1. link' # <<>> /\ link'[Len(link')].row = prevSend'
    BY <1>1, <1>3, <1>4
  <2>2. link'[1].base = origin'
    <3>1. CASE link = <<>>
      BY <3>1, <1>2, <1>4 DEF Linked
    <3>2. CASE link # <<>>
      BY <3>2, <1>2, <1>3, <1>4 DEF Linked
    <3> QED
      BY <3>1, <3>2
  <2>3. ASSUME NEW i \in 1 .. Len(link') - 1
        PROVE  link'[i].row = link'[i + 1].base
    <3>1. CASE i < Len(link)
      BY <3>1, <1>3, <1>4 DEF Linked
    <3>2. CASE i = Len(link)
      BY <3>2, <1>3, <1>4 DEF Linked
    <3> QED
      BY <3>1, <3>2, <1>3, <1>4
  <2> QED
    BY <2>1, <2>2, <2>3 DEF Linked
<1>8. (SameSize /\ BaseKnown /\ DriftBound)'
  BY <1>2 DEF SameSize, BaseKnown, DriftBound, Near
<1> QED
  BY <1>5, <1>6, <1>7, <1>8

LEMMA SendFullKeeps == ASSUME IInv, SendFull PROVE IInv'
<1> USE DEF DeltaOptions
<1>a. Eps \in Nat
  BY DEF IInv
<1>1. PICK size \in Sizes, v \in Values, shift \in Errors :
        Write([kind |-> "full", size |-> size, value |-> v + shift, base |-> prevSend,
               row |-> [size |-> size, value |-> v, nth |-> 1]])
  BY DEF SendFull
<1> DEFINE f == [kind |-> "full", size |-> size, value |-> v + shift, base |-> prevSend,
                 row |-> [size |-> size, value |-> v, nth |-> 1]]
<1>2. size \in Nat /\ v \in Int /\ shift \in Int /\ -Eps <= shift /\ shift <= Eps
  BY DEF IInv, Errors
<1>3. f \in Frames
  BY <1>2 DEF IInv, TypeOK, Frames, Rows, Kinds
<1>4. Truthful(f)
  BY <1>2, <1>a DEF Truthful, Near
<1> QED
  BY <1>1, <1>3, <1>4, WriteKeeps

LEMMA SendDeltaKeeps == ASSUME IInv, SendDelta PROVE IInv'
<1> USE DEF DeltaOptions
<1>a. Eps \in Nat
  BY DEF IInv
<1>1. PICK size \in Sizes, v \in Values, shift \in Errors :
        /\ UseDelta(size)
        /\ Write([kind |-> "delta", size |-> size, value |-> v - prevSend.value + shift,
                  base |-> prevSend,
                  row |-> [size |-> size, value |-> v, nth |-> prevSend.nth + 1]])
  BY DEF SendDelta
<1> DEFINE f == [kind |-> "delta", size |-> size, value |-> v - prevSend.value + shift,
                 base |-> prevSend,
                 row |-> [size |-> size, value |-> v, nth |-> prevSend.nth + 1]]
<1>2. size \in Nat /\ v \in Int /\ shift \in Int /\ -Eps <= shift /\ shift <= Eps
  BY DEF IInv, Errors
<1>3. prevSend \in Rows /\ prevSend.value \in Int /\ prevSend.nth \in Nat
  BY DEF IInv, TypeOK, Rows
<1>4. f \in Frames
  BY <1>2, <1>3 DEF Frames, Rows, Kinds
<1>5. prevSend.size = size
  BY <1>1 DEF UseDelta
<1>6. Truthful(f)
  BY <1>2, <1>3, <1>5, <1>a DEF Truthful, Near
<1> QED
  BY <1>1, <1>4, <1>6, WriteKeeps

LEMMA SendMarkerKeeps == ASSUME IInv, SendMarker PROVE IInv'
<1> DEFINE f == [kind |-> "marker", size |-> 0, value |-> 0, base |-> prevSend, row |-> prevSend]
<1>1. f \in Frames
  BY DEF IInv, TypeOK, Frames, Kinds
<1>2. Truthful(f)
  BY DEF Truthful
<1> QED
  BY <1>1, <1>2, WriteKeeps DEF SendMarker

LEMMA RecvKeeps == ASSUME IInv, Recv PROVE IInv'
<1>a. Eps \in Nat
  BY DEF IInv, DeltaOptions
<1>b. Len(link) = 1 \/ Len(link) > 1
  <2>1. link \in Seq(Frames) /\ link # <<>>
    BY DEF Recv, IInv, TypeOK
  <2>2. Len(link) \in Nat /\ Len(link) # 0
    BY <2>1
  <2>3. \A n \in Nat : n # 0 => n = 1 \/ n > 1
    OBVIOUS
  <2> QED
    BY <2>2, <2>3, Zenon
<1> DEFINE f == Head(link)
<1>1. /\ link \in Seq(Frames) /\ link # <<>> /\ Len(link) \in Nat /\ Len(link) >= 1
      /\ f = link[1] /\ f \in Frames
  BY DEF Recv, IInv, TypeOK
<1>2. /\ link' \in Seq(Frames) /\ Len(link') = Len(link) - 1
      /\ \A i \in 1 .. Len(link) - 1 : link'[i] = link[i + 1]
  BY <1>1 DEF Recv
<1>3. f.base = origin /\ Truthful(f)
  BY <1>1 DEF IInv, Linked, AllTruthful
<1>4. ~BaseMissing(f)
  BY <1>3 DEF BaseMissing, Truthful, IInv, SameSize
<1>5. prevRecv' = Decoded(f) /\ origin' = f.row /\ UNCHANGED <<prevSend, failed>>
  BY <1>4 DEF Recv
<1>6. /\ f.size \in Nat /\ f.value \in Int /\ f.row \in Rows /\ f.kind \in Kinds
      /\ prevRecv \in [size : Nat, value : Int] /\ prevRecv.value \in Int
      /\ origin.value \in Int /\ origin.nth \in Nat /\ f.row.value \in Int
  BY <1>1 DEF Frames, Rows, IInv, TypeOK
<1>7. TypeOK'
  <2>1. Decoded(f) \in [size : Nat, value : Int]
    BY <1>6 DEF Decoded, Kinds
  <2> QED
    BY <2>1, <1>2, <1>5, <1>6 DEF IInv, TypeOK
<1>8. AllTruthful'
  <2> SUFFICES ASSUME NEW i \in 1 .. Len(link') PROVE Truthful(link'[i])
    BY DEF AllTruthful, Truthful
  <2> QED
    BY <1>1, <1>2 DEF IInv, AllTruthful
<1>9. Linked'
  <2>1. CASE Len(link) = 1
    <3>1. link' = <<>>
      BY <2>1, <1>2
    <3>2. origin' = prevSend'
      BY <2>1, <1>1, <1>5 DEF IInv, Linked
    <3> QED
      BY <3>1, <3>2, <1>2, <2>1 DEF Linked
  <2>2. CASE Len(link) > 1
    <3>1. link' # <<>> /\ link'[1].base = origin'
      BY <2>2, <1>1, <1>2, <1>5 DEF IInv, Linked
    <3>2. link'[Len(link')].row = prevSend'
      BY <2>2, <1>1, <1>2, <1>5 DEF IInv, Linked
    <3>3. \A i \in 1 .. Len(link') - 1 : link'[i].row = link'[i + 1].base
      BY <2>2, <1>1, <1>2 DEF IInv, Linked
    <3> QED
      BY <3>1, <3>2, <3>3 DEF Linked
  <2> QED
    BY <1>b, <2>1, <2>2
<1>10. SameSize' /\ DriftBound'
  <2>1. CASE f.kind = "full"
    <3>1. Eps * 1 = Eps
      BY <1>a
    <3> QED
      BY <2>1, <3>1, <1>3, <1>5 DEF Truthful, Decoded, SameSize, DriftBound, Near
  <2>2. CASE f.kind = "delta"
    <3>1. f.row.nth = origin.nth + 1 /\ f.row.size = f.size
          /\ Near(f.value, f.row.value - origin.value, Eps)
      BY <2>2, <1>3 DEF Truthful
    <3>2. prevRecv'.size = f.size /\ prevRecv'.value = prevRecv.value + f.value
      BY <2>2, <1>5 DEF Decoded
    <3>3. \A n \in Nat : Eps * n \in Int /\ Eps * (n + 1) = Eps * n + Eps
      BY <1>a
    <3> DEFINE bound == Eps * origin.nth
    <3>4. bound \in Int /\ Eps * f.row.nth = bound + Eps
      BY <3>1, <3>3, <1>6
    <3>5. Near(prevRecv.value, origin.value, bound)
      BY DEF IInv, DriftBound
    <3> HIDE DEF bound
    <3>6. Near(prevRecv.value + f.value, f.row.value, bound + Eps)
      BY <3>1, <3>4, <3>5, <1>6, <1>a DEF Near
    <3> QED
      BY <3>1, <3>2, <3>4, <3>6, <1>5 DEF SameSize, DriftBound
  <2>3. CASE f.kind = "marker"
    <3>1. prevRecv' = prevRecv /\ origin' = origin
      BY <2>3, <1>3, <1>5 DEF Truthful, Decoded
    <3> QED
      BY <3>1 DEF IInv, SameSize, DriftBound, Near
  <2> QED
    BY <2>1, <2>2, <2>3, <1>6 DEF Kinds
<1> QED
  BY <1>5, <1>7, <1>8, <1>9, <1>10 DEF IInv, BaseKnown

LEMMA NextKeeps == IInv /\ [Next]_vars => IInv'
<1> SUFFICES ASSUME IInv, [Next]_vars PROVE IInv'
  OBVIOUS
<1>1. CASE SendFull
  BY <1>1, SendFullKeeps
<1>2. CASE SendDelta
  BY <1>2, SendDeltaKeeps
<1>3. CASE SendMarker
  BY <1>3, SendMarkerKeeps
<1>4. CASE Recv
  BY <1>4, RecvKeeps
<1>5. CASE UNCHANGED vars
  BY <1>5 DEF vars, IInv, TypeOK, AllTruthful, Truthful, Linked, SameSize, BaseKnown,
              DriftBound, Near
<1> QED
  BY <1>1, <1>2, <1>3, <1>4, <1>5 DEF Next

-----------------------------------------------------------------------------
\* recvActivation never gives up for a missing base (nn-pipeline.cpp:380): the
\* row it adds to has the size of the difference, whatever is on the way.
THEOREM BaseAlwaysKnown == DeltaOptions /\ Spec => []BaseKnown
<1>1. IInv => BaseKnown
  BY DEF IInv
<1> QED
  BY <1>1, InitInv, NextKeeps, PTL DEF Spec

\* The row recvActivation hands to the stage is off by at most Eps for each
\* frame since the last full row, and by nothing if frames are exact
\* (nn-pipeline.cpp:387).
THEOREM ErrorsAddUp == DeltaOptions /\ Spec => []DriftBound
<1>1. IInv => DriftBound
  BY DEF IInv
<1> QED
  BY <1>1, InitInv, NextKeeps, PTL DEF Spec

=============================================================================
