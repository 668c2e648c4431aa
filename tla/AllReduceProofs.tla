-------------------------- MODULE AllReduceProofs --------------------------
(***************************************************************************)
(* The invariants of AllReduce, for groups of any size, rows of any length *)
(* and sockets of any capacity.                                            *)
(*                                                                         *)
(* What a node writes to another over all its calls is one stream of       *)
(* frames, one frame for each writeMany: a call's row in the star and the  *)
(* broadcast, the slice of a step in the ring, the rows of a call in an    *)
(* exchange of pairs.  The place of a value in the stream is the number of *)
(* values of the frames before its own and its offset in it.  The writer   *)
(* and the reader each count frames by their own pc, call and step, and    *)
(* the inductive invariant says that a socket holds the values from the    *)
(* reader's place to the writer's, each the one meant for its place.  What *)
(* a node returns with then follows from what its frames were meant to be, *)
(* however far the nodes are apart.                                        *)
(***************************************************************************)
EXTENDS AllReduce, FiniteSetTheorems, SequenceTheorems, WellFoundedInduction, TLAPS

-----------------------------------------------------------------------------
(* Frames and streams.                                                     *)

\* The values: bags that have each contribution at most once.
Contributions == Group \X (1 .. MaxCalls)
Values == {SetToBag(D) : D \in SUBSET Contributions}

\* The nodes whose slice has passed through n after s steps of the ring: n
\* and the s nodes before it.
Behind(n, m) == IF m <= n THEN n - m ELSE n - m + nNodes
Arc(n, s)    == {m \in Group : Behind(n, m) <= s}

\* Position e of the key-value buffers as node m computed it by call c.
IsRow(m, e, c, v) == \E k \in 1 .. c : e \in Positions(k) /\ v = SetToBag({<<m, k>>})

\* Does the algorithm move values from i to j?
Linked(i, j) ==
  IF Ring THEN j = NextNode(i)
  ELSE IF Pairs THEN i # j
  ELSE IF i = Root THEN j # Root /\ RootSends
  ELSE j = Root /\ Star

\* The values of frame f, counted from 0, of a stream that node i writes.
Width(i, f) ==
  IF Ring THEN size \div nNodes
  ELSE IF Pairs THEN IF Skips(f + 1) THEN 0 ELSE Cardinality(SliceRows(i, f + 1))
  ELSE size

\* The place in the stream at which frame f starts.
FramesBefore(i, f) == UNION {{g} \X (0 .. Width(i, g) - 1) : g \in 0 .. f - 1}
Start(i, f) == Cardinality(FramesBefore(i, f))

\* The first frame of call c of a ring.
RingFrame(c) == (c - 1) * Steps

\* What the value at offset o of frame f from i to a neighbour is to be.  Of
\* the second loop of the ring nothing more is known.
Meant(i, f, o, v) ==
  /\ v \in Values
  /\ Ring => \A c \in 1 .. MaxCalls, s \in 0 .. nNodes - 2 :
               f = RingFrame(c) + s => v = SetToBag(Arc(i, s) \X {c})
  /\ Pairs => IsRow(i, i * LocalSeqLen + o, f + 1, v)
  /\ (Broadcast \/ (Star /\ i # Root)) => v = SetToBag({<<i, f + 1>>})
  /\ (Star /\ i = Root) => v = Sum(f + 1)

\* A socket q from i of which the writer has completed fw frames and sn values
\* of the next, and the reader has used fr frames and has g of the next.
Stream(i, q, fw, sn, fr, g) ==
  /\ q \in Seq(Values) /\ g \in Seq(Values)
  /\ Len(q) = (Start(i, fw) + sn) - (Start(i, fr) + Len(g))
  /\ \A k \in 1 .. Len(q) : \A f, o \in Nat :
       o < Width(i, f) /\ Start(i, f) + o = Start(i, fr) + Len(g) + k - 1
         => Meant(i, f, o, q[k])
  /\ \A o \in 1 .. Len(g) : Meant(i, fr, o - 1, g[o])

\* Steps a node of the ring has completed, over all its calls.
Turn(n) == RingFrame(IF pc[n] = "outside" THEN call[n] + 1 ELSE call[n])
             + IF pc[n] = "outside" THEN 0 ELSE step[n]

\* Its writeMany of the step is done.
Wrote(n) == pc[n] = "apply" \/ (pc[n] = "read" /\ FirstCall(n, step[n]) = "write")

\* The step in which n meets m.
StepWith(n, m) == IF m < n THEN m ELSE m - 1

\* Frames i has written to j.
Written(i, j) ==
  IF Ring THEN Turn(i) + IF Wrote(i) THEN 1 ELSE 0
  ELSE IF Pairs
  THEN call[i] - IF \/ pc[i] = "outside" \/ StepWith(i, j) < step[i]
                    \/ StepWith(i, j) = step[i] /\ Wrote(i) THEN 0 ELSE 1
  ELSE IF i = Root THEN call[i] - IF pc[i] = "outside" THEN 0 ELSE 1
  ELSE call[i] - IF pc[i] = "write" THEN 1 ELSE 0

\* Frames j has read from i and used.
Taken(j, i) ==
  IF Ring THEN Turn(j)
  ELSE IF Pairs THEN call[j] - IF pc[j] = "outside" \/ StepWith(j, i) < step[j] THEN 0 ELSE 1
  ELSE IF j = Root THEN call[j] - IF pc[j] \in {"read", "apply"} THEN 1 ELSE 0
  ELSE call[j] - IF pc[j] = "outside" THEN 0 ELSE 1

-----------------------------------------------------------------------------
(* The inductive invariant.                                                *)

Arguments ==
  /\ nNodes \in 2 .. MaxNodes
  /\ syncType \in SyncTypes
  /\ collectiveType \in {"auto", "star", "ring"}
  /\ size \in Sizes
  /\ spPrefillOnly \in BOOLEAN
  /\ decodeFrom \in 1 .. MaxCalls + 1

\* Every variable has a value for every node.
Shapes ==
  /\ call \in [Group -> 0 .. MaxCalls]
  /\ step \in [Group -> 0 .. Steps]
  /\ pc \in [Group -> {"outside", "write", "read", "apply"}]
  /\ sent \in [Group -> [Group -> Nat]]
  /\ DOMAIN got = Group /\ DOMAIN buffer = Group /\ DOMAIN missing = Group
  /\ DOMAIN chan = Group \X Group
  /\ \A n \in Group : DOMAIN got[n] = Group

\* Where a node can be in a call.
PhaseOf(n) ==
  /\ pc[n] # "outside" => call[n] >= 1 /\ ~Skips(call[n])
  /\ pc[n] # "outside" /\ Stepwise => step[n] < Steps
  /\ Pairs => ActiveRows(call[n]) <= SeqLen
  /\ pc[n] = "write" /\ ~Stepwise => IF n = Root THEN RootSends ELSE Star
  /\ pc[n] \in {"read", "apply"} /\ ~Stepwise => IF n = Root THEN Star ELSE RootSends

\* A node has read all of a step and not yet used it.
HasRead(n) == pc[n] = "apply" \/ (Stepwise /\ pc[n] = "write" /\ FirstCall(n, step[n]) = "read")

\* The values of the current writeMany, and of the current readMany.
SentOf(n) ==
  \A m \in Group :
    IF pc[n] = "write" /\ m \in Targets(n)
    THEN sent[n][m] <= Cardinality(WriteRange(n)) ELSE sent[n][m] = 0
GotOf(n) ==
  \A m \in Group :
    IF (pc[n] = "read" \/ HasRead(n)) /\ m \in Sources(n)
    THEN /\ Len(got[n][m]) <= Cardinality(ReadRange(n))
         /\ HasRead(n) => Len(got[n][m]) = Cardinality(ReadRange(n))
    ELSE got[n][m] = <<>>

\* The row of a node: of the star and the broadcast, ...
RowOf(n) ==
  ~Stepwise =>
    /\ buffer[n] \in [0 .. size - 1 -> Values]
    /\ \A e \in 0 .. size - 1 :
         /\ Star /\ n = Root /\ pc[n] \in {"read", "apply"} => buffer[n][e] = SetToBag({<<n, call[n]>>})
         /\ Star /\ n = Root /\ (pc[n] = "write" \/ Returned(n)) => buffer[n][e] = Sum(call[n])
         /\ Star /\ n # Root /\ pc[n] = "write" => buffer[n][e] = SetToBag({<<n, call[n]>>})
         /\ Star /\ RootSends /\ n # Root /\ Returned(n) => buffer[n][e] = Sum(call[n])
         /\ Broadcast /\ n = Root /\ call[n] > 0 => buffer[n][e] = SetToBag({<<Root, call[n]>>})
         /\ Broadcast /\ n # Root /\ Returned(n) => buffer[n][e] = SetToBag({<<Root, call[n]>>})

\* ... of the ring, whose slice d has passed as many nodes as the steps say, ...
SlicesOf(n) ==
  Ring =>
    /\ buffer[n] \in [0 .. size - 1 -> Values]
    /\ pc[n] # "outside" /\ step[n] <= nNodes - 1 =>
         \A d \in Group : \A e \in Slice(d) :
           buffer[n][e] = SetToBag(Arc(n, IF Behind(n, d) <= step[n] THEN Behind(n, d) ELSE 0)
                                     \X {call[n]})

\* ... and the key-value buffers: the node's own rows and those of the peers it
\* has met in the call.
KeyValuesOf(n) ==
  Pairs =>
    /\ buffer[n] \in [0 .. SeqLen - 1 -> Values]
    /\ missing[n] \subseteq 0 .. SeqLen - 1
    /\ \A e \in SliceRows(n, call[n]) : IsRow(n, e, call[n], buffer[n][e])
    /\ \A m \in Group \ {n} :
         ~Skips(call[n]) /\ (pc[n] = "outside" \/ StepWith(n, m) < step[n]) =>
           \A e \in SliceRows(m, call[n]) : IsRow(m, e, call[n], buffer[n][e])

NodeInv(n) ==
  /\ PhaseOf(n) /\ SentOf(n) /\ GotOf(n)
  /\ RowOf(n) /\ SlicesOf(n) /\ KeyValuesOf(n)
  /\ ~Pairs => missing[n] = {}

StreamOf(i, j) ==
  IF Linked(i, j)
  THEN /\ Stream(i, chan[<<i, j>>], Written(i, j), sent[i][j], Taken(j, i), got[j][i])
       /\ Len(chan[<<i, j>>]) <= SocketCapacity
  ELSE chan[<<i, j>>] = <<>>

Phases == Shapes /\ \A n \in Group : PhaseOf(n)

IInv ==
  /\ Arguments /\ Shapes
  /\ \A n \in Group : NodeInv(n)
  /\ \A i, j \in Group : StreamOf(i, j)

-----------------------------------------------------------------------------
(* The arguments do not change, and nothing computed from them does.       *)

LEMMA ArgumentsKept ==
  ASSUME arguments' = arguments
  PROVE  /\ nNodes' = nNodes /\ Group' = Group /\ Steps' = Steps /\ SeqLen' = SeqLen
         /\ (Ring <=> Ring') /\ (Star <=> Star') /\ (Broadcast <=> Broadcast') /\ (Pairs <=> Pairs')
         /\ (Stepwise <=> Stepwise') /\ (RootSends <=> RootSends') /\ size' = size
         /\ (Arguments <=> Arguments')
         /\ \A n : NextNode(n)' = NextNode(n) /\ PrevNode(n)' = PrevNode(n)
         /\ \A n : LocalSeq(n)' = LocalSeq(n) /\ Slice(n)' = Slice(n)
         /\ \A c : ActiveRows(c)' = ActiveRows(c) /\ Positions(c)' = Positions(c)
         /\ \A c : Skips(c) <=> Skips(c)'
         /\ \A n, c : SliceRows(n, c)' = SliceRows(n, c)
         /\ \A n, s : PeerAt(n, s)' = PeerAt(n, s) /\ FirstCall(n, s)' = FirstCall(n, s)
<1> USE DEF arguments
<1>1. /\ nNodes' = nNodes /\ syncType' = syncType /\ collectiveType' = collectiveType
      /\ size' = size /\ spPrefillOnly' = spPrefillOnly /\ decodeFrom' = decodeFrom
  OBVIOUS
<1>2. Group' = Group /\ SeqLen' = SeqLen /\ (RootSends <=> RootSends') /\ (Arguments <=> Arguments')
  BY <1>1 DEF Group, SeqLen, RootSends, Arguments, SyncTypes
<1>3. (Ring <=> Ring') /\ (Broadcast <=> Broadcast') /\ (Pairs <=> Pairs')
  BY <1>1 DEF Ring, RingSupported, Broadcast, Pairs
<1>4. (Star <=> Star') /\ (Stepwise <=> Stepwise') /\ Steps' = Steps
  BY <1>1, <1>3 DEF Star, Stepwise, Steps
<1>5. \A n : NextNode(n)' = NextNode(n) /\ PrevNode(n)' = PrevNode(n)
  BY <1>1 DEF NextNode, PrevNode
<1>6. \A n : LocalSeq(n)' = LocalSeq(n) /\ Slice(n)' = Slice(n)
  BY <1>1 DEF LocalSeq, Slice
<1>7. \A c : (IsDecode(c) <=> IsDecode(c)') /\ ActiveRows(c)' = ActiveRows(c)
  BY <1>1 DEF IsDecode, ActiveRows
<1>8. \A c : Positions(c)' = Positions(c) /\ (Skips(c) <=> Skips(c)')
  BY <1>1, <1>3, <1>7 DEF Positions, Skips
<1>9. \A n, c : SliceRows(n, c)' = SliceRows(n, c)
  BY <1>6, <1>7 DEF SliceRows
<1>10. \A n, s : PeerAt(n, s)' = PeerAt(n, s) /\ FirstCall(n, s)' = FirstCall(n, s)
  BY <1>1, <1>3 DEF PeerAt, FirstCall, Broadcast
<1> QED
  BY <1>1, <1>2, <1>3, <1>4, <1>5, <1>6, <1>7, <1>8, <1>9, <1>10

LEMMA StreamsKept ==
  ASSUME arguments' = arguments
  PROVE  /\ Values' = Values
         /\ \A c : Sum(c)' = Sum(c)
         /\ \A n, m : Behind(n, m)' = Behind(n, m)
         /\ \A n, s : Arc(n, s)' = Arc(n, s)
         /\ \A m, e, c, v : IsRow(m, e, c, v) <=> IsRow(m, e, c, v)'
         /\ \A i, j : Linked(i, j) <=> Linked(i, j)'
         /\ \A i, f : Width(i, f)' = Width(i, f) /\ Start(i, f)' = Start(i, f)
         /\ \A c : RingFrame(c)' = RingFrame(c)
         /\ \A i, f, o, v : Meant(i, f, o, v) <=> Meant(i, f, o, v)'
         /\ \A i, q, fw, sn, fr, g : Stream(i, q, fw, sn, fr, g) <=> Stream(i, q, fw, sn, fr, g)'
<1> USE ArgumentsKept
<1>1. Values' = Values /\ \A c : Sum(c)' = Sum(c)
  BY DEF Values, Contributions, Sum
<1>2. \A n, m : Behind(n, m)' = Behind(n, m)
  BY DEF Behind
<1>3. \A n, s : Arc(n, s)' = Arc(n, s)
  BY <1>2 DEF Arc
<1>4. \A m, e, c, v : IsRow(m, e, c, v) <=> IsRow(m, e, c, v)'
  BY DEF IsRow
<1>5. \A i, j : Linked(i, j) <=> Linked(i, j)'
  BY DEF Linked
<1>6. \A i, f : Width(i, f)' = Width(i, f)
  BY DEF Width
<1>7. \A i, f : FramesBefore(i, f)' = FramesBefore(i, f)
  BY <1>6 DEF FramesBefore
<1>8. \A i, f : Start(i, f)' = Start(i, f)
  BY <1>7 DEF Start
<1>9. \A c : RingFrame(c)' = RingFrame(c)
  BY DEF RingFrame
<1>10. \A i, f, o, v : Meant(i, f, o, v) <=> Meant(i, f, o, v)'
  BY <1>1, <1>3, <1>4, <1>9 DEF Meant
<1>11. \A i, q, fw, sn, fr, g : Stream(i, q, fw, sn, fr, g) <=> Stream(i, q, fw, sn, fr, g)'
  BY <1>1, <1>6, <1>8, <1>10 DEF Stream
<1> QED
  BY <1>1, <1>2, <1>3, <1>4, <1>5, <1>6, <1>8, <1>9, <1>10, <1>11

-----------------------------------------------------------------------------
(* Numbers and bags.                                                       *)

\* Every set of naturals that is not empty has a least element.
LEMMA LeastNatural ==
  ASSUME NEW T, T \subseteq Nat, T # {}
  PROVE  \E n \in T : \A m \in T : n <= m
<1>1. PICK R : R = OpToRel(<, Nat)
  OBVIOUS
<1>2. IsWellFoundedOn(R, Nat)
  BY <1>1, NatLessThanWellFounded
<1>3. R = {ss \in Nat \X Nat : ss[1] < ss[2]}
  BY <1>1 DEF OpToRel
<1>4. PICK n \in T : \A m \in T : ~(<<m, n>> \in R)
  BY <1>2, WFMin
<1>5. ASSUME NEW m \in T
      PROVE  n <= m
  <2>1. <<m, n>> \notin R
    BY <1>4
  <2>2. <<m, n>> \in Nat \X Nat => ~(m < n)
    BY <2>1, <1>3
  <2>3. m \in Nat /\ n \in Nat
    OBVIOUS
  <2> QED
    BY <2>2, <2>3
<1> QED
  BY <1>5

\* A property of 0 that goes from each natural to the next holds of all.  T is
\* the set of naturals that have it.
LEMMA AllNaturals ==
  ASSUME NEW T, 0 \in T, \A n \in Nat : n \in T => n + 1 \in T
  PROVE  Nat \subseteq T
<1> SUFFICES ASSUME Nat \ T # {} PROVE FALSE
  OBVIOUS
<1>1. PICK n \in Nat \ T : \A m \in Nat \ T : n <= m
  BY LeastNatural
<1>2. n # 0 /\ n - 1 \in Nat
  OBVIOUS
<1>3. n - 1 \in T
  BY <1>1, <1>2
<1>4. (n - 1) + 1 = n
  OBVIOUS
<1> QED
  BY <1>2, <1>3, <1>4

LEMMA BagOfUnion ==
  ASSUME NEW S, NEW T, S \cap T = {}
  PROVE  SetToBag(S) (+) SetToBag(T) = SetToBag(S \cup T)
BY DEF SetToBag, (+)

LEMMA BagIsValue ==
  ASSUME NEW D, D \subseteq Contributions
  PROVE  SetToBag(D) \in Values
BY DEF Values

LEMMA ValuesAreOneOfEach ==
  ASSUME NEW v \in Values
  PROVE  OneOfEach(v)
BY DEF Values, OneOfEach, SetToBag, Contributions

LEMMA EmptyIsValue == EmptyBag \in Values
BY BagIsValue DEF EmptyBag

-----------------------------------------------------------------------------
(* Frames.                                                                 *)

LEMMA ArgumentTypes ==
  ASSUME Arguments
  PROVE  /\ nNodes \in Nat /\ nNodes >= 2
         /\ size \in Nat /\ size >= 1
         /\ LocalSeqLen \in Nat /\ LocalSeqLen >= 1
         /\ MaxCalls \in Nat
         /\ decodeFrom \in Nat /\ decodeFrom >= 1
         /\ Steps \in Nat /\ Steps >= 1
         /\ IsFiniteSet(Group) /\ Cardinality(Group) = nNodes /\ Root \in Group
BY AllReduceAssumption, FS_Interval DEF Arguments, Group, Root, Steps

\* A frame of a stream has a number of values.
LEMMA WidthType ==
  ASSUME Arguments, NEW i \in Group, NEW f \in Nat
  PROVE  Width(i, f) \in Nat
<1>1. size \div nNodes \in Nat
  BY ArgumentTypes
<1>2. IsFiniteSet(LocalSeq(i))
  <2>1. PICK a \in Int, b \in Int : a = i * LocalSeqLen /\ b = (i + 1) * LocalSeqLen - 1
    BY ArgumentTypes DEF Group
  <2>2. IsFiniteSet(a .. b)
    BY FS_Interval
  <2> QED
    BY <2>1, <2>2 DEF LocalSeq
<1>3. Cardinality(SliceRows(i, f + 1)) \in Nat
  BY <1>2, FS_Subset, FS_CardinalityType DEF SliceRows
<1> QED
  BY <1>1, <1>3, ArgumentTypes DEF Width

LEMMA StartNext ==
  ASSUME Arguments, NEW i \in Group
  PROVE  /\ Start(i, 0) = 0
         /\ \A f \in Nat : Start(i, f) \in Nat /\ Start(i, f + 1) = Start(i, f) + Width(i, f)
<1> DEFINE Frame(f) == {f} \X (0 .. Width(i, f) - 1)
<1>1. FramesBefore(i, 0) = {}
  BY DEF FramesBefore
<1>2. \A f \in Nat : FramesBefore(i, f + 1) = FramesBefore(i, f) \cup Frame(f)
  <2> TAKE f \in Nat
  <2>1. 0 .. (f + 1) - 1 = (0 .. f - 1) \cup {f}
    OBVIOUS
  <2> QED
    BY <2>1 DEF FramesBefore
<1>3. \A f \in Nat : FramesBefore(i, f) \cap Frame(f) = {}
  BY DEF FramesBefore
<1>4. \A f \in Nat : IsFiniteSet(Frame(f)) /\ Cardinality(Frame(f)) = Width(i, f)
  <2> TAKE f \in Nat
  <2>1. PICK w \in Nat : w = Width(i, f)
    BY WidthType
  <2>2. IsFiniteSet(0 .. w - 1) /\ Cardinality(0 .. w - 1) = w
    BY FS_Interval
  <2>3. IsFiniteSet({f}) /\ Cardinality({f}) = 1
    BY FS_Singleton
  <2>4. /\ IsFiniteSet({f} \X (0 .. w - 1))
        /\ Cardinality({f} \X (0 .. w - 1)) = Cardinality({f}) * Cardinality(0 .. w - 1)
    BY <2>2, <2>3, FS_Product
  <2> QED
    BY <2>1, <2>2, <2>3, <2>4
<1> HIDE DEF Frame
<1> DEFINE T == {f \in Nat : IsFiniteSet(FramesBefore(i, f))}
<1>5. Nat \subseteq T
  <2>1. 0 \in T
    BY <1>1, FS_EmptySet
  <2>2. ASSUME NEW f \in Nat, IsFiniteSet(FramesBefore(i, f))
        PROVE  IsFiniteSet(FramesBefore(i, f + 1))
    <3>1. IsFiniteSet(FramesBefore(i, f) \cup Frame(f))
      BY <2>2, <1>4, FS_Union
    <3> QED
      BY <3>1, <1>2
  <2>3. \A f \in Nat : f \in T => f + 1 \in T
    BY <2>2
  <2> HIDE DEF T
  <2> QED
    BY <2>1, <2>3, AllNaturals
<1>6. ASSUME NEW f \in Nat
      PROVE  Start(i, f) \in Nat /\ Start(i, f + 1) = Start(i, f) + Width(i, f)
  <2>1. IsFiniteSet(FramesBefore(i, f))
    BY <1>5
  <2>2. Cardinality(FramesBefore(i, f)) \in Nat /\ Width(i, f) \in Nat
    BY <2>1, FS_CardinalityType, WidthType
  <2>3. Cardinality(FramesBefore(i, f + 1))
          = Cardinality(FramesBefore(i, f)) + Cardinality(Frame(f)) - Cardinality({})
    BY <2>1, <1>2, <1>3, <1>4, FS_Union
  <2> QED
    BY <2>2, <2>3, <1>4, FS_EmptySet DEF Start
<1> QED
  BY <1>1, <1>6, FS_EmptySet DEF Start

\* A later frame starts where an earlier one has ended.
LEMMA StartLater ==
  ASSUME Arguments, NEW i \in Group, NEW f \in Nat, NEW g \in Nat, f < g
  PROVE  Start(i, f) + Width(i, f) <= Start(i, g)
<1> DEFINE T == {k \in Nat : Start(i, f) + Width(i, f) <= Start(i, f + 1 + k)}
<1>1. 0 \in T
  BY StartNext, WidthType
<1>2. ASSUME NEW k \in Nat, k \in T
      PROVE  k + 1 \in T
  <2>1. f + 1 + k \in Nat /\ f + 1 + (k + 1) = (f + 1 + k) + 1
    OBVIOUS
  <2>2. Start(i, f + 1 + k) \in Nat /\ Width(i, f + 1 + k) \in Nat
        /\ Start(i, (f + 1 + k) + 1) = Start(i, f + 1 + k) + Width(i, f + 1 + k)
    BY <2>1, StartNext, WidthType
  <2>3. Start(i, f) \in Nat /\ Width(i, f) \in Nat
    BY StartNext, WidthType
  <2>4. Start(i, f) + Width(i, f) <= Start(i, f + 1 + k)
    BY <1>2
  <2>5. Start(i, f) + Width(i, f) <= Start(i, (f + 1 + k) + 1)
    BY <2>2, <2>3, <2>4
  <2> QED
    BY <2>1, <2>5
<1>3. Nat \subseteq T
  <2> HIDE DEF T
  <2> QED
    BY <1>1, <1>2, AllNaturals
<1>4. g - f - 1 \in T /\ f + 1 + (g - f - 1) = g
  BY <1>3
<1> QED
  BY <1>4

\* A place in the stream is an offset of one frame only.
LEMMA OnePlace ==
  ASSUME Arguments, NEW i \in Group, NEW f \in Nat, NEW g \in Nat, NEW o \in Nat, NEW p \in Nat,
         o < Width(i, f), p < Width(i, g), Start(i, f) + o = Start(i, g) + p
  PROVE  f = g /\ o = p
<1>1. PICK sf \in Nat, sg \in Nat, wf \in Nat, wg \in Nat :
        sf = Start(i, f) /\ sg = Start(i, g) /\ wf = Width(i, f) /\ wg = Width(i, g)
  BY StartNext, WidthType
<1>2. f < g => sf + wf <= sg
  BY <1>1, StartLater
<1>3. g < f => sg + wg <= sf
  BY <1>1, StartLater
<1>4. ~(f < g) /\ ~(g < f)
  BY <1>1, <1>2, <1>3
<1>5. f = g
  BY <1>4
<1> QED
  BY <1>1, <1>5

-----------------------------------------------------------------------------
(* What a write, a read and the use of a frame do to a stream.             *)

LEMMA StreamAppend ==
  ASSUME Arguments, NEW i \in Group, NEW q, NEW fw \in Nat, NEW sn \in Nat, NEW fr \in Nat, NEW g,
         NEW v, Stream(i, q, fw, sn, fr, g), sn < Width(i, fw), Meant(i, fw, sn, v)
  PROVE  Stream(i, Append(q, v), fw, sn + 1, fr, g)
<1>1. q \in Seq(Values) /\ g \in Seq(Values) /\ v \in Values
  BY DEF Stream, Meant
<1>2. PICK w \in Nat, r \in Nat, n \in Nat, h \in Nat :
        w = Start(i, fw) /\ r = Start(i, fr) /\ n = Len(q) /\ h = Len(g)
  <2>1. Start(i, fw) \in Nat /\ Start(i, fr) \in Nat
    BY StartNext
  <2>2. Len(q) \in Nat /\ Len(g) \in Nat
    BY <1>1
  <2> USE <2>1, <2>2
  <2> WITNESS Start(i, fw) \in Nat, Start(i, fr) \in Nat, Len(q) \in Nat, Len(g) \in Nat
  <2> QED
    OBVIOUS
<1>3. n = (w + sn) - (r + h)
  BY <1>2 DEF Stream
<1>4. Append(q, v) \in Seq(Values) /\ Len(Append(q, v)) = n + 1
  BY <1>1, <1>2
<1>5. \A k \in 1 .. n : Append(q, v)[k] = q[k]
  BY <1>1, <1>2
<1>6. Append(q, v)[n + 1] = v
  BY <1>1, <1>2
<1>7. ASSUME NEW k \in 1 .. n + 1, NEW f \in Nat, NEW o \in Nat,
             o < Width(i, f), Start(i, f) + o = r + h + k - 1
      PROVE  Meant(i, f, o, Append(q, v)[k])
  <2>1. CASE k \in 1 .. n
    <3>1. Meant(i, f, o, q[k])
      BY <2>1, <1>2, <1>7 DEF Stream
    <3> QED
      BY <2>1, <3>1, <1>5
  <2>2. CASE k = n + 1
    <3>1. Start(i, f) + o = Start(i, fw) + sn
      BY SMTT(30), <2>2, <1>2, <1>3, <1>7
    <3>2. f = fw /\ o = sn
      BY <3>1, <1>7, OnePlace
    <3> QED
      BY <2>2, <3>2, <1>6
  <2>3. k \in 1 .. n \/ k = n + 1
    OBVIOUS
  <2> QED
    BY <2>1, <2>2, <2>3
<1>8. \A o \in 1 .. Len(g) : Meant(i, fr, o - 1, g[o])
  BY DEF Stream
<1>9. Len(Append(q, v)) = (Start(i, fw) + (sn + 1)) - (Start(i, fr) + Len(g))
  BY SMTT(30), <1>2, <1>3, <1>4
<1>10. \A k \in 1 .. Len(Append(q, v)) : \A f, o \in Nat :
         o < Width(i, f) /\ Start(i, f) + o = Start(i, fr) + Len(g) + k - 1
           => Meant(i, f, o, Append(q, v)[k])
  BY <1>2, <1>4, <1>7
<1> QED
  BY <1>1, <1>4, <1>8, <1>9, <1>10 DEF Stream

\* The frame being written is complete: the next one has no values yet.
LEMMA StreamFrameWritten ==
  ASSUME Arguments, NEW i \in Group, NEW q, NEW fw \in Nat, NEW fr \in Nat, NEW g,
         Stream(i, q, fw, Width(i, fw), fr, g)
  PROVE  Stream(i, q, fw + 1, 0, fr, g)
<1>1. /\ Start(i, fw + 1) = Start(i, fw) + Width(i, fw)
      /\ Start(i, fw) \in Nat /\ Width(i, fw) \in Nat
  BY StartNext, WidthType
<1>2. Start(i, fw + 1) + 0 = Start(i, fw) + Width(i, fw)
  BY <1>1
<1> QED
  BY <1>2 DEF Stream

LEMMA StreamTake ==
  ASSUME Arguments, NEW i \in Group, NEW q, NEW fw \in Nat, NEW sn \in Nat, NEW fr \in Nat, NEW g,
         Stream(i, q, fw, sn, fr, g), q # <<>>, Len(g) < Width(i, fr)
  PROVE  Stream(i, Tail(q), fw, sn, fr, Append(g, Head(q)))
<1>1. q \in Seq(Values) /\ g \in Seq(Values)
  BY DEF Stream
<1>2. PICK w \in Nat, r \in Nat, n \in Nat \ {0}, h \in Nat :
        w = Start(i, fw) /\ r = Start(i, fr) /\ n = Len(q) /\ h = Len(g)
  <2>1. Start(i, fw) \in Nat /\ Start(i, fr) \in Nat
    BY StartNext
  <2>2. Len(q) \in Nat \ {0} /\ Len(g) \in Nat
    BY <1>1
  <2> USE <2>1, <2>2
  <2> WITNESS Start(i, fw) \in Nat, Start(i, fr) \in Nat, Len(q) \in Nat \ {0}, Len(g) \in Nat
  <2> QED
    OBVIOUS
<1>3. n = (w + sn) - (r + h)
  BY <1>2 DEF Stream
<1>4. /\ Tail(q) \in Seq(Values) /\ Len(Tail(q)) = n - 1
      /\ \A k \in 1 .. n - 1 : Tail(q)[k] = q[k + 1]
  BY <1>1, <1>2
<1>5. Head(q) = q[1] /\ q[1] \in Values
  BY <1>1, <1>2
<1>6. /\ Append(g, Head(q)) \in Seq(Values) /\ Len(Append(g, Head(q))) = h + 1
      /\ \A o \in 1 .. h : Append(g, Head(q))[o] = g[o]
      /\ Append(g, Head(q))[h + 1] = q[1]
  BY <1>1, <1>2, <1>5
<1>7. Meant(i, fr, h, q[1])
  <2>1. Start(i, fr) + h = Start(i, fr) + Len(g) + 1 - 1 /\ 1 \in 1 .. Len(q) /\ h < Width(i, fr)
    BY <1>2
  <2> QED
    BY <2>1 DEF Stream
<1>8. ASSUME NEW o \in 1 .. h + 1
      PROVE  Meant(i, fr, o - 1, Append(g, Head(q))[o])
  <2>1. CASE o \in 1 .. h
    <3>1. Meant(i, fr, o - 1, g[o])
      BY <1>2, <2>1 DEF Stream
    <3> QED
      BY <2>1, <3>1, <1>6
  <2>2. CASE o = h + 1
    BY <2>2, <1>6, <1>7
  <2>3. o \in 1 .. h \/ o = h + 1
    OBVIOUS
  <2> QED
    BY <2>1, <2>2, <2>3
<1>9. ASSUME NEW k \in 1 .. n - 1, NEW f \in Nat, NEW o \in Nat,
             o < Width(i, f), Start(i, f) + o = r + (h + 1) + k - 1
      PROVE  Meant(i, f, o, Tail(q)[k])
  <2>1. k \in Nat /\ k + 1 \in 1 .. n /\ r + (h + 1) + k - 1 = r + h + (k + 1) - 1
    OBVIOUS
  <2>2. k + 1 \in 1 .. Len(q) /\ Start(i, f) + o = Start(i, fr) + Len(g) + (k + 1) - 1
    BY <2>1, <1>2, <1>9
  <2>3. Meant(i, f, o, q[k + 1])
    BY <2>2, <1>9 DEF Stream
  <2> QED
    BY <2>3, <1>4
<1>10. Len(Tail(q)) = (Start(i, fw) + sn) - (Start(i, fr) + Len(Append(g, Head(q))))
  BY SMTT(30), <1>2, <1>3, <1>4, <1>6
<1>11. \A k \in 1 .. Len(Tail(q)) : \A f, o \in Nat :
         o < Width(i, f) /\ Start(i, f) + o = Start(i, fr) + Len(Append(g, Head(q))) + k - 1
           => Meant(i, f, o, Tail(q)[k])
  BY <1>2, <1>4, <1>6, <1>9
<1>12. \A o \in 1 .. Len(Append(g, Head(q))) : Meant(i, fr, o - 1, Append(g, Head(q))[o])
  BY <1>6, <1>8
<1> QED
  BY <1>4, <1>6, <1>10, <1>11, <1>12 DEF Stream

\* The frame that was read is used, and the reader has none of the next.
LEMMA StreamFrameUsed ==
  ASSUME Arguments, NEW i \in Group, NEW q, NEW fw \in Nat, NEW sn \in Nat, NEW fr \in Nat, NEW g,
         Stream(i, q, fw, sn, fr, g), Len(g) = Width(i, fr)
  PROVE  Stream(i, q, fw, sn, fr + 1, <<>>)
<1>1. PICK r \in Nat, w \in Nat : r = Start(i, fr) /\ w = Width(i, fr)
  BY StartNext, WidthType
<1>2. Start(i, fr + 1) = r + w
  BY <1>1, StartNext
<1>3. Start(i, fr + 1) + Len(<<>>) = Start(i, fr) + Len(g) /\ <<>> \in Seq(Values)
  BY <1>1, <1>2
<1>4. \A o \in 1 .. Len(<<>>) : Meant(i, fr + 1, o - 1, <<>>[o])
  OBVIOUS
<1> QED
  BY <1>3, <1>4 DEF Stream

\* Nobody is ahead of what was written.
LEMMA StreamOrder ==
  ASSUME Arguments, NEW i \in Group, NEW q, NEW fw \in Nat, NEW sn \in Nat, NEW fr \in Nat, NEW g,
         Stream(i, q, fw, sn, fr, g), sn <= Width(i, fw), Width(i, fw + 1) > 0
  PROVE  fr <= fw + 1
<1>1. PICK w \in Nat, r \in Nat, n \in Nat, h \in Nat, x \in Nat, y \in Nat :
        /\ w = Start(i, fw) /\ r = Start(i, fr) /\ n = Len(q) /\ h = Len(g)
        /\ x = Width(i, fw) /\ y = Width(i, fw + 1)
  <2>1. Start(i, fw) \in Nat /\ Start(i, fr) \in Nat
    BY StartNext
  <2>2. Len(q) \in Nat /\ Len(g) \in Nat
    BY DEF Stream
  <2>3. Width(i, fw) \in Nat /\ Width(i, fw + 1) \in Nat
    BY WidthType
  <2> USE <2>1, <2>2, <2>3
  <2> WITNESS Start(i, fw) \in Nat, Start(i, fr) \in Nat, Len(q) \in Nat, Len(g) \in Nat,
              Width(i, fw) \in Nat, Width(i, fw + 1) \in Nat
  <2> QED
    OBVIOUS
<1>2. n = (w + sn) - (r + h)
  BY <1>1 DEF Stream
<1>3. r <= w + x
  <2>1. sn <= x
    BY <1>1
  <2>2. w \in Nat /\ r \in Nat /\ n \in Nat /\ h \in Nat /\ x \in Nat
    OBVIOUS
  <2> QED
    BY ONLY <1>2, <2>1, <2>2, sn \in Nat
<1>4. Start(i, fw + 1) = w + x
  BY <1>1, StartNext
<1>5. ASSUME fw + 1 < fr
      PROVE  FALSE
  <2>1. Start(i, fw + 1) + Width(i, fw + 1) <= Start(i, fr)
    BY <1>5, StartLater
  <2> QED
    BY SMTT(30), <2>1, <1>1, <1>3, <1>4
<1> QED
  BY <1>5

-----------------------------------------------------------------------------
(* Who talks with whom.                                                    *)

LEMMA Modulo ==
  ASSUME NEW m \in Nat \ {0}, NEW x \in 0 .. 2 * m - 1
  PROVE  x % m = IF x < m THEN x ELSE x - m
OBVIOUS

LEMMA Quotient ==
  ASSUME NEW a \in Nat, NEW b \in Nat \ {0}
  PROVE  \E q \in Nat, r \in 0 .. b - 1 : a = b * q + r
<1>1. a \div b \in Nat /\ a % b \in 0 .. b - 1 /\ a = b * (a \div b) + (a % b)
  OBVIOUS
<1> QED
  BY <1>1

LEMMA Multiples ==
  ASSUME NEW a \in Nat, NEW b \in Nat, NEW w \in Nat
  PROVE  /\ a * w \in Nat /\ (a + 1) * w = a * w + w
         /\ a < b => a * w + w <= b * w
<1>1. ASSUME a < b
      PROVE  a * w + w <= b * w
  <2>1. PICK k \in Nat : b = a + 1 + k
    BY <1>1
  <2>2. b * w = a * w + w + k * w /\ k * w \in Nat /\ a * w \in Nat
    BY <2>1
  <2> QED
    BY <2>2
<1> QED
  BY <1>1

\* The algorithms exclude each other.
LEMMA OneAlgorithm ==
  ASSUME Arguments
  PROVE  /\ Ring \/ Pairs \/ Star \/ Broadcast
         /\ Ring => ~Pairs /\ ~Star /\ ~Broadcast
         /\ Pairs => ~Star /\ ~Broadcast
         /\ Star => ~Broadcast
         /\ Stepwise <=> Ring \/ Pairs
         /\ Ring \/ Pairs \/ Broadcast => RootSends
BY DEF Arguments, SyncTypes, Ring, Star, Broadcast, Pairs, Stepwise, RootSends

LEMMA RingNeighbours ==
  ASSUME Arguments, NEW n \in Group
  PROVE  /\ NextNode(n) = IF n = nNodes - 1 THEN 0 ELSE n + 1
         /\ PrevNode(n) = IF n = 0 THEN nNodes - 1 ELSE n - 1
         /\ NextNode(n) \in Group \ {n} /\ PrevNode(n) \in Group \ {n}
         /\ PrevNode(NextNode(n)) = n /\ NextNode(PrevNode(n)) = n
<1>1. nNodes \in Nat \ {0} /\ nNodes >= 2 /\ n \in 0 .. nNodes - 1
  BY ArgumentTypes DEF Group
<1>2. \A k \in 0 .. nNodes - 1 :
        /\ (k + 1) % nNodes = IF k = nNodes - 1 THEN 0 ELSE k + 1
        /\ (k + nNodes - 1) % nNodes = IF k = 0 THEN nNodes - 1 ELSE k - 1
  <2> TAKE k \in 0 .. nNodes - 1
  <2>1. PICK x \in 0 .. 2 * nNodes - 1 : x = k + 1
    BY <1>1
  <2>2. PICK y \in 0 .. 2 * nNodes - 1 : y = k + nNodes - 1
    BY <1>1
  <2>3. x % nNodes = IF x < nNodes THEN x ELSE x - nNodes
    BY <1>1, Modulo
  <2>4. y % nNodes = IF y < nNodes THEN y ELSE y - nNodes
    BY <1>1, Modulo
  <2> QED
    BY <1>1, <2>1, <2>2, <2>3, <2>4
<1>3. \A k \in Group :
        /\ NextNode(k) = IF k = nNodes - 1 THEN 0 ELSE k + 1
        /\ PrevNode(k) = IF k = 0 THEN nNodes - 1 ELSE k - 1
  BY <1>2 DEF NextNode, PrevNode, Group
<1>4. NextNode(n) \in Group \ {n} /\ PrevNode(n) \in Group \ {n}
  BY <1>1, <1>3 DEF Group
<1> QED
  BY <1>1, <1>3, <1>4

\* The slices of a step: what a node passes on has come as far as the steps say.
LEMMA RingChunks ==
  ASSUME Arguments, NEW n \in Group, step[n] \in Nat
  PROVE  /\ SendChunk(n) \in Group /\ RecvChunk(n) \in Group
         /\ step[n] < nNodes - 1 =>
              Behind(n, SendChunk(n)) = step[n] /\ Behind(n, RecvChunk(n)) = step[n] + 1
<1>1. nNodes \in Nat \ {0} /\ nNodes >= 2 /\ n \in 0 .. nNodes - 1
  BY ArgumentTypes DEF Group
<1>2. LoopStep(n) \in 0 .. nNodes - 2 /\ (step[n] < nNodes - 1 => LoopStep(n) = step[n])
  BY <1>1 DEF LoopStep
<1>3. PICK l \in 0 .. nNodes - 2 : l = LoopStep(n)
  BY <1>2
<1>4. n - l + nNodes \in 0 .. 2 * nNodes - 1 /\ n - l - 1 + nNodes \in 0 .. 2 * nNodes - 1
  BY <1>1
<1>5. SendChunk(n) = IF n - l + nNodes < nNodes THEN n - l + nNodes ELSE n - l
  BY SMTT(30), <1>1, <1>3, <1>4, Modulo DEF SendChunk
<1>6. RecvChunk(n) = IF n - l - 1 + nNodes < nNodes THEN n - l - 1 + nNodes ELSE n - l - 1
  BY <1>1, <1>3, <1>4, Modulo DEF RecvChunk
<1>7. Behind(n, SendChunk(n)) = l /\ Behind(n, RecvChunk(n)) = l + 1
  BY <1>1, <1>5, <1>6 DEF Behind
<1>8. SendChunk(n) \in Group /\ RecvChunk(n) \in Group
  BY <1>1, <1>5, <1>6 DEF Group
<1> QED
  BY <1>2, <1>3, <1>7, <1>8

\* A step adds the node itself to what its neighbour has collected, and after
\* nNodes - 1 steps everyone is in.
LEMMA ArcGrows ==
  ASSUME Arguments, NEW n \in Group
  PROVE  /\ Arc(n, 0) = {n}
         /\ \A s \in 0 .. nNodes - 2 : Arc(PrevNode(n), s) \cup {n} = Arc(n, s + 1)
         /\ \A s \in 0 .. nNodes - 2 : n \notin Arc(PrevNode(n), s)
         /\ Arc(n, nNodes - 1) = Group
<1>1. nNodes \in Nat \ {0} /\ nNodes >= 2 /\ n \in 0 .. nNodes - 1 /\ Group = 0 .. nNodes - 1
  BY ArgumentTypes DEF Group
<1>2. PrevNode(n) = IF n = 0 THEN nNodes - 1 ELSE n - 1
  BY RingNeighbours
<1>3. Arc(n, 0) = {n}
  BY <1>1 DEF Arc, Behind
<1>4. Arc(n, nNodes - 1) = Group
  BY <1>1 DEF Arc, Behind
<1>5. ASSUME NEW s \in 0 .. nNodes - 2
      PROVE  Arc(PrevNode(n), s) \cup {n} = Arc(n, s + 1)
  <2>1. \A m \in 0 .. nNodes - 1 :
          Behind(PrevNode(n), m) <= s \/ m = n <=> Behind(n, m) <= s + 1
    BY <1>1, <1>2 DEF Behind
  <2> QED
    BY <1>1, <2>1 DEF Arc
<1>6. ASSUME NEW s \in 0 .. nNodes - 2
      PROVE  n \notin Arc(PrevNode(n), s)
  BY <1>1, <1>2 DEF Arc, Behind
<1> QED
  BY <1>3, <1>4, <1>5, <1>6

\* The slices of a row lie in it and apart from each other.
LEMMA RingSlices ==
  ASSUME Arguments, Ring, NEW c \in Group
  PROVE  /\ Slice(c) \subseteq 0 .. size - 1
         /\ \A d \in Group : d # c => Slice(c) \cap Slice(d) = {}
         /\ size \div nNodes \in Nat \ {0}
         /\ Slice(c) = c * (size \div nNodes) .. c * (size \div nNodes) + (size \div nNodes) - 1
<1>1. nNodes \in Nat \ {0} /\ nNodes >= 2 /\ c \in 0 .. nNodes - 1 /\ Group = 0 .. nNodes - 1
      /\ size \in Nat \ {0}
  BY ArgumentTypes DEF Group
<1>2. PICK w \in Nat \ {0} : w = size \div nNodes /\ size = nNodes * w
  <2>1. size % nNodes = 0
    BY DEF Ring, RingSupported
  <2>2. size \div nNodes \in Nat /\ size = nNodes * (size \div nNodes)
    BY <1>1, <2>1
  <2>3. size \div nNodes # 0
    BY <1>1, <2>2
  <2> QED
    BY <2>2, <2>3
<1>3. \A d \in Group : Slice(d) = d * w .. (d + 1) * w - 1
  BY <1>2 DEF Slice
<1>4. \A d \in 0 .. nNodes - 1 : d * w >= 0 /\ (d + 1) * w = d * w + w /\ (d + 1) * w <= nNodes * w
  BY <1>1, <1>2
<1>5. ASSUME NEW d \in 0 .. nNodes - 1, NEW f \in 0 .. nNodes - 1, d < f
      PROVE  (d + 1) * w <= f * w
  BY <1>5, Multiples
<1>6. ASSUME NEW d \in Group, NEW f \in Group, d < f
      PROVE  Slice(d) \cap Slice(f) = {}
  <2>1. d * w \in Nat /\ (d + 1) * w \in Nat /\ f * w \in Nat /\ (f + 1) * w \in Nat
    BY <1>1
  <2> DEFINE a == d * w b == (d + 1) * w x == f * w y == (f + 1) * w
  <2>2. b <= x
    BY <1>1, <1>5, <1>6
  <2>3. Slice(d) = a .. b - 1 /\ Slice(f) = x .. y - 1
    BY <1>3
  <2>4. a \in Nat /\ b \in Nat /\ x \in Nat /\ y \in Nat
    BY <2>1
  <2> HIDE DEF a, b, x, y
  <2> QED
    BY <2>2, <2>3, <2>4
<1>7. \A d \in Group : d # c => Slice(c) \cap Slice(d) = {}
  <2> TAKE d \in Group
  <2>1. d # c => d < c \/ c < d
    BY <1>1
  <2> QED
    BY <1>6, <2>1
<1>8. Slice(c) \subseteq 0 .. size - 1
  <2> DEFINE a == c * w b == (c + 1) * w
  <2>1. a \in Nat /\ b \in Nat /\ b <= size
    <3>1. c \in Nat /\ c + 1 \in Nat
      BY <1>1
    <3>2. a \in Nat /\ b \in Nat
      BY <3>1, Multiples
    <3>3. (c + 1) * w <= nNodes * w
      BY <1>1, <1>4
    <3>4. b <= size
      BY <1>2, <3>3
    <3> QED
      BY <3>2, <3>4
  <2>2. Slice(c) = a .. b - 1
    BY <1>3
  <2> HIDE DEF a, b
  <2> QED
    BY <2>1, <2>2, <1>1
<1>9. Slice(c) = c * w .. c * w + w - 1
  BY <1>1, <1>3, <1>4
<1> QED
  BY <1>2, <1>7, <1>8, <1>9

\* A range of values, as the loops of the algorithms go over it.
LEMMA Segment ==
  ASSUME NEW a \in Nat, NEW w \in Nat, NEW S, S = a .. a + w - 1
  PROVE  /\ IsFiniteSet(S) /\ Cardinality(S) = w
         /\ S = {} <=> w = 0
         /\ w > 0 => Lowest(S) = a
         /\ \A e \in S : e - a \in 0 .. w - 1
         /\ \A o \in 0 .. w - 1 : a + o \in S
<1>1. IsFiniteSet(S) /\ Cardinality(S) = w
  BY FS_Interval
<1>2. S = {} <=> w = 0
  <2>1. w > 0 => a \in S
    OBVIOUS
  <2> QED
    BY <2>1
<1>3. ASSUME w > 0
      PROVE  Lowest(S) = a
  <2>1. a \in S /\ \A f \in S : a <= f
    BY <1>3
  <2>2. \A e \in S : (\A f \in S : e <= f) => e = a
    <3> SUFFICES ASSUME NEW e \in S, \A f \in S : e <= f PROVE e = a
      OBVIOUS
    <3>1. e <= a /\ a <= e /\ e \in Int
      BY <2>1
    <3> QED
      BY <3>1
  <2> QED
    BY <2>1, <2>2 DEF Lowest
<1> QED
  BY <1>1, <1>2, <1>3

LEMMA PeersMeet ==
  ASSUME Arguments, NEW n \in Group
  PROVE  /\ \A s \in 0 .. nNodes - 2 : PeerAt(n, s) \in Group \ {n} /\ StepWith(n, PeerAt(n, s)) = s
         /\ \A m \in Group \ {n} : StepWith(n, m) \in 0 .. nNodes - 2 /\ PeerAt(n, StepWith(n, m)) = m
<1>1. nNodes \in Nat \ {0} /\ nNodes >= 2 /\ n \in 0 .. nNodes - 1 /\ Group = 0 .. nNodes - 1
  BY ArgumentTypes DEF Group
<1> QED
  BY <1>1 DEF PeerAt, StepWith

LEMMA ActiveRowsGrow ==
  ASSUME Arguments
  PROVE  /\ ActiveRows(0) = 0
         /\ \A c \in Nat : /\ ActiveRows(c) \in Nat /\ ActiveRows(c) <= ActiveRows(c + 1)
                           /\ Positions(c + 1) = ActiveRows(c) .. ActiveRows(c + 1) - 1
<1>1. size \in Nat /\ size >= 1 /\ decodeFrom \in Nat /\ decodeFrom >= 1
  BY ArgumentTypes
<1>2. ActiveRows(0) = 0
  BY <1>1 DEF ActiveRows, IsDecode
<1>3. ASSUME NEW c \in Nat
      PROVE  /\ ActiveRows(c) \in Nat /\ ActiveRows(c) <= ActiveRows(c + 1)
             /\ Positions(c + 1) = ActiveRows(c) .. ActiveRows(c + 1) - 1
  <2>1. PICK d \in Nat : decodeFrom = d + 1
    BY <1>1
  <2>2. c * size \in Nat /\ d * size \in Nat /\ (c + 1) * size = c * size + size
    BY <1>1, Multiples
  <2>3. c + 1 >= decodeFrom /\ c < decodeFrom => c = d
    BY <2>1
  <2>4. /\ c < decodeFrom => ActiveRows(c) = c * size
        /\ c >= decodeFrom => ActiveRows(c) = d * size + (c - d)
        /\ c + 1 < decodeFrom => ActiveRows(c + 1) = (c + 1) * size
        /\ c + 1 >= decodeFrom => ActiveRows(c + 1) = d * size + (c + 1 - d)
    BY <1>1, <2>1 DEF ActiveRows, IsDecode
  <2>5. CASE c + 1 < decodeFrom
    <3>1. ActiveRows(c) = c * size /\ ActiveRows(c + 1) = c * size + size
      BY <2>1, <2>2, <2>4, <2>5
    <3> QED
      BY <1>1, <2>2, <3>1 DEF Positions
  <2>6. CASE c >= decodeFrom
    <3>1. ActiveRows(c) = d * size + (c - d) /\ ActiveRows(c + 1) = d * size + (c + 1 - d)
      BY <2>1, <2>4, <2>6
    <3> QED
      BY <2>1, <2>2, <2>6, <3>1 DEF Positions
  <2>7. CASE c < decodeFrom /\ c + 1 >= decodeFrom
    <3>1. c = d
      BY <2>3, <2>7
    <3>2. ActiveRows(c) = d * size /\ ActiveRows(c + 1) = d * size + 1
      BY <2>1, <2>4, <2>7, <3>1
    <3> QED
      BY <2>2, <3>2 DEF Positions
  <2> QED
    BY <1>1, <2>5, <2>6, <2>7
<1> QED
  BY <1>2, <1>3

\* The slices of the nodes are the positions of the buffers, each of one node.
LEMMA LocalSeqs ==
  ASSUME Arguments
  PROVE  /\ \A m \in Group : /\ m * LocalSeqLen \in Nat
                             /\ LocalSeq(m) = m * LocalSeqLen .. m * LocalSeqLen + LocalSeqLen - 1
                             /\ LocalSeq(m) \subseteq 0 .. SeqLen - 1
         /\ \A m, n \in Group : m # n => LocalSeq(m) \cap LocalSeq(n) = {}
         /\ \A e \in 0 .. SeqLen - 1 : \E m \in Group : e \in LocalSeq(m)
         /\ SeqLen \in Nat
<1>1. nNodes \in Nat \ {0} /\ nNodes >= 2 /\ Group = 0 .. nNodes - 1
      /\ LocalSeqLen \in Nat \ {0}
  BY ArgumentTypes DEF Group
<1>2. \A m \in Nat : m * LocalSeqLen \in Nat /\ (m + 1) * LocalSeqLen = m * LocalSeqLen + LocalSeqLen
  BY <1>1, Multiples
<1>3. \A m \in Group : LocalSeq(m) = m * LocalSeqLen .. m * LocalSeqLen + LocalSeqLen - 1
  BY <1>1, <1>2 DEF LocalSeq
<1>4. \A m, n \in Nat : m < n => m * LocalSeqLen + LocalSeqLen <= n * LocalSeqLen
  BY <1>1, Multiples
<1>5. SeqLen \in Nat /\ SeqLen = nNodes * LocalSeqLen
  BY <1>1, <1>2 DEF SeqLen
<1>6. ASSUME NEW m \in Group
      PROVE  LocalSeq(m) \subseteq 0 .. SeqLen - 1
  <2> DEFINE a == m * LocalSeqLen
  <2>1. a \in Nat /\ a + LocalSeqLen <= SeqLen
    BY <1>1, <1>2, <1>4, <1>5
  <2>2. LocalSeq(m) = a .. a + LocalSeqLen - 1
    BY <1>3
  <2> HIDE DEF a
  <2> QED
    BY <1>1, <1>5, <2>1, <2>2
<1>7. ASSUME NEW m \in Group, NEW n \in Group, m < n
      PROVE  LocalSeq(m) \cap LocalSeq(n) = {}
  <2> DEFINE a == m * LocalSeqLen  b == n * LocalSeqLen
  <2>1. a \in Nat /\ b \in Nat /\ a + LocalSeqLen <= b
    BY <1>1, <1>2, <1>4, <1>7
  <2>2. LocalSeq(m) = a .. a + LocalSeqLen - 1 /\ LocalSeq(n) = b .. b + LocalSeqLen - 1
    BY <1>3
  <2> HIDE DEF a, b
  <2> QED
    BY <1>1, <2>1, <2>2
<1>8. \A m, n \in Group : m # n => LocalSeq(m) \cap LocalSeq(n) = {}
  <2> TAKE m, n \in Group
  <2>1. m # n => m < n \/ n < m
    BY <1>1
  <2> QED
    BY <2>1, <1>7
<1>9. ASSUME NEW e \in 0 .. SeqLen - 1
      PROVE  \E m \in Group : e \in LocalSeq(m)
  <2>1. PICK q \in Nat, r \in 0 .. LocalSeqLen - 1 : e = LocalSeqLen * q + r
    <3>1. e \in Nat
      BY <1>5
    <3>2. \E q \in Nat, r \in 0 .. LocalSeqLen - 1 : e = LocalSeqLen * q + r
      BY ONLY <3>1, <1>1, Quotient
    <3> QED
      BY <3>2
  <2>2. LocalSeqLen * q = q * LocalSeqLen /\ q * LocalSeqLen \in Nat
    BY <1>1
  <2>3. q < nNodes
    <3>1. ASSUME nNodes <= q
          PROVE  SeqLen <= q * LocalSeqLen
      <4>1. CASE nNodes = q
        BY <4>1, <1>1, <1>5, <2>2
      <4>2. CASE nNodes < q
        BY <4>2, <1>1, <1>2, <1>4, <1>5
      <4> QED
        BY <4>1, <4>2, <3>1, <1>1
    <3>2. q * LocalSeqLen <= e /\ e < SeqLen
      BY <1>1, <1>5, <2>1, <2>2
    <3> QED
      BY <1>1, <1>5, <2>2, <3>1, <3>2
  <2>4. q \in Group
    BY <1>1, <2>3
  <2>5. e \in LocalSeq(q)
    BY <1>1, <1>3, <2>1, <2>2, <2>4
  <2> QED
    BY <2>4, <2>5
<1> QED
  BY <1>1, <1>2, <1>3, <1>5, <1>6, <1>8, <1>9

\* The rows that an exchange moves are the first of the slice.
LEMMA SliceRowsSegment ==
  ASSUME Arguments, NEW m \in Group, NEW c \in Nat
  PROVE  /\ \E w \in 0 .. LocalSeqLen : SliceRows(m, c) = m * LocalSeqLen .. m * LocalSeqLen + w - 1
         /\ SliceRows(m, c) \subseteq SliceRows(m, c + 1)
<1>1. LocalSeqLen \in Nat /\ m * LocalSeqLen \in Nat
      /\ LocalSeq(m) = m * LocalSeqLen .. m * LocalSeqLen + LocalSeqLen - 1
  BY ArgumentTypes, LocalSeqs
<1>2. ActiveRows(c) \in Nat /\ ActiveRows(c + 1) \in Nat /\ ActiveRows(c) <= ActiveRows(c + 1)
  <2>1. c + 1 \in Nat
    OBVIOUS
  <2> QED
    BY <2>1, ActiveRowsGrow
<1> DEFINE a == m * LocalSeqLen
<1> DEFINE w == IF ActiveRows(c) <= a THEN 0
                ELSE IF ActiveRows(c) >= a + LocalSeqLen THEN LocalSeqLen ELSE ActiveRows(c) - a
<1>3. a \in Nat /\ LocalSeq(m) = a .. a + LocalSeqLen - 1
  BY <1>1
<1> HIDE DEF a
<1>4. w \in 0 .. LocalSeqLen
  BY <1>1, <1>2, <1>3
<1>5. SliceRows(m, c) = a .. a + w - 1
  BY SMTT(30), <1>1, <1>2, <1>3 DEF SliceRows
<1>6. SliceRows(m, c) \subseteq SliceRows(m, c + 1)
  BY <1>2 DEF SliceRows
<1>7. \E k \in 0 .. LocalSeqLen : SliceRows(m, c) = a .. a + k - 1
  <2> HIDE DEF w
  <2> QED
    BY <1>4, <1>5
<1> QED
  BY <1>6, <1>7 DEF a

-----------------------------------------------------------------------------
(* The frames a node is at.                                                *)

LEMMA RingFrames ==
  ASSUME Arguments
  PROVE  /\ \A c \in Nat \ {0} : /\ RingFrame(c) \in Nat
                                 /\ RingFrame(c + 1) = RingFrame(c) + Steps
         /\ \A c, d \in Nat \ {0} : c < d => RingFrame(c) + Steps <= RingFrame(d)
         /\ \A c, d \in Nat \ {0} : \A s, t \in 0 .. Steps - 1 :
              RingFrame(c) + s = RingFrame(d) + t => c = d /\ s = t
<1>1. Steps \in Nat /\ Steps >= 1
  BY ArgumentTypes
<1>2. ASSUME NEW c \in Nat \ {0}
      PROVE  RingFrame(c) \in Nat /\ RingFrame(c + 1) = RingFrame(c) + Steps
  <2>1. PICK k \in Nat : c = k + 1
    <3> WITNESS c - 1 \in Nat
    <3> QED
      OBVIOUS
  <2>2. k * Steps \in Nat /\ (k + 1) * Steps = k * Steps + Steps
    BY <1>1, Multiples
  <2>3. RingFrame(c) = k * Steps /\ RingFrame(c + 1) = (k + 1) * Steps
    BY <2>1 DEF RingFrame
  <2> QED
    BY <2>2, <2>3
<1>3. ASSUME NEW c \in Nat \ {0}, NEW d \in Nat \ {0}, c < d
      PROVE  RingFrame(c) + Steps <= RingFrame(d)
  <2>1. c - 1 \in Nat /\ d - 1 \in Nat /\ c - 1 < d - 1
    BY <1>3
  <2>2. (c - 1) * Steps + Steps <= (d - 1) * Steps
    BY ONLY <1>1, <2>1, Multiples
  <2> QED
    BY <2>2 DEF RingFrame
<1>4. ASSUME NEW c \in Nat \ {0}, NEW d \in Nat \ {0}, NEW s \in 0 .. Steps - 1, NEW t \in 0 .. Steps - 1,
             RingFrame(c) + s = RingFrame(d) + t
      PROVE  c = d /\ s = t
  <2>1. RingFrame(c) \in Nat /\ RingFrame(d) \in Nat /\ s \in Nat /\ t \in Nat /\ s < Steps /\ t < Steps
    BY <1>1, <1>2
  <2>2. ~(c < d)
    BY <1>1, <1>3, <1>4, <2>1
  <2>3. ~(d < c)
    BY <1>1, <1>3, <1>4, <2>1
  <2>4. c = d
    BY <2>2, <2>3
  <2> QED
    BY <2>1, <2>4, <1>4
<1> QED
  BY <1>2, <1>3, <1>4

LEMMA CountsType ==
  ASSUME Arguments, Phases, NEW i \in Group, NEW j \in Group
  PROVE  Written(i, j) \in Nat /\ Taken(j, i) \in Nat
<1>1. /\ call[i] \in Nat /\ call[j] \in Nat /\ step[i] \in Nat /\ step[j] \in Nat
      /\ pc[i] # "outside" => call[i] >= 1
      /\ pc[j] # "outside" => call[j] >= 1
  BY ArgumentTypes DEF Phases, Shapes, PhaseOf
<1>2. \A n \in {i, j} : Turn(n) \in Nat
  <2> TAKE n \in {i, j}
  <2>1. (IF pc[n] = "outside" THEN call[n] + 1 ELSE call[n]) \in Nat \ {0}
    BY <1>1
  <2>2. RingFrame(IF pc[n] = "outside" THEN call[n] + 1 ELSE call[n]) \in Nat
    BY <2>1, RingFrames
  <2> QED
    BY <1>1, <2>2 DEF Turn
<1>3. Written(i, j) \in Nat
  BY <1>1, <1>2 DEF Written
<1>4. Taken(j, i) \in Nat
  BY <1>1, <1>2 DEF Taken
<1> QED
  BY <1>3, <1>4

\* Where the values a node writes, and those it reads, start in its buffer.
WriteBase(n) == IF Ring THEN SendChunk(n) * (size \div nNodes) ELSE IF Pairs THEN n * LocalSeqLen ELSE 0
ReadBase(n) ==
  IF Ring THEN RecvChunk(n) * (size \div nNodes) ELSE IF Pairs THEN Peer(n) * LocalSeqLen ELSE 0
Most == IF Pairs THEN LocalSeqLen ELSE size

LEMMA WriteRanges ==
  ASSUME Arguments, Phases, NEW n \in Group, pc[n] = "write"
  PROVE  /\ WriteBase(n) \in Nat /\ Cardinality(WriteRange(n)) \in 0 .. Most
         /\ WriteRange(n) = WriteBase(n) .. WriteBase(n) + Cardinality(WriteRange(n)) - 1
         /\ Targets(n) # {}
         /\ \A m \in Targets(n) : /\ m \in Group /\ Linked(n, m)
                                  /\ Cardinality(WriteRange(n)) = Width(n, Written(n, m))
<1>1. /\ call[n] \in Nat /\ call[n] >= 1 /\ step[n] \in Nat /\ ~Skips(call[n])
      /\ Stepwise => step[n] < Steps
      /\ ~Stepwise => IF n = Root THEN RootSends ELSE Star
  BY ArgumentTypes DEF Phases, Shapes, PhaseOf
<1>2. size \in Nat /\ LocalSeqLen \in Nat
  BY ArgumentTypes
<1>3. CASE Ring
  <2>1. SendChunk(n) \in Group
    BY <1>1, RingChunks
  <2>2. Targets(n) = {NextNode(n)} /\ WriteRange(n) = Slice(SendChunk(n))
    BY <1>3 DEF Targets, WriteRange
  <2>3. PICK w \in Nat \ {0} : w = size \div nNodes
    BY <1>3, <2>1, RingSlices
  <2>4. WriteBase(n) = SendChunk(n) * w /\ Slice(SendChunk(n)) = SendChunk(n) * w .. SendChunk(n) * w + w - 1
    BY <1>3, <2>1, <2>3, RingSlices DEF WriteBase
  <2>5. WriteBase(n) \in Nat
    BY <2>1, <2>4, Multiples DEF Group
  <2>6. WriteRange(n) = WriteBase(n) .. WriteBase(n) + w - 1
    BY <2>2, <2>4
  <2>7. Cardinality(WriteRange(n)) = w
    BY <2>5, <2>6, Segment
  <2>8. w <= size
    <3>1. WriteRange(n) \subseteq 0 .. size - 1
      BY <1>3, <2>1, <2>2, RingSlices
    <3>2. IsFiniteSet(0 .. size - 1) /\ Cardinality(0 .. size - 1) = size
      BY <1>2, FS_Interval
    <3> QED
      BY <2>7, <3>1, <3>2, FS_Subset
  <2>9. NextNode(n) \in Group /\ Linked(n, NextNode(n))
    BY <1>3, RingNeighbours DEF Linked
  <2>10. Width(n, Written(n, NextNode(n))) = w
    BY <1>3, <2>3 DEF Width
  <2>11. ~Pairs
    BY <1>3, OneAlgorithm
  <2> QED
    BY <1>2, <2>2, <2>5, <2>6, <2>7, <2>8, <2>9, <2>10, <2>11 DEF Most
<1>4. CASE Pairs
  <2>1. ~Ring /\ Stepwise /\ Steps = nNodes - 1
    BY <1>4, OneAlgorithm DEF Steps
  <2>2. step[n] \in 0 .. nNodes - 2
    BY <1>1, <2>1, ArgumentTypes
  <2>3. Peer(n) \in Group \ {n} /\ StepWith(n, Peer(n)) = step[n]
    BY <2>2, PeersMeet DEF Peer
  <2>4. Targets(n) = {Peer(n)} /\ WriteRange(n) = SliceRows(n, call[n])
    BY <1>4, <2>1 DEF Targets, WriteRange
  <2>5. Written(n, Peer(n)) = call[n] - 1
    BY <1>1, <1>4, <2>1, <2>2, <2>3 DEF Written, Wrote
  <2>6. (call[n] - 1) + 1 = call[n]
    BY <1>1
  <2>7. Width(n, Written(n, Peer(n))) = Cardinality(WriteRange(n))
    BY <1>1, <1>4, <2>1, <2>4, <2>5, <2>6 DEF Width
  <2>8. PICK w \in 0 .. LocalSeqLen : WriteRange(n) = n * LocalSeqLen .. n * LocalSeqLen + w - 1
    BY <1>1, <2>4, SliceRowsSegment
  <2>9. WriteBase(n) = n * LocalSeqLen /\ WriteBase(n) \in Nat
    BY <1>4, <2>1, LocalSeqs DEF WriteBase
  <2>10. WriteRange(n) = WriteBase(n) .. WriteBase(n) + w - 1
    BY <2>8, <2>9
  <2>11. Cardinality(WriteRange(n)) = w
    BY <1>2, <2>9, <2>10, Segment
  <2>12. Linked(n, Peer(n))
    BY <1>4, <2>1, <2>3 DEF Linked
  <2> QED
    BY <1>2, <1>4, <2>3, <2>4, <2>7, <2>9, <2>10, <2>11, <2>12 DEF Most
<1>5. CASE ~Stepwise
  <2>1. ~Ring /\ ~Pairs /\ (Star \/ Broadcast)
    BY <1>5, OneAlgorithm
  <2>2. WriteRange(n) = 0 .. size - 1 /\ WriteBase(n) = 0 /\ Most = size
    BY <2>1 DEF WriteRange, WriteBase, Most
  <2>3. Cardinality(WriteRange(n)) = size
    BY <1>2, <2>2, FS_Interval
  <2>4. \A m : Width(n, Written(n, m)) = size
    BY <2>1 DEF Width
  <2>5. Targets(n) = IF n = Root THEN Group \ {Root} ELSE {Root}
    BY <2>1 DEF Targets
  <2>6. 1 \in Group /\ 1 # Root /\ Root \in Group
    BY ArgumentTypes DEF Group, Root
  <2>7. \A m \in Targets(n) : m \in Group /\ Linked(n, m)
    BY <1>1, <1>5, <2>1, <2>5, <2>6 DEF Linked
  <2>8. Targets(n) # {}
    BY <2>5, <2>6
  <2> QED
    BY <1>2, <2>2, <2>3, <2>4, <2>7, <2>8
<1> QED
  BY <1>3, <1>4, <1>5, OneAlgorithm

LEMMA ReadRanges ==
  ASSUME Arguments, Phases, NEW n \in Group,
         pc[n] \in {"read", "apply"} \/ (Stepwise /\ pc[n] = "write")
  PROVE  /\ ReadBase(n) \in Nat /\ Cardinality(ReadRange(n)) \in Nat
         /\ ReadRange(n) = ReadBase(n) .. ReadBase(n) + Cardinality(ReadRange(n)) - 1
         /\ \A m \in Sources(n) : /\ m \in Group /\ Linked(m, n)
                                  /\ Cardinality(ReadRange(n)) = Width(m, Taken(n, m))
<1>1. /\ call[n] \in Nat /\ call[n] >= 1 /\ step[n] \in Nat /\ ~Skips(call[n])
      /\ Stepwise => step[n] < Steps
      /\ ~Stepwise => IF n = Root THEN Star ELSE RootSends
      /\ pc[n] # "outside"
  BY ArgumentTypes DEF Phases, Shapes, PhaseOf
<1>2. size \in Nat /\ LocalSeqLen \in Nat
  BY ArgumentTypes
<1>3. CASE Ring
  <2>1. RecvChunk(n) \in Group
    BY <1>1, RingChunks
  <2>2. Sources(n) = {PrevNode(n)} /\ ReadRange(n) = Slice(RecvChunk(n))
    BY <1>3 DEF Sources, ReadRange
  <2>3. PICK w \in Nat \ {0} : w = size \div nNodes
    BY <1>3, <2>1, RingSlices
  <2>4. ReadBase(n) = RecvChunk(n) * w /\ Slice(RecvChunk(n)) = RecvChunk(n) * w .. RecvChunk(n) * w + w - 1
    BY <1>3, <2>1, <2>3, RingSlices DEF ReadBase
  <2>5. ReadBase(n) \in Nat
    BY <2>1, <2>4, Multiples DEF Group
  <2>6. ReadRange(n) = ReadBase(n) .. ReadBase(n) + w - 1
    BY <2>2, <2>4
  <2>7. Cardinality(ReadRange(n)) = w
    BY <2>5, <2>6, Segment
  <2>8. PrevNode(n) \in Group /\ Linked(PrevNode(n), n)
    BY <1>3, RingNeighbours DEF Linked
  <2>9. Width(PrevNode(n), Taken(n, PrevNode(n))) = w
    BY <1>3, <2>3 DEF Width
  <2> QED
    BY <2>2, <2>5, <2>6, <2>7, <2>8, <2>9
<1>4. CASE Pairs
  <2>1. ~Ring /\ Stepwise /\ Steps = nNodes - 1
    BY <1>4, OneAlgorithm DEF Steps
  <2>2. step[n] \in 0 .. nNodes - 2
    BY <1>1, <2>1, ArgumentTypes
  <2>3. Peer(n) \in Group \ {n} /\ StepWith(n, Peer(n)) = step[n]
    BY <2>2, PeersMeet DEF Peer
  <2>4. Sources(n) = {Peer(n)} /\ ReadRange(n) = SliceRows(Peer(n), call[n])
    BY <1>4, <2>1 DEF Sources, ReadRange
  <2>5. Taken(n, Peer(n)) = call[n] - 1
    BY <1>1, <1>4, <2>1, <2>2, <2>3 DEF Taken
  <2>6. (call[n] - 1) + 1 = call[n]
    BY <1>1
  <2>7. Width(Peer(n), Taken(n, Peer(n))) = Cardinality(ReadRange(n))
    BY <1>1, <1>4, <2>1, <2>4, <2>5, <2>6 DEF Width
  <2>8. PICK w \in 0 .. LocalSeqLen : ReadRange(n) = Peer(n) * LocalSeqLen .. Peer(n) * LocalSeqLen + w - 1
    BY <1>1, <2>3, <2>4, SliceRowsSegment
  <2>9. ReadBase(n) = Peer(n) * LocalSeqLen /\ ReadBase(n) \in Nat
    BY <1>4, <2>1, <2>3, LocalSeqs DEF ReadBase
  <2>10. ReadRange(n) = ReadBase(n) .. ReadBase(n) + w - 1
    BY <2>8, <2>9
  <2>11. Cardinality(ReadRange(n)) = w
    BY <1>2, <2>9, <2>10, Segment
  <2>12. Linked(Peer(n), n)
    BY <1>4, <2>1, <2>3 DEF Linked
  <2> QED
    BY <1>2, <2>3, <2>4, <2>7, <2>9, <2>10, <2>11, <2>12
<1>5. CASE ~Stepwise
  <2>1. ~Ring /\ ~Pairs /\ (Star \/ Broadcast)
    BY <1>5, OneAlgorithm
  <2>2. ReadRange(n) = 0 .. size - 1 /\ ReadBase(n) = 0
    BY <2>1 DEF ReadRange, ReadBase
  <2>3. Cardinality(ReadRange(n)) = size
    BY <1>2, <2>2, FS_Interval
  <2>4. \A m : Width(m, Taken(n, m)) = size
    BY <2>1 DEF Width
  <2>5. Sources(n) = IF n = Root THEN Group \ {Root} ELSE {Root}
    BY <2>1 DEF Sources
  <2>6. Root \in Group
    BY ArgumentTypes
  <2>7. \A m \in Sources(n) : m \in Group /\ Linked(m, n)
    BY <1>1, <1>5, <2>1, <2>5, <2>6 DEF Linked
  <2> QED
    BY <1>2, <2>2, <2>3, <2>4, <2>7
<1> QED
  BY <1>3, <1>4, <1>5, OneAlgorithm

-----------------------------------------------------------------------------
(* What the steps of a node do to its place in the streams.                *)

LEMMA CountsLocal ==
  ASSUME arguments' = arguments, NEW i, NEW j,
         pc'[i] = pc[i], call'[i] = call[i], step'[i] = step[i]
  PROVE  Written(i, j)' = Written(i, j) /\ Taken(i, j)' = Taken(i, j)
<1> USE ArgumentsKept, StreamsKept
<1>1. Turn(i)' = Turn(i)
  BY DEF Turn
<1>2. Wrote(i) <=> Wrote(i)'
  BY DEF Wrote
<1>3. StepWith(i, j)' = StepWith(i, j)
  BY DEF StepWith
<1>4. Root' = Root
  BY DEF Root
<1> QED
  BY <1>1, <1>2, <1>3, <1>4 DEF Written, Taken

\* The steps change a node at a time.
Elsewhere(n) ==
  \A i \in Group \ {n} : pc'[i] = pc[i] /\ call'[i] = call[i] /\ step'[i] = step[i]

LEMMA FirstCallOf ==
  ASSUME NEW n, NEW s
  PROVE  /\ Ring \/ Pairs => FirstCall(n, s) \in {"write", "read"}
         /\ ~Ring /\ ~Pairs => FirstCall(n, s) = IF n = Root THEN IF Broadcast THEN "write" ELSE "read"
                                               ELSE IF Broadcast THEN "read" ELSE "write"
<1>1. Broadcast \in BOOLEAN /\ (n = Root) \in BOOLEAN
  BY DEF Broadcast
<1>2. CASE Broadcast
  BY <1>2 DEF FirstCall, Broadcast
<1>3. CASE ~Broadcast
  BY <1>3 DEF FirstCall, Broadcast
<1> QED
  BY <1>2, <1>3

LEMMA EnterCounts ==
  ASSUME Arguments, Phases, NEW n \in Group, Enter(n), NEW m \in Group
  PROVE  LET more == IF Skips(call[n] + 1) THEN 1 ELSE 0 IN
         /\ Linked(n, m) => Written(n, m)' = Written(n, m) + more
         /\ Linked(m, n) => Taken(n, m)' = Taken(n, m) + more
<1> USE ArgumentsKept, StreamsKept
<1>1. PICK c \in Nat : c = call[n]
  BY ArgumentTypes DEF Phases, Shapes, PhaseOf
<1>2. /\ pc[n] = "outside" /\ arguments' = arguments
      /\ call'[n] = c + 1 /\ step'[n] = 0
      /\ pc'[n] = IF Skips(c + 1) THEN "outside" ELSE FirstCall(n, 0)
  BY <1>1 DEF Enter, Phases, Shapes, PhaseOf
<1>3. CASE Ring
  <2>1. ~Skips(c + 1)
    BY <1>3, OneAlgorithm DEF Skips
  <2>2. pc'[n] \in {"write", "read"} /\ (pc'[n] = "read" => FirstCall(n, 0) # "write")
    BY <1>2, <1>3, <2>1 DEF FirstCall
  <2>3. ~Wrote(n) /\ ~Wrote(n)'
    BY <1>2, <2>2 DEF Wrote
  <2>4. Turn(n)' = RingFrame(c + 1) + 0 /\ Turn(n) = RingFrame(c + 1) + 0
    BY <1>1, <1>2, <2>2 DEF Turn
  <2>5. RingFrame(c + 1) \in Nat
    BY RingFrames
  <2> QED
    BY <1>1, <1>2, <1>3, <2>1, <2>3, <2>4, <2>5 DEF Written, Taken
<1>4. CASE Pairs
  <2>1. ~Ring
    BY <1>4, OneAlgorithm
  <2>2. \A k \in Group \ {n} : StepWith(n, k) \in Nat /\ StepWith(n, k)' = StepWith(n, k)
    BY <1>2, PeersMeet, ArgumentTypes DEF StepWith
  <2>3. Linked(n, m) \/ Linked(m, n) => m \in Group \ {n}
    BY <1>4, <2>1 DEF Linked
  <2>4. m # n => Written(n, m) = c /\ Taken(n, m) = c
    BY <1>1, <1>2, <1>4, <2>1 DEF Written, Taken
  <2>5. CASE Skips(c + 1)
    <3>1. Written(n, m)' = c + 1 /\ Taken(n, m)' = c + 1
      BY <1>1, <1>2, <1>4, <2>1, <2>5 DEF Written, Taken
    <3> QED
      BY <1>1, <2>3, <2>4, <2>5, <3>1
  <2>6. CASE ~Skips(c + 1)
    <3>1. pc'[n] \in {"write", "read"} /\ (pc'[n] = "read" => FirstCall(n, 0) # "write")
      BY <1>2, <1>4, <2>1, <2>6 DEF FirstCall
    <3>2. ~Wrote(n)'
      BY <1>2, <3>1 DEF Wrote
    <3>3. m # n => Written(n, m)' = c + 1 - 1 /\ Taken(n, m)' = c + 1 - 1
      BY <1>2, <1>4, <2>1, <2>2, <3>1, <3>2 DEF Written, Taken
    <3> QED
      BY <1>1, <2>3, <2>4, <2>6, <3>3
  <2> QED
    BY <2>5, <2>6
<1>5. CASE ~Stepwise
  <2>1. ~Ring /\ ~Pairs /\ ~Skips(c + 1) /\ ~(Star /\ Broadcast)
    BY <1>5, OneAlgorithm DEF Skips
  <2>2. pc'[n] = IF n = Root THEN IF Broadcast THEN "write" ELSE "read"
                 ELSE IF Broadcast THEN "read" ELSE "write"
    BY <1>2, <2>1, FirstCallOf
  <2>3. Root' = Root
    BY DEF Root
  <2>4. /\ Written(n, m) = c
        /\ Taken(n, m) = c
    BY <1>1, <1>2, <2>1 DEF Written, Taken
  <2>5. CASE n = Root
    <3>1. Written(n, m)' = c + 1 - 1
      BY <1>2, <2>1, <2>2, <2>3, <2>5 DEF Written
    <3>2. Linked(m, n) => Star
      BY <2>1, <2>5 DEF Linked, Root
    <3>3. Star => Taken(n, m)' = c + 1 - 1
      BY <1>2, <2>1, <2>2, <2>3, <2>5 DEF Taken
    <3> QED
      BY <1>1, <2>1, <2>4, <3>1, <3>2, <3>3
  <2>6. CASE n # Root
    <3>1. Taken(n, m)' = c + 1 - 1
      BY <1>2, <2>1, <2>2, <2>3, <2>6 DEF Taken
    <3>2. Linked(n, m) => Star
      BY <2>1, <2>6 DEF Linked
    <3>3. Star => Written(n, m)' = c + 1 - 1
      BY <1>2, <2>1, <2>2, <2>3, <2>6 DEF Written
    <3> QED
      BY <1>1, <2>1, <2>4, <3>1, <3>2, <3>3
  <2> QED
    BY <2>5, <2>6
<1> QED
  BY <1>3, <1>4, <1>5, OneAlgorithm

LEMMA WriteCounts ==
  ASSUME Arguments, Phases, NEW n \in Group, NEW m \in Group,
         arguments' = arguments, pc[n] = "write", pc'[n] = AfterWrite(n),
         call'[n] = call[n], step'[n] = step[n]
  PROVE  /\ Linked(n, m) => Written(n, m)' = Written(n, m) + IF m \in Targets(n) THEN 1 ELSE 0
         /\ Linked(m, n) => Taken(n, m)' = Taken(n, m)
<1> USE ArgumentsKept, StreamsKept
<1>1. PICK c \in Nat, s \in Nat : c = call[n] /\ s = step[n]
  BY ArgumentTypes DEF Phases, Shapes, PhaseOf
<1>2. /\ c >= 1 /\ (Stepwise => s < Steps)
      /\ ~Stepwise => IF n = Root THEN RootSends ELSE Star
  BY <1>1 DEF Phases, Shapes, PhaseOf
<1>3. Root' = Root
  BY DEF Root
<1>4. CASE Stepwise
  <2>1. pc'[n] = IF FirstCall(n, s) = "write" THEN "read" ELSE "apply"
    BY <1>1, <1>4 DEF AfterWrite
  <2>2. ~Wrote(n) /\ Wrote(n)'
    BY <1>1, <2>1 DEF Wrote
  <2>3. CASE Ring
    <3>1. Turn(n)' = Turn(n) /\ Turn(n) = RingFrame(c) + s
      BY <1>1, <2>1 DEF Turn
    <3>2. Turn(n) \in Nat
      BY <1>1, <1>2, <3>1, RingFrames
    <3>3. Linked(n, m) => m \in Targets(n)
      BY <2>3 DEF Linked, Targets
    <3> QED
      BY <2>2, <2>3, <3>1, <3>2, <3>3 DEF Written, Taken
  <2>4. CASE Pairs
    <3>1. ~Ring /\ Steps = nNodes - 1
      BY <2>4, OneAlgorithm DEF Steps
    <3>2. s \in 0 .. nNodes - 2
      BY <1>2, <1>4, <3>1, ArgumentTypes
    <3>3. Peer(n) \in Group \ {n} /\ StepWith(n, Peer(n)) = s
      BY <1>1, <3>2, PeersMeet DEF Peer
    <3>4. Linked(n, m) \/ Linked(m, n) => m \in Group \ {n}
      BY <2>4, <3>1 DEF Linked
    <3>5. m # n => StepWith(n, m) \in Nat /\ StepWith(n, m)' = StepWith(n, m)
                   /\ (StepWith(n, m) = s <=> m = Peer(n))
      BY <1>1, <3>3, PeersMeet, ArgumentTypes DEF StepWith, Peer
    <3>6. Targets(n) = {Peer(n)}
      BY <2>4, <3>1 DEF Targets
    <3>7. m # n => Written(n, m) = c - IF StepWith(n, m) < s THEN 0 ELSE 1
      BY <1>1, <2>2, <2>4, <3>1 DEF Written
    <3>8. m # n => Written(n, m)' = c - IF StepWith(n, m) < s \/ StepWith(n, m) = s THEN 0 ELSE 1
      BY <1>1, <2>1, <2>2, <2>4, <3>1, <3>5 DEF Written
    <3>9. m # n => Taken(n, m)' = Taken(n, m)
      BY <1>1, <2>1, <2>4, <3>1, <3>5 DEF Taken
    <3> QED
      BY <1>1, <1>2, <3>4, <3>5, <3>6, <3>7, <3>8, <3>9
  <2> QED
    BY <1>4, <2>3, <2>4, OneAlgorithm
<1>5. CASE ~Stepwise
  <2>1. ~Ring /\ ~Pairs
    BY <1>5, OneAlgorithm
  <2>2. pc'[n] = IF n = Root \/ ~RootSends THEN "outside" ELSE "read"
    BY <1>5 DEF AfterWrite
  <2>3. Targets(n) = IF n = Root THEN Group \ {Root} ELSE {Root}
    BY <2>1 DEF Targets
  <2>4. Linked(n, m) => m \in Targets(n)
    BY <2>1, <2>3 DEF Linked
  <2>5. Written(n, m) = c - 1 /\ Written(n, m)' = c
    BY <1>1, <1>3, <2>1, <2>2 DEF Written
  <2>6. Linked(m, n) => (n = Root \/ RootSends)
    BY <1>2, <1>5, <2>1 DEF Linked
  <2>7. n = Root \/ RootSends => Taken(n, m)' = Taken(n, m)
    BY <1>1, <1>3, <2>1, <2>2 DEF Taken
  <2> QED
    BY <1>1, <1>2, <2>4, <2>5, <2>6, <2>7
<1> QED
  BY <1>4, <1>5

LEMMA ReadCounts ==
  ASSUME Arguments, Phases, NEW n \in Group, NEW m \in Group,
         arguments' = arguments, pc[n] = "read", pc'[n] = AfterRead(n),
         call'[n] = call[n], step'[n] = step[n]
  PROVE  /\ Linked(n, m) => Written(n, m)' = Written(n, m)
         /\ Linked(m, n) => Taken(n, m)' = Taken(n, m)
<1> USE ArgumentsKept, StreamsKept
<1>1. Root' = Root /\ StepWith(n, m)' = StepWith(n, m)
  BY DEF Root, StepWith
<1>2. pc'[n] = IF Stepwise /\ FirstCall(n, step[n]) = "read" THEN "write" ELSE "apply"
  BY DEF AfterRead
<1>3. Ring \/ Pairs => (Wrote(n) <=> Wrote(n)')
  BY <1>2, FirstCallOf, OneAlgorithm DEF Wrote
<1>4. Turn(n)' = Turn(n)
  BY <1>2 DEF Turn
<1>5. CASE Ring
  BY <1>3, <1>4, <1>5 DEF Written, Taken
<1>6. CASE Pairs
  BY <1>1, <1>2, <1>3, <1>6, OneAlgorithm DEF Written, Taken
<1>7. CASE ~Stepwise
  <2>1. ~Ring /\ ~Pairs /\ pc'[n] = "apply"
    BY <1>2, <1>7, OneAlgorithm
  <2> QED
    BY <1>1, <2>1 DEF Written, Taken
<1> QED
  BY <1>5, <1>6, <1>7, OneAlgorithm

LEMMA UseCounts ==
  ASSUME Arguments, Phases, NEW n \in Group, NEW m \in Group,
         arguments' = arguments, pc[n] = "apply", call'[n] = call[n],
         Stepwise => /\ step'[n] = step[n] + 1
                     /\ pc'[n] = IF step[n] + 1 < Steps THEN FirstCall(n, step[n] + 1) ELSE "outside",
         ~Stepwise => /\ step'[n] = step[n]
                      /\ pc'[n] = IF n = Root /\ RootSends THEN "write" ELSE "outside"
  PROVE  /\ Linked(n, m) => Written(n, m)' = Written(n, m)
         /\ Linked(m, n) => Taken(n, m)' = Taken(n, m) + IF m \in Sources(n) THEN 1 ELSE 0
<1> USE ArgumentsKept, StreamsKept
<1>1. PICK c \in Nat, s \in Nat : c = call[n] /\ s = step[n]
  BY ArgumentTypes DEF Phases, Shapes, PhaseOf
<1>2. /\ c >= 1 /\ (Stepwise => s < Steps) /\ Steps \in Nat
      /\ ~Stepwise => IF n = Root THEN Star ELSE RootSends
  BY <1>1, ArgumentTypes DEF Phases, Shapes, PhaseOf
<1>3. Root' = Root /\ StepWith(n, m)' = StepWith(n, m)
  BY DEF Root, StepWith
<1>4. CASE Stepwise
  <2>1. pc'[n] = (IF s + 1 < Steps THEN FirstCall(n, s + 1) ELSE "outside") /\ step'[n] = s + 1
    BY <1>1, <1>4
  <2>2. pc'[n] \in {"write", "read", "outside"} /\ (pc'[n] = "outside" <=> s + 1 = Steps)
        /\ (pc'[n] = "read" => FirstCall(n, s + 1) # "write")
    BY <1>1, <1>2, <1>4, <2>1, FirstCallOf, OneAlgorithm
  <2>3. Wrote(n) /\ ~Wrote(n)'
    BY <2>1, <2>2 DEF Wrote
  <2>4. CASE Ring
    <3>1. Turn(n) = RingFrame(c) + s
      BY <1>1 DEF Turn
    <3>2. RingFrame(c) \in Nat /\ RingFrame(c + 1) = RingFrame(c) + Steps
      <4>1. c \in Nat \ {0}
        BY <1>2
      <4> QED
        BY ONLY <4>1, Arguments, RingFrames
    <3>3. Turn(n)' = RingFrame(c) + s + 1
      <4>1. CASE pc'[n] = "outside"
        <5>1. Turn(n)' = RingFrame(c + 1) + 0
          BY <1>1, <4>1 DEF Turn
        <5> QED
          BY <1>1, <1>2, <2>2, <3>2, <4>1, <5>1
      <4>2. CASE pc'[n] # "outside"
        <5>1. Turn(n)' = RingFrame(c) + (s + 1)
          BY <1>1, <2>1, <4>2 DEF Turn
        <5> QED
          BY <1>1, <3>2, <5>1
      <4> QED
        BY <4>1, <4>2
    <3>4. Linked(m, n) => m \in Sources(n)
      BY <2>4, RingNeighbours DEF Linked, Sources
    <3> QED
      BY <1>1, <2>3, <2>4, <3>1, <3>2, <3>3, <3>4 DEF Written, Taken
  <2>5. CASE Pairs
    <3>1. ~Ring /\ Steps = nNodes - 1
      BY <2>5, OneAlgorithm DEF Steps
    <3>2. s \in 0 .. nNodes - 2
      BY <1>2, <1>4, <3>1, ArgumentTypes
    <3>3. Peer(n) \in Group \ {n} /\ StepWith(n, Peer(n)) = s
      BY <1>1, <3>2, PeersMeet DEF Peer
    <3>4. Linked(n, m) \/ Linked(m, n) => m \in Group \ {n}
      BY <2>5, <3>1 DEF Linked
    <3>5. m # n => StepWith(n, m) \in 0 .. nNodes - 2 /\ (StepWith(n, m) = s <=> m = Peer(n))
      <4>1. m # n => StepWith(n, m) \in 0 .. nNodes - 2 /\ PeerAt(n, StepWith(n, m)) = m
        BY ONLY Arguments, n \in Group, m \in Group, PeersMeet
      <4>2. Peer(n) = PeerAt(n, s)
        BY <1>1 DEF Peer
      <4> QED
        BY ONLY <3>3, <4>1, <4>2
    <3>6. Sources(n) = {Peer(n)}
      BY <2>5, <3>1 DEF Sources
    <3>7. m # n => /\ Written(n, m) = c - IF StepWith(n, m) < s \/ StepWith(n, m) = s THEN 0 ELSE 1
                   /\ Taken(n, m) = c - IF StepWith(n, m) < s THEN 0 ELSE 1
      BY <1>1, <2>3, <2>5, <3>1 DEF Written, Taken
    <3>8. m # n => /\ Written(n, m)' = c - IF pc'[n] = "outside" \/ StepWith(n, m) < s + 1 THEN 0 ELSE 1
                   /\ Taken(n, m)' = c - IF pc'[n] = "outside" \/ StepWith(n, m) < s + 1 THEN 0 ELSE 1
      BY <1>1, <1>3, <2>1, <2>3, <2>5, <3>1 DEF Written, Taken
    <3>9. m # n => (pc'[n] = "outside" => StepWith(n, m) < s + 1)
      <4>1. pc'[n] = "outside" => s = nNodes - 2
        BY <1>1, <1>2, <2>2, <3>1, ArgumentTypes
      <4> QED
        BY ONLY <4>1, <3>5, Arguments, ArgumentTypes
    <3>10. m # n => (StepWith(n, m) < s + 1 <=> StepWith(n, m) < s \/ StepWith(n, m) = s)
      BY <3>2, <3>5
    <3> QED
      BY <1>1, <1>2, <3>2, <3>4, <3>5, <3>6, <3>7, <3>8, <3>9, <3>10
  <2> QED
    BY <1>4, <2>4, <2>5, OneAlgorithm
<1>5. CASE ~Stepwise
  <2>1. ~Ring /\ ~Pairs
    BY <1>5, OneAlgorithm
  <2>2. pc'[n] = IF n = Root /\ RootSends THEN "write" ELSE "outside"
    BY <1>5
  <2>3. Sources(n) = IF n = Root THEN Group \ {Root} ELSE {Root}
    BY <2>1 DEF Sources
  <2>4. Linked(m, n) => m \in Sources(n)
    BY <2>1, <2>3 DEF Linked
  <2>5. Taken(n, m) = c - 1 /\ Taken(n, m)' = c
    BY <1>1, <1>3, <2>1, <2>2 DEF Taken
  <2>6. Linked(n, m) => (n = Root => RootSends)
    BY <2>1 DEF Linked
  <2>7. (n = Root => RootSends) => Written(n, m)' = Written(n, m)
    BY <1>1, <1>3, <2>1, <2>2 DEF Written
  <2> QED
    BY <1>1, <1>2, <2>4, <2>5, <2>6, <2>7
<1> QED
  BY <1>4, <1>5

-----------------------------------------------------------------------------
(* Writing.                                                                *)

\* What a node writes is what its frame is meant to be.
LEMMA WritesMeant ==
  ASSUME IInv, NEW n \in Group, pc[n] = "write", NEW m \in Targets(n),
         NEW o \in 0 .. Cardinality(WriteRange(n)) - 1
  PROVE  Meant(n, Written(n, m), o, buffer[n][WriteBase(n) + o])
<1> Arguments /\ Phases /\ RowOf(n) /\ SlicesOf(n) /\ KeyValuesOf(n)
  BY DEF IInv, NodeInv, Phases
<1>1. PICK c \in Nat, s \in Nat : c = call[n] /\ s = step[n] /\ c >= 1
  BY ArgumentTypes DEF Phases, Shapes, PhaseOf
<1>2. /\ c \in 1 .. MaxCalls /\ (Stepwise => s < Steps) /\ Steps \in Nat
      /\ ~Skips(c)
      /\ ~Stepwise => IF n = Root THEN RootSends ELSE Star
  BY <1>1, ArgumentTypes DEF Phases, Shapes, PhaseOf
<1>3. /\ WriteBase(n) \in Nat
      /\ WriteRange(n) = WriteBase(n) .. WriteBase(n) + Cardinality(WriteRange(n)) - 1
      /\ m \in Group /\ Linked(n, m)
  BY WriteRanges
<1>4. PICK e \in Nat : e = WriteBase(n) + o /\ e \in WriteRange(n)
  <2>1. Cardinality(WriteRange(n)) \in Nat
    BY WriteRanges
  <2> QED
    BY <1>3, <2>1
<1>5. ~Wrote(n)
  BY DEF Wrote
<1>6. CASE Ring
  <2>1. SendChunk(n) \in Group /\ e \in Slice(SendChunk(n)) /\ e \in 0 .. size - 1
    <3>1. SendChunk(n) \in Group
      BY <1>1, RingChunks
    <3>2. e \in Slice(SendChunk(n))
      BY <1>4, <1>6 DEF WriteRange
    <3> QED
      BY <1>6, <3>1, <3>2, RingSlices
  <2>2. buffer[n][e] \in Values
    BY <1>6, <2>1 DEF SlicesOf
  <2>3. Written(n, m) = RingFrame(c) + s
    <3>1. Turn(n) = RingFrame(c) + s
      BY <1>1 DEF Turn
    <3>2. c \in Nat \ {0}
      BY <1>1
    <3>3. RingFrame(c) \in Nat
      BY <3>2, RingFrames
    <3> QED
      BY <1>1, <1>5, <1>6, <3>1, <3>3 DEF Written
  <2>4. ASSUME NEW d \in 1 .. MaxCalls, NEW t \in 0 .. nNodes - 2,
               RingFrame(c) + s = RingFrame(d) + t
        PROVE  buffer[n][e] = SetToBag(Arc(n, t) \X {d})
    <3>1. Steps = 2 * (nNodes - 1) /\ Stepwise
      BY <1>6, OneAlgorithm DEF Steps
    <3>2. s \in 0 .. Steps - 1 /\ t \in 0 .. Steps - 1 /\ c \in Nat \ {0} /\ d \in Nat \ {0}
      BY <1>1, <1>2, <3>1, ArgumentTypes
    <3>3. c = d /\ s = t
      BY <2>4, <3>2, RingFrames
    <3>4. s < nNodes - 1 /\ s <= nNodes - 1
      BY <3>3, ArgumentTypes
    <3>5. Behind(n, SendChunk(n)) = s
      BY <1>1, <3>4, RingChunks
    <3>6. buffer[n][e] = SetToBag(Arc(n, s) \X {c})
      BY <1>1, <1>6, <2>1, <3>4, <3>5 DEF SlicesOf
    <3> QED
      BY <3>3, <3>6
  <2>5. ~Pairs /\ ~Star /\ ~Broadcast
    BY <1>6, OneAlgorithm
  <2> QED
    BY <1>4, <2>2, <2>3, <2>4, <2>5 DEF Meant
<1>7. CASE Pairs
  <2>1. ~Ring /\ ~Star /\ ~Broadcast
    BY <1>7, OneAlgorithm
  <2>2. e \in SliceRows(n, c) /\ e = n * LocalSeqLen + o
    BY <1>1, <1>4, <1>7, <2>1 DEF WriteRange, WriteBase
  <2>3. e \in 0 .. SeqLen - 1
    BY <2>2, LocalSeqs DEF SliceRows
  <2>4. buffer[n][e] \in Values /\ IsRow(n, e, c, buffer[n][e])
    BY <1>1, <1>7, <2>2, <2>3 DEF KeyValuesOf
  <2>5. Written(n, m) + 1 = c
    <3>1. Stepwise /\ Steps = nNodes - 1
      BY <1>7, <2>1, OneAlgorithm DEF Steps
    <3>2. s \in 0 .. nNodes - 2
      BY <1>1, <1>2, <3>1, ArgumentTypes
    <3>3. m = Peer(n) /\ StepWith(n, m) = s
      BY <1>1, <1>7, <2>1, <3>2, PeersMeet DEF Peer, Targets
    <3>4. Written(n, m) = c - 1
      BY <1>1, <1>5, <1>7, <2>1, <3>3 DEF Written
    <3> QED
      BY <1>1, <3>4
  <2> QED
    BY <1>4, <1>7, <2>1, <2>2, <2>4, <2>5 DEF Meant
<1>8. CASE ~Stepwise
  <2>1. ~Ring /\ ~Pairs /\ (Star \/ Broadcast) /\ ~(Star /\ Broadcast)
    BY <1>8, OneAlgorithm
  <2>2. e \in 0 .. size - 1
    BY <1>4, <2>1 DEF WriteRange
  <2>3. buffer[n][e] \in Values
    BY <1>8, <2>2 DEF RowOf
  <2>4. Written(n, m) + 1 = c
    <3>1. Written(n, m) = c - 1
      BY <1>1, <2>1 DEF Written
    <3> QED
      BY <1>1, <3>1
  <2>5. CASE Star /\ n # Root
    <3>1. buffer[n][e] = SetToBag({<<n, c>>})
      BY <1>1, <1>8, <2>2, <2>5 DEF RowOf
    <3> QED
      BY <1>4, <2>1, <2>3, <2>4, <2>5, <3>1 DEF Meant
  <2>6. CASE Star /\ n = Root
    <3>1. buffer[n][e] = Sum(c)
      BY <1>1, <1>8, <2>2, <2>6 DEF RowOf
    <3> QED
      BY <1>4, <2>1, <2>3, <2>4, <2>6, <3>1 DEF Meant
  <2>7. CASE Broadcast
    <3>1. n = Root
      BY <1>2, <1>8, <2>1, <2>7
    <3>2. call[n] > 0
      BY <1>1
    <3>3. buffer[n][e] = SetToBag({<<Root, call[n]>>})
      BY <1>8, <2>2, <2>7, <3>1, <3>2 DEF RowOf
    <3> QED
      BY <1>1, <1>4, <2>1, <2>3, <2>4, <2>7, <3>1, <3>3 DEF Meant
  <2> QED
    BY <2>1, <2>5, <2>6, <2>7
<1> QED
  BY <1>6, <1>7, <1>8, OneAlgorithm

-----------------------------------------------------------------------------
(* A step of one node leaves the others as they are.                       *)

LEMMA RangesLocal ==
  ASSUME arguments' = arguments, NEW i, call'[i] = call[i], step'[i] = step[i]
  PROVE  /\ Targets(i)' = Targets(i) /\ Sources(i)' = Sources(i) /\ Peer(i)' = Peer(i)
         /\ WriteRange(i)' = WriteRange(i) /\ ReadRange(i)' = ReadRange(i)
         /\ ReadBase(i)' = ReadBase(i)
<1> USE ArgumentsKept
<1>1. Root' = Root
  BY DEF Root
<1>2. Peer(i)' = Peer(i)
  BY DEF Peer
<1>3. Targets(i)' = Targets(i) /\ Sources(i)' = Sources(i)
  BY <1>1, <1>2 DEF Targets, Sources
<1>4. LoopStep(i)' = LoopStep(i)
  BY DEF LoopStep
<1>5. SendChunk(i)' = SendChunk(i) /\ RecvChunk(i)' = RecvChunk(i)
  BY <1>4 DEF SendChunk, RecvChunk
<1>6. WriteRange(i)' = WriteRange(i) /\ ReadRange(i)' = ReadRange(i)
  BY <1>2, <1>5 DEF WriteRange, ReadRange
<1>7. ReadBase(i)' = ReadBase(i)
  BY <1>2, <1>5 DEF ReadBase
<1> QED
  BY <1>2, <1>3, <1>6, <1>7

LEMMA PhaseLocal ==
  ASSUME arguments' = arguments, NEW i, pc'[i] = pc[i], call'[i] = call[i], step'[i] = step[i]
  PROVE  (PhaseOf(i) <=> PhaseOf(i)') /\ (HasRead(i) <=> HasRead(i)')
<1> USE ArgumentsKept
<1>1. Root' = Root
  BY DEF Root
<1> QED
  BY <1>1 DEF PhaseOf, HasRead

LEMMA SentLocal ==
  ASSUME arguments' = arguments, NEW i, pc'[i] = pc[i], call'[i] = call[i], step'[i] = step[i],
         sent'[i] = sent[i]
  PROVE  SentOf(i) <=> SentOf(i)'
BY ArgumentsKept, RangesLocal DEF SentOf

LEMMA GotLocal ==
  ASSUME arguments' = arguments, NEW i, pc'[i] = pc[i], call'[i] = call[i], step'[i] = step[i],
         got'[i] = got[i]
  PROVE  GotOf(i) <=> GotOf(i)'
BY ArgumentsKept, RangesLocal, PhaseLocal DEF GotOf

LEMMA RowLocal ==
  ASSUME arguments' = arguments, NEW i, pc'[i] = pc[i], call'[i] = call[i], buffer'[i] = buffer[i]
  PROVE  RowOf(i) <=> RowOf(i)'
<1>1. Root' = Root /\ (Returned(i) <=> Returned(i)')
  BY DEF Root, Returned
<1> QED
  BY <1>1, ArgumentsKept, StreamsKept DEF RowOf

LEMMA SlicesLocal ==
  ASSUME arguments' = arguments, NEW i, pc'[i] = pc[i], call'[i] = call[i], step'[i] = step[i],
         buffer'[i] = buffer[i]
  PROVE  SlicesOf(i) <=> SlicesOf(i)'
BY ArgumentsKept, StreamsKept DEF SlicesOf

LEMMA KeyValuesLocal ==
  ASSUME arguments' = arguments, NEW i, pc'[i] = pc[i], call'[i] = call[i], step'[i] = step[i],
         buffer'[i] = buffer[i], missing'[i] = missing[i]
  PROVE  KeyValuesOf(i) <=> KeyValuesOf(i)'
<1>1. \A m : StepWith(i, m)' = StepWith(i, m)
  BY DEF StepWith
<1> QED
  BY <1>1, ArgumentsKept, StreamsKept DEF KeyValuesOf

LEMMA NodeLocal ==
  ASSUME arguments' = arguments, NEW i, pc'[i] = pc[i], call'[i] = call[i], step'[i] = step[i],
         sent'[i] = sent[i], got'[i] = got[i], buffer'[i] = buffer[i], missing'[i] = missing[i],
         NodeInv(i)
  PROVE  NodeInv(i)'
BY ArgumentsKept, PhaseLocal, SentLocal, GotLocal, RowLocal, SlicesLocal, KeyValuesLocal DEF NodeInv

\* A stream whose socket, writer and reader are left alone.
LEMMA StreamLocal ==
  ASSUME arguments' = arguments, NEW i, NEW j, chan'[<<i, j>>] = chan[<<i, j>>],
         sent'[i][j] = sent[i][j], got'[j][i] = got[j][i],
         Linked(i, j) => Written(i, j)' = Written(i, j),
         Linked(i, j) => Taken(j, i)' = Taken(j, i),
         StreamOf(i, j)
  PROVE  StreamOf(i, j)'
<1>1. Linked(i, j) <=> Linked(i, j)'
  BY StreamsKept
<1>2. CASE Linked(i, j)
  <2>1. Stream(i, chan[<<i, j>>], Written(i, j), sent[i][j], Taken(j, i), got[j][i])
        /\ Len(chan[<<i, j>>]) <= SocketCapacity
    BY <1>2 DEF StreamOf
  <2> DEFINE q == chan[<<i, j>>]  fw == Written(i, j)  sn == sent[i][j]  fr == Taken(j, i)  g == got[j][i]
  <2>2. PICK q0, fw0, sn0, fr0, g0 : q0 = q /\ fw0 = fw /\ sn0 = sn /\ fr0 = fr /\ g0 = g
    OBVIOUS
  <2>3. Stream(i, q0, fw0, sn0, fr0, g0) /\ Len(q0) <= SocketCapacity
    BY <2>1, <2>2
  <2>4. Stream(i, q0, fw0, sn0, fr0, g0)'
    BY <2>3, StreamsKept
  <2>5. q0 = q' /\ fw0 = fw' /\ sn0 = sn' /\ fr0 = fr' /\ g0 = g'
    BY <1>2, <2>2
  <2> QED
    BY <1>1, <1>2, <2>3, <2>4, <2>5 DEF StreamOf
<1>3. CASE ~Linked(i, j)
  BY <1>1, <1>3 DEF StreamOf
<1> QED
  BY <1>2, <1>3

\* A stream that a step has changed.
LEMMA StreamSet ==
  ASSUME arguments' = arguments, NEW i, NEW j, NEW q, NEW fw, NEW sn, NEW fr, NEW g,
         chan'[<<i, j>>] = q, sent'[i][j] = sn, got'[j][i] = g,
         Written(i, j)' = fw, Taken(j, i)' = fr, Linked(i, j),
         Stream(i, q, fw, sn, fr, g), Len(q) <= SocketCapacity
  PROVE  StreamOf(i, j)'
<1>1. Linked(i, j)' /\ Stream(i, q, fw, sn, fr, g)'
  BY StreamsKept
<1> QED
  BY <1>1 DEF StreamOf

LEMMA NotSelf ==
  ASSUME Arguments, NEW i \in Group, NEW j \in Group, Linked(i, j)
  PROVE  i # j
BY RingNeighbours DEF Linked

\* The node whose writeMany is done goes on with empty hands.
LEMMA NodeAfterWrite ==
  ASSUME Arguments, Phases, NEW n \in Group, NodeInv(n), arguments' = arguments,
         pc[n] = "write", pc'[n] = AfterWrite(n), call'[n] = call[n], step'[n] = step[n],
         \A t \in Group : sent'[n][t] = 0,
         got'[n] = got[n], buffer'[n] = buffer[n], missing'[n] = missing[n]
  PROVE  NodeInv(n)'
<1> USE ArgumentsKept
<1> DEFINE q == pc'[n]
<1>1. /\ SentOf(n) /\ GotOf(n) /\ PhaseOf(n) /\ RowOf(n) /\ SlicesOf(n) /\ KeyValuesOf(n)
      /\ ~Pairs => missing[n] = {}
  BY DEF NodeInv
<1>2. AfterWrite(n) = IF Stepwise THEN IF FirstCall(n, step[n]) = "write" THEN "read" ELSE "apply"
                      ELSE IF n = Root \/ ~RootSends THEN "outside" ELSE "read"
  BY DEF AfterWrite
<1>3. PhaseOf(n)'
  <2>1. /\ call[n] >= 1 /\ ~Skips(call[n]) /\ (Stepwise => step[n] < Steps)
        /\ Pairs => ActiveRows(call[n]) <= SeqLen
        /\ ~Stepwise => IF n = Root THEN RootSends ELSE Star
    BY <1>1 DEF PhaseOf
  <2>2. Root' = Root
    BY DEF Root
  <2>3. ~Stepwise /\ q \in {"read", "apply"} => n # Root /\ RootSends
    BY <1>2
  <2>4. ~(~Stepwise /\ q = "write")
    BY <1>2
  <2> QED
    BY <2>1, <2>2, <2>3, <2>4 DEF PhaseOf
<1>4. SentOf(n)'
  <2>1. Targets(n)' = Targets(n)
    BY RangesLocal
  <2>2. q # "write"
    BY <1>2
  <2> QED
    BY <2>1, <2>2 DEF SentOf
<1>5. GotOf(n)'
  <2>1. Sources(n)' = Sources(n) /\ ReadRange(n)' = ReadRange(n)
    BY RangesLocal
  <2>2. CASE Stepwise /\ FirstCall(n, step[n]) = "read"
    <3>1. q = "apply"
      BY <1>2, <2>2
    <3>2. HasRead(n) /\ HasRead(n)'
      BY <2>2, <3>1 DEF HasRead
    <3> QED
      BY <1>1, <2>1, <3>2 DEF GotOf
  <2>3. CASE ~(Stepwise /\ FirstCall(n, step[n]) = "read")
    <3>1. \A t \in Group : got[n][t] = <<>>
      BY <1>1, <2>3 DEF GotOf, HasRead
    <3>2. q # "apply" /\ q # "write"
      BY <1>2, <2>3, FirstCallOf, OneAlgorithm
    <3>3. ~HasRead(n)'
      BY <2>3, <3>2 DEF HasRead
    <3>4. q = "read" => Cardinality(ReadRange(n)) \in Nat
      <4>1. CASE Stepwise
        BY <4>1, ReadRanges
      <4>2. CASE ~Stepwise
        <5>1. ReadRange(n) = 0 .. size - 1 /\ size \in Nat
          BY <4>2, OneAlgorithm, ArgumentTypes DEF ReadRange
        <5>2. Cardinality(0 .. size - 1) = size
          BY ONLY <5>1, FS_Interval
        <5> QED
          BY ONLY <5>1, <5>2
      <4> QED
        BY <4>1, <4>2
    <3>5. Len(<<>>) = 0
      OBVIOUS
    <3> QED
      BY <2>1, <3>1, <3>2, <3>3, <3>4, <3>5 DEF GotOf
  <2> QED
    BY <2>2, <2>3
<1>6. RowOf(n)'
  <2>1. CASE Stepwise
    BY <2>1 DEF RowOf
  <2>2. CASE ~Stepwise
    <3>1. q = IF n = Root \/ ~RootSends THEN "outside" ELSE "read"
      BY <1>2, <2>2
    <3>2. call[n] > 0
      BY <1>1, ArgumentTypes DEF PhaseOf, Phases, Shapes
    <3>3. /\ buffer[n] \in [0 .. size - 1 -> Values]
          /\ \A e \in 0 .. size - 1 :
               /\ Star /\ n = Root => buffer[n][e] = Sum(call[n])
               /\ Broadcast /\ n = Root => buffer[n][e] = SetToBag({<<Root, call[n]>>})
      BY <1>1, <2>2, <3>2 DEF RowOf
    <3>4. n # Root => q = "read" \/ ~RootSends
      BY <3>1
    <3>5. Broadcast => RootSends
      BY OneAlgorithm
    <3>6. Root' = Root
      BY DEF Root
    <3> QED
      BY <3>1, <3>3, <3>4, <3>5, <3>6, StreamsKept DEF RowOf, Returned
  <2> QED
    BY <2>1, <2>2
<1>7. SlicesOf(n)'
  <2>1. CASE Ring
    BY <1>1, StreamsKept DEF SlicesOf
  <2>2. CASE ~Ring
    BY <2>2 DEF SlicesOf
  <2> QED
    BY <2>1, <2>2
<1>8. KeyValuesOf(n)'
  <2>1. CASE Pairs
    <3>1. q # "outside"
      BY <1>2, <2>1, OneAlgorithm
    <3>2. \A k : StepWith(n, k)' = StepWith(n, k)
      BY DEF StepWith
    <3> QED
      BY <1>1, <2>1, <3>1, <3>2, StreamsKept DEF KeyValuesOf
  <2>2. CASE ~Pairs
    BY <2>2 DEF KeyValuesOf
  <2> QED
    BY <2>1, <2>2
<1> QED
  BY <1>1, <1>3, <1>4, <1>5, <1>6, <1>7, <1>8 DEF NodeInv

LEMMA WriteKeeps ==
  ASSUME IInv, NEW n \in Group, Write(n)
  PROVE  IInv'
<1>1. /\ Arguments /\ Phases /\ Shapes
      /\ \A i \in Group : NodeInv(i)
      /\ \A i, j \in Group : StreamOf(i, j)
  BY DEF IInv, NodeInv, Phases
<1>2. pc[n] = "write" /\ arguments' = arguments /\ UNCHANGED <<call, step, buffer, got, missing>>
  BY DEF Write
<1>3. PICK m \in Targets(n) :
        /\ sent[n][m] < Cardinality(WriteRange(n))
        /\ Len(chan[<<n, m>>]) < SocketCapacity
        /\ chan' = [chan EXCEPT ![<<n, m>>] =
                      Append(@, buffer[n][Lowest(WriteRange(n)) + sent[n][m]])]
        /\ LET now  == [sent[n] EXCEPT ![m] = @ + 1]
               done == \A t \in Targets(n) : now[t] = Cardinality(WriteRange(n))
           IN  /\ sent' = [sent EXCEPT ![n] = IF done THEN [t \in Group |-> 0] ELSE now]
               /\ pc' = [pc EXCEPT ![n] = IF done THEN AfterWrite(n) ELSE @]
  BY DEF Write
<1> DEFINE w   == Cardinality(WriteRange(n))
           now == [sent[n] EXCEPT ![m] = @ + 1]
           done == \A t \in Targets(n) : now[t] = w
<1>4. /\ sent' = [sent EXCEPT ![n] = IF done THEN [t \in Group |-> 0] ELSE now]
      /\ pc' = [pc EXCEPT ![n] = IF done THEN AfterWrite(n) ELSE @]
  BY <1>3
<1>5. /\ WriteBase(n) \in Nat /\ w \in Nat
      /\ WriteRange(n) = WriteBase(n) .. WriteBase(n) + w - 1
      /\ \A t \in Targets(n) : t \in Group /\ Linked(n, t) /\ w = Width(n, Written(n, t))
  <2>1. w \in Nat
    BY <1>1, <1>2, WriteRanges, ArgumentTypes DEF Most
  <2> QED
    BY <2>1, <1>1, <1>2, WriteRanges
<1>6. m \in Group
  BY <1>5
<1>7. /\ SentOf(n) /\ GotOf(n) /\ PhaseOf(n) /\ RowOf(n) /\ SlicesOf(n) /\ KeyValuesOf(n)
      /\ ~Pairs => missing[n] = {}
  BY <1>1 DEF NodeInv
<1>8. \A t \in Group : sent[n][t] \in Nat /\ sent[n][t] <= w /\ (t \notin Targets(n) => sent[n][t] = 0)
  BY SMTT(30), <1>1, <1>2, <1>5, <1>7 DEF SentOf, Shapes
<1>9. /\ \A t \in Group : now[t] = IF t = m THEN sent[n][m] + 1 ELSE sent[n][t]
      /\ now \in [Group -> Nat]
  BY <1>1, <1>6, <1>8 DEF Shapes
<1>10. \A t \in Group : now[t] <= w /\ (t \notin Targets(n) => now[t] = 0)
  BY <1>3, <1>5, <1>8, <1>9
<1> HIDE DEF w, now
<1>11. Shapes' /\ Elsewhere(n)
  <2>1. AfterWrite(n) \in {"outside", "write", "read", "apply"}
    BY DEF AfterWrite
  <2>2. sent' \in [Group -> [Group -> Nat]]
    <3>1. (IF done THEN [t \in Group |-> 0] ELSE now) \in [Group -> Nat]
      BY <1>9
    <3> HIDE DEF done
    <3> QED
      BY <1>1, <1>4, <3>1 DEF Shapes
  <2>3. pc' \in [Group -> {"outside", "write", "read", "apply"}]
    <3> HIDE DEF done
    <3> QED
      BY <1>1, <1>4, <2>1 DEF Shapes
  <2>4. DOMAIN chan' = Group \X Group
    BY <1>1, <1>3 DEF Shapes
  <2>5. Group' = Group /\ Steps' = Steps
    BY <1>2, ArgumentsKept
  <2>6. Elsewhere(n)
    BY <1>1, <1>2, <1>4 DEF Elsewhere, Shapes
  <2> QED
    BY <1>1, <1>2, <2>2, <2>3, <2>4, <2>5, <2>6 DEF Shapes
<1>12. /\ pc'[n] = (IF done THEN AfterWrite(n) ELSE "write")
       /\ sent'[n] = (IF done THEN [t \in Group |-> 0] ELSE now)
       /\ \A i \in Group \ {n} : sent'[i] = sent[i]
  <2> HIDE DEF done
  <2> QED
    BY <1>1, <1>2, <1>4 DEF Shapes
<1>13. call'[n] = call[n] /\ step'[n] = step[n] /\ got'[n] = got[n] /\ buffer'[n] = buffer[n]
       /\ missing'[n] = missing[n]
  BY <1>2
<1>14. NodeInv(n)'
  <2>1. CASE done
    <3>1. pc'[n] = AfterWrite(n) /\ \A t \in Group : sent'[n][t] = 0
      BY <2>1, <1>12
    <3> QED
      BY <1>1, <1>2, <1>13, <3>1, NodeAfterWrite
  <2>2. CASE ~done
    <3>1. pc'[n] = pc[n] /\ sent'[n] = now
      BY <2>2, <1>2, <1>12
    <3>2. SentOf(n)'
      <4>1. Targets(n)' = Targets(n) /\ WriteRange(n)' = WriteRange(n) /\ Group' = Group
        BY <1>2, <1>13, RangesLocal, ArgumentsKept
      <4> QED
        BY <1>2, <1>10, <3>1, <4>1 DEF SentOf, w
    <3> QED
      BY <1>2, <1>7, <1>13, <3>1, <3>2, ArgumentsKept, PhaseLocal, GotLocal, RowLocal, SlicesLocal,
         KeyValuesLocal DEF NodeInv
  <2> QED
    BY <2>1, <2>2
<1>15. \A i \in Group \ {n} : \A j : Written(i, j)' = Written(i, j) /\ Taken(i, j)' = Taken(i, j)
  BY <1>2, <1>11, CountsLocal DEF Elsewhere
<1>16. ASSUME NEW j \in Group
       PROVE  /\ Linked(n, j) => Written(n, j)' = Written(n, j) + IF done /\ j \in Targets(n) THEN 1 ELSE 0
              /\ Linked(j, n) => Taken(n, j)' = Taken(n, j)
  <2>1. CASE done
    <3>1. pc'[n] = AfterWrite(n)
      BY <2>1, <1>12
    <3> QED
      BY <1>1, <1>2, <1>13, <2>1, <3>1, WriteCounts
  <2>2. CASE ~done
    <3>1. pc'[n] = pc[n]
      BY <2>2, <1>2, <1>12
    <3>2. Written(n, j)' = Written(n, j) /\ Taken(n, j)' = Taken(n, j)
      BY <1>2, <1>13, <3>1, CountsLocal
    <3>3. Written(n, j) \in Nat
      BY <1>1, CountsType
    <3> QED
      BY <2>2, <3>2, <3>3
  <2> QED
    BY <2>1, <2>2
<1>17. \A c \in Group \X Group : c # <<n, m>> => chan'[c] = chan[c]
  BY <1>1, <1>3 DEF Shapes
<1>18. ASSUME NEW j \in Group
       PROVE  StreamOf(n, j)'
  <2>1. CASE ~Linked(n, j)
    <3>1. <<n, j>> # <<n, m>>
      BY <1>5, <2>1
    <3>2. chan'[<<n, j>>] = <<>>
      BY <1>1, <1>17, <2>1, <3>1 DEF StreamOf
    <3> QED
      BY <1>2, <2>1, <3>2, StreamsKept DEF StreamOf
  <2>2. CASE Linked(n, j)
    <3>1. n # j
      BY <1>1, <2>2, NotSelf
    <3>2. /\ Stream(n, chan[<<n, j>>], Written(n, j), sent[n][j], Taken(j, n), got[j][n])
          /\ Len(chan[<<n, j>>]) <= SocketCapacity
      BY <1>1, <2>2 DEF StreamOf
    <3>3. Written(n, j) \in Nat /\ Taken(j, n) \in Nat /\ sent[n][j] \in Nat
      BY <1>1, <1>8, CountsType
    <3>4. PICK fw, fr, sn, q, g :
            /\ fw \in Nat /\ fr \in Nat /\ sn \in Nat
            /\ fw = Written(n, j) /\ fr = Taken(j, n) /\ sn = sent[n][j]
            /\ q = chan[<<n, j>>] /\ g = got[j][n]
      BY <3>3
    <3>5. Stream(n, q, fw, sn, fr, g) /\ Len(q) <= SocketCapacity
      BY <3>2, <3>4
    <3>6. /\ got'[j][n] = g /\ Taken(j, n)' = fr
          /\ Written(n, j)' = fw + IF done /\ j \in Targets(n) THEN 1 ELSE 0
      BY <1>2, <1>15, <1>16, <2>2, <3>1, <3>4
    <3>7. PICK q1 : /\ chan'[<<n, j>>] = q1 /\ Len(q1) <= SocketCapacity
                    /\ Stream(n, q1, fw, now[j], fr, g)
      <4>1. CASE j = m
        <5>1. PICK v1 : v1 = buffer[n][WriteBase(n) + sent[n][m]]
          OBVIOUS
        <5>2. sn < w /\ Len(q) < SocketCapacity /\ sn \in 0 .. w - 1
          BY <1>3, <1>5, <3>4, <4>1 DEF w
        <5>3. Lowest(WriteRange(n)) = WriteBase(n)
          BY <1>5, <5>2, Segment
        <5>4. chan'[<<n, j>>] = Append(q, v1)
          BY <1>1, <1>3, <3>4, <4>1, <5>1, <5>3 DEF Shapes
        <5>5. Meant(n, fw, sn, v1)
          BY <1>2, <3>4, <4>1, <5>1, <5>2, WritesMeant DEF w
        <5>6. w = Width(n, fw)
          BY <1>5, <3>4, <4>1
        <5>7. Stream(n, Append(q, v1), fw, sn + 1, fr, g)
          BY <3>4, <1>1, <3>5, <5>2, <5>5, <5>6, StreamAppend
        <5>8. Len(Append(q, v1)) = Len(q) + 1 /\ Len(q) \in Nat
          <6>1. q \in Seq(Values)
            BY <3>5 DEF Stream
          <6>2. v1 \in Values
            BY <5>5 DEF Meant
          <6>3. Len(q) \in Nat
            BY <6>1
          <6>4. Len(Append(q, v1)) = Len(q) + 1
            BY <6>1, <6>2, AppendProperties
          <6> QED
            BY <6>3, <6>4
        <5>9. now[j] = sn + 1
          BY <1>9, <3>4, <4>1
        <5>10. SocketCapacity \in Nat
          BY AllReduceAssumption
        <5>11. Len(Append(q, v1)) <= SocketCapacity
          BY ONLY <5>2, <5>8, <5>10
        <5>12. chan'[<<n, j>>] = Append(q, v1) /\ Stream(n, Append(q, v1), fw, now[j], fr, g)
          BY <5>4, <5>7, <5>9
        <5> QED
          BY <5>11, <5>12
      <4>2. CASE j # m
        <5>1. chan'[<<n, j>>] = q /\ now[j] = sn
          BY <1>9, <1>17, <3>4, <4>2
        <5> QED
          BY <3>5, <5>1
      <4> QED
        BY <4>1, <4>2
    <3>8. CASE done /\ j \in Targets(n)
      <4>1. now[j] = w /\ w = Width(n, fw) /\ sent'[n][j] = 0
        BY <1>5, <1>12, <3>4, <3>8
      <4>2. Stream(n, q1, fw + 1, 0, fr, g)
        BY <3>4, <1>1, <3>7, <4>1, StreamFrameWritten
      <4>3. Written(n, j)' = fw + 1
        BY <3>6, <3>8
      <4> QED
        BY <1>2, <2>2, <3>6, <3>7, <4>1, <4>2, <4>3, StreamSet
    <3>9. CASE ~(done /\ j \in Targets(n))
      <4>1. sent'[n][j] = now[j]
        BY <1>10, <1>12, <3>9
      <4>2. Written(n, j)' = fw
        BY <3>4, <3>6, <3>9
      <4> QED
        BY <1>2, <2>2, <3>6, <3>7, <4>1, <4>2, StreamSet
    <3> QED
      BY <3>8, <3>9
  <2> QED
    BY <2>1, <2>2
<1>19. ASSUME NEW i \in Group, i # n, NEW j \in Group
       PROVE  StreamOf(i, j)'
  <2>1. chan'[<<i, j>>] = chan[<<i, j>>] /\ sent'[i][j] = sent[i][j] /\ got'[j][i] = got[j][i]
    BY <1>2, <1>12, <1>17, <1>19
  <2>2. Linked(i, j) => Written(i, j)' = Written(i, j) /\ Taken(j, i)' = Taken(j, i)
    BY <1>15, <1>16, <1>19
  <2> QED
    BY <1>1, <1>2, <2>1, <2>2, StreamLocal
<1>20. \A i \in Group : NodeInv(i)'
  <2> SUFFICES ASSUME NEW i \in Group, i # n PROVE NodeInv(i)'
    BY <1>14
  <2>1. pc'[i] = pc[i] /\ call'[i] = call[i] /\ step'[i] = step[i] /\ sent'[i] = sent[i]
    BY <1>11, <1>12 DEF Elsewhere
  <2> QED
    BY <1>1, <1>2, <2>1, NodeLocal
<1> QED
  BY <1>1, <1>2, <1>11, <1>18, <1>19, <1>20, ArgumentsKept DEF IInv

-----------------------------------------------------------------------------
(* Reading.                                                                *)

LEMMA RangesFinite ==
  ASSUME Arguments, NEW n \in Group, call[n] \in Nat, step[n] \in Nat
  PROVE  Cardinality(WriteRange(n)) \in Nat /\ Cardinality(ReadRange(n)) \in Nat
<1>1. ASSUME NEW a \in Int, NEW b \in Int
      PROVE  IsFiniteSet(a .. b) /\ Cardinality(a .. b) \in Nat
  <2>1. IsFiniteSet(a .. b)
    BY FS_Interval
  <2> QED
    BY <2>1, FS_CardinalityType
<1>2. CASE Ring
  <2>1. WriteRange(n) = Slice(SendChunk(n)) /\ ReadRange(n) = Slice(RecvChunk(n))
    BY <1>2 DEF WriteRange, ReadRange
  <2>2. \A c \in Group : \E a, b \in Int : Slice(c) = a .. b
    <3> TAKE c \in Group
    <3>1. size \div nNodes \in Nat /\ c \in Nat
      BY <1>2, RingSlices DEF Group
    <3>2. c * (size \div nNodes) \in Int /\ (c + 1) * (size \div nNodes) - 1 \in Int
      BY <3>1
    <3> QED
      BY <3>2 DEF Slice
  <2> QED
    BY <1>1, <2>1, <2>2, RingChunks
<1>3. CASE Pairs
  <2>1. ~Ring
    BY <1>3, OneAlgorithm
  <2>2. WriteRange(n) = SliceRows(n, call[n]) /\ ReadRange(n) = SliceRows(Peer(n), call[n])
    BY <1>3, <2>1 DEF WriteRange, ReadRange
  <2>3. n \in Nat /\ Peer(n) \in Nat /\ LocalSeqLen \in Nat
    BY ArgumentTypes DEF Peer, PeerAt, Group
  <2>4. \A k \in Nat : \A c : Cardinality(SliceRows(k, c)) \in Nat
    <3> TAKE k \in Nat
    <3> TAKE c
    <3>1. k * LocalSeqLen \in Int /\ (k + 1) * LocalSeqLen - 1 \in Int
      BY <2>3
    <3>2. IsFiniteSet(LocalSeq(k))
      BY <1>1, <3>1 DEF LocalSeq
    <3> QED
      BY <3>2, FS_Subset, FS_CardinalityType DEF SliceRows
  <2> QED
    BY <2>2, <2>3, <2>4
<1>4. CASE ~Stepwise
  <2>1. WriteRange(n) = 0 .. size - 1 /\ ReadRange(n) = 0 .. size - 1 /\ size - 1 \in Int
    BY <1>4, OneAlgorithm, ArgumentTypes DEF WriteRange, ReadRange
  <2> QED
    BY <1>1, <2>1
<1> QED
  BY <1>2, <1>3, <1>4, OneAlgorithm

\* The node whose readMany is done goes on with what it read.
LEMMA NodeAfterRead ==
  ASSUME Arguments, Phases, NEW n \in Group, NodeInv(n), arguments' = arguments,
         pc[n] = "read", pc'[n] = AfterRead(n), call'[n] = call[n], step'[n] = step[n],
         \A t \in Group : IF t \in Sources(n) THEN Len(got'[n][t]) = Cardinality(ReadRange(n))
                                              ELSE got'[n][t] = <<>>,
         sent'[n] = sent[n], buffer'[n] = buffer[n], missing'[n] = missing[n]
  PROVE  NodeInv(n)'
<1> USE ArgumentsKept
<1> DEFINE q == pc'[n]
<1>1. /\ SentOf(n) /\ GotOf(n) /\ PhaseOf(n) /\ RowOf(n) /\ SlicesOf(n) /\ KeyValuesOf(n)
      /\ ~Pairs => missing[n] = {}
  BY DEF NodeInv
<1>2. q = IF Stepwise /\ FirstCall(n, step[n]) = "read" THEN "write" ELSE "apply"
  BY DEF AfterRead
<1>3. call[n] \in Nat /\ step[n] \in Nat
  BY ArgumentTypes DEF Phases, Shapes
<1>4. Root' = Root
  BY DEF Root
<1>5. PhaseOf(n)'
  <2>1. /\ call[n] >= 1 /\ ~Skips(call[n]) /\ (Stepwise => step[n] < Steps)
        /\ Pairs => ActiveRows(call[n]) <= SeqLen
        /\ ~Stepwise => IF n = Root THEN Star ELSE RootSends
    BY <1>1 DEF PhaseOf
  <2>2. ~Stepwise => q = "apply"
    BY <1>2
  <2> QED
    BY <1>4, <2>1, <2>2 DEF PhaseOf
<1>6. SentOf(n)'
  <2>1. Targets(n)' = Targets(n) /\ WriteRange(n)' = WriteRange(n)
    BY RangesLocal
  <2>2. \A m \in Group : sent[n][m] = 0
    BY <1>1 DEF SentOf
  <2>3. Cardinality(WriteRange(n)) \in Nat
    BY <1>3, RangesFinite
  <2>4. 0 <= Cardinality(WriteRange(n))
    BY <2>3
  <2> QED
    BY <2>1, <2>2, <2>4 DEF SentOf
<1>7. GotOf(n)'
  <2>1. Sources(n)' = Sources(n) /\ ReadRange(n)' = ReadRange(n)
    BY RangesLocal
  <2>2. HasRead(n)'
    BY <1>2 DEF HasRead
  <2>3. Cardinality(ReadRange(n)) <= Cardinality(ReadRange(n))
    BY <1>3, RangesFinite
  <2> QED
    BY <2>1, <2>2, <2>3 DEF GotOf
<1>8. RowOf(n)'
  <2>1. CASE Stepwise
    BY <2>1 DEF RowOf
  <2>2. CASE ~Stepwise
    <3>1. q = "apply"
      BY <1>2, <2>2
    <3> QED
      BY <1>1, <1>4, <2>2, <3>1, StreamsKept DEF RowOf, Returned
  <2> QED
    BY <2>1, <2>2
<1>9. SlicesOf(n)'
  <2>1. CASE Ring
    BY <1>1, StreamsKept DEF SlicesOf
  <2>2. CASE ~Ring
    BY <2>2 DEF SlicesOf
  <2> QED
    BY <2>1, <2>2
<1>10. KeyValuesOf(n)'
  <2>1. CASE Pairs
    <3>1. q # "outside"
      BY <1>2
    <3>2. \A k : StepWith(n, k)' = StepWith(n, k)
      BY DEF StepWith
    <3> QED
      BY <1>1, <2>1, <3>1, <3>2, StreamsKept DEF KeyValuesOf
  <2>2. CASE ~Pairs
    BY <2>2 DEF KeyValuesOf
  <2> QED
    BY <2>1, <2>2
<1> QED
  BY <1>1, <1>5, <1>6, <1>7, <1>8, <1>9, <1>10 DEF NodeInv

\* The other nodes, and their streams, where a step of n changes only its own.
LEMMA OthersKept ==
  ASSUME IInv, NEW n \in Group, arguments' = arguments, Elsewhere(n),
         \A i \in Group \ {n} : /\ sent'[i] = sent[i] /\ got'[i] = got[i]
                                /\ buffer'[i] = buffer[i] /\ missing'[i] = missing[i],
         \A i, j \in Group \ {n} : chan'[<<i, j>>] = chan[<<i, j>>]
  PROVE  /\ \A i \in Group \ {n} : NodeInv(i)'
         /\ \A i, j \in Group \ {n} : StreamOf(i, j)'
         /\ \A i \in Group \ {n} : \A j : Written(i, j)' = Written(i, j) /\ Taken(i, j)' = Taken(i, j)
<1>1. /\ \A i \in Group : NodeInv(i)
      /\ \A i, j \in Group : StreamOf(i, j)
  BY DEF IInv
<1>2. \A i \in Group \ {n} : \A j : Written(i, j)' = Written(i, j) /\ Taken(i, j)' = Taken(i, j)
  BY CountsLocal DEF Elsewhere
<1>3. \A i \in Group \ {n} : NodeInv(i)'
  BY <1>1, NodeLocal DEF Elsewhere
<1>4. ASSUME NEW i \in Group \ {n}, NEW j \in Group \ {n}
      PROVE  StreamOf(i, j)'
  <2>1. chan'[<<i, j>>] = chan[<<i, j>>] /\ sent'[i][j] = sent[i][j] /\ got'[j][i] = got[j][i]
    OBVIOUS
  <2>2. Written(i, j)' = Written(i, j) /\ Taken(j, i)' = Taken(j, i)
    BY <1>2
  <2>3. StreamOf(i, j)
    BY <1>1
  <2> QED
    BY <2>1, <2>2, <2>3, StreamLocal
<1> QED
  BY <1>2, <1>3, <1>4

LEMMA ReadKeeps ==
  ASSUME IInv, NEW n \in Group, Read(n)
  PROVE  IInv'
<1>1. /\ Arguments /\ Phases /\ Shapes
      /\ \A i \in Group : NodeInv(i)
      /\ \A i, j \in Group : StreamOf(i, j)
  BY DEF IInv, NodeInv, Phases
<1>2. pc[n] = "read" /\ arguments' = arguments /\ UNCHANGED <<call, step, buffer, sent, missing>>
  BY DEF Read
<1>3. PICK m \in Sources(n) :
        /\ Len(got[n][m]) < Cardinality(ReadRange(n))
        /\ chan[<<m, n>>] # <<>>
        /\ chan' = [chan EXCEPT ![<<m, n>>] = Tail(@)]
        /\ LET now == [got[n] EXCEPT ![m] = Append(@, Head(chan[<<m, n>>]))]
           IN  /\ got' = [got EXCEPT ![n] = now]
               /\ pc' = [pc EXCEPT ![n] =
                           IF \A s \in Sources(n) : Len(now[s]) = Cardinality(ReadRange(n))
                           THEN AfterRead(n) ELSE @]
  BY DEF Read
<1> DEFINE r    == Cardinality(ReadRange(n))
           now  == [got[n] EXCEPT ![m] = Append(@, Head(chan[<<m, n>>]))]
           full == \A s \in Sources(n) : Len(now[s]) = r
<1>4. /\ got' = [got EXCEPT ![n] = now]
      /\ pc' = [pc EXCEPT ![n] = IF full THEN AfterRead(n) ELSE @]
  BY <1>3
<1>5. r \in Nat /\ \A t \in Sources(n) : t \in Group /\ Linked(t, n) /\ r = Width(t, Taken(n, t))
  BY <1>1, <1>2, ReadRanges
<1>6. m \in Group /\ Linked(m, n) /\ m # n
  BY <1>1, <1>5, NotSelf
<1>7. /\ SentOf(n) /\ GotOf(n) /\ PhaseOf(n) /\ RowOf(n) /\ SlicesOf(n) /\ KeyValuesOf(n)
      /\ ~Pairs => missing[n] = {}
  BY <1>1 DEF NodeInv
<1>8. \A t \in Group : IF t \in Sources(n) THEN Len(got[n][t]) <= r ELSE got[n][t] = <<>>
  BY <1>2, <1>7 DEF GotOf
<1>9. /\ DOMAIN now = Group
      /\ \A t \in Group : now[t] = IF t = m THEN Append(got[n][m], Head(chan[<<m, n>>])) ELSE got[n][t]
  BY <1>1, <1>6 DEF Shapes
<1>10. PICK fw, fr, sn, q, g :
         /\ fw \in Nat /\ fr \in Nat /\ sn \in Nat
         /\ fw = Written(m, n) /\ fr = Taken(n, m) /\ sn = sent[m][n]
         /\ q = chan[<<m, n>>] /\ g = got[n][m]
  <2>1. Written(m, n) \in Nat /\ Taken(n, m) \in Nat /\ sent[m][n] \in Nat
    BY <1>1, <1>6, CountsType DEF Shapes
  <2> QED
    BY <2>1
<1>11. Stream(m, q, fw, sn, fr, g) /\ Len(q) <= SocketCapacity
  BY <1>1, <1>6, <1>10 DEF StreamOf
<1>12. Len(g) < Width(m, fr) /\ q # <<>>
  BY <1>3, <1>5, <1>10
<1>13. Stream(m, Tail(q), fw, sn, fr, Append(g, Head(q)))
  BY <1>10, <1>1, <1>6, <1>11, <1>12, StreamTake
<1>14. /\ q \in Seq(Values) /\ g \in Seq(Values) /\ Head(q) \in Values
       /\ Len(q) \in Nat /\ Len(g) \in Nat /\ Len(Tail(q)) = Len(q) - 1
  BY <1>11, <1>12 DEF Stream
<1>15. Len(Append(g, Head(q))) = Len(g) + 1
  BY <1>14, AppendProperties
<1>16. Len(Tail(q)) <= SocketCapacity
  BY <1>11, <1>14, AllReduceAssumption
<1>17. now[m] = Append(g, Head(q)) /\ Len(now[m]) <= r
  <2>1. now[m] = Append(g, Head(q))
    BY <1>6, <1>9, <1>10
  <2>2. Len(g) < r
    BY <1>3, <1>10
  <2> HIDE DEF r, now
  <2>3. Len(g) + 1 <= r
    BY ONLY <1>5, <1>14, <2>2
  <2> QED
    BY ONLY <1>15, <2>1, <2>3
<1>18. \A t \in Group : IF t \in Sources(n) THEN Len(now[t]) <= r ELSE now[t] = <<>>
  BY <1>3, <1>8, <1>9, <1>17
<1> HIDE DEF r, now
<1>19. /\ pc'[n] = (IF full THEN AfterRead(n) ELSE "read")
       /\ got'[n] = now
       /\ \A i \in Group \ {n} : got'[i] = got[i]
  <2> HIDE DEF full
  <2> QED
    BY <1>1, <1>2, <1>4 DEF Shapes
<1>20. Shapes' /\ Elsewhere(n)
  <2>1. AfterRead(n) \in {"outside", "write", "read", "apply"}
    BY DEF AfterRead
  <2>2. pc' \in [Group -> {"outside", "write", "read", "apply"}]
    <3> HIDE DEF full
    <3> QED
      BY <1>1, <1>4, <2>1 DEF Shapes
  <2>3. DOMAIN got' = Group /\ \A i \in Group : DOMAIN got'[i] = Group
    BY <1>1, <1>4, <1>9, <1>19 DEF Shapes
  <2>4. DOMAIN chan' = Group \X Group
    BY <1>1, <1>3 DEF Shapes
  <2>5. Group' = Group /\ Steps' = Steps
    BY <1>2, ArgumentsKept
  <2>6. Elsewhere(n)
    BY <1>1, <1>2, <1>4 DEF Elsewhere, Shapes
  <2> QED
    BY <1>1, <1>2, <2>2, <2>3, <2>4, <2>5, <2>6 DEF Shapes
<1>21. call'[n] = call[n] /\ step'[n] = step[n] /\ sent'[n] = sent[n] /\ buffer'[n] = buffer[n]
       /\ missing'[n] = missing[n]
  BY <1>2
<1>22. NodeInv(n)'
  <2>1. CASE full
    <3>1. pc'[n] = AfterRead(n)
      BY <2>1, <1>19
    <3>2. \A t \in Group : IF t \in Sources(n) THEN Len(got'[n][t]) = Cardinality(ReadRange(n))
                                               ELSE got'[n][t] = <<>>
      BY <2>1, <1>18, <1>19 DEF r
    <3> QED
      BY <1>1, <1>2, <1>21, <3>1, <3>2, NodeAfterRead
  <2>2. CASE ~full
    <3>1. pc'[n] = pc[n] /\ got'[n] = now
      BY <2>2, <1>2, <1>19
    <3>2. GotOf(n)'
      <4>1. Sources(n)' = Sources(n) /\ ReadRange(n)' = ReadRange(n) /\ Group' = Group
        BY <1>2, <1>21, RangesLocal, ArgumentsKept
      <4>2. ~HasRead(n)'
        BY <1>2, <3>1 DEF HasRead
      <4> QED
        BY <1>2, <1>18, <3>1, <4>1, <4>2 DEF GotOf, r
    <3> QED
      BY <1>2, <1>7, <1>21, <3>1, <3>2, ArgumentsKept, PhaseLocal, SentLocal, RowLocal, SlicesLocal,
         KeyValuesLocal DEF NodeInv
  <2> QED
    BY <2>1, <2>2
<1>23. \A c \in Group \X Group : c # <<m, n>> => chan'[c] = chan[c]
  BY <1>1, <1>3 DEF Shapes
<1>24. /\ \A i \in Group \ {n} : NodeInv(i)'
       /\ \A i, j \in Group \ {n} : StreamOf(i, j)'
       /\ \A i \in Group \ {n} : \A j : Written(i, j)' = Written(i, j) /\ Taken(i, j)' = Taken(i, j)
  <2>1. \A i, j \in Group \ {n} : chan'[<<i, j>>] = chan[<<i, j>>]
    BY <1>23
  <2>2. \A i \in Group \ {n} : /\ sent'[i] = sent[i] /\ got'[i] = got[i]
                               /\ buffer'[i] = buffer[i] /\ missing'[i] = missing[i]
    BY <1>2, <1>19
  <2> QED
    BY <1>2, <1>20, <2>1, <2>2, OthersKept
<1>25. ASSUME NEW j \in Group
       PROVE  /\ Linked(n, j) => Written(n, j)' = Written(n, j)
              /\ Linked(j, n) => Taken(n, j)' = Taken(n, j)
  <2>1. CASE full
    <3>1. pc'[n] = AfterRead(n)
      BY <2>1, <1>19
    <3> QED
      BY <1>1, <1>2, <1>21, <3>1, ReadCounts
  <2>2. CASE ~full
    <3>1. pc'[n] = pc[n]
      BY <2>2, <1>2, <1>19
    <3> QED
      BY <1>2, <1>21, <3>1, CountsLocal
  <2> QED
    BY <2>1, <2>2
<1>26. StreamOf(m, n)'
  <2>1. chan'[<<m, n>>] = Tail(q)
    BY <1>1, <1>3, <1>6, <1>10 DEF Shapes
  <2>2. got'[n][m] = Append(g, Head(q)) /\ sent'[m][n] = sn
    BY <1>2, <1>10, <1>17, <1>19
  <2>3. Written(m, n)' = fw /\ Taken(n, m)' = fr
    BY <1>6, <1>10, <1>24, <1>25
  <2> QED
    BY <1>2, <1>6, <1>13, <1>16, <2>1, <2>2, <2>3, StreamSet
<1>27. ASSUME NEW j \in Group, j # m
       PROVE  StreamOf(j, n)'
  <2>1. chan'[<<j, n>>] = chan[<<j, n>>] /\ sent'[j][n] = sent[j][n]
    BY <1>2, <1>23, <1>27
  <2>2. got'[n][j] = got[n][j]
    BY <1>9, <1>19, <1>27
  <2>3. Linked(j, n) => j # n
    BY <1>1, NotSelf
  <2>4. Linked(j, n) => Written(j, n)' = Written(j, n) /\ Taken(n, j)' = Taken(n, j)
    BY <1>24, <1>25, <2>3
  <2> QED
    BY <1>1, <1>2, <2>1, <2>2, <2>4, StreamLocal
<1>28. ASSUME NEW j \in Group, j # n
       PROVE  StreamOf(n, j)'
  <2>1. chan'[<<n, j>>] = chan[<<n, j>>] /\ sent'[n][j] = sent[n][j] /\ got'[j][n] = got[j][n]
    BY <1>2, <1>6, <1>19, <1>23, <1>28
  <2>2. Linked(n, j) => Written(n, j)' = Written(n, j) /\ Taken(j, n)' = Taken(j, n)
    BY <1>24, <1>25, <1>28
  <2> QED
    BY <1>1, <1>2, <2>1, <2>2, StreamLocal
<1>29. \A i, j \in Group : StreamOf(i, j)'
  BY <1>24, <1>26, <1>27, <1>28
<1> QED
  BY <1>1, <1>2, <1>20, <1>22, <1>24, <1>29, ArgumentsKept DEF IInv

-----------------------------------------------------------------------------
(* Steps that leave the sockets alone.                                     *)

LEMMA RangesFiniteNext ==
  ASSUME NEW n
  PROVE  (Arguments /\ n \in Group /\ call[n] \in Nat /\ step[n] \in Nat =>
            Cardinality(WriteRange(n)) \in Nat /\ Cardinality(ReadRange(n)) \in Nat)'
<1>1. Arguments /\ n \in Group /\ call[n] \in Nat /\ step[n] \in Nat =>
        Cardinality(WriteRange(n)) \in Nat /\ Cardinality(ReadRange(n)) \in Nat
  BY RangesFinite
<1> QED
  BY <1>1, PTL

LEMMA SoloKeeps ==
  ASSUME IInv, NEW n \in Group, arguments' = arguments, chan' = chan, Elsewhere(n),
         Shapes', NodeInv(n)',
         \A i \in Group \ {n} : /\ sent'[i] = sent[i] /\ got'[i] = got[i]
                                /\ buffer'[i] = buffer[i] /\ missing'[i] = missing[i],
         \A j \in Group \ {n} : /\ Linked(n, j) => StreamOf(n, j)'
                                /\ Linked(j, n) => StreamOf(j, n)'
  PROVE  IInv'
<1>1. Arguments /\ \A i, j \in Group : StreamOf(i, j)
  BY DEF IInv
<1>2. /\ \A i \in Group \ {n} : NodeInv(i)'
      /\ \A i, j \in Group \ {n} : StreamOf(i, j)'
  <2>1. \A i, j \in Group \ {n} : chan'[<<i, j>>] = chan[<<i, j>>]
    OBVIOUS
  <2> QED
    BY <2>1, OthersKept
<1>3. ASSUME NEW i \in Group, NEW j \in Group, ~Linked(i, j)
      PROVE  StreamOf(i, j)'
  <2>1. chan'[<<i, j>>] = <<>> /\ ~Linked(i, j)'
    BY <1>1, <1>3, StreamsKept DEF StreamOf
  <2> QED
    BY <2>1 DEF StreamOf
<1>4. ASSUME NEW i \in Group, NEW j \in Group, Linked(i, j)
      PROVE  StreamOf(i, j)'
  <2>1. i # j
    BY <1>1, <1>4, NotSelf
  <2> QED
    BY <1>2, <1>4, <2>1
<1> QED
  BY <1>1, <1>2, <1>3, <1>4, ArgumentsKept DEF IInv

LEMMA StreamDone ==
  ASSUME IInv, NEW n \in Group, NEW m \in Group, Linked(n, m), arguments' = arguments,
         chan' = chan, got'[m] = got[m], Taken(m, n)' = Taken(m, n),
         Written(n, m)' = Written(n, m) + 1, sent[n][m] = Width(n, Written(n, m)), sent'[n][m] = 0
  PROVE  StreamOf(n, m)'
<1>1. Arguments /\ Phases /\ StreamOf(n, m)
  BY DEF IInv, Phases, NodeInv
<1>2. PICK fw, fr, q, g :
        /\ fw \in Nat /\ fr \in Nat
        /\ fw = Written(n, m) /\ fr = Taken(m, n) /\ q = chan[<<n, m>>] /\ g = got[m][n]
  <2>1. Written(n, m) \in Nat /\ Taken(m, n) \in Nat
    BY <1>1, CountsType
  <2> QED
    BY <2>1
<1>3. Stream(n, q, fw, Width(n, fw), fr, g) /\ Len(q) <= SocketCapacity
  BY <1>1, <1>2 DEF StreamOf
<1>4. Stream(n, q, fw + 1, 0, fr, g)
  BY <1>2, <1>1, <1>3, StreamFrameWritten
<1>5. chan'[<<n, m>>] = q /\ got'[m][n] = g /\ Written(n, m)' = fw + 1 /\ Taken(m, n)' = fr
  BY <1>2
<1> QED
  BY <1>3, <1>4, <1>5, StreamSet

LEMMA StreamUsed ==
  ASSUME IInv, NEW n \in Group, NEW m \in Group, Linked(m, n), arguments' = arguments,
         chan' = chan, sent'[m] = sent[m], Written(m, n)' = Written(m, n),
         Taken(n, m)' = Taken(n, m) + 1, Len(got[n][m]) = Width(m, Taken(n, m)), got'[n][m] = <<>>
  PROVE  StreamOf(m, n)'
<1>1. Arguments /\ Phases /\ StreamOf(m, n)
  BY DEF IInv, Phases, NodeInv
<1>2. PICK fw, fr, sn, q, g :
        /\ fw \in Nat /\ fr \in Nat /\ sn \in Nat
        /\ fw = Written(m, n) /\ fr = Taken(n, m) /\ sn = sent[m][n]
        /\ q = chan[<<m, n>>] /\ g = got[n][m]
  <2>1. Written(m, n) \in Nat /\ Taken(n, m) \in Nat /\ sent[m][n] \in Nat
    BY <1>1, CountsType DEF Phases, Shapes
  <2> QED
    BY <2>1
<1>3. Stream(m, q, fw, sn, fr, g) /\ Len(q) <= SocketCapacity /\ Len(g) = Width(m, fr)
  BY <1>1, <1>2 DEF StreamOf
<1>4. Stream(m, q, fw, sn, fr + 1, <<>>)
  BY <1>2, <1>1, <1>3, StreamFrameUsed
<1>5. chan'[<<m, n>>] = q /\ sent'[m][n] = sn /\ Written(m, n)' = fw /\ Taken(n, m)' = fr + 1
  BY <1>2
<1> QED
  BY <1>3, <1>4, <1>5, StreamSet

LEMMA MoveNothingKeeps ==
  ASSUME IInv, NEW n \in Group, MoveNothing(n)
  PROVE  IInv'
<1>1. /\ Arguments /\ Phases /\ Shapes
      /\ \A i \in Group : NodeInv(i)
      /\ \A i, j \in Group : StreamOf(i, j)
  BY DEF IInv, NodeInv, Phases
<1>2. arguments' = arguments /\ UNCHANGED <<chan, call, step, buffer, sent, got, missing>>
  BY DEF MoveNothing
<1>3. /\ SentOf(n) /\ GotOf(n)
  BY <1>1 DEF NodeInv
<1>4. PICK p : /\ pc' = [pc EXCEPT ![n] = p]
               /\ \/ pc[n] = "write" /\ WriteRange(n) = {} /\ p = AfterWrite(n)
                  \/ pc[n] = "read" /\ ReadRange(n) = {} /\ p = AfterRead(n)
  BY DEF MoveNothing
<1>5. pc'[n] = p /\ Elsewhere(n) /\ Shapes'
  <2>1. p \in {"outside", "write", "read", "apply"}
    BY <1>4 DEF AfterWrite, AfterRead
  <2>2. Group' = Group /\ Steps' = Steps
    BY <1>2, ArgumentsKept
  <2> QED
    BY <1>1, <1>2, <1>4, <2>1, <2>2 DEF Shapes, Elsewhere
<1>6. \A i \in Group \ {n} : \A j : Written(i, j)' = Written(i, j) /\ Taken(i, j)' = Taken(i, j)
  BY <1>2, <1>5, CountsLocal DEF Elsewhere
<1>7. \A i, j \in Group : Linked(i, j) => i # j
  BY <1>1, NotSelf
<1>8. Cardinality({}) = 0
  BY FS_EmptySet
<1>9. CASE pc[n] = "write" /\ WriteRange(n) = {} /\ p = AfterWrite(n)
  <2>1. \A t \in Group : sent[n][t] = 0
    <3>1. \A t \in Group : sent[n][t] \in Nat /\ sent[n][t] <= 0
      BY <1>1, <1>3, <1>8, <1>9 DEF SentOf, Shapes
    <3> QED
      BY <3>1
  <2>2. NodeInv(n)'
    BY <1>1, <1>2, <1>5, <1>9, <2>1, NodeAfterWrite
  <2>3. \A t \in Targets(n) : Width(n, Written(n, t)) = 0
    BY <1>1, <1>8, <1>9, WriteRanges
  <2>4. ASSUME NEW j \in Group \ {n}, Linked(n, j)
        PROVE  StreamOf(n, j)'
    <3>1. Written(n, j)' = Written(n, j) + IF j \in Targets(n) THEN 1 ELSE 0
      BY <1>1, <1>2, <1>5, <1>9, <2>4, WriteCounts
    <3>2. Taken(j, n)' = Taken(j, n) /\ Written(n, j) \in Nat
      BY <1>1, <1>6, CountsType
    <3>3. CASE j \in Targets(n)
      <4>1. Written(n, j)' = Written(n, j) + 1 /\ sent[n][j] = Width(n, Written(n, j)) /\ sent'[n][j] = 0
        BY <1>2, <2>1, <2>3, <3>1, <3>3
      <4> QED
        BY <1>2, <2>4, <3>2, <4>1, StreamDone
    <3>4. CASE j \notin Targets(n)
      <4>1. Written(n, j)' = Written(n, j)
        BY <3>1, <3>2, <3>4
      <4> QED
        BY <1>1, <1>2, <3>2, <4>1, StreamLocal
    <3> QED
      BY <3>3, <3>4
  <2>5. ASSUME NEW j \in Group \ {n}, Linked(j, n)
        PROVE  StreamOf(j, n)'
    <3>1. Taken(n, j)' = Taken(n, j)
      BY <1>1, <1>2, <1>5, <1>9, <2>5, WriteCounts
    <3> QED
      BY <1>1, <1>2, <1>6, <3>1, StreamLocal
  <2> QED
    BY <1>2, <1>5, <2>2, <2>4, <2>5, SoloKeeps
<1>10. CASE pc[n] = "read" /\ ReadRange(n) = {} /\ p = AfterRead(n)
  <2>1. \A t \in Group : IF t \in Sources(n) THEN Len(got[n][t]) = 0 ELSE got[n][t] = <<>>
    <3>1. \A t \in Group : IF t \in Sources(n) THEN Len(got[n][t]) <= 0 ELSE got[n][t] = <<>>
      BY <1>3, <1>8, <1>10 DEF GotOf
    <3>2. \A t \in Sources(n) : t \in Group /\ Linked(t, n)
      BY <1>1, <1>10, ReadRanges
    <3>3. \A t \in Sources(n) : got[n][t] \in Seq(Values)
      BY <1>1, <3>2 DEF StreamOf, Stream
    <3>4. \A t \in Sources(n) : Len(got[n][t]) \in Nat
      BY <3>3
    <3> QED
      BY <3>1, <3>2, <3>4
  <2>2. NodeInv(n)'
    <3>1. \A t \in Group : IF t \in Sources(n) THEN Len(got'[n][t]) = Cardinality(ReadRange(n))
                                               ELSE got'[n][t] = <<>>
      BY <1>2, <1>8, <1>10, <2>1
    <3> QED
      BY <1>1, <1>2, <1>5, <1>10, <3>1, NodeAfterRead
  <2>3. ASSUME NEW j \in Group
        PROVE  /\ Linked(n, j) => Written(n, j)' = Written(n, j)
               /\ Linked(j, n) => Taken(n, j)' = Taken(n, j)
    BY <1>1, <1>2, <1>5, <1>10, ReadCounts
  <2>4. \A j \in Group \ {n} : StreamOf(n, j)'
    BY <1>1, <1>2, <1>6, <2>3, StreamLocal
  <2>5. \A j \in Group \ {n} : StreamOf(j, n)'
    BY <1>1, <1>2, <1>6, <2>3, StreamLocal
  <2> QED
    BY <1>2, <1>5, <2>2, <2>4, <2>5, SoloKeeps
<1> QED
  BY <1>4, <1>9, <1>10

\* What all steps from "apply" have in common: the node takes what it read, and
\* goes on to the next step or returns.
LEMMA UseKeeps ==
  ASSUME IInv, NEW n \in Group, pc[n] = "apply", arguments' = arguments,
         UNCHANGED <<chan, call, sent, missing>>,
         NEW p, NEW s,
         pc' = [pc EXCEPT ![n] = p], step' = [step EXCEPT ![n] = s],
         got' = [got EXCEPT ![n] = Emptied],
         Stepwise => /\ s = step[n] + 1
                     /\ p = IF step[n] + 1 < Steps THEN FirstCall(n, step[n] + 1) ELSE "outside",
         ~Stepwise => /\ s = step[n]
                      /\ p = IF n = Root /\ RootSends THEN "write" ELSE "outside",
         DOMAIN buffer' = Group, \A i \in Group \ {n} : buffer'[i] = buffer[i],
         RowOf(n)', SlicesOf(n)', KeyValuesOf(n)'
  PROVE  IInv'
<1>1. /\ Arguments /\ Phases /\ Shapes
      /\ \A i \in Group : NodeInv(i)
      /\ \A i, j \in Group : StreamOf(i, j)
  BY DEF IInv, NodeInv, Phases
<1>2. PhaseOf(n) /\ SentOf(n) /\ GotOf(n) /\ (~Pairs => missing[n] = {})
  BY <1>1 DEF NodeInv
<1>3. /\ pc'[n] = p /\ step'[n] = s /\ got'[n] = Emptied /\ call'[n] = call[n]
      /\ sent'[n] = sent[n] /\ missing'[n] = missing[n]
  BY <1>1 DEF Shapes
<1>4. /\ step[n] \in Nat /\ call[n] \in Nat /\ Steps \in Nat /\ step[n] <= Steps
      /\ Stepwise => step[n] < Steps
      /\ call[n] >= 1 /\ ~Skips(call[n]) /\ (Pairs => ActiveRows(call[n]) <= SeqLen)
      /\ ~Stepwise => IF n = Root THEN Star ELSE RootSends
  BY <1>1, <1>2, ArgumentTypes DEF Shapes, PhaseOf
<1>5. p \in {"write", "read", "outside"} /\ (~Stepwise => p # "read")
  BY <1>1, FirstCallOf, OneAlgorithm
<1>6. s \in 0 .. Steps /\ (Stepwise /\ p # "outside" => s < Steps)
  <2>1. CASE Stepwise
    BY <1>4, <2>1, FirstCallOf, OneAlgorithm
  <2>2. CASE ~Stepwise
    BY <1>4, <2>2
  <2> QED
    BY <2>1, <2>2
<1>7. \A t \in Group : got'[n][t] = <<>>
  BY <1>3 DEF Emptied
<1>8. Shapes' /\ Elsewhere(n)
  <2>1. Group' = Group /\ Steps' = Steps
    BY ArgumentsKept
  <2>2. pc' \in [Group -> {"outside", "write", "read", "apply"}] /\ step' \in [Group -> 0 .. Steps]
    BY <1>1, <1>5, <1>6 DEF Shapes
  <2>3. DOMAIN got' = Group /\ \A i \in Group : DOMAIN got'[i] = Group
    BY <1>1 DEF Shapes, Emptied
  <2>4. Elsewhere(n)
    BY <1>1 DEF Elsewhere, Shapes
  <2> QED
    BY <1>1, <2>1, <2>2, <2>3, <2>4 DEF Shapes
<1>9. Root' = Root
  BY DEF Root
<1>10. PhaseOf(n)'
  BY <1>3, <1>4, <1>5, <1>6, <1>9, ArgumentsKept DEF PhaseOf
<1>11. Cardinality(WriteRange(n)') \in Nat /\ Cardinality(ReadRange(n)') \in Nat
  <2>1. Arguments' /\ n \in Group' /\ call'[n] \in Nat /\ step'[n] \in Nat
    BY <1>1, <1>3, <1>4, <1>6, ArgumentsKept
  <2> QED
    BY <2>1, RangesFiniteNext
<1>12. SentOf(n)'
  <2>1. \A t \in Group : sent[n][t] = 0
    BY <1>2 DEF SentOf
  <2>2. 0 <= Cardinality(WriteRange(n)')
    BY <1>11
  <2> QED
    BY <1>3, <2>1, <2>2, ArgumentsKept DEF SentOf
<1>13. GotOf(n)'
  <2>1. ~HasRead(n)'
    <3>1. Stepwise /\ p = "write" => FirstCall(n, s) # "read"
      BY <1>4
    <3> QED
      BY <1>3, <1>5, <3>1, ArgumentsKept DEF HasRead
  <2>2. Len(<<>>) = 0 /\ 0 <= Cardinality(ReadRange(n)')
    BY <1>11
  <2> QED
    BY <1>7, <2>1, <2>2, ArgumentsKept DEF GotOf
<1>14. NodeInv(n)'
  BY <1>2, <1>3, <1>10, <1>12, <1>13, ArgumentsKept DEF NodeInv
<1>15. \A i \in Group \ {n} : sent'[i] = sent[i] /\ got'[i] = got[i] /\ missing'[i] = missing[i]
  BY <1>1 DEF Shapes
<1>16. \A i \in Group \ {n} : \A j : Written(i, j)' = Written(i, j) /\ Taken(i, j)' = Taken(i, j)
  BY <1>8, CountsLocal DEF Elsewhere
<1>17. ASSUME NEW j \in Group
       PROVE  /\ Linked(n, j) => Written(n, j)' = Written(n, j)
              /\ Linked(j, n) => Taken(n, j)' = Taken(n, j) + IF j \in Sources(n) THEN 1 ELSE 0
  BY <1>1, <1>3, UseCounts
<1>18. ASSUME NEW j \in Group \ {n}, Linked(n, j)
       PROVE  StreamOf(n, j)'
  <2>1. sent'[n][j] = sent[n][j] /\ got'[j][n] = got[j][n]
    BY <1>3, <1>15
  <2> QED
    BY <1>1, <1>16, <1>17, <1>18, <2>1, StreamLocal
<1>19. ASSUME NEW j \in Group \ {n}, Linked(j, n)
       PROVE  StreamOf(j, n)'
  <2>1. sent'[j] = sent[j] /\ Written(j, n)' = Written(j, n) /\ Taken(n, j) \in Nat
    BY <1>1, <1>15, <1>16, CountsType
  <2>2. CASE j \in Sources(n)
    <3>1. Len(got[n][j]) = Width(j, Taken(n, j))
      <4>1. HasRead(n)
        BY DEF HasRead
      <4>2. Len(got[n][j]) = Cardinality(ReadRange(n))
        BY <1>2, <2>2, <4>1 DEF GotOf
      <4>3. Cardinality(ReadRange(n)) = Width(j, Taken(n, j))
        BY <1>1, <2>2, ReadRanges
      <4> QED
        BY <4>2, <4>3
    <3> QED
      BY <1>7, <1>17, <1>19, <2>1, <2>2, <3>1, StreamUsed
  <2>3. CASE j \notin Sources(n)
    <3>1. got[n][j] = <<>>
      BY <1>2, <2>3 DEF GotOf
    <3> QED
      BY <1>1, <1>7, <1>17, <1>19, <2>1, <2>3, <3>1, StreamLocal
  <2> QED
    BY <2>2, <2>3
<1> QED
  BY <1>8, <1>14, <1>15, <1>18, <1>19, SoloKeeps

-----------------------------------------------------------------------------
(* Using what was read.                                                    *)

BagSum(f) == FoldFunction(LAMBDA a, b : a (+) b, EmptyBag, f)

LEMMA GatheredIsBagSum ==
  ASSUME NEW e
  PROVE  GatheredSum(e) = BagSum([w \in Group \ {Root} |-> Got(Root, w, e)])
BY Zenon DEF GatheredSum, BagSum, FoldFunction, FoldFunctionOnSet, MapThenFoldSet

\* reduceSum adds up what it gathered, whatever the order of the workers.
LEMMA GatheredValues ==
  ASSUME NEW f, IsFiniteSet(DOMAIN f), NEW c, \A w \in DOMAIN f : f[w] = SetToBag({<<w, c>>})
  PROVE  BagSum(f) = SetToBag((DOMAIN f) \X {c})
<1>0. PICK W : W = DOMAIN f
  OBVIOUS
<1> DEFINE One(s)  == CHOOSE x \in s : TRUE
           Of(i)   == i = [s \in SUBSET W |-> IF s = {} THEN EmptyBag ELSE f[One(s)] (+) i[s \ {One(s)}]]
           all     == [s \in SUBSET W |-> SetToBag(s \X {c})]
           iter    == CHOOSE i : Of(i)
<1>1. BagSum(f) = iter[W]
  BY <1>0, Zenon DEF BagSum, FoldFunction, FoldFunctionOnSet, MapThenFoldSet
<1>2. \A s \in SUBSET W : s # {} => One(s) \in s
  OBVIOUS
<1> HIDE DEF One
<1>3. ASSUME NEW s \in SUBSET W, s # {}, NEW b, b = SetToBag((s \ {One(s)}) \X {c})
      PROVE  f[One(s)] (+) b = SetToBag(s \X {c})
  <2>1. PICK x \in s : x = One(s)
    BY <1>2, <1>3
  <2>2. f[x] = SetToBag({<<x, c>>})
    BY <1>0, <2>1
  <2>3. {<<x, c>>} \cap ((s \ {x}) \X {c}) = {}
    OBVIOUS
  <2>4. {<<x, c>>} \cup ((s \ {x}) \X {c}) = s \X {c}
    OBVIOUS
  <2>5. SetToBag({<<x, c>>}) (+) SetToBag((s \ {x}) \X {c}) = SetToBag(s \X {c})
    BY <2>3, <2>4, BagOfUnion
  <2> QED
    BY <1>3, <2>1, <2>2, <2>5
<1>4. SetToBag({} \X {c}) = EmptyBag
  <2>1. {} \X {c} = {}
    OBVIOUS
  <2> QED
    BY <2>1 DEF EmptyBag
<1>5. Of(all)
  <2>1. ASSUME NEW s \in SUBSET W
        PROVE  all[s] = IF s = {} THEN EmptyBag ELSE f[One(s)] (+) all[s \ {One(s)}]
    <3>1. all[s \ {One(s)}] = SetToBag((s \ {One(s)}) \X {c}) /\ all[s] = SetToBag(s \X {c})
      OBVIOUS
    <3> HIDE DEF all
    <3> QED
      BY <1>3, <1>4, <3>1
  <2>2. all = [s \in SUBSET W |-> all[s]]
    OBVIOUS
  <2> HIDE DEF all
  <2> QED
    BY <2>1, <2>2
<1>6. Of(iter)
  <2> HIDE DEF all
  <2>1. \E i : Of(i)
    BY <1>5
  <2> HIDE DEF Of
  <2> QED
    BY <2>1
<1> HIDE DEF iter, all
<1>7. PICK g : g = iter
  OBVIOUS
<1>8. \A s \in SUBSET W : g[s] = IF s = {} THEN EmptyBag ELSE f[One(s)] (+) g[s \ {One(s)}]
  <2>1. g = [s \in SUBSET W |-> IF s = {} THEN EmptyBag ELSE f[One(s)] (+) g[s \ {One(s)}]]
    BY <1>6, <1>7
  <2>2. PICK h : h = [s \in SUBSET W |-> IF s = {} THEN EmptyBag ELSE f[One(s)] (+) g[s \ {One(s)}]]
    OBVIOUS
  <2>3. \A s \in SUBSET W : h[s] = IF s = {} THEN EmptyBag ELSE f[One(s)] (+) g[s \ {One(s)}]
    BY <2>2
  <2> QED
    BY <2>1, <2>2, <2>3
<1> DEFINE Bad == {s \in SUBSET W : g[s] # SetToBag(s \X {c})}
<1>9. Bad = {}
  <2> SUFFICES ASSUME Bad # {} PROVE FALSE
    OBVIOUS
  <2> DEFINE T == {Cardinality(s) : s \in Bad}
  <2>1. \A s \in SUBSET W : IsFiniteSet(s) /\ Cardinality(s) \in Nat
    BY <1>0, FS_Subset, FS_CardinalityType
  <2>2. T \subseteq Nat /\ T # {}
    <3>1. Bad \subseteq SUBSET W
      OBVIOUS
    <3> HIDE DEF Bad
    <3> QED
      BY <2>1, <3>1
  <2>3. PICK k \in T : \A m \in T : k <= m
    BY <2>2, LeastNatural
  <2>4. PICK s \in Bad : k = Cardinality(s)
    OBVIOUS
  <2>5. s # {}
    BY <1>4, <1>8
  <2>6. One(s) \in s /\ s \ {One(s)} \in SUBSET W
    BY <1>2, <2>5
  <2>7. Cardinality(s \ {One(s)}) = Cardinality(s) - 1
    BY <2>1, <2>6, FS_RemoveElement
  <2>8. s \ {One(s)} \notin Bad
    <3> HIDE DEF Bad
    <3> SUFFICES ASSUME s \ {One(s)} \in Bad PROVE FALSE
      OBVIOUS
    <3>1. Cardinality(s \ {One(s)}) \in T
      OBVIOUS
    <3>2. k <= Cardinality(s) - 1
      BY <2>3, <2>7, <3>1
    <3>3. k \in Nat
      BY <2>2
    <3> QED
      BY <2>4, <3>2, <3>3
  <2>9. g[s \ {One(s)}] = SetToBag((s \ {One(s)}) \X {c})
    BY <2>6, <2>8
  <2>10. f[One(s)] (+) g[s \ {One(s)}] = SetToBag(s \X {c})
    BY <1>3, <2>5, <2>9
  <2>11. g[s] = f[One(s)] (+) g[s \ {One(s)}]
    BY <1>8, <2>5
  <2> QED
    BY <2>10, <2>11
<1> QED
  BY <1>0, <1>1, <1>7, <1>9

\* What a node has read is what the frame was meant to be.
LEMMA ReadsMeant ==
  ASSUME IInv, NEW n \in Group, pc[n] = "apply", NEW m \in Sources(n), NEW e \in ReadRange(n)
  PROVE  /\ m \in Group /\ Linked(m, n) /\ e - ReadBase(n) \in Nat
         /\ Meant(m, Taken(n, m), e - ReadBase(n), Got(n, m, e))
<1>1. /\ Arguments /\ Phases /\ GotOf(n)
      /\ \A i, j \in Group : StreamOf(i, j)
  BY DEF IInv, NodeInv, Phases
<1>2. PICK b \in Nat, r \in Nat : b = ReadBase(n) /\ r = Cardinality(ReadRange(n))
  BY <1>1, ReadRanges
<1>3. ReadRange(n) = b .. b + r - 1 /\ m \in Group /\ Linked(m, n)
  BY <1>1, <1>2, ReadRanges
<1>4. PICK o \in Nat : o = e - b /\ o < r
  BY <1>3
<1>5. Lowest(ReadRange(n)) = b
  <2>1. r > 0
    BY <1>4
  <2> QED
    BY <1>3, <2>1, Segment
<1>6. Got(n, m, e) = got[n][m][o + 1]
  BY <1>4, <1>5 DEF Got
<1>7. Len(got[n][m]) = r
  BY <1>1, <1>2, <1>3 DEF GotOf, HasRead
<1>8. \A k \in 1 .. Len(got[n][m]) : Meant(m, Taken(n, m), k - 1, got[n][m][k])
  BY <1>1, <1>3 DEF StreamOf, Stream
<1>9. o + 1 \in 1 .. Len(got[n][m]) /\ (o + 1) - 1 = o
  BY <1>4, <1>7
<1>10. Meant(m, Taken(n, m), o, got[n][m][o + 1])
  BY <1>8, <1>9
<1> QED
  BY <1>2, <1>3, <1>4, <1>6, <1>10

LEMMA StarReduceKeeps ==
  ASSUME IInv, StarReduce
  PROVE  IInv'
<1>1. Arguments /\ Phases /\ Shapes /\ Root \in Group /\ NodeInv(Root)
  BY ArgumentTypes DEF IInv, NodeInv, Phases
<1>2. Star /\ pc[Root] = "apply" /\ arguments' = arguments /\ UNCHANGED <<chan, call, step, sent, missing>>
  BY DEF StarReduce
<1>3. ~Ring /\ ~Pairs /\ ~Stepwise /\ ~Broadcast
  BY <1>1, <1>2, OneAlgorithm
<1>4. PICK c \in 1 .. MaxCalls : c = call[Root] /\ c - 1 \in Nat /\ (c - 1) + 1 = c
  BY <1>1, <1>2, ArgumentTypes DEF NodeInv, PhaseOf, Shapes
<1>5. ASSUME NEW e \in 0 .. size - 1
      PROVE  buffer[Root][e] (+) GatheredSum(e) = Sum(c)
  <2>1. ASSUME NEW w \in Group \ {Root}
        PROVE  Got(Root, w, e) = SetToBag({<<w, c>>})
    <3>1. w \in Sources(Root) /\ e \in ReadRange(Root)
      BY <1>3 DEF Sources, ReadRange
    <3>2. Taken(Root, w) = c - 1
      BY <1>2, <1>3, <1>4 DEF Taken
    <3>3. Meant(w, c - 1, e - ReadBase(Root), Got(Root, w, e))
      BY <1>1, <1>2, <3>1, <3>2, ReadsMeant
    <3> QED
      BY <1>2, <1>4, <3>3 DEF Meant
  <2> DEFINE f == [w \in Group \ {Root} |-> Got(Root, w, e)]
  <2>2. /\ DOMAIN f = Group \ {Root} /\ IsFiniteSet(Group \ {Root})
        /\ \A w \in Group \ {Root} : f[w] = SetToBag({<<w, c>>})
    BY <1>1, <2>1, ArgumentTypes, FS_Subset
  <2>3. GatheredSum(e) = BagSum(f)
    BY GatheredIsBagSum
  <2> HIDE DEF f
  <2>4. GatheredSum(e) = SetToBag((Group \ {Root}) \X {c})
    <3>1. PICK g : g = f
      OBVIOUS
    <3>2. IsFiniteSet(DOMAIN g) /\ \A w \in DOMAIN g : g[w] = SetToBag({<<w, c>>})
      BY <2>2, <3>1
    <3>3. BagSum(g) = SetToBag((DOMAIN g) \X {c})
      BY ONLY <3>2, GatheredValues
    <3> QED
      BY <2>2, <2>3, <3>1, <3>3
  <2>5. buffer[Root][e] = SetToBag({<<Root, c>>})
    BY <1>1, <1>2, <1>3, <1>4 DEF NodeInv, RowOf
  <2>6. /\ {<<Root, c>>} \cap ((Group \ {Root}) \X {c}) = {}
        /\ {<<Root, c>>} \cup ((Group \ {Root}) \X {c}) = Group \X {c}
    BY <1>1
  <2> QED
    BY <2>4, <2>5, <2>6, BagOfUnion DEF Sum
<1>6. Sum(c) \in Values
  <2>1. Group \X {c} \subseteq Contributions
    BY DEF Contributions
  <2> QED
    BY <2>1, BagIsValue DEF Sum
<1>7. PICK p, s : /\ p = IF RootSends THEN "write" ELSE "outside"
                  /\ s = step[Root]
  OBVIOUS
<1>8. /\ pc' = [pc EXCEPT ![Root] = p]
      /\ step' = [step EXCEPT ![Root] = s]
      /\ got' = [got EXCEPT ![Root] = Emptied]
      /\ buffer' = [buffer EXCEPT ![Root] = [e \in 0 .. size - 1 |-> @[e] (+) GatheredSum(e)]]
  BY <1>1, <1>7 DEF StarReduce, Shapes
<1>9. /\ DOMAIN buffer' = Group /\ \A i \in Group \ {Root} : buffer'[i] = buffer[i]
      /\ buffer'[Root] = [e \in 0 .. size - 1 |-> buffer[Root][e] (+) GatheredSum(e)]
  BY <1>1, <1>8 DEF Shapes
<1>10. /\ buffer'[Root] \in [0 .. size - 1 -> Values]
       /\ \A e \in 0 .. size - 1 : buffer'[Root][e] = Sum(c)
  BY <1>5, <1>6, <1>9
<1>11. RowOf(Root)'
  <2>1. call'[Root] = c /\ pc'[Root] = p /\ p \notin {"read", "apply"}
    BY <1>1, <1>2, <1>4, <1>7, <1>8 DEF Shapes
  <2>2. Root' = Root
    BY DEF Root
  <2> QED
    BY <1>2, <1>3, <1>10, <2>1, <2>2, ArgumentsKept, StreamsKept DEF RowOf
<1>12. SlicesOf(Root)' /\ KeyValuesOf(Root)'
  BY <1>2, <1>3, ArgumentsKept DEF SlicesOf, KeyValuesOf
<1>13. Root' = Root
  BY DEF Root
<1> QED
  BY <1>1, <1>2, <1>3, <1>7, <1>8, <1>9, <1>11, <1>12, UseKeeps

LEMMA StarReceiveKeeps ==
  ASSUME IInv, NEW n \in Group, StarReceive(n)
  PROVE  IInv'
<1>1. Arguments /\ Phases /\ Shapes /\ NodeInv(n)
  BY DEF IInv, NodeInv, Phases
<1>2. /\ ~Stepwise /\ n # Root /\ pc[n] = "apply"
      /\ arguments' = arguments /\ UNCHANGED <<chan, call, step, sent, missing>>
  BY DEF StarReceive
<1>3. ~Ring /\ ~Pairs
  BY <1>1, <1>2, OneAlgorithm
<1>4. PICK c \in 1 .. MaxCalls : c = call[n] /\ c - 1 \in Nat /\ (c - 1) + 1 = c
  BY <1>1, <1>2, ArgumentTypes DEF NodeInv, PhaseOf, Shapes
<1>5. ASSUME NEW e \in 0 .. size - 1
      PROVE  /\ Got(n, Root, e) \in Values
             /\ Star => Got(n, Root, e) = Sum(c)
             /\ Broadcast => Got(n, Root, e) = SetToBag({<<Root, c>>})
  <2>1. Root \in Sources(n) /\ e \in ReadRange(n)
    BY <1>2, <1>3 DEF Sources, ReadRange
  <2>2. Taken(n, Root) = c - 1
    BY <1>2, <1>3, <1>4 DEF Taken
  <2>3. Meant(Root, c - 1, e - ReadBase(n), Got(n, Root, e))
    BY <1>2, <2>1, <2>2, ReadsMeant
  <2> QED
    BY <1>4, <2>3 DEF Meant
<1>6. PICK p, s : p = "outside" /\ s = step[n]
  OBVIOUS
<1>7. /\ pc' = [pc EXCEPT ![n] = p]
      /\ step' = [step EXCEPT ![n] = s]
      /\ got' = [got EXCEPT ![n] = Emptied]
      /\ buffer' = [buffer EXCEPT ![n] = [e \in 0 .. size - 1 |-> Got(n, Root, e)]]
  BY <1>1, <1>6 DEF StarReceive, Shapes
<1>8. /\ DOMAIN buffer' = Group /\ \A i \in Group \ {n} : buffer'[i] = buffer[i]
      /\ buffer'[n] = [e \in 0 .. size - 1 |-> Got(n, Root, e)]
  BY <1>1, <1>7 DEF Shapes
<1>9. /\ buffer'[n] \in [0 .. size - 1 -> Values]
      /\ \A e \in 0 .. size - 1 : /\ Star => buffer'[n][e] = Sum(c)
                                  /\ Broadcast => buffer'[n][e] = SetToBag({<<Root, c>>})
  BY <1>5, <1>8
<1>10. RowOf(n)'
  <2>1. call'[n] = c /\ pc'[n] = "outside"
    BY <1>1, <1>2, <1>4, <1>6, <1>7 DEF Shapes
  <2>2. Root' = Root
    BY DEF Root
  <2> QED
    BY <1>2, <1>9, <2>1, <2>2, ArgumentsKept, StreamsKept DEF RowOf
<1>11. SlicesOf(n)' /\ KeyValuesOf(n)'
  BY <1>2, <1>3, ArgumentsKept DEF SlicesOf, KeyValuesOf
<1> QED
  BY <1>2, <1>6, <1>7, <1>8, <1>10, <1>11, UseKeeps

LEMMA RingStepKeeps ==
  ASSUME IInv, NEW n \in Group, RingStep(n)
  PROVE  IInv'
<1>1. Arguments /\ Phases /\ Shapes /\ NodeInv(n)
  BY DEF IInv, NodeInv, Phases
<1>2. /\ Ring /\ pc[n] = "apply"
      /\ arguments' = arguments /\ UNCHANGED <<chan, call, sent, missing>>
  BY DEF RingStep
<1>3. ~Pairs /\ ~Star /\ ~Broadcast /\ Stepwise /\ Steps = 2 * (nNodes - 1)
  BY <1>1, <1>2, OneAlgorithm DEF Steps
<1>4. PICK c \in 1 .. MaxCalls, s \in 0 .. Steps - 1 : c = call[n] /\ s = step[n] /\ c \in Nat \ {0}
  <2>1. call[n] \in 1 .. MaxCalls /\ step[n] \in 0 .. Steps - 1
    BY <1>1, <1>2, <1>3, ArgumentTypes DEF NodeInv, PhaseOf, Shapes
  <2> QED
    BY <2>1
<1>5. nNodes \in Nat /\ nNodes >= 2 /\ s \in Nat
  BY <1>1, <1>4, ArgumentTypes
<1>6. PICK k \in Group : k = RecvChunk(n) /\ (s < nNodes - 1 => Behind(n, k) = s + 1)
  BY <1>1, <1>4, <1>5, RingChunks
<1>7. ReadRange(n) = Slice(k) /\ Slice(k) \subseteq 0 .. size - 1
  BY <1>1, <1>2, <1>6, RingSlices DEF ReadRange
<1>8. ASSUME NEW e \in Slice(k)
      PROVE  /\ Got(n, PrevNode(n), e) \in Values
             /\ s < nNodes - 1 => Got(n, PrevNode(n), e) = SetToBag(Arc(PrevNode(n), s) \X {c})
  <2>1. PrevNode(n) \in Sources(n) /\ e \in ReadRange(n)
    BY <1>2, <1>7 DEF Sources
  <2>2. Taken(n, PrevNode(n)) = RingFrame(c) + s
    BY <1>2, <1>4 DEF Taken, Turn
  <2>3. Meant(PrevNode(n), RingFrame(c) + s, e - ReadBase(n), Got(n, PrevNode(n), e))
    BY <1>2, <2>1, <2>2, ReadsMeant
  <2>4. s < nNodes - 1 => s \in 0 .. nNodes - 2
    BY <1>5
  <2> QED
    BY <1>2, <2>3, <2>4 DEF Meant
<1>9. PICK p, t : /\ t = s + 1
                  /\ p = IF s + 1 < Steps THEN FirstCall(n, s + 1) ELSE "outside"
  OBVIOUS
<1>10. /\ pc' = [pc EXCEPT ![n] = p]
       /\ step' = [step EXCEPT ![n] = t]
       /\ got' = [got EXCEPT ![n] = Emptied]
       /\ buffer' = [buffer EXCEPT ![n] =
            [e \in 0 .. size - 1 |->
               IF e \notin ReadRange(n) THEN @[e]
               ELSE IF Reducing(n) THEN @[e] (+) Got(n, PrevNode(n), e) ELSE Got(n, PrevNode(n), e)]]
  BY <1>1, <1>4, <1>9 DEF RingStep, Shapes
<1>11. /\ DOMAIN buffer' = Group /\ \A i \in Group \ {n} : buffer'[i] = buffer[i]
       /\ buffer'[n] = [e \in 0 .. size - 1 |->
               IF e \notin ReadRange(n) THEN buffer[n][e]
               ELSE IF Reducing(n) THEN buffer[n][e] (+) Got(n, PrevNode(n), e)
               ELSE Got(n, PrevNode(n), e)]
  BY <1>1, <1>10 DEF Shapes
<1>12. \A e \in 0 .. size - 1 :
         /\ e \notin Slice(k) => buffer'[n][e] = buffer[n][e]
         /\ e \in Slice(k) /\ s < nNodes - 1 =>
              buffer'[n][e] = buffer[n][e] (+) Got(n, PrevNode(n), e)
         /\ e \in Slice(k) /\ ~(s < nNodes - 1) => buffer'[n][e] = Got(n, PrevNode(n), e)
  BY <1>4, <1>7, <1>11 DEF Reducing
<1>13. /\ buffer[n] \in [0 .. size - 1 -> Values]
       /\ s <= nNodes - 1 =>
            \A d \in Group : \A e \in Slice(d) :
              buffer[n][e] = SetToBag(Arc(n, IF Behind(n, d) <= s THEN Behind(n, d) ELSE 0) \X {c})
  BY <1>1, <1>2, <1>4 DEF NodeInv, SlicesOf
<1>14. ASSUME s < nNodes - 1, NEW e \in Slice(k)
       PROVE  buffer'[n][e] = SetToBag(Arc(n, s + 1) \X {c})
  <2>1. s <= nNodes - 1 /\ ~(s + 1 <= s)
    BY <1>5, <1>14
  <2>2. buffer[n][e] = SetToBag({n} \X {c})
    <3>1. Arc(n, 0) = {n}
      BY <1>1, ArcGrows
    <3> QED
      BY <1>6, <1>13, <1>14, <2>1, <3>1
  <2>3. Got(n, PrevNode(n), e) = SetToBag(Arc(PrevNode(n), s) \X {c})
    BY <1>8, <1>14
  <2>4. s \in 0 .. nNodes - 2
    BY <1>5, <1>14
  <2>5. Arc(PrevNode(n), s) \cup {n} = Arc(n, s + 1) /\ n \notin Arc(PrevNode(n), s)
    BY <1>1, <2>4, ArcGrows
  <2>6. /\ ({n} \X {c}) \cap (Arc(PrevNode(n), s) \X {c}) = {}
        /\ ({n} \X {c}) \cup (Arc(PrevNode(n), s) \X {c}) = Arc(n, s + 1) \X {c}
    <3> PICK A, B : A = Arc(PrevNode(n), s) /\ B = Arc(n, s + 1)
      OBVIOUS
    <3>1. A \cup {n} = B /\ n \notin A
      BY <2>5
    <3>2. ({n} \X {c}) \cap (A \X {c}) = {} /\ ({n} \X {c}) \cup (A \X {c}) = B \X {c}
      BY ONLY <3>1
    <3> QED
      BY <3>2
  <2>7. SetToBag({n} \X {c}) (+) SetToBag(Arc(PrevNode(n), s) \X {c}) = SetToBag(Arc(n, s + 1) \X {c})
    BY <2>6, BagOfUnion
  <2>8. buffer'[n][e] = buffer[n][e] (+) Got(n, PrevNode(n), e)
    BY <1>7, <1>12, <1>14
  <2> QED
    BY <2>2, <2>3, <2>7, <2>8
<1>15. buffer'[n] \in [0 .. size - 1 -> Values]
  <2>1. \A x : SetToBag(Arc(n, x) \X {c}) \in Values
    <3>1. \A x : Arc(n, x) \X {c} \subseteq Contributions
      BY <1>4 DEF Arc, Contributions
    <3> QED
      BY <3>1, BagIsValue
  <2>2. ASSUME NEW e \in 0 .. size - 1
        PROVE  buffer'[n][e] \in Values
    <3>1. CASE e \notin Slice(k)
      BY <3>1, <1>12, <1>13
    <3>2. CASE e \in Slice(k) /\ s < nNodes - 1
      BY <3>2, <1>14, <2>1
    <3>3. CASE e \in Slice(k) /\ ~(s < nNodes - 1)
      BY <3>3, <1>8, <1>12, <2>1
    <3> QED
      BY <3>1, <3>2, <3>3
  <2> QED
    BY <1>11, <2>2
<1>16. ASSUME s + 1 <= nNodes - 1, NEW d \in Group, NEW e \in Slice(d)
       PROVE  buffer'[n][e] =
                SetToBag(Arc(n, IF Behind(n, d) <= s + 1 THEN Behind(n, d) ELSE 0) \X {c})
  <2>1. s < nNodes - 1 /\ s <= nNodes - 1 /\ s + 1 <= s + 1
    BY <1>5, <1>16
  <2>2. CASE d = k
    BY <1>6, <1>14, <1>16, <2>1, <2>2
  <2>3. CASE d # k
    <3>1. e \notin Slice(k) /\ e \in 0 .. size - 1
      BY <1>1, <1>2, <1>16, <2>3, RingSlices
    <3>2. Behind(n, d) \in Int /\ Behind(n, d) # s + 1
      BY <1>5, <1>6, <2>1, <2>3 DEF Behind, Group
    <3>3. Behind(n, d) <= s + 1 <=> Behind(n, d) <= s
      BY <1>5, <3>2
    <3> QED
      BY <1>12, <1>13, <1>16, <2>1, <3>1, <3>3
  <2> QED
    BY <2>2, <2>3
<1>17. SlicesOf(n)'
  <2>1. call'[n] = c /\ step'[n] = s + 1
    BY <1>1, <1>2, <1>4, <1>9, <1>10 DEF Shapes
  <2> QED
    BY <1>2, <1>15, <1>16, <2>1, ArgumentsKept, StreamsKept DEF SlicesOf
<1>18. RowOf(n)' /\ KeyValuesOf(n)'
  BY <1>2, <1>3, ArgumentsKept DEF RowOf, KeyValuesOf
<1> QED
  BY <1>2, <1>3, <1>4, <1>9, <1>10, <1>11, <1>17, <1>18, UseKeeps

LEMMA PairStepKeeps ==
  ASSUME IInv, NEW n \in Group, PairStep(n)
  PROVE  IInv'
<1>1. Arguments /\ Phases /\ Shapes /\ NodeInv(n)
  BY DEF IInv, NodeInv, Phases
<1>2. /\ Pairs /\ pc[n] = "apply"
      /\ arguments' = arguments /\ UNCHANGED <<chan, call, sent, missing>>
  BY DEF PairStep
<1>3. ~Ring /\ Stepwise /\ Steps = nNodes - 1
  BY <1>1, <1>2, OneAlgorithm DEF Steps
<1>4. PICK c \in Nat, s \in 0 .. nNodes - 2 :
        c = call[n] /\ s = step[n] /\ c - 1 \in Nat /\ (c - 1) + 1 = c
  <2>1. call[n] \in Nat /\ call[n] >= 1 /\ step[n] \in 0 .. nNodes - 2
    BY <1>1, <1>2, <1>3, ArgumentTypes DEF NodeInv, PhaseOf, Shapes
  <2> QED
    BY <2>1
<1>5. PICK k \in Group \ {n} : k = Peer(n) /\ StepWith(n, k) = s
  BY <1>1, <1>4, PeersMeet DEF Peer
<1>6. ReadRange(n) = SliceRows(k, c)
  BY <1>2, <1>3, <1>4, <1>5 DEF ReadRange
<1>7. \A m \in Group : SliceRows(m, c) \subseteq LocalSeq(m) /\ SliceRows(m, c) \subseteq 0 .. SeqLen - 1
  BY <1>1, LocalSeqs DEF SliceRows
<1>8. ASSUME NEW e \in SliceRows(k, c)
      PROVE  Got(n, k, e) \in Values /\ IsRow(k, e, c, Got(n, k, e))
  <2>1. k \in Sources(n) /\ e \in ReadRange(n)
    BY <1>2, <1>3, <1>5, <1>6 DEF Sources
  <2>2. Taken(n, k) = c - 1
    <3>1. ~(s < s)
      BY <1>4
    <3> QED
      BY <1>2, <1>3, <1>4, <1>5, <3>1 DEF Taken
  <2>3. ReadBase(n) = k * LocalSeqLen
    BY <1>2, <1>3, <1>5 DEF ReadBase
  <2>4. Meant(k, c - 1, e - k * LocalSeqLen, Got(n, k, e))
    BY <1>2, <2>1, <2>2, <2>3, ReadsMeant
  <2>5. k * LocalSeqLen + (e - k * LocalSeqLen) = e
    <3>1. k * LocalSeqLen \in Nat /\ e \in Int
      BY <1>1, <1>7, LocalSeqs
    <3> PICK b \in Nat : b = k * LocalSeqLen
      BY <3>1
    <3>2. b + (e - b) = e
      BY ONLY <3>1, b \in Nat
    <3> QED
      BY <3>2
  <2> QED
    BY <1>2, <1>4, <2>4, <2>5 DEF Meant
<1>9. PICK p, t : /\ t = s + 1
                  /\ p = IF s + 1 < Steps THEN FirstCall(n, s + 1) ELSE "outside"
  OBVIOUS
<1>10. /\ pc' = [pc EXCEPT ![n] = p]
       /\ step' = [step EXCEPT ![n] = t]
       /\ got' = [got EXCEPT ![n] = Emptied]
       /\ buffer' = [buffer EXCEPT ![n] =
            [e \in DOMAIN @ |-> IF e \in ReadRange(n) THEN Got(n, Peer(n), e) ELSE @[e]]]
  BY <1>1, <1>4, <1>9 DEF PairStep, Shapes
<1>11. /\ buffer[n] \in [0 .. SeqLen - 1 -> Values]
       /\ missing[n] \subseteq 0 .. SeqLen - 1
       /\ \A e \in SliceRows(n, c) : IsRow(n, e, c, buffer[n][e])
       /\ \A m \in Group \ {n} : StepWith(n, m) < s =>
            \A e \in SliceRows(m, c) : IsRow(m, e, c, buffer[n][e])
  BY <1>1, <1>2, <1>4 DEF NodeInv, PhaseOf, KeyValuesOf
<1>12. /\ DOMAIN buffer' = Group /\ \A i \in Group \ {n} : buffer'[i] = buffer[i]
       /\ buffer'[n] = [e \in 0 .. SeqLen - 1 |-> buffer'[n][e]]
       /\ \A e \in 0 .. SeqLen - 1 :
            buffer'[n][e] = IF e \in SliceRows(k, c) THEN Got(n, k, e) ELSE buffer[n][e]
  <2>1. /\ DOMAIN buffer' = Group /\ \A i \in Group \ {n} : buffer'[i] = buffer[i]
        /\ buffer'[n] = [e \in DOMAIN buffer[n] |->
             IF e \in ReadRange(n) THEN Got(n, Peer(n), e) ELSE buffer[n][e]]
    BY <1>1, <1>10 DEF Shapes
  <2>2. DOMAIN buffer[n] = 0 .. SeqLen - 1
    BY <1>11
  <2>3. \A e \in 0 .. SeqLen - 1 :
          buffer'[n][e] = IF e \in SliceRows(k, c) THEN Got(n, k, e) ELSE buffer[n][e]
    BY <1>5, <1>6, <2>1, <2>2
  <2>4. buffer'[n] = [e \in 0 .. SeqLen - 1 |-> buffer'[n][e]]
    BY <2>1, <2>2
  <2> QED
    BY <2>1, <2>3, <2>4
<1>13. /\ buffer'[n] \in [0 .. SeqLen - 1 -> Values]
       /\ \A e \in SliceRows(k, c) : buffer'[n][e] = Got(n, k, e)
       /\ \A m \in Group : m # k => \A e \in SliceRows(m, c) : buffer'[n][e] = buffer[n][e]
  <2>1. \A m \in Group : m # k => \A e \in SliceRows(m, c) : e \notin SliceRows(k, c)
    BY <1>1, <1>7, LocalSeqs
  <2>2. ASSUME NEW e \in 0 .. SeqLen - 1
        PROVE  buffer'[n][e] \in Values
    <3>1. buffer[n][e] \in Values
      BY <1>11
    <3>2. buffer'[n][e] = IF e \in SliceRows(k, c) THEN Got(n, k, e) ELSE buffer[n][e]
      BY <1>12
    <3> QED
      BY <1>8, <3>1, <3>2
  <2>3. buffer'[n] \in [0 .. SeqLen - 1 -> Values]
    BY <1>12, <2>2
  <2>4. \A e \in SliceRows(k, c) : buffer'[n][e] = Got(n, k, e)
    BY <1>7, <1>12
  <2>5. \A m \in Group : m # k => \A e \in SliceRows(m, c) : buffer'[n][e] = buffer[n][e]
    BY <1>7, <1>12, <2>1
  <2> QED
    BY <2>3, <2>4, <2>5
<1>14. KeyValuesOf(n)'
  <2>1. call'[n] = c /\ step'[n] = s + 1 /\ pc'[n] = p /\ missing'[n] = missing[n]
    BY <1>1, <1>2, <1>4, <1>9, <1>10 DEF Shapes
  <2>2. \A e \in SliceRows(n, c) : IsRow(n, e, c, buffer'[n][e])
    BY <1>11, <1>13
  <2>3. ASSUME NEW m \in Group \ {n}, p = "outside" \/ StepWith(n, m) < s + 1,
               NEW e \in SliceRows(m, c)
        PROVE  IsRow(m, e, c, buffer'[n][e])
    <3>1. StepWith(n, m) \in 0 .. nNodes - 2 /\ PeerAt(n, StepWith(n, m)) = m
      BY <1>1, PeersMeet
    <3>2. p = "outside" => s + 1 = nNodes - 1
      BY <1>1, <1>3, <1>4, <1>9, FirstCallOf, <1>2, ArgumentTypes
    <3>3. StepWith(n, m) = s \/ StepWith(n, m) < s
      BY <1>1, <1>4, <2>3, <3>1, <3>2, ArgumentTypes
    <3>4. CASE StepWith(n, m) = s
      <4>1. m = k
        BY <1>4, <1>5, <3>1, <3>4 DEF Peer
      <4> QED
        BY <1>8, <1>13, <2>3, <4>1
    <3>5. CASE StepWith(n, m) < s
      <4>1. m # k
        BY <1>4, <1>5, <3>5
      <4> QED
        BY <1>11, <1>13, <2>3, <3>5, <4>1
    <3> QED
      BY <3>3, <3>4, <3>5
  <2>4. \A m : StepWith(n, m)' = StepWith(n, m)
    BY DEF StepWith
  <2> QED
    BY <1>2, <1>11, <1>13, <2>1, <2>2, <2>3, <2>4, ArgumentsKept, StreamsKept DEF KeyValuesOf
<1>15. RowOf(n)' /\ SlicesOf(n)'
  BY <1>2, <1>3, ArgumentsKept DEF RowOf, SlicesOf
<1> QED
  BY <1>2, <1>3, <1>4, <1>9, <1>10, <1>12, <1>14, <1>15, UseKeeps

-----------------------------------------------------------------------------
(* Entering a call.                                                        *)

\* What the operations of the segment have computed for the call.
LEMMA EnterBuffers ==
  ASSUME Arguments, Phases, NEW n \in Group, NodeInv(n), Enter(n)
  PROVE  RowOf(n)' /\ SlicesOf(n)' /\ KeyValuesOf(n)' /\ (~Pairs => missing'[n] = {})
<1> USE ArgumentsKept, StreamsKept
<1>1. arguments' = arguments /\ pc[n] = "outside" /\ call[n] \in Nat /\ call[n] < MaxCalls
  BY ArgumentTypes DEF Enter, Phases, Shapes
<1>2. PICK c \in 1 .. MaxCalls : c = call[n] + 1 /\ c \in Nat /\ c - 1 = call[n]
  <2>1. MaxCalls \in Nat
    BY ArgumentTypes
  <2> QED
    BY <1>1, <2>1
<1>3. /\ call'[n] = c /\ step'[n] = 0
      /\ pc'[n] = (IF Skips(c) THEN "outside" ELSE FirstCall(n, 0))
      /\ buffer'[n] = Computed(n, c)
      /\ missing'[n] = IF Pairs
                       THEN missing[n] \cup {e \in 0 .. ActiveRows(c) - 1 : Computed(n, c)[e] = EmptyBag}
                       ELSE missing[n]
      /\ Pairs => ActiveRows(c) <= SeqLen
  BY <1>2 DEF Enter, Phases, Shapes
<1>4. SetToBag({<<n, c>>}) \in Values
  <2>1. {<<n, c>>} \subseteq Contributions
    BY <1>2 DEF Contributions
  <2> QED
    BY <2>1, BagIsValue
<1>5. ~Pairs => /\ buffer'[n] \in [0 .. size - 1 -> Values]
                /\ \A e \in 0 .. size - 1 : buffer'[n][e] = SetToBag({<<n, c>>})
                /\ pc'[n] = FirstCall(n, 0) /\ pc'[n] \in {"write", "read"}
                /\ missing'[n] = {}
  <2> SUFFICES ASSUME ~Pairs
               PROVE  /\ buffer'[n] \in [0 .. size - 1 -> Values]
                      /\ \A e \in 0 .. size - 1 : buffer'[n][e] = SetToBag({<<n, c>>})
                      /\ pc'[n] = FirstCall(n, 0) /\ pc'[n] \in {"write", "read"}
                      /\ missing'[n] = {}
    OBVIOUS
  <2>1. buffer'[n] = [e \in 0 .. size - 1 |-> SetToBag({<<n, c>>})]
    BY <1>3 DEF Computed
  <2>2. pc'[n] = FirstCall(n, 0)
    BY <1>3 DEF Skips
  <2>3. FirstCall(n, 0) \in {"write", "read"}
    BY FirstCallOf
  <2>4. missing'[n] = {}
    BY <1>3 DEF NodeInv
  <2> QED
    BY <1>4, <2>1, <2>2, <2>3, <2>4
<1>6. RowOf(n)'
  <2>1. CASE Stepwise
    BY <1>1, <2>1 DEF RowOf
  <2>2. CASE ~Stepwise
    <3>1. ~Pairs /\ ~Ring /\ (Star => ~Broadcast)
      BY <2>2, OneAlgorithm
    <3>2. Root' = Root
      BY DEF Root
    <3>3. Star /\ n = Root => pc'[n] # "write"
      BY <1>5, <3>1, FirstCallOf
    <3> QED
      BY <1>1, <1>3, <1>5, <2>2, <3>1, <3>2, <3>3 DEF RowOf, Returned
  <2> QED
    BY <2>1, <2>2
<1>7. SlicesOf(n)'
  <2>1. CASE Ring
    <3>1. ~Pairs
      BY <2>1, OneAlgorithm
    <3>2. \A d \in Group : (IF Behind(n, d) <= 0 THEN Behind(n, d) ELSE 0) = 0
      BY ArgumentTypes DEF Behind, Group
    <3>3. Arc(n, 0) = {n} /\ {n} \X {c} = {<<n, c>>}
      BY ArcGrows
    <3>4. \A d \in Group : \A e \in Slice(d) : e \in 0 .. size - 1
      BY <2>1, RingSlices
    <3>5. \A d \in Group : \A e \in Slice(d) :
            buffer'[n][e] = SetToBag(Arc(n, IF Behind(n, d) <= 0 THEN Behind(n, d) ELSE 0) \X {c})
      BY <1>5, <3>1, <3>2, <3>3, <3>4
    <3> QED
      BY <1>1, <1>3, <1>5, <2>1, <3>1, <3>5 DEF SlicesOf
  <2>2. CASE ~Ring
    BY <1>1, <2>2 DEF SlicesOf
  <2> QED
    BY <2>1, <2>2
<1>8. KeyValuesOf(n)'
  <2>1. CASE ~Pairs
    BY <1>1, <2>1 DEF KeyValuesOf
  <2>2. CASE Pairs
    <3>1. /\ buffer[n] \in [0 .. SeqLen - 1 -> Values]
          /\ missing[n] \subseteq 0 .. SeqLen - 1
          /\ \A e \in SliceRows(n, c - 1) : IsRow(n, e, c - 1, buffer[n][e])
      BY <1>2, <2>2 DEF NodeInv, KeyValuesOf
    <3>2. buffer'[n] = [e \in DOMAIN buffer[n] |->
            IF e \in LocalSeq(n) \cap Positions(c) THEN SetToBag({<<n, c>>}) ELSE buffer[n][e]]
      BY <1>3, <2>2 DEF Computed
    <3>3. \A e \in 0 .. SeqLen - 1 :
            buffer'[n][e] = IF e \in LocalSeq(n) \cap Positions(c) THEN SetToBag({<<n, c>>}) ELSE buffer[n][e]
      BY <3>1, <3>2
    <3>4. buffer'[n] \in [0 .. SeqLen - 1 -> Values]
      <4>1. DOMAIN buffer[n] = 0 .. SeqLen - 1 /\ \A e \in 0 .. SeqLen - 1 : buffer[n][e] \in Values
        BY <3>1
      <4> QED
        BY <1>4, <3>2, <4>1
    <3>5. missing'[n] \subseteq 0 .. SeqLen - 1
      <4>1. ActiveRows(c) \in Nat /\ SeqLen \in Nat /\ ActiveRows(c) <= SeqLen
        BY <1>2, <1>3, <2>2, ActiveRowsGrow, LocalSeqs
      <4>2. 0 .. ActiveRows(c) - 1 \subseteq 0 .. SeqLen - 1
        BY ONLY <4>1
      <4> QED
        BY <1>3, <2>2, <3>1, <4>2
    <3>6. ASSUME NEW e \in SliceRows(n, c)
          PROVE  IsRow(n, e, c, buffer'[n][e])
      <4>1. e \in LocalSeq(n) /\ e \in 0 .. SeqLen - 1 /\ e \in 0 .. ActiveRows(c) - 1
        BY LocalSeqs DEF SliceRows
      <4>2. CASE e \in Positions(c)
        <5>1. buffer'[n][e] = SetToBag({<<n, c>>})
          BY <3>3, <4>1, <4>2
        <5>2. c \in 1 .. c
          BY <1>2
        <5> QED
          BY <4>2, <5>1, <5>2 DEF IsRow
      <4>3. CASE e \notin Positions(c)
        <5>1. /\ ActiveRows(c - 1) \in Nat /\ ActiveRows(c) \in Nat
              /\ Positions(c) = ActiveRows(c - 1) .. ActiveRows(c) - 1
          <6>1. c - 1 \in Nat /\ (c - 1) + 1 = c
            BY <1>1, <1>2
          <6>2. PICK d \in Nat : d = c - 1 /\ d + 1 = c
            BY <6>1
          <6> d + 1 \in Nat
            OBVIOUS
          <6>3. /\ ActiveRows(d) \in Nat /\ ActiveRows(d + 1) \in Nat
                /\ Positions(d + 1) = ActiveRows(d) .. ActiveRows(d + 1) - 1
            BY ActiveRowsGrow
          <6> QED
            BY <6>2, <6>3
        <5>2. e \in 0 .. ActiveRows(c - 1) - 1
          BY <4>1, <4>3, <5>1
        <5>3. e \in SliceRows(n, c - 1)
          BY <4>1, <5>2 DEF SliceRows
        <5>4. IsRow(n, e, c - 1, buffer[n][e]) /\ buffer'[n][e] = buffer[n][e]
          BY <3>1, <3>3, <4>1, <4>3, <5>3
        <5>5. PICK k \in 1 .. c - 1 : e \in Positions(k) /\ buffer[n][e] = SetToBag({<<n, k>>})
          BY <5>4 DEF IsRow
        <5>6. k \in 1 .. c
          BY <1>2
        <5> QED
          BY <5>4, <5>5, <5>6 DEF IsRow
      <4> QED
        BY <4>2, <4>3
    <3>7. ASSUME NEW m \in Group \ {n}, ~Skips(c)
          PROVE  pc'[n] # "outside" /\ ~(StepWith(n, m)' < 0)
      <4>1. StepWith(n, m) \in 0 .. nNodes - 2 /\ StepWith(n, m)' = StepWith(n, m)
        BY PeersMeet DEF StepWith
      <4>2. pc'[n] = FirstCall(n, 0) /\ FirstCall(n, 0) # "outside"
        BY <1>3, <2>2, <3>7, FirstCallOf
      <4> QED
        BY <4>1, <4>2, ArgumentTypes
    <3> QED
      BY <1>1, <1>3, <2>2, <3>4, <3>5, <3>6, <3>7 DEF KeyValuesOf
  <2> QED
    BY <2>1, <2>2
<1> QED
  BY <1>5, <1>6, <1>7, <1>8

LEMMA EnterKeeps ==
  ASSUME IInv, NEW n \in Group, Enter(n)
  PROVE  IInv'
<1>1. /\ Arguments /\ Phases /\ Shapes
      /\ \A i \in Group : NodeInv(i)
      /\ \A i, j \in Group : StreamOf(i, j)
  BY DEF IInv, NodeInv, Phases
<1>2. /\ pc[n] = "outside" /\ arguments' = arguments
      /\ UNCHANGED <<chan, sent, got>>
  BY DEF Enter
<1>3. PICK c \in 1 .. MaxCalls : c = call[n] + 1 /\ c \in Nat /\ call[n] \in Nat
  <2>1. MaxCalls \in Nat /\ call[n] \in Nat /\ call[n] < MaxCalls
    BY <1>1, ArgumentTypes DEF Enter, Shapes
  <2> QED
    BY <2>1
<1>4. PICK p, b : /\ p = (IF Skips(c) THEN "outside" ELSE FirstCall(n, 0))
                  /\ pc' = [pc EXCEPT ![n] = p]
                  /\ call' = [call EXCEPT ![n] = c]
                  /\ step' = [step EXCEPT ![n] = 0]
                  /\ buffer' = [buffer EXCEPT ![n] = b]
                  /\ Pairs => ActiveRows(c) <= SeqLen
  BY <1>3 DEF Enter
<1>5. /\ pc'[n] = p /\ call'[n] = c /\ step'[n] = 0
      /\ \A i \in Group \ {n} : buffer'[i] = buffer[i] /\ missing'[i] = missing[i]
      /\ DOMAIN buffer' = Group /\ DOMAIN missing' = Group
  <2>1. DOMAIN missing' = Group /\ \A i \in Group \ {n} : missing'[i] = missing[i]
    BY <1>1 DEF Enter, Shapes
  <2> QED
    BY <1>1, <1>4, <2>1 DEF Shapes
<1>6. p \in {"outside", "write", "read"} /\ (p # "outside" => p = FirstCall(n, 0) /\ ~Skips(c))
  BY <1>1, <1>4, FirstCallOf, OneAlgorithm
<1>7. Shapes' /\ Elsewhere(n)
  <2>1. Group' = Group /\ Steps' = Steps /\ Steps \in Nat /\ Steps >= 1
    BY <1>1, <1>2, ArgumentsKept, ArgumentTypes
  <2>2. /\ pc' \in [Group -> {"outside", "write", "read", "apply"}] /\ step' \in [Group -> 0 .. Steps]
        /\ call' \in [Group -> 0 .. MaxCalls]
    <3>1. 0 \in 0 .. Steps /\ c \in 0 .. MaxCalls
      BY <1>3, <2>1
    <3> QED
      BY <1>1, <1>4, <1>6, <3>1 DEF Shapes
  <2>3. Elsewhere(n)
    BY <1>1, <1>4 DEF Elsewhere, Shapes
  <2> QED
    BY <1>1, <1>2, <1>5, <2>1, <2>2, <2>3 DEF Shapes
<1>8. PhaseOf(n)'
  <2>1. Root' = Root
    BY DEF Root
  <2>2. ~Stepwise /\ p = "write" => IF n = Root THEN RootSends ELSE Star
    BY <1>1, <1>6, FirstCallOf, OneAlgorithm
  <2>3. ~Stepwise /\ p = "read" => IF n = Root THEN Star ELSE RootSends
    BY <1>1, <1>6, FirstCallOf, OneAlgorithm
  <2>4. Steps \in Nat /\ 0 < Steps /\ c >= 1
    BY <1>1, <1>3, ArgumentTypes
  <2> QED
    BY <1>2, <1>4, <1>5, <1>6, <2>1, <2>2, <2>3, <2>4, ArgumentsKept DEF PhaseOf
<1>9. Cardinality(WriteRange(n)') \in Nat /\ Cardinality(ReadRange(n)') \in Nat
  <2>1. Arguments' /\ n \in Group' /\ call'[n] \in Nat /\ step'[n] \in Nat
    BY <1>1, <1>2, <1>3, <1>5, ArgumentsKept
  <2> QED
    BY <2>1, RangesFiniteNext
<1>10. \A t \in Group : sent[n][t] = 0 /\ got[n][t] = <<>>
  BY <1>1, <1>2 DEF NodeInv, SentOf, GotOf, HasRead
<1>11. SentOf(n)'
  <2>1. 0 <= Cardinality(WriteRange(n)')
    BY <1>9
  <2> QED
    BY <1>2, <1>10, <2>1, ArgumentsKept DEF SentOf
<1>12. GotOf(n)'
  <2>1. ~HasRead(n)'
    BY <1>2, <1>5, <1>6, ArgumentsKept DEF HasRead
  <2>2. Len(<<>>) = 0 /\ 0 <= Cardinality(ReadRange(n)')
    BY <1>9
  <2> QED
    BY <1>2, <1>10, <2>1, <2>2, ArgumentsKept DEF GotOf
<1>13. NodeInv(n)'
  BY <1>1, <1>2, <1>8, <1>11, <1>12, EnterBuffers, ArgumentsKept DEF NodeInv
<1>14. \A i \in Group \ {n} : \A j : Written(i, j)' = Written(i, j) /\ Taken(i, j)' = Taken(i, j)
  BY <1>2, <1>7, CountsLocal DEF Elsewhere
<1>15. ASSUME NEW j \in Group
       PROVE  /\ Written(n, j) \in Nat /\ Taken(n, j) \in Nat
              /\ Linked(n, j) => Written(n, j)' = Written(n, j) + IF Skips(c) THEN 1 ELSE 0
              /\ Linked(j, n) => Taken(n, j)' = Taken(n, j) + IF Skips(c) THEN 1 ELSE 0
  BY <1>1, <1>3, EnterCounts, CountsType
<1>16. ASSUME NEW j \in Group, Skips(c)
       PROVE  Width(n, Written(n, j)) = 0 /\ Width(j, Taken(n, j)) = 0
  <2>1. Pairs /\ ~Ring
    BY <1>1, <1>16, OneAlgorithm DEF Skips
  <2>2. Written(n, j) + 1 = c /\ Taken(n, j) + 1 = c
    <3>1. Written(n, j) = call[n] - 0 /\ Taken(n, j) = call[n] - 0
      BY <1>2, <2>1 DEF Written, Taken
    <3> QED
      BY <1>3, <3>1
  <2> QED
    BY <1>16, <2>1, <2>2 DEF Width
<1>17. ASSUME NEW j \in Group \ {n}, Linked(n, j)
       PROVE  StreamOf(n, j)'
  <2>1. CASE Skips(c)
    BY <1>2, <1>10, <1>14, <1>15, <1>16, <1>17, <2>1, StreamDone
  <2>2. CASE ~Skips(c)
    BY <1>1, <1>2, <1>14, <1>15, <1>17, <2>2, StreamLocal
  <2> QED
    BY <2>1, <2>2
<1>18. ASSUME NEW j \in Group \ {n}, Linked(j, n)
       PROVE  StreamOf(j, n)'
  <2>1. CASE Skips(c)
    <3>1. Len(<<>>) = 0
      OBVIOUS
    <3> QED
      BY <1>2, <1>10, <1>14, <1>15, <1>16, <1>18, <2>1, <3>1, StreamUsed
  <2>2. CASE ~Skips(c)
    BY <1>1, <1>2, <1>14, <1>15, <1>18, <2>2, StreamLocal
  <2> QED
    BY <2>1, <2>2
<1> QED
  BY <1>2, <1>5, <1>7, <1>13, <1>17, <1>18, SoloKeeps

-----------------------------------------------------------------------------
(* The invariant holds at all times.                                       *)

LEMMA InitInv ==
  ASSUME Init
  PROVE  IInv
<1>1. Arguments
  <2>1. /\ nNodes \in 2 .. MaxNodes /\ syncType \in SyncTypes /\ size \in Sizes
        /\ collectiveType \in {"auto", "star", "ring"} /\ spPrefillOnly \in BOOLEAN
    BY DEF Init
  <2>2. decodeFrom \in 1 .. MaxCalls + 1
    BY AllReduceAssumption DEF Init
  <2> QED
    BY <2>1, <2>2 DEF Arguments
<1>2. /\ nNodes \in Nat /\ MaxCalls \in Nat /\ Steps \in Nat /\ SeqLen \in Nat /\ size \in Nat
  BY <1>1, ArgumentTypes, LocalSeqs
<1>3. \A n \in Group : /\ pc[n] = "outside" /\ call[n] = 0 /\ step[n] = 0 /\ missing[n] = {}
                       /\ buffer[n] = [e \in 0 .. (IF Pairs THEN SeqLen ELSE size) - 1 |-> EmptyBag]
                       /\ \A m \in Group : sent[n][m] = 0 /\ got[n][m] = <<>> /\ chan[<<n, m>>] = <<>>
  BY DEF Init, Emptied
<1>4. Shapes
  BY <1>2 DEF Shapes, Init, Emptied
<1>5. ASSUME NEW n \in Group
      PROVE  NodeInv(n)
  <2>1. ActiveRows(0) = 0 /\ \A m : SliceRows(m, 0) = {}
    <3>1. ActiveRows(0) = 0
      BY <1>1, ActiveRowsGrow
    <3> QED
      BY <3>1 DEF SliceRows
  <2>2. PhaseOf(n)
    BY <1>2, <1>3, <2>1 DEF PhaseOf
  <2>3. SentOf(n) /\ GotOf(n)
    BY <1>3 DEF SentOf, GotOf, HasRead
  <2>4. ~Pairs => buffer[n] \in [0 .. size - 1 -> Values]
    BY <1>3, EmptyIsValue
  <2>5. RowOf(n) /\ SlicesOf(n)
    BY <1>1, <1>3, <2>4, OneAlgorithm DEF RowOf, SlicesOf, Returned
  <2>6. KeyValuesOf(n)
    <3>1. Pairs => buffer[n] \in [0 .. SeqLen - 1 -> Values]
      BY <1>3, EmptyIsValue
    <3> QED
      BY <1>3, <2>1, <3>1 DEF KeyValuesOf
  <2> QED
    BY <1>3, <2>2, <2>3, <2>5, <2>6 DEF NodeInv
<1>6. ASSUME NEW i \in Group, NEW j \in Group
      PROVE  StreamOf(i, j)
  <2>1. \A n \in Group : Turn(n) = 0
    <3>1. RingFrame(1) = 0
      BY <1>2 DEF RingFrame
    <3> QED
      BY <1>3, <3>1 DEF Turn
  <2>2. Written(i, j) = 0 /\ Taken(j, i) = 0
    BY <1>3, <2>1 DEF Written, Taken, Wrote
  <2>3. chan[<<i, j>>] = <<>> /\ sent[i][j] = 0 /\ got[j][i] = <<>>
    BY <1>3
  <2>4. Start(i, 0) = 0
    BY <1>1, StartNext
  <2>5. <<>> \in Seq(Values) /\ Len(<<>>) = 0 /\ 0 <= SocketCapacity
    BY AllReduceAssumption
  <2>6. Stream(i, <<>>, 0, 0, 0, <<>>)
    BY <2>4, <2>5 DEF Stream
  <2> QED
    BY <2>2, <2>3, <2>5, <2>6 DEF StreamOf
<1> QED
  BY <1>1, <1>4, <1>5, <1>6 DEF IInv

LEMMA NextKeeps ==
  ASSUME IInv, [Next]_vars
  PROVE  IInv'
<1>1. CASE Next
  <2>1. PICK n \in Group : NodeStep(n)
    BY <1>1 DEF Next
  <2>2. CASE Enter(n)
    BY <2>2, EnterKeeps
  <2>3. CASE Write(n)
    BY <2>3, WriteKeeps
  <2>4. CASE Read(n)
    BY <2>4, ReadKeeps
  <2>5. CASE n = Root /\ StarReduce
    BY <2>5, StarReduceKeeps
  <2>6. CASE StarReceive(n)
    BY <2>6, StarReceiveKeeps
  <2>7. CASE RingStep(n)
    BY <2>7, RingStepKeeps
  <2>8. CASE PairStep(n)
    BY <2>8, PairStepKeeps
  <2>9. CASE MoveNothing(n)
    BY <2>9, MoveNothingKeeps
  <2> QED
    BY <2>1, <2>2, <2>3, <2>4, <2>5, <2>6, <2>7, <2>8, <2>9 DEF NodeStep
<1>2. CASE UNCHANGED vars
  <2>1. arguments' = arguments /\ UNCHANGED <<chan, pc, call, step, buffer, sent, got, missing>>
    BY <1>2 DEF vars
  <2>2. /\ Arguments /\ Shapes
        /\ \A n \in Group : NodeInv(n)
        /\ \A i, j \in Group : StreamOf(i, j)
    BY DEF IInv
  <2>3. Shapes'
    BY <2>1, <2>2, ArgumentsKept DEF Shapes
  <2>4. \A n \in Group : NodeInv(n)'
    BY <2>1, <2>2, NodeLocal
  <2>5. \A i, j : Written(i, j)' = Written(i, j) /\ Taken(j, i)' = Taken(j, i)
    BY <2>1, CountsLocal
  <2>6. \A i, j \in Group : StreamOf(i, j)'
    BY <2>1, <2>2, <2>5, StreamLocal
  <2> QED
    BY <2>1, <2>2, <2>3, <2>4, <2>6, ArgumentsKept DEF IInv
<1> QED
  BY <1>1, <1>2

\* However far apart the nodes of a group are, a socket holds what its writer
\* has completed and its reader has not used, each value the one meant for its
\* place, and every node's buffers are as far as its own steps say
\* (NnNetworkNodeSynchronizer::sync over its sockets).
THEOREM InductiveInvariant == Spec => []IInv
BY InitInv, NextKeeps, PTL DEF Spec

-----------------------------------------------------------------------------
(* What follows from it.                                                   *)

LEMMA InvTypes ==
  ASSUME IInv
  PROVE  TypeOK
<1>1. /\ Arguments /\ Phases /\ Shapes
      /\ \A n \in Group : NodeInv(n)
      /\ \A i, j \in Group : StreamOf(i, j)
  BY DEF IInv, NodeInv, Phases
<1>2. ASSUME NEW i \in Group, NEW j \in Group
      PROVE  /\ Len(chan[<<i, j>>]) <= SocketCapacity
             /\ \A k \in DOMAIN chan[<<i, j>>] : OneOfEach(chan[<<i, j>>][k])
  <2>1. chan[<<i, j>>] \in Seq(Values) /\ Len(chan[<<i, j>>]) <= SocketCapacity
    <3>1. CASE Linked(i, j)
      BY <1>1, <3>1 DEF StreamOf, Stream
    <3>2. CASE ~Linked(i, j)
      <4>1. chan[<<i, j>>] = <<>>
        BY <1>1, <3>2 DEF StreamOf
      <4> QED
        BY <4>1, AllReduceAssumption
    <3> QED
      BY <3>1, <3>2
  <2>2. \A k \in DOMAIN chan[<<i, j>>] : chan[<<i, j>>][k] \in Values
    BY <2>1
  <2> QED
    BY <2>1, <2>2, ValuesAreOneOfEach
<1>3. ASSUME NEW n \in Group
      PROVE  \A e \in DOMAIN buffer[n] : buffer[n][e] \in Values
  <2>1. \/ buffer[n] \in [0 .. size - 1 -> Values]
        \/ buffer[n] \in [0 .. SeqLen - 1 -> Values]
    BY <1>1, OneAlgorithm DEF NodeInv, RowOf, SlicesOf, KeyValuesOf
  <2> QED
    BY <2>1
<1>4. ASSUME NEW n \in Group, NEW m \in Group
      PROVE  sent[n][m] \in 0 .. IF Pairs THEN LocalSeqLen ELSE size
  <2>1. sent[n][m] \in Nat /\ SentOf(n)
    BY <1>1 DEF Shapes, NodeInv
  <2>2. LocalSeqLen \in Nat /\ size \in Nat
    BY <1>1, ArgumentTypes
  <2>3. CASE pc[n] = "write" /\ m \in Targets(n)
    <3>1. sent[n][m] <= Cardinality(WriteRange(n))
      BY <2>1, <2>3 DEF SentOf
    <3>2. Cardinality(WriteRange(n)) \in 0 .. Most
      BY <1>1, <2>3, WriteRanges
    <3> QED
      BY <2>1, <2>2, <3>1, <3>2 DEF Most
  <2>4. CASE ~(pc[n] = "write" /\ m \in Targets(n))
    BY <2>1, <2>2, <2>4 DEF SentOf
  <2> QED
    BY <2>3, <2>4
<1>5. \A n \in Group : missing[n] \subseteq DOMAIN buffer[n]
  BY <1>1 DEF NodeInv, KeyValuesOf
<1>6. \A n \in Group : \A e \in DOMAIN buffer[n] : OneOfEach(buffer[n][e])
  BY <1>3, ValuesAreOneOfEach
<1> QED
  BY <1>1, <1>2, <1>4, <1>5, <1>6 DEF TypeOK, Arguments, Shapes

\* Whatever values a node of the group buffers, sends or has in a socket, no
\* contribution is in one twice, and writeMany never puts more in a socket than
\* it can take.
THEOREM TypeCorrect == Spec => []TypeOK
BY InductiveInvariant, InvTypes, PTL

\* Every node returns from syncNodeSlices of the star with the sum of its own
\* call, and from syncWithRoot with the row of the root, however many calls the
\* other nodes are ahead.
THEOREM StarSumsAlways == Spec => []StarSums
<1>1. IInv => StarSums
  <2> SUFFICES ASSUME IInv, NEW n \in Group, Returned(n)
               PROVE  /\ (Star /\ (~RootSends => n = Root)) => Holds(n, Sum(call[n]))
                      /\ Broadcast => Holds(n, SetToBag({<<Root, call[n]>>}))
    BY DEF StarSums
  <2>1. Arguments /\ RowOf(n) /\ pc[n] = "outside" /\ call[n] > 0
    BY DEF IInv, NodeInv, Returned
  <2>2. Star \/ Broadcast => ~Stepwise
    BY <2>1, OneAlgorithm
  <2> QED
    BY <2>1, <2>2 DEF RowOf, Holds
<1> QED
  BY InductiveInvariant, <1>1, PTL

\* After the first loop of syncNodeSlices_ring the slice next to a node's own is
\* the sum of all nodes, of that call.
THEOREM RingReducesAlways == Spec => []RingReduces
<1>1. IInv => RingReduces
  <2> SUFFICES ASSUME IInv, Ring, NEW n \in Group, pc[n] # "outside", step[n] = nNodes - 1,
                      NEW e \in Slice(NextNode(n))
               PROVE  buffer[n][e] = Sum(call[n])
    BY DEF RingReduces
  <2>1. Arguments /\ SlicesOf(n)
    BY DEF IInv, NodeInv
  <2>2. nNodes \in Nat /\ nNodes >= 2 /\ n \in 0 .. nNodes - 1
    BY <2>1, ArgumentTypes DEF Group
  <2>3. NextNode(n) \in Group /\ NextNode(n) = IF n = nNodes - 1 THEN 0 ELSE n + 1
    BY <2>1, RingNeighbours
  <2>4. Behind(n, NextNode(n)) = nNodes - 1
    BY <2>2, <2>3 DEF Behind
  <2>5. step[n] <= nNodes - 1 /\ nNodes - 1 <= step[n]
    BY <2>2
  <2>6. buffer[n][e] = SetToBag(Arc(n, nNodes - 1) \X {call[n]})
    BY <2>1, <2>3, <2>4, <2>5 DEF SlicesOf
  <2>7. Arc(n, nNodes - 1) = Group
    BY <2>1, ArcGrows
  <2> QED
    BY <2>6, <2>7 DEF Sum
<1> QED
  BY InductiveInvariant, <1>1, PTL

\* A node that returns from syncSpKvExchange holds every row up to the position,
\* as the node whose slice it is wrote it in the call that evaluated it.
THEOREM KvGatheredAlways == Spec => []KvGathered
<1>1. IInv => KvGathered
  <2> SUFFICES ASSUME IInv, Pairs, NEW n \in Group, Returned(n), ~Skips(call[n]),
                      NEW e \in 0 .. ActiveRows(call[n]) - 1
               PROVE  \E m \in Group, c \in 1 .. call[n] :
                        e \in LocalSeq(m) \cap Positions(c) /\ buffer[n][e] = SetToBag({<<m, c>>})
    BY DEF KvGathered
  <2>1. Arguments /\ Phases /\ KeyValuesOf(n) /\ ActiveRows(call[n]) <= SeqLen /\ pc[n] = "outside"
    BY DEF IInv, NodeInv, Phases, PhaseOf, Returned
  <2>2. call[n] \in Nat /\ SeqLen \in Nat
    BY <2>1, ArgumentTypes, LocalSeqs DEF Phases, Shapes
  <2>3. ActiveRows(call[n]) \in Nat
    BY <2>1, <2>2, ActiveRowsGrow
  <2>4. e \in 0 .. SeqLen - 1
    BY <2>1, <2>2, <2>3
  <2>5. PICK m \in Group : e \in LocalSeq(m)
    BY <2>1, <2>4, LocalSeqs
  <2>6. e \in SliceRows(m, call[n])
    BY <2>5 DEF SliceRows
  <2>7. IsRow(m, e, call[n], buffer[n][e])
    BY <2>1, <2>6 DEF KeyValuesOf
  <2>8. PICK c \in 1 .. call[n] : e \in Positions(c) /\ buffer[n][e] = SetToBag({<<m, c>>})
    BY <2>7 DEF IsRow
  <2> QED
    BY <2>5, <2>8
<1> QED
  BY InductiveInvariant, <1>1, PTL

\* Nobody has used a frame of which nothing was written.
LEMMA StreamOrderIdle ==
  ASSUME Arguments, NEW i \in Group, NEW q, NEW fw \in Nat, NEW fr \in Nat, NEW g,
         Stream(i, q, fw, 0, fr, g), Width(i, fw) > 0
  PROVE  fr <= fw
<1>1. PICK w \in Nat, r \in Nat, n \in Nat, h \in Nat, x \in Nat :
        /\ w = Start(i, fw) /\ r = Start(i, fr) /\ n = Len(q) /\ h = Len(g) /\ x = Width(i, fw)
  <2>1. Start(i, fw) \in Nat /\ Start(i, fr) \in Nat
    BY StartNext
  <2>2. Len(q) \in Nat /\ Len(g) \in Nat
    BY DEF Stream
  <2>3. Width(i, fw) \in Nat
    BY WidthType
  <2> USE <2>1, <2>2, <2>3
  <2> WITNESS Start(i, fw) \in Nat, Start(i, fr) \in Nat, Len(q) \in Nat, Len(g) \in Nat,
              Width(i, fw) \in Nat
  <2> QED
    OBVIOUS
<1>2. n = (w + 0) - (r + h)
  BY <1>1 DEF Stream
<1>3. r <= w
  BY ONLY <1>2, w \in Nat, r \in Nat, n \in Nat, h \in Nat
<1>4. ASSUME fw < fr
      PROVE  FALSE
  <2>1. Start(i, fw) + Width(i, fw) <= Start(i, fr)
    BY <1>4, StartLater
  <2> QED
    BY <2>1, <1>1, <1>3
<1> QED
  BY <1>4

LEMMA TakenAfterWritten ==
  ASSUME IInv, Ring \/ Star, NEW i \in Group, NEW j \in Group, Linked(i, j)
  PROVE  /\ Written(i, j) \in Nat /\ Taken(j, i) \in Nat
         /\ Taken(j, i) <= Written(i, j) + IF pc[i] = "write" THEN 1 ELSE 0
<1>1. Arguments /\ Phases /\ NodeInv(i) /\ StreamOf(i, j)
  BY DEF IInv, NodeInv, Phases
<1>2. PICK fw, fr, sn, q, g :
        /\ fw \in Nat /\ fr \in Nat /\ sn \in Nat
        /\ fw = Written(i, j) /\ fr = Taken(j, i) /\ sn = sent[i][j]
        /\ q = chan[<<i, j>>] /\ g = got[j][i]
  <2>1. Written(i, j) \in Nat /\ Taken(j, i) \in Nat /\ sent[i][j] \in Nat
    BY <1>1, CountsType DEF Phases, Shapes
  <2> QED
    BY <2>1
<1>3. Stream(i, q, fw, sn, fr, g)
  BY <1>1, <1>2 DEF StreamOf
<1>4. \A f : Width(i, f) > 0
  <2>1. Ring => \A c \in Group : size \div nNodes \in Nat \ {0}
    BY <1>1, RingSlices
  <2>2. Ring => size \div nNodes > 0
    BY <2>1
  <2>3. size > 0 /\ ~Pairs
    BY <1>1, ArgumentTypes, OneAlgorithm
  <2> QED
    BY <2>2, <2>3 DEF Width
<1>5. CASE pc[i] = "write"
  <2>1. sn <= Width(i, fw)
    <3>1. CASE j \in Targets(i)
      BY <1>1, <1>2, <1>5, <3>1, WriteRanges DEF NodeInv, SentOf
    <3>2. CASE j \notin Targets(i)
      <4>1. sn = 0
        BY <1>1, <1>2, <3>2 DEF NodeInv, SentOf
      <4>2. Width(i, fw) \in Nat
        BY <1>1, <1>2, WidthType
      <4> QED
        BY <4>1, <4>2
    <3> QED
      BY <3>1, <3>2
  <2>2. fr <= fw + 1
    BY <1>2, <1>1, <1>3, <1>4, <2>1, StreamOrder
  <2> QED
    BY <1>2, <1>5, <2>2
<1>6. CASE pc[i] # "write"
  <2>1. sn = 0
    BY <1>1, <1>2, <1>6 DEF NodeInv, SentOf
  <2>2. fr <= fw
    BY <1>2, <1>1, <1>3, <1>4, <2>1, StreamOrderIdle
  <2> QED
    BY <1>2, <1>6, <2>2
<1> QED
  BY <1>5, <1>6

LEMMA StarCallsClose ==
  ASSUME IInv, Star, RootSends, NEW n \in Group, NEW m \in Group
  PROVE  call[n] <= call[m] + 1
<1>1. Arguments /\ ~Ring /\ ~Pairs /\ \A i \in Group : call[i] \in Nat
  BY OneAlgorithm, ArgumentTypes DEF IInv, Shapes
<1>2. Root \in Group
  BY <1>1, ArgumentTypes
<1>3. \A w \in Group \ {Root} : Linked(w, Root) /\ Linked(Root, w)
  BY <1>1 DEF Linked
<1>4. ASSUME NEW w \in Group \ {Root}
      PROVE  /\ call[Root] - (IF pc[Root] \in {"read", "apply"} THEN 1 ELSE 0) <= call[w]
             /\ call[w] - 1 <= call[Root] - (IF pc[Root] \in {"read", "apply"} THEN 1 ELSE 0)
  <2>1. /\ Taken(Root, w) <= Written(w, Root) + (IF pc[w] = "write" THEN 1 ELSE 0)
        /\ Taken(w, Root) <= Written(Root, w) + (IF pc[Root] = "write" THEN 1 ELSE 0)
    BY <1>2, <1>3, TakenAfterWritten
  <2>2. /\ Taken(Root, w) = call[Root] - (IF pc[Root] \in {"read", "apply"} THEN 1 ELSE 0)
        /\ Written(w, Root) = call[w] - (IF pc[w] = "write" THEN 1 ELSE 0)
        /\ Taken(w, Root) = call[w] - (IF pc[w] = "outside" THEN 0 ELSE 1)
        /\ Written(Root, w) = call[Root] - (IF pc[Root] = "outside" THEN 0 ELSE 1)
    BY <1>1 DEF Taken, Written
  <2>3. pc[Root] \in {"outside", "write", "read", "apply"}
    BY <1>2 DEF IInv, Shapes
  <2> QED
    BY <1>1, <1>2, <2>1, <2>2, <2>3
<1>5. \A w \in Group \ {Root} : call[Root] <= call[w] + 1 /\ call[w] <= call[Root] + 1
  BY <1>1, <1>2, <1>4
<1>6. ASSUME NEW w \in Group \ {Root}, NEW v \in Group \ {Root}
      PROVE  call[w] <= call[v] + 1
  BY <1>1, <1>2, <1>4
<1>7. call[Root] <= call[Root] + 1
  BY <1>1, <1>2
<1> QED
  BY <1>5, <1>6, <1>7

LEMMA RingCallsClose ==
  ASSUME IInv, Ring, NEW n \in Group, NEW m \in Group
  PROVE  call[n] <= call[m] + 1
<1>1. Arguments /\ Phases /\ Steps = 2 * (nNodes - 1) /\ Stepwise
  BY OneAlgorithm DEF IInv, NodeInv, Phases, Steps
<1>2. nNodes \in Nat /\ nNodes >= 2 /\ Steps \in Nat
  BY <1>1, ArgumentTypes
<1>3. ASSUME NEW i \in Group
      PROVE  Turn(i) \in Nat /\ Turn(i) <= Turn(PrevNode(i)) + 1
  <2>1. /\ PrevNode(i) \in Group /\ Linked(PrevNode(i), i)
    BY <1>1, RingNeighbours DEF Linked
  <2>2. /\ Taken(i, PrevNode(i)) \in Nat /\ Written(PrevNode(i), i) \in Nat
        /\ Taken(i, PrevNode(i)) <= Written(PrevNode(i), i) + IF pc[PrevNode(i)] = "write" THEN 1 ELSE 0
    BY <2>1, TakenAfterWritten
  <2>3. Taken(i, PrevNode(i)) = Turn(i)
        /\ Written(PrevNode(i), i) = Turn(PrevNode(i)) + IF Wrote(PrevNode(i)) THEN 1 ELSE 0
    BY DEF Taken, Written
  <2>4. Taken(PrevNode(i), PrevNode(PrevNode(i))) \in Nat
    BY <1>1, <2>1, RingNeighbours, CountsType
  <2>5. Turn(PrevNode(i)) \in Nat
    BY <2>4 DEF Taken
  <2>6. ~(Wrote(PrevNode(i)) /\ pc[PrevNode(i)] = "write")
    BY DEF Wrote
  <2> QED
    BY <2>2, <2>3, <2>5, <2>6
<1> DEFINE T == {k \in Nat : \A i, j \in Group : Behind(i, j) = k => Turn(i) <= Turn(j) + k}
<1>4. 0 \in T
  <2>1. ASSUME NEW i \in Group, NEW j \in Group, Behind(i, j) = 0
        PROVE  Turn(i) <= Turn(j) + 0
    <3>1. i = j
      BY <1>2, <2>1 DEF Behind, Group
    <3> QED
      BY <1>3, <3>1
  <2> QED
    BY <2>1
<1>5. ASSUME NEW k \in Nat, k \in T
      PROVE  k + 1 \in T
  <2>1. ASSUME NEW i \in Group, NEW j \in Group, Behind(i, j) = k + 1
        PROVE  Turn(i) <= Turn(j) + (k + 1)
    <3>1. PICK p \in Group : p = PrevNode(i) /\ p = IF i = 0 THEN nNodes - 1 ELSE i - 1
      BY <1>1, RingNeighbours
    <3>2. Behind(p, j) = k
      BY <1>2, <2>1, <3>1 DEF Behind, Group
    <3>3. Turn(p) <= Turn(j) + k
      BY <1>5, <3>2
    <3>4. Turn(i) \in Nat /\ Turn(p) \in Nat /\ Turn(j) \in Nat /\ Turn(i) <= Turn(p) + 1
      BY <1>3, <3>1
    <3> QED
      BY ONLY <3>3, <3>4, k \in Nat
  <2> QED
    BY <2>1
<1>6. Nat \subseteq T
  <2> HIDE DEF T
  <2> QED
    BY <1>4, <1>5, AllNaturals
<1>7. Behind(n, m) \in Nat /\ Behind(n, m) <= nNodes - 1
  BY <1>2 DEF Behind, Group
<1>8. Turn(n) <= Turn(m) + (nNodes - 1)
  <2>1. Turn(n) <= Turn(m) + Behind(n, m)
    BY <1>6, <1>7
  <2>2. Turn(n) \in Nat /\ Turn(m) \in Nat
    BY <1>3
  <2> QED
    BY ONLY <1>2, <1>7, <2>1, <2>2
<1>9. ASSUME NEW i \in Group
      PROVE  /\ call[i] \in Nat
             /\ call[i] >= 1 => RingFrame(call[i]) <= Turn(i)
             /\ Turn(i) <= RingFrame(call[i] + 1)
  <2>1. PICK c \in Nat, s \in Nat : c = call[i] /\ s = step[i] /\ (pc[i] # "outside" => c >= 1 /\ s < Steps)
    BY <1>1, ArgumentTypes DEF Phases, Shapes, PhaseOf
  <2>2. c + 1 \in Nat \ {0} /\ RingFrame(c + 1) \in Nat
    <3>1. c + 1 \in Nat \ {0}
      OBVIOUS
    <3> QED
      BY ONLY <3>1, <1>1, RingFrames
  <2>3. c >= 1 => RingFrame(c) \in Nat /\ RingFrame(c + 1) = RingFrame(c) + Steps
    <3>1. c >= 1 => c \in Nat \ {0}
      OBVIOUS
    <3> QED
      BY ONLY <3>1, <1>1, RingFrames
  <2>4. CASE pc[i] = "outside"
    <3>1. Turn(i) = RingFrame(c + 1) + 0
      BY <2>1, <2>4 DEF Turn
    <3> QED
      BY <1>2, <2>1, <2>2, <2>3, <3>1
  <2>5. CASE pc[i] # "outside"
    <3>1. Turn(i) = RingFrame(c) + s
      BY <2>1, <2>5 DEF Turn
    <3> QED
      BY <1>2, <2>1, <2>2, <2>3, <2>5, <3>1
  <2> QED
    BY <2>4, <2>5
<1>10. ASSUME call[m] + 1 < call[n]
       PROVE  FALSE
  <2>1. PICK c \in Nat \ {0}, d \in Nat \ {0} : c = call[m] + 1 /\ d = call[n] /\ c < d
    BY <1>9, <1>10
  <2>2. RingFrame(c) + Steps <= RingFrame(d) /\ RingFrame(c) \in Nat /\ RingFrame(d) \in Nat
    BY <1>1, <2>1, RingFrames
  <2>3. RingFrame(d) <= Turn(n) /\ Turn(m) <= RingFrame(c)
    BY <1>9, <2>1
  <2>4. Turn(n) \in Nat /\ Turn(m) \in Nat
    BY <1>3
  <2> QED
    BY ONLY <1>1, <1>2, <1>8, <2>2, <2>3, <2>4
<1> QED
  BY <1>9, <1>10

\* Nothing holds a node of a group back between two calls of syncNodeSlices, and
\* yet none enters its next call before all others have entered the present one.
THEOREM CallsCloseAlways == Spec => []CallsClose
<1>1. IInv => CallsClose
  <2> SUFFICES ASSUME IInv, syncType = "nodeSlices", NEW n \in Group, NEW m \in Group
               PROVE  call[n] <= call[m] + 1
    BY DEF CallsClose
  <2>1. Ring \/ (Star /\ RootSends)
    BY DEF Star, RootSends
  <2> QED
    BY <2>1, StarCallsClose, RingCallsClose
<1> QED
  BY InductiveInvariant, <1>1, PTL

=============================================================================
