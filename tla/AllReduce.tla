----------------------------- MODULE AllReduce -----------------------------
(***************************************************************************)
(* NnNetworkNodeSynchronizer::sync: what the nodes of a group exchange     *)
(* after the operations of a segment, each over its sockets to the others. *)
(*                                                                         *)
(*  - A tensor-parallel group adds up a row of a pipe (syncNodeSlices).    *)
(*    The star gathers at the first node of the group, adds and sends the  *)
(*    sum back; the ring passes slices around, first reducing them, then   *)
(*    gathering them.                                                      *)
(*  - The root sends a row of a pipe to all nodes (syncWithRoot).          *)
(*  - The nodes that share the positions of a sequence (spRank) exchange   *)
(*    the rows of their key and value buffers in pairs (SYNC_SP_KV).       *)
(*                                                                         *)
(* A pass calls it over and over, for every synchronised row of every      *)
(* segment, on the same sockets, with nothing between the calls that waits *)
(* for all.  A value is the bag of contributions <<node, call>> that were  *)
(* added to it.  One value stands for the row of the key buffer and that   *)
(* of the value buffer, which travel one after the other.                  *)
(***************************************************************************)
EXTENDS Integers, Sequences, FiniteSets, Bags, Functions

CONSTANTS
  MaxNodes,        \* bound: nodes of a group
  MinRing,         \* smallest group that may use the ring (8 in the code)
  Sizes,           \* values of a row, or positions of a batch of the prefill
  LocalSeqLen,     \* positions of a node's slice of the key-value buffers
  SocketCapacity,  \* values one direction of a socket can buffer
  MaxCalls         \* bound: calls of sync

ASSUME AllReduceAssumption ==
  /\ MaxNodes \in Nat
  /\ MinRing \in Nat
  /\ Sizes \subseteq Nat \ {0}
  /\ LocalSeqLen \in Nat \ {0}
  /\ SocketCapacity \in Nat \ {0}
  /\ MaxCalls \in Nat

VARIABLES
  \* the arguments, the same at every node; size is nBytes in values
  nNodes, collectiveType, syncType, size,
  \* SYNC_SP_KV: the option, and the first call of the decode phase
  spPrefillOnly, decodeFrom,
  chan,    \* chan[<<i, j>>]: values node i wrote and j did not read
  pc,      \* "outside", "write", "read", "apply"
  call,    \* calls the node has entered
  step,    \* step of the ring's two loops, or of the loop over the peers
  buffer,  \* buffer[n]: the node's row, or its key-value buffers by position
  sent,    \* sent[n][m]: values of the current writeMany in m's socket
  got,     \* got[n][m]: values the current readMany has from m
  missing  \* missing[n]: positions the node's attention read before they came

arguments == <<nNodes, collectiveType, syncType, size, spPrefillOnly, decodeFrom>>
vars == <<arguments, chan, pc, call, step, buffer, sent, got, missing>>

SyncTypes == {"withRoot", "nodeSlices", "nodeSlicesExceptRoot", "spKv"}

\* The nodes of the group, by localNodeIndex or spRank.
Group == 0 .. nNodes - 1
Root  == 0

-----------------------------------------------------------------------------
(* Which algorithm, and what a node writes and reads at its point in it.   *)

RingSupported == nNodes >= MinRing /\ size % nNodes = 0

Ring == syncType = "nodeSlices" /\ collectiveType # "star" /\ RingSupported
Star == syncType \in {"nodeSlices", "nodeSlicesExceptRoot"} /\ ~Ring
Broadcast == syncType = "withRoot"
Pairs == syncType = "spKv"

\* Does the root send the row to the workers?
RootSends == syncType # "nodeSlicesExceptRoot"

\* The ring and the pairs go through steps, and alternate who writes first.
Stepwise == Ring \/ Pairs
Steps    == IF Ring THEN 2 * (nNodes - 1) ELSE nNodes - 1

NextNode(n) == (n + 1) % nNodes
PrevNode(n) == (n + nNodes - 1) % nNodes
Slice(c)    == LET width == size \div nNodes IN c * width .. (c + 1) * width - 1

\* Both loops of the ring compute the same indices.
LoopStep(n) == step[n] % (nNodes - 1)

\* A slip: the first loop has a step too many.
ReducesOnceMore(n) == step[n] <= nNodes - 1

Reducing(n) == step[n] < nNodes - 1

\* A slip: the slice a node passes on is not the one it has just reduced.
SendsAhead(n) == (n + LoopStep(n)) % nNodes

SendChunk(n) == (n - LoopStep(n) + nNodes) % nNodes
RecvChunk(n) == (n - LoopStep(n) - 1 + nNodes) % nNodes

(* The key-value buffers: every node holds all positions, and writes those *)
(* of its own slice.                                                       *)

SeqLen      == nNodes * LocalSeqLen
LocalSeq(n) == n * LocalSeqLen .. (n + 1) * LocalSeqLen - 1

\* The peer of step s of the loop over the other nodes.
PeerAt(n, s) == IF s < n THEN s ELSE s + 1

IsDecode(c) == c >= decodeFrom

\* maxPos + 1 after call c, which evaluates a batch of the prompt or, in the
\* decode phase, one token.
ActiveRows(c) ==
  IF IsDecode(c) THEN (decodeFrom - 1) * size + (c - decodeFrom + 1) ELSE c * size
Positions(c) == ActiveRows(c - 1) .. ActiveRows(c) - 1

\* A slip: maxPos is taken for the number of rows.
RowsBelowMaxPos(n, c) == LocalSeq(n) \cap 0 .. ActiveRows(c) - 2

\* The rows of n's slice that an exchange moves.
SliceRows(n, c) == LocalSeq(n) \cap 0 .. ActiveRows(c) - 1

Peer(n) == PeerAt(n, step[n])

Targets(n) ==
  IF Ring THEN {NextNode(n)} ELSE IF Pairs THEN {Peer(n)}
  ELSE IF n = Root THEN Group \ {Root} ELSE {Root}
Sources(n) ==
  IF Ring THEN {PrevNode(n)} ELSE IF Pairs THEN {Peer(n)}
  ELSE IF n = Root THEN Group \ {Root} ELSE {Root}

WriteRange(n) ==
  IF Ring THEN Slice(SendChunk(n)) ELSE IF Pairs THEN SliceRows(n, call[n]) ELSE 0 .. size - 1
ReadRange(n) ==
  IF Ring THEN Slice(RecvChunk(n)) ELSE IF Pairs THEN SliceRows(Peer(n), call[n]) ELSE 0 .. size - 1
Lowest(range) == CHOOSE e \in range : \A f \in range : e <= f

-----------------------------------------------------------------------------
\* A slip: every node of a ring and of a pair writes first.
AllWriteFirst(n, s) == IF Stepwise \/ n # Root THEN "write" ELSE "read"

\* The first call of a step: in the ring even nodes write and odd ones read,
\* of a pair the lower one writes.  In the star the workers write and the root
\* reads, in the broadcast the other way round.
FirstCall(n, s) ==
  IF Ring THEN IF n % 2 = 0 THEN "write" ELSE "read"
  ELSE IF Pairs THEN IF n < PeerAt(n, s) THEN "write" ELSE "read"
  ELSE IF (n = Root) = Broadcast THEN "write" ELSE "read"

\* Decoding does not exchange rows unless --sp-prefill-only is 0.
Skips(c) == Pairs /\ spPrefillOnly /\ IsDecode(c)

\* The row the operations of the segment computed, or the key-value rows they
\* wrote, those of the batch in the node's own slice.
Computed(n, c) ==
  IF Pairs
  THEN [e \in DOMAIN buffer[n] |->
          IF e \in LocalSeq(n) \cap Positions(c) THEN SetToBag({<<n, c>>}) ELSE buffer[n][e]]
  ELSE [e \in 0 .. size - 1 |-> SetToBag({<<n, c>>})]

\* All operations of a segment run before its synchronisations: the attention
\* of the segment reads the rows up to its position as they are then.  Left
\* out: the throw of --strict-kv-affinity 1 with --allow-kv-migration 0
\* (nn-network.cpp:1811): with several sequence groups app.cpp:1590 admits
\* these options only together with --prefill-sp-only 1, and then Skips holds
\* of every decode step.
Enter(n) ==
  /\ pc[n] = "outside" /\ call[n] < MaxCalls
  /\ LET c == call[n] + 1 IN
       /\ Pairs => ActiveRows(c) <= SeqLen
       /\ call' = [call EXCEPT ![n] = c]
       /\ buffer' = [buffer EXCEPT ![n] = Computed(n, c)]
       /\ missing' = IF Pairs
                      THEN [missing EXCEPT ![n] =
                              @ \cup {e \in 0 .. ActiveRows(c) - 1 : Computed(n, c)[e] = EmptyBag}]
                      ELSE missing
       /\ pc' = [pc EXCEPT ![n] = IF Skips(c) THEN "outside" ELSE FirstCall(n, 0)]
  /\ step' = [step EXCEPT ![n] = 0]
  /\ UNCHANGED <<arguments, chan, sent, got>>

\* A slip: a worker does not wait for the sum.
ReturnsAtOnce(n) ==
  IF Stepwise THEN IF FirstCall(n, step[n]) = "write" THEN "read" ELSE "apply"
              ELSE "outside"

\* Where a node is when its writeMany is done.
AfterWrite(n) ==
  IF Stepwise THEN IF FirstCall(n, step[n]) = "write" THEN "read" ELSE "apply"
              ELSE IF n = Root \/ ~RootSends THEN "outside" ELSE "read"

AfterRead(n) == IF Stepwise /\ FirstCall(n, step[n]) = "read" THEN "write" ELSE "apply"

\* Nothing is written or read for a slice without active rows.
MoveNothing(n) ==
  /\ \/ pc[n] = "write" /\ WriteRange(n) = {} /\ pc' = [pc EXCEPT ![n] = AfterWrite(n)]
     \/ pc[n] = "read" /\ ReadRange(n) = {} /\ pc' = [pc EXCEPT ![n] = AfterRead(n)]
  /\ UNCHANGED <<arguments, chan, call, step, buffer, sent, got, missing>>

\* writeMany goes round its sockets and writes what each one takes.
Write(n) ==
  /\ pc[n] = "write"
  /\ \E m \in Targets(n) :
       /\ sent[n][m] < Cardinality(WriteRange(n))
       /\ Len(chan[<<n, m>>]) < SocketCapacity
       /\ chan' = [chan EXCEPT ![<<n, m>>] =
                     Append(@, buffer[n][Lowest(WriteRange(n)) + sent[n][m]])]
       /\ LET now  == [sent[n] EXCEPT ![m] = @ + 1]
              done == \A t \in Targets(n) : now[t] = Cardinality(WriteRange(n))
          IN  /\ sent' = [sent EXCEPT ![n] = IF done THEN [t \in Group |-> 0] ELSE now]
              /\ pc' = [pc EXCEPT ![n] = IF done THEN AfterWrite(n) ELSE @]
  /\ UNCHANGED <<arguments, call, step, buffer, got, missing>>

\* readMany goes round its sockets and reads what each one holds.
Read(n) ==
  /\ pc[n] = "read"
  /\ \E m \in Sources(n) :
       /\ Len(got[n][m]) < Cardinality(ReadRange(n))
       /\ chan[<<m, n>>] # <<>>
       /\ chan' = [chan EXCEPT ![<<m, n>>] = Tail(@)]
       /\ LET now == [got[n] EXCEPT ![m] = Append(@, Head(chan[<<m, n>>]))]
          IN  /\ got' = [got EXCEPT ![n] = now]
              /\ pc' = [pc EXCEPT ![n] =
                          IF \A s \in Sources(n) : Len(now[s]) = Cardinality(ReadRange(n))
                          THEN AfterRead(n) ELSE @]
  /\ UNCHANGED <<arguments, call, step, buffer, sent, missing>>

\* What node n got from m for value e of the row.
Got(n, m, e) == got[n][m][e - Lowest(ReadRange(n)) + 1]
Emptied == [t \in Group |-> <<>>]

\* reduceSum of row e over the workers, one after the other.
GatheredSum(e) ==
  FoldFunction(LAMBDA a, b : a (+) b, EmptyBag, [w \in Group \ {Root} |-> Got(Root, w, e)])

\* A slip: the root sends the sum of the others.
ReduceOthers ==
  /\ Star /\ pc[Root] = "apply"
  /\ buffer' = [buffer EXCEPT ![Root] = [e \in 0 .. size - 1 |-> GatheredSum(e)]]
  /\ got' = [got EXCEPT ![Root] = Emptied]
  /\ pc' = [pc EXCEPT ![Root] = IF RootSends THEN "write" ELSE "outside"]
  /\ UNCHANGED <<arguments, chan, call, step, sent, missing>>

StarReduce ==
  /\ Star /\ pc[Root] = "apply"
  /\ buffer' = [buffer EXCEPT ![Root] = [e \in 0 .. size - 1 |-> @[e] (+) GatheredSum(e)]]
  /\ got' = [got EXCEPT ![Root] = Emptied]
  /\ pc' = [pc EXCEPT ![Root] = IF RootSends THEN "write" ELSE "outside"]
  /\ UNCHANGED <<arguments, chan, call, step, sent, missing>>

StarReceive(w) ==
  /\ ~Stepwise /\ w # Root /\ pc[w] = "apply"
  /\ buffer' = [buffer EXCEPT ![w] = [e \in 0 .. size - 1 |-> Got(w, Root, e)]]
  /\ got' = [got EXCEPT ![w] = Emptied]
  /\ pc' = [pc EXCEPT ![w] = "outside"]
  /\ UNCHANGED <<arguments, chan, call, step, sent, missing>>

\* The end of a step of the ring: the slice received is added to the node's
\* own in the first loop and replaces it in the second.
RingStep(n) ==
  /\ Ring /\ pc[n] = "apply"
  /\ buffer' = [buffer EXCEPT ![n] =
       [e \in 0 .. size - 1 |->
          IF e \notin ReadRange(n) THEN @[e]
          ELSE IF Reducing(n) THEN @[e] (+) Got(n, PrevNode(n), e) ELSE Got(n, PrevNode(n), e)]]
  /\ got' = [got EXCEPT ![n] = Emptied]
  /\ step' = [step EXCEPT ![n] = @ + 1]
  /\ pc' = [pc EXCEPT ![n] = IF step[n] + 1 < Steps THEN FirstCall(n, step[n] + 1) ELSE "outside"]
  /\ UNCHANGED <<arguments, chan, call, sent, missing>>

\* The rows of the peer's slice are in place; on to the next peer.
PairStep(n) ==
  /\ Pairs /\ pc[n] = "apply"
  /\ buffer' = [buffer EXCEPT ![n] =
       [e \in DOMAIN @ |-> IF e \in ReadRange(n) THEN Got(n, Peer(n), e) ELSE @[e]]]
  /\ got' = [got EXCEPT ![n] = Emptied]
  /\ step' = [step EXCEPT ![n] = @ + 1]
  /\ pc' = [pc EXCEPT ![n] = IF step[n] + 1 < Steps THEN FirstCall(n, step[n] + 1) ELSE "outside"]
  /\ UNCHANGED <<arguments, chan, call, sent, missing>>

-----------------------------------------------------------------------------
Init ==
  /\ nNodes \in 2 .. MaxNodes
  /\ syncType \in SyncTypes
  /\ collectiveType \in IF syncType = "nodeSlices" THEN {"auto", "star", "ring"} ELSE {"auto"}
  /\ size \in Sizes
  /\ spPrefillOnly \in IF Pairs THEN BOOLEAN ELSE {TRUE}
  /\ decodeFrom \in IF Pairs THEN 1 .. MaxCalls + 1 ELSE {MaxCalls + 1}
  /\ chan = [c \in Group \X Group |-> <<>>]
  /\ pc = [n \in Group |-> "outside"]
  /\ call = [n \in Group |-> 0]
  /\ step = [n \in Group |-> 0]
  /\ buffer = [n \in Group |-> [e \in 0 .. (IF Pairs THEN SeqLen ELSE size) - 1 |-> EmptyBag]]
  /\ sent = [n \in Group |-> [m \in Group |-> 0]]
  /\ got = [n \in Group |-> Emptied]
  /\ missing = [n \in Group |-> {}]

NodeStep(n) ==
  \/ Enter(n)
  \/ Write(n)
  \/ Read(n)
  \/ n = Root /\ StarReduce
  \/ StarReceive(n)
  \/ RingStep(n)
  \/ PairStep(n)
  \/ MoveNothing(n)

Next == \E n \in Group : NodeStep(n)

Spec == Init /\ [][Next]_vars

\* The executors of all nodes run the same list of synchronisations.
FairSpec == Spec /\ \A n \in 0 .. MaxNodes - 1 : WF_vars(n \in Group /\ NodeStep(n))

-----------------------------------------------------------------------------
OneOfEach(v) == DOMAIN v \subseteq Group \X (1 .. MaxCalls) /\ \A k \in DOMAIN v : v[k] = 1

\* No contribution is ever added twice to a value, and no socket holds more
\* than it can.
TypeOK ==
  /\ nNodes \in 2 .. MaxNodes
  /\ collectiveType \in {"auto", "star", "ring"}
  /\ syncType \in SyncTypes
  /\ size \in Sizes
  /\ spPrefillOnly \in BOOLEAN
  /\ decodeFrom \in 1 .. MaxCalls + 1
  /\ \A c \in Group \X Group :
       Len(chan[c]) <= SocketCapacity /\ \A i \in DOMAIN chan[c] : OneOfEach(chan[c][i])
  /\ pc \in [Group -> {"outside", "write", "read", "apply"}]
  /\ call \in [Group -> 0 .. MaxCalls]
  /\ \A n \in Group : step[n] \in 0 .. Steps
  /\ \A n \in Group : \A e \in DOMAIN buffer[n] : OneOfEach(buffer[n][e])
  /\ \A n, m \in Group : sent[n][m] \in 0 .. IF Pairs THEN LocalSeqLen ELSE size
  /\ \A n \in Group : missing[n] \subseteq DOMAIN buffer[n]

\* The sum of a call: one contribution of every node, all of that call.
Sum(c) == SetToBag(Group \X {c})
Returned(n) == pc[n] = "outside" /\ call[n] > 0
Holds(n, value) == \A e \in 0 .. size - 1 : buffer[n][e] = value

\* nn-core.hpp: SYNC_WITH_ROOT leaves the root's row at every node,
\* SYNC_NODE_SLICES the sum, ..._EXCEPT_ROOT the sum at the root.  Nothing
\* separates a call from the next but the order of the bytes in each socket,
\* and a fast node is a call ahead of a slow one.
StarSums ==
  \A n \in Group : Returned(n) =>
    /\ (Star /\ (~RootSends => n = Root)) => Holds(n, Sum(call[n]))
    /\ Broadcast => Holds(n, SetToBag({<<Root, call[n]>>}))

\* nn-network.cpp:1477: "At this point, each node has one fully reduced chunk".
RingReduces ==
  Ring => \A n \in Group : pc[n] # "outside" /\ step[n] = nNodes - 1 =>
            \A e \in Slice(NextNode(n)) : buffer[n][e] = Sum(call[n])

\* nn-core.cpp:224: "SYNC_SP_KV allgather fills the full buffer across the SP
\* group": after an exchange a node holds every row up to the position, from the
\* node whose slice it is and as the call wrote it that evaluated the position,
\* whatever the other nodes have gone on to send.
KvGathered ==
  Pairs => \A n \in Group :
    Returned(n) /\ ~Skips(call[n]) =>
      \A e \in 0 .. ActiveRows(call[n]) - 1 : \E m \in Group, c \in 1 .. call[n] :
        e \in LocalSeq(m) \cap Positions(c) /\ buffer[n][e] = SetToBag({<<m, c>>})

\* The result goes through every node: no node is two calls ahead of another.
CallsClose == syncType = "nodeSlices" => \A n, m \in Group : call[n] <= call[m] + 1

\* nn-network.cpp:1461: "Even nodes send first, odd nodes receive first (avoid
\* deadlock)", for an odd number of nodes too, and whatever the sockets buffer;
\* nn-network.cpp:1863: "Deadlock avoidance: lower spRank sends first".
CallsReturn ==
  \A n \in 0 .. MaxNodes - 1 :
    (n \in Group /\ pc[n] # "outside") ~> (n \in Group /\ pc[n] = "outside")

\* nn-network.cpp:1509: "Now all nodes have the fully reduced result in all
\* chunks".
RingSums == Ring => \A n \in Group : Returned(n) => Holds(n, Sum(call[n]))

\* nn-cpu-ops.cpp:1410: "SP>1: KV buffer holds full seqLen after SYNC_SP_KV
\* allgather. [...] Either way, we use the full seqLen KV buffer".
AttendsWholePrefix == \A n \in Group : missing[n] = {}

=============================================================================
