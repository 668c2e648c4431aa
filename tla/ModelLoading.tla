---------------------------- MODULE ModelLoading ----------------------------
(***************************************************************************)
(* What happens on the sockets between the network's coming up and the     *)
(* first control packet: the root writes the configuration of the net and  *)
(* of the node to one worker after the other, each acknowledged, then goes *)
(* through the weights of the model file, loads its own and writes those   *)
(* of the others, and ends with a zero size that every worker              *)
(* acknowledges (NnRootConfigWriter, loadLlmNetWeight, NnRootWeightLoader; *)
(* NnWorkerConfigReader, NnWorkerWeightReader, runWorkerApp).              *)
(*                                                                         *)
(* The fields of a configuration are told apart by name, and counts have   *)
(* values: the writer and the reader are two loops kept alike by hand.  A  *)
(* weight is one message.                                                  *)
(***************************************************************************)
EXTENDS Topology, Sequences, SequencesExt, Bags, FiniteSets

CONSTANTS
  MaxNodes,        \* bound: nodes, the root included
  Layers,          \* numbers of layers a model may have
  Experts,         \* numbers of experts a model may have, 0 for none
  Net,             \* [pipes, preSyncs]: their numbers in the net's configuration
  Node,            \* [buffers, segments]: the latter a sequence of [syncs, ops],
                   \* ops saying of each operation whether it has a config
  SocketCapacity,  \* fields or weights a socket can buffer
  MaxFailures      \* bound: processes that fail

ASSUME ModelLoadingAssumption ==
  /\ MaxNodes \in Nat \ {0}
  /\ Layers \subseteq Nat \ {0} /\ Experts \subseteq Nat
  /\ Net \in [pipes : Nat, preSyncs : Nat]
  /\ Node \in [buffers : Nat, segments : Seq([syncs : Nat, ops : Seq(BOOLEAN)])]
  /\ SocketCapacity \in Nat \ {0} /\ MaxFailures \in Nat

VARIABLES
  model,     \* topology and size of the model; nothing changes it
  root,      \* "running", "ready", "failed"
  next,      \* the root's next step in its script
  phase,     \* of a worker: "net", "node", "weights", "ready", "listening"
  agenda,    \* what the worker's reader does before it acknowledges
  counts,    \* the counts of the configuration it has read
  chan,      \* chan[w]: what the root wrote and worker w did not read
  acks,      \* acks[w]: acknowledgements the root did not read
  loaded,    \* loaded[n]: bag of the parts loaded into n's executor
  failures   \* number of failures so far

vars == <<model, root, next, phase, agenda, counts, chan, acks, loaded, failures>>

Topologies ==
  {t \in {CreateTopology(n, pp, sp) : n, pp, sp \in 1 .. MaxNodes} :
     CanCreate(t.nNodes, t.ppSize, t.spSize)}

Models ==
  {[topology |-> t, nLayers |-> l, nExperts |-> e] : t \in Topologies, l \in Layers, e \in Experts}

Workers(m) == Nodes(m.topology) \ {Root}

-----------------------------------------------------------------------------
(* The configuration, as it is written.  A field is [name, value].          *)

Fields(names)      == [i \in DOMAIN names |-> [name |-> names[i], value |-> 0]]
Field(name)        == Fields(<<name>>)
Count(name, value) == <<[name |-> name, value |-> value]>>
Times(n, fields)   == FlattenSeq([i \in 1 .. n |-> fields])

\* readAck and writeAck precede and follow both configurations.
NetFields ==
  Field("ack") \o Fields(<<"nBatches", "nNodes">>) \o Count("nPipes", Net.pipes)
  \o Times(Net.pipes, Fields(<<"size", "name">>))
  \o Count("nPreSyncs", Net.preSyncs) \o Times(Net.preSyncs, Fields(<<"pipeIndex">>))

RankFields ==
  <<"nodeIndex", "ppRank", "tpRank", "tpGroupStart", "tpGroupEnd", "spRank", "spGroupStart",
    "spGroupEnd", "positionPipeIndex", "tokenPipeIndex", "xPipeIndex", "logitsPipeIndex">>
SyncFields ==
  <<"pipeIndex", "syncType", "spKvKBufferIndex", "spKvVBufferIndex", "spKvLocalSeqStart",
    "spKvLocalSeqLen", "spKvDim0", "spKvPositionPipeIdx">>

OpFields(hasConfig) ==
  Fields(<<"code", "index", "weightSize">>) \o Count("configSize", IF hasConfig THEN 1 ELSE 0)
  \o Fields(<<"name", "input", "output">>) \o IF hasConfig THEN Field("config") ELSE <<>>

SegmentFields(s) ==
  Count("nSyncs", s.syncs) \o Count("nOps", Len(s.ops)) \o Times(s.syncs, Fields(SyncFields))
  \o FlattenSeq([i \in DOMAIN s.ops |-> OpFields(s.ops[i])])

NodeFields ==
  Field("ack") \o Fields(RankFields)
  \o Count("nBuffers", Node.buffers) \o Count("nSegments", Len(Node.segments))
  \o Times(Node.buffers, Fields(<<"size", "name">>))
  \o FlattenSeq([i \in DOMAIN Node.segments |-> SegmentFields(Node.segments[i])])

-----------------------------------------------------------------------------
(* The same, as it is read.  What a reader still has to do is a sequence of *)
(* fields to read and of loops over counts it has read by then.             *)

Read(names)       == [i \in DOMAIN names |-> [name |-> names[i], body |-> <<>>]]
Loop(count, body) == <<[name |-> count, body |-> body]>>

ReadNet ==
  Read(<<"ack", "nBatches", "nNodes", "nPipes">>) \o Loop("nPipes", Read(<<"size", "name">>))
  \o Read(<<"nPreSyncs">>) \o Loop("nPreSyncs", Read(<<"pipeIndex">>))

ReadOp ==
  Read(<<"code", "index", "weightSize", "configSize", "name", "input", "output">>)
  \o Loop("configSize", Read(<<"config">>))

\* A slip: the operations of a segment are read before its syncs.
ReadOpsFirst ==
  Read(<<"nSyncs", "nOps">>) \o Loop("nOps", ReadOp) \o Loop("nSyncs", Read(SyncFields))

ReadSegment ==
  Read(<<"nSyncs", "nOps">>) \o Loop("nSyncs", Read(SyncFields)) \o Loop("nOps", ReadOp)

ReadNode ==
  Read(<<"ack">> \o RankFields \o <<"nBuffers", "nSegments">>)
  \o Loop("nBuffers", Read(<<"size", "name">>)) \o Loop("nSegments", ReadSegment)

Counts == {"nPipes", "nPreSyncs", "nBuffers", "nSegments", "nSyncs", "nOps", "configSize"}

-----------------------------------------------------------------------------
(* The weights, in the order of the model file.                            *)

\* A slip: all experts are loaded at the place of the first one.
WeightAtStart(op, layer, expert) == <<[op |-> op, layer |-> layer, expert |-> 0]>>

\* The offset of the write is that of the expert.
Weight(op, layer, expert) == <<[op |-> op, layer |-> layer, expert |-> expert]>>

FeedForward(layer, expert) ==
  Weight("block_matmul_w1", layer, expert) \o Weight("block_matmul_w2", layer, expert)
  \o Weight("block_matmul_w3", layer, expert)

\* Only the architecture with experts among the modelled ones normalises q and k.
LayerWeights(m, layer) ==
  Weight("block_matmul_q", layer, 0) \o Weight("block_matmul_k", layer, 0)
  \o Weight("block_matmul_v", layer, 0) \o Weight("block_matmul_wo", layer, 0)
  \o (IF m.nExperts > 0
      THEN Weight("block_moe_gate", layer, 0)
           \o FlattenSeq([e \in 1 .. m.nExperts |-> FeedForward(layer, e - 1)])
           \o Weight("block_norm_q", layer, 0) \o Weight("block_norm_k", layer, 0)
      ELSE FeedForward(layer, 0))
  \o Weight("block_norm_0", layer, 0) \o Weight("block_norm_1", layer, 0)

FileOrder(m) ==
  Weight("embedding", 0, 0) \o FlattenSeq([l \in 1 .. m.nLayers |-> LayerWeights(m, l - 1)])
  \o Weight("final_norm", 0, 0) \o Weight("final_matmul_logits", 0, 0)

\* What executor->loadWeight is told: which part of which operation's weight.
Part(m, n, w) == [weight |-> w, slice |-> SliceFor(m.topology, n, w)]

\* The parts the operations of node n compute with.
Needed(m, n) ==
  {[weight |-> w, slice |-> IF w.op \in SlicedOps THEN TpRank(m.topology, n) ELSE 0] :
     w \in {v \in Range(FileOrder(m)) : HasOp(m.topology, m.nLayers, n, v)}}

-----------------------------------------------------------------------------
(* What the root does, one socket call or load after the other.            *)

Do(what, node, data) == [what |-> what, node |-> node, data |-> data]
Write(w, fields)     == [i \in DOMAIN fields |-> Do("write", w, fields[i])]
ReadAck(w)           == <<Do("readAck", w, 0)>>

WriteToWorkers(m) ==
  FlattenSeq([w \in 1 .. m.topology.nNodes - 1 |->
    Write(w, NetFields) \o ReadAck(w) \o Write(w, NodeFields) \o ReadAck(w)])

Deliver(m, n, w) ==
  <<Do(IF n = Root THEN "load" ELSE "write", n, [name |-> "weight", value |-> Part(m, n, w)])>>

\* The nodes in turn, the root first.
Distribute(m, w) ==
  FlattenSeq([i \in 1 .. m.topology.nNodes |->
    IF Receives(m.topology, m.nLayers, i - 1, w) THEN Deliver(m, i - 1, w) ELSE <<>>])

Finish(m) ==
  FlattenSeq([w \in 1 .. m.topology.nNodes - 1 |-> Write(w, Field("zero")) \o ReadAck(w)])

Script(m) ==
  LET weights == FileOrder(m)
  IN  WriteToWorkers(m) \o FlattenSeq([i \in DOMAIN weights |-> Distribute(m, weights[i])])
      \o Finish(m)

Scripts == [m \in Models |-> Script(m)]

Step == Scripts[model][next]

Advance == root' = IF next < Len(Scripts[model]) THEN root ELSE "ready"

-----------------------------------------------------------------------------
\* loadWeight finds the operation in n's segments, or its failure to is ignored.
Load(n, part) ==
  loaded' = IF HasOp(model.topology, model.nLayers, n, part.weight)
            THEN [loaded EXCEPT ![n] = @ (+) SetToBag({part})] ELSE loaded

RootLoads ==
  /\ root = "running" /\ Step.what = "load"
  /\ Load(Root, Step.data.value)
  /\ next' = next + 1 /\ Advance
  /\ UNCHANGED <<model, phase, agenda, counts, chan, acks, failures>>

\* What is written to a worker that has gone may be lost without a trace.
RootWrites ==
  /\ root = "running" /\ Step.what = "write"
  /\ IF phase[Step.node] = "listening" THEN chan' = chan
     ELSE /\ Len(chan[Step.node]) < SocketCapacity
          /\ chan' = [chan EXCEPT ![Step.node] = Append(@, Step.data)]
  /\ next' = next + 1 /\ Advance
  /\ UNCHANGED <<model, phase, agenda, counts, acks, loaded, failures>>

RootReadsAck ==
  /\ root = "running" /\ Step.what = "readAck"
  /\ acks[Step.node] > 0
  /\ acks' = [acks EXCEPT ![Step.node] = @ - 1]
  /\ next' = next + 1 /\ Advance
  /\ UNCHANGED <<model, phase, agenda, counts, chan, loaded, failures>>

\* A call on the socket of a worker that has gone throws and ends the program.
RootThrows ==
  /\ root = "running" /\ Step.what \in {"write", "readAck"}
  /\ phase[Step.node] = "listening" /\ acks[Step.node] = 0
  /\ root' = "failed"
  /\ UNCHANGED <<model, next, phase, agenda, counts, chan, acks, loaded, failures>>

-----------------------------------------------------------------------------
ReadField(w) ==
  /\ phase[w] \in {"net", "node"} /\ agenda[w] # <<>> /\ chan[w] # <<>>
  /\ Head(agenda[w]).body = <<>> /\ Head(agenda[w]).name = Head(chan[w]).name
  /\ chan' = [chan EXCEPT ![w] = Tail(@)]
  /\ agenda' = [agenda EXCEPT ![w] = Tail(@)]
  /\ counts' = IF Head(chan[w]).name \in Counts
               THEN [counts EXCEPT ![w][Head(chan[w]).name] = Head(chan[w]).value] ELSE counts
  /\ UNCHANGED <<model, root, next, phase, acks, loaded, failures>>

EnterLoop(w) ==
  /\ phase[w] \in {"net", "node"} /\ agenda[w] # <<>> /\ Head(agenda[w]).body # <<>>
  /\ agenda' = [agenda EXCEPT ![w] =
                  Times(counts[w][Head(@).name], Head(@).body) \o Tail(@)]
  /\ UNCHANGED <<model, root, next, phase, counts, chan, acks, loaded, failures>>

WriteAck(w) ==
  /\ phase[w] \in {"net", "node"} /\ agenda[w] = <<>>
  /\ acks' = [acks EXCEPT ![w] = @ + 1]
  /\ phase' = [phase EXCEPT ![w] = IF @ = "net" THEN "node" ELSE "weights"]
  /\ agenda' = [agenda EXCEPT ![w] = IF phase[w] = "net" THEN ReadNode ELSE <<>>]
  /\ UNCHANGED <<model, root, next, counts, chan, loaded, failures>>

ReadWeight(w) ==
  /\ phase[w] = "weights" /\ chan[w] # <<>> /\ Head(chan[w]).name = "weight"
  /\ chan' = [chan EXCEPT ![w] = Tail(@)]
  /\ Load(w, Head(chan[w]).value)
  /\ UNCHANGED <<model, root, next, phase, agenda, counts, acks, failures>>

\* A slip: the worker takes the end for granted.
EndsSilently(w) ==
  /\ phase[w] = "weights" /\ chan[w] # <<>> /\ Head(chan[w]).name = "zero"
  /\ chan' = [chan EXCEPT ![w] = Tail(@)]
  /\ phase' = [phase EXCEPT ![w] = "ready"]
  /\ UNCHANGED <<model, root, next, agenda, counts, acks, loaded, failures>>

ReadZero(w) ==
  /\ phase[w] = "weights" /\ chan[w] # <<>> /\ Head(chan[w]).name = "zero"
  /\ chan' = [chan EXCEPT ![w] = Tail(@)]
  /\ acks' = [acks EXCEPT ![w] = @ + 1]
  /\ phase' = [phase EXCEPT ![w] = "ready"]
  /\ UNCHANGED <<model, root, next, agenda, counts, loaded, failures>>

\* The worker's session is over: its network is closed, and it serves again.
Leave(w) ==
  /\ phase' = [phase EXCEPT ![w] = "listening"]
  /\ chan' = [chan EXCEPT ![w] = <<>>]
  /\ agenda' = [agenda EXCEPT ![w] = <<>>]

\* An allocation, a device or the process fails.
WorkerFails(w) ==
  /\ failures < MaxFailures /\ root = "running" /\ phase[w] # "listening"
  /\ Leave(w)
  /\ failures' = failures + 1
  /\ UNCHANGED <<model, root, next, counts, acks, loaded>>

RootFails ==
  /\ failures < MaxFailures /\ root = "running"
  /\ root' = "failed"
  /\ failures' = failures + 1
  /\ UNCHANGED <<model, next, phase, agenda, counts, chan, acks, loaded>>

\* The root's end closes its sockets, and the worker's read throws.
SessionEnds(w) ==
  /\ root = "failed" /\ phase[w] # "listening"
  /\ Leave(w)
  /\ UNCHANGED <<model, root, next, counts, acks, loaded, failures>>

-----------------------------------------------------------------------------
Init ==
  /\ model \in Models
  /\ root = "running" /\ next = 1
  /\ phase = [w \in Workers(model) |-> "net"]
  /\ agenda = [w \in Workers(model) |-> ReadNet]
  /\ counts = [w \in Workers(model) |-> [c \in Counts |-> 0]]
  /\ chan = [w \in Workers(model) |-> <<>>]
  /\ acks = [w \in Workers(model) |-> 0]
  /\ loaded = [n \in Nodes(model.topology) |-> EmptyBag]
  /\ failures = 0

RootStep == RootLoads \/ RootWrites \/ RootReadsAck \/ RootThrows

WorkerStep(w) ==
  ReadField(w) \/ EnterLoop(w) \/ WriteAck(w) \/ ReadWeight(w) \/ ReadZero(w) \/ SessionEnds(w)

Next ==
  \/ RootStep
  \/ RootFails
  \/ \E w \in Workers(model) : WorkerStep(w) \/ WorkerFails(w)

Spec == Init /\ [][Next]_vars

\* The processes run; a call on a closed socket does not block for ever.
FairSpec ==
  /\ Spec /\ WF_vars(RootStep)
  /\ \A w \in 1 .. MaxNodes - 1 : WF_vars(w \in Workers(model) /\ WorkerStep(w))

-----------------------------------------------------------------------------
\* No part of a weight is loaded twice, and nothing of what a worker answers is
\* left over: at most one acknowledgement is under way.
TypeOK ==
  /\ model \in Models
  /\ root \in {"running", "ready", "failed"}
  /\ next \in 1 .. Len(Scripts[model]) + 1
  /\ phase \in [Workers(model) -> {"net", "node", "weights", "ready", "listening"}]
  /\ \A w \in Workers(model) : Len(chan[w]) <= SocketCapacity /\ acks[w] \in {0, 1}
  /\ \A n \in Nodes(model.topology) : \A p \in DOMAIN loaded[n] : loaded[n][p] = 1
  /\ failures \in 0 .. MaxFailures

\* The reader of a configuration never takes a field for another: the writer's
\* loops (nn-network.cpp:1910-1981) and the reader's (1995-2087) agree for every
\* count, also zero, and none of their bytes is left for the weights.
InStep ==
  \A w \in Workers(model) : chan[w] # <<>> =>
    LET name == Head(chan[w]).name IN
    CASE phase[w] \in {"net", "node"} ->
           agenda[w] # <<>> /\ (Head(agenda[w]).body = <<>> => Head(agenda[w]).name = name)
      [] phase[w] = "weights" -> name \in {"weight", "zero"}
      [] OTHER -> FALSE

\* When the root goes on to the inference, every node that has not failed has
\* its configuration and each part of each weight its operations use, its own
\* slice of it and all experts, once.  With sp > 1 it is not so: NodeInPpStage.
WeightsPlaced ==
  root = "ready" /\ model.topology.spSize = 1 =>
    /\ BagToSet(loaded[Root]) = Needed(model, Root)
    /\ \A w \in Workers(model) :
         \/ phase[w] = "ready" /\ BagToSet(loaded[w]) = Needed(model, w)
         \/ phase[w] = "listening"

\* The start ends, whoever fails: the root goes on with all workers that are
\* left ready, or ends and every worker listens for the next root.
LoadingEnds ==
  <>[](\/ root = "ready"
       \/ root = "failed" /\ \A w \in Workers(model) : phase[w] = "listening")

=============================================================================
