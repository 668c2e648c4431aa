------------------------------ MODULE Topology ------------------------------
(***************************************************************************)
(* The three-dimensional arrangement of the nodes (nn-topology.hpp), the   *)
(* part of the model each node runs (llm.cpp), and the nodes the root      *)
(* sends a weight to (NnRootWeightLoader).  The builder of the model and   *)
(* the loader of the weights compute the stage of a layer each in its own  *)
(* way, and nothing but arithmetic makes them agree.                       *)
(*                                                                         *)
(* A topology is a record of its four sizes, t; a node is its globalRank.  *)
(***************************************************************************)
EXTENDS Integers

Nodes(t) == 0 .. t.nNodes - 1
Root     == 0

\* The constructor: what it throws at, and the size it computes.
CreateTopology(n, pp, sp) ==
  [nNodes |-> n, ppSize |-> pp, spSize |-> sp, tpSize |-> n \div (pp * sp)]

CanCreate(n, pp, sp) == n >= 1 /\ pp >= 1 /\ sp >= 1 /\ n % (pp * sp) = 0

IsTopology(t) ==
  \E n, pp, sp \in Nat : CanCreate(n, pp, sp) /\ t = CreateTopology(n, pp, sp)

StageSize(t) == t.spSize * t.tpSize

PpRank(t, g) == g \div StageSize(t)
SpRank(t, g) == (g % StageSize(t)) \div t.tpSize
TpRank(t, g) == (g % StageSize(t)) % t.tpSize

GlobalRank(t, pp, sp, tp) == pp * StageSize(t) + sp * t.tpSize + tp

TpGroupStart(t, g) == PpRank(t, g) * StageSize(t) + SpRank(t, g) * t.tpSize
TpGroupEnd(t, g)   == TpGroupStart(t, g) + t.tpSize
SpGroupStart(t, g) == PpRank(t, g) * StageSize(t)
SpGroupEnd(t, g)   == SpGroupStart(t, g) + StageSize(t)

LaneId(t, g) == SpRank(t, g) * t.tpSize + TpRank(t, g)

\* What a worker makes of the groups in its node configuration.
InferredTopology(t, g) ==
  LET tp == TpGroupEnd(t, g) - TpGroupStart(t, g)
      sp == (SpGroupEnd(t, g) - SpGroupStart(t, g)) \div tp
  IN  CreateTopology(t.nNodes, t.nNodes \div (sp * tp), sp)

-----------------------------------------------------------------------------
(* The layers of a stage, as the builder and as the loader see them.       *)

\* buildLayerStartOffsets without ppStageLayerCounts, which no caller gives.
LayerOffset(t, nLayers, stage) ==
  IF stage = t.ppSize THEN nLayers ELSE stage * (nLayers \div t.ppSize)

LayersOf(t, nLayers, g) ==
  LayerOffset(t, nLayers, PpRank(t, g)) .. LayerOffset(t, nLayers, PpRank(t, g) + 1) - 1

AllStages == -1    \* UINT_MAX

\* A slip: the layers that are left over belong to a stage that does not exist.
UnboundedOwner(t, nLayers, layer) ==
  IF t.ppSize <= 1 \/ nLayers = 0 \/ nLayers \div t.ppSize = 0 THEN AllStages
  ELSE layer \div (nLayers \div t.ppSize)

LayerOwner(t, nLayers, layer) ==
  IF t.ppSize <= 1 \/ nLayers = 0 \/ nLayers \div t.ppSize = 0 THEN AllStages
  ELSE LET stage == layer \div (nLayers \div t.ppSize)
       IN  IF stage >= t.ppSize THEN t.ppSize - 1 ELSE stage

\* nodeInPpStage knows nothing of the groups that share a sequence.
NodeInPpStage(t, g, stage) == g \div t.tpSize = stage

\* loadLlmNetWeight's last stage, from the group of the root.
LastPpStage(t) ==
  IF t.nNodes > 1 THEN t.nNodes \div TpGroupEnd(t, Root) - 1 ELSE 0

-----------------------------------------------------------------------------
(* A weight of the file is [op, layer, expert]; opIndex is the layer.       *)

EmbeddingOp  == "embedding"
FinalOps     == {"final_norm", "final_matmul_logits"}
\* loadRowMatmulSlices and loadColMatmulSlices cut these; others are whole.
SlicedOps    == {"block_matmul_q", "block_matmul_k", "block_matmul_v", "block_matmul_wo",
                 "block_matmul_w1", "block_matmul_w2", "block_matmul_w3", "final_matmul_logits"}

\* Is the operation of the weight part of g's segments?
HasOp(t, nLayers, g, w) ==
  IF w.op = EmbeddingOp THEN g = Root
  ELSE IF w.op \in FinalOps THEN PpRank(t, g) = t.ppSize - 1
  ELSE w.layer \in LayersOf(t, nLayers, g)

\* ownerPpRank of a sliced weight, the logits overriding it.
OwnerStage(t, nLayers, w) ==
  IF w.op = "final_matmul_logits" /\ LastPpStage(t) > 0 THEN LastPpStage(t)
  ELSE LayerOwner(t, nLayers, w.layer)

\* Does the root give the weight, or its slice, to node g?
Receives(t, nLayers, g, w) ==
  IF w.op = EmbeddingOp THEN g = Root
  ELSE IF w.op \notin SlicedOps \/ t.nNodes = 1 THEN TRUE
  ELSE LET stage == OwnerStage(t, nLayers, w)
       IN  stage = AllStages \/ NodeInPpStage(t, g, stage)

\* The slice of the weight that node g is given; a whole weight is slice 0.
SliceFor(t, g, w) == IF w.op \in SlicedOps THEN g % t.tpSize ELSE 0
=============================================================================
