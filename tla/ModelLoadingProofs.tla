------------------------- MODULE ModelLoadingProofs -------------------------
(***************************************************************************)
(* What the arithmetic of nn-topology.hpp and of the weight loader         *)
(* establishes for every number of nodes, stages, groups and layers, and   *)
(* that of the slices for every number of threads, nodes, rows, blocks and *)
(* heads: nothing is left out, nothing is done twice, and a node's query   *)
(* heads read key-value heads the node has.                                *)
(*                                                                         *)
(* And what the start of a session establishes, whatever the counts in the *)
(* configurations, the model, the topology and the sockets' capacity: the  *)
(* reader of a configuration stays in step with its writer, and each node  *)
(* that has not failed ends with the parts of the weights it needs.  The   *)
(* invariant says for every worker which part of the root's script is on   *)
(* its way to it, and what it has made of the part before.                 *)
(***************************************************************************)
EXTENDS ModelLoading, Slices, FiniteSetTheorems, SequenceTheorems, WellFoundedInduction, TLAPS

-----------------------------------------------------------------------------
(* Division of natural numbers.                                            *)

\* NnUint division and remainder.
LEMMA DivMod ==
  ASSUME NEW a \in Nat, NEW b \in Nat \ {0}
  PROVE  /\ a \div b \in Nat
         /\ a % b \in 0 .. b - 1
         /\ a = b * (a \div b) + (a % b)
  OBVIOUS

\* Quotient and remainder are the only two numbers of their kind.
LEMMA DivModUnique ==
  ASSUME NEW a \in Nat, NEW b \in Nat \ {0}, NEW q \in Nat, NEW r \in 0 .. b - 1,
         a = b * q + r
  PROVE  a \div b = q /\ a % b = r
  OBVIOUS

\* a product of sizes that are not zero is not zero, and orders what it multiplies.
LEMMA Product ==
  ASSUME NEW a \in Nat, NEW b \in Nat
  PROVE  /\ a * b \in Nat
         /\ a # 0 /\ b # 0 => a * b >= 1
         /\ \A c \in Nat : a <= c => a * b <= c * b
  OBVIOUS

\* (a * b) / b, where the loader and a worker undo a product.
LEMMA DivOfProduct ==
  ASSUME NEW a \in Nat, NEW b \in Nat \ {0}
  PROVE  (a * b) \div b = a /\ (a * b) % b = 0
<1>1. a * b = b * a + 0
  OBVIOUS
<1> QED
  BY <1>1, DivModUnique, a * b \in Nat, 0 \in 0 .. b - 1

-----------------------------------------------------------------------------
(* The sizes of a topology.                                                *)

\* What the constructor of NnParallelTopology leaves: the sizes multiply to the
\* number of nodes.
LEMMA Sizes ==
  ASSUME NEW t, IsTopology(t)
  PROVE  /\ t.nNodes \in Nat \ {0} /\ t.ppSize \in Nat \ {0}
         /\ t.spSize \in Nat \ {0} /\ t.tpSize \in Nat \ {0}
         /\ StageSize(t) \in Nat \ {0}
         /\ t.nNodes = t.ppSize * StageSize(t)
         /\ t = CreateTopology(t.nNodes, t.ppSize, t.spSize)
<1>1. PICK n \in Nat, pp \in Nat, sp \in Nat :
        CanCreate(n, pp, sp) /\ t = CreateTopology(n, pp, sp)
  BY DEF IsTopology
<1>2. /\ n \in Nat \ {0} /\ pp \in Nat \ {0} /\ sp \in Nat \ {0} /\ n % (pp * sp) = 0
      /\ t.nNodes = n /\ t.ppSize = pp /\ t.spSize = sp /\ t.tpSize = n \div (pp * sp)
  BY <1>1 DEF CanCreate, CreateTopology
<1>3. pp * sp \in Nat \ {0}
  BY <1>2, Product
<1>4. t.tpSize \in Nat /\ n = (pp * sp) * t.tpSize
  <2> DEFINE b == pp * sp
  <2>1. b \in Nat \ {0} /\ n % b = 0 /\ t.tpSize = n \div b
    BY <1>2, <1>3
  <2> HIDE DEF b
  <2>2. n \div b \in Nat /\ n = b * (n \div b) + (n % b)
    BY <2>1, DivMod
  <2>3. t.tpSize \in Nat /\ n = b * t.tpSize
    BY <2>1, <2>2
  <2> QED
    BY <2>3 DEF b
<1>5. t.tpSize # 0
  BY <1>2, <1>4
<1>6. StageSize(t) \in Nat \ {0}
  BY <1>2, <1>4, <1>5, Product DEF StageSize
<1>7. n = pp * (sp * t.tpSize)
  BY <1>2, <1>4
<1> QED
  BY <1>1, <1>2, <1>4, <1>5, <1>6, <1>7 DEF StageSize

\* The ranks that getPlacement computes are in range, and getGlobalRank gives the
\* node back: no node has two places, and none has none.
THEOREM PlacementInverse ==
  ASSUME NEW t, IsTopology(t), NEW g \in Nodes(t)
  PROVE  /\ PpRank(t, g) \in 0 .. t.ppSize - 1
         /\ SpRank(t, g) \in 0 .. t.spSize - 1
         /\ TpRank(t, g) \in 0 .. t.tpSize - 1
         /\ GlobalRank(t, PpRank(t, g), SpRank(t, g), TpRank(t, g)) = g
<1> DEFINE S == StageSize(t)
           T == t.tpSize
           p == g \div S
           r == g % S
           q == r \div T
           x == r % T
<1>1. /\ S \in Nat \ {0} /\ T \in Nat \ {0} /\ t.ppSize \in Nat \ {0} /\ t.spSize \in Nat \ {0}
      /\ t.nNodes = t.ppSize * S /\ S = t.spSize * T /\ g \in Nat /\ g < t.nNodes
  BY Sizes DEF Nodes, StageSize
<1>2. /\ PpRank(t, g) = p /\ SpRank(t, g) = q /\ TpRank(t, g) = x
      /\ GlobalRank(t, p, q, x) = p * S + q * T + x
  BY DEF PpRank, SpRank, TpRank, GlobalRank
<1> HIDE DEF S, T
<1>3. p \in Nat /\ r \in 0 .. S - 1 /\ g = S * p + r
  BY <1>1, DivMod
<1> HIDE DEF p, r
<1>4. r \in Nat
  BY <1>1, <1>3
<1>5. q \in Nat /\ x \in 0 .. T - 1 /\ r = T * q + x
  BY <1>1, <1>4, DivMod
<1> HIDE DEF q, x
<1>6. p < t.ppSize
  <2>1. SUFFICES ASSUME t.ppSize <= p PROVE FALSE
    BY <1>1, <1>3
  <2>2. t.ppSize * S <= p * S
    BY <2>1, <1>1, <1>3, Product
  <2> QED
    BY <2>2, <1>1, <1>3
<1>7. q < t.spSize
  <2>1. SUFFICES ASSUME t.spSize <= q PROVE FALSE
    BY <1>1, <1>5
  <2>2. t.spSize * T <= q * T
    BY <2>1, <1>1, <1>5, Product
  <2> QED
    BY <2>2, <1>1, <1>3, <1>5
<1>8. p * S + q * T + x = g
  BY <1>1, <1>3, <1>5
<1>9. p \in 0 .. t.ppSize - 1 /\ q \in 0 .. t.spSize - 1 /\ x \in 0 .. t.tpSize - 1
  BY <1>1, <1>3, <1>5, <1>6, <1>7 DEF T
<1> QED
  BY <1>2, <1>8, <1>9

\* Every place is some node's, and getPlacement finds it: lanes, groups and
\* stages hold the nodes they are meant to.
THEOREM PlacementOfRank ==
  ASSUME NEW t, IsTopology(t), NEW pp \in 0 .. t.ppSize - 1, NEW sp \in 0 .. t.spSize - 1,
         NEW tp \in 0 .. t.tpSize - 1
  PROVE  LET g == GlobalRank(t, pp, sp, tp)
         IN  g \in Nodes(t) /\ PpRank(t, g) = pp /\ SpRank(t, g) = sp /\ TpRank(t, g) = tp
<1> DEFINE S == StageSize(t)
           T == t.tpSize
           r == sp * T + tp
           g == pp * S + r
<1>1. /\ S \in Nat \ {0} /\ T \in Nat \ {0} /\ t.ppSize \in Nat \ {0} /\ t.spSize \in Nat \ {0}
      /\ t.nNodes = t.ppSize * S /\ S = t.spSize * T
      /\ pp \in Nat /\ sp \in Nat /\ tp \in 0 .. T - 1
  BY Sizes DEF StageSize
<1>2. GlobalRank(t, pp, sp, tp) = g
  BY <1>1 DEF GlobalRank
<1> HIDE DEF S, T
<1>3. r \in 0 .. S - 1
  <2>1. sp + 1 \in Nat /\ (sp + 1) * T <= t.spSize * T
    BY <1>1, Product
  <2>2. r \in Nat
    BY <1>1, Product
  <2>3. r < (sp + 1) * T
    BY <1>1
  <2> QED
    BY <2>1, <2>2, <2>3, <1>1
<1>4. r \div T = sp /\ r % T = tp
  <2>1. r \in Nat /\ r = T * sp + tp
    BY <1>1, <1>3
  <2> HIDE DEF r
  <2> QED
    BY <2>1, <1>1, DivModUnique
<1> HIDE DEF r
<1>5. g \in Nat /\ g = S * pp + r
  BY <1>1, <1>3, Product
<1>6. g < t.nNodes
  <2>1. (pp + 1) * S <= t.ppSize * S
    BY <1>1, Product
  <2> QED
    BY <2>1, <1>1, <1>3, <1>5
<1>7. g \div S = pp /\ g % S = r
  <2> HIDE DEF g
  <2>1. g \in Nat /\ S \in Nat \ {0} /\ pp \in Nat /\ r \in 0 .. S - 1 /\ g = S * pp + r
    BY <1>5, <1>1, <1>3
  <2> QED
    BY <2>1, DivModUnique, Zenon
<1>8. /\ PpRank(t, g) = g \div S /\ SpRank(t, g) = (g % S) \div T
      /\ TpRank(t, g) = (g % S) % T
  BY DEF PpRank, SpRank, TpRank, S, T
<1> QED
  BY <1>1, <1>2, <1>4, <1>5, <1>6, <1>7, <1>8 DEF Nodes

\* A worker is told its groups, not the sizes; runWorkerApp computes the sizes
\* from the groups, and every worker comes to the root's.
THEOREM WorkerInfersTopology ==
  ASSUME NEW t, IsTopology(t), NEW g \in Nodes(t)
  PROVE  InferredTopology(t, g) = t
<1> DEFINE S == StageSize(t)
           tp == TpGroupEnd(t, g) - TpGroupStart(t, g)
           inStage == SpGroupEnd(t, g) - SpGroupStart(t, g)
<1>1. /\ S \in Nat \ {0} /\ t.tpSize \in Nat \ {0} /\ t.ppSize \in Nat \ {0} /\ t.spSize \in Nat \ {0}
      /\ t.nNodes = t.ppSize * S /\ S = t.spSize * t.tpSize
      /\ t = CreateTopology(t.nNodes, t.ppSize, t.spSize)
  BY Sizes DEF StageSize
<1>2. PpRank(t, g) \in Nat /\ SpRank(t, g) \in Nat
  BY PlacementInverse, <1>1
<1>3. tp = t.tpSize
  <2>1. PpRank(t, g) * S \in Nat /\ SpRank(t, g) * t.tpSize \in Nat
    BY <1>1, <1>2, Product
  <2> QED
    BY <2>1, <1>1 DEF TpGroupEnd, TpGroupStart
<1>4. inStage = S
  <2>1. PpRank(t, g) * S \in Nat
    BY <1>1, <1>2, Product
  <2> QED
    BY <2>1, <1>1 DEF SpGroupEnd, SpGroupStart
<1>5. S \div t.tpSize = t.spSize
  BY <1>1, DivOfProduct
<1>6. t.nNodes \div S = t.ppSize
  BY <1>1, DivOfProduct
<1>7. InferredTopology(t, g) =
        CreateTopology(t.nNodes, t.nNodes \div ((inStage \div tp) * tp), inStage \div tp)
  BY DEF InferredTopology
<1> QED
  BY <1>1, <1>3, <1>4, <1>5, <1>6, <1>7

-----------------------------------------------------------------------------
(* The builder of the model and the loader of the weights.                 *)

\* buildLayerStartOffsets and getLayerOwnerPpRank agree on the stage of every
\* layer, the layers that are left over included.
THEOREM OwnerAgrees ==
  ASSUME NEW t, IsTopology(t), NEW nLayers \in Nat, NEW layer \in 0 .. nLayers - 1,
         NEW g \in Nodes(t), layer \in LayersOf(t, nLayers, g)
  PROVE  LayerOwner(t, nLayers, layer) \in {AllStages, PpRank(t, g)}
<1> DEFINE each == nLayers \div t.ppSize
           stage == PpRank(t, g)
<1>1. /\ t.ppSize \in Nat \ {0} /\ stage \in 0 .. t.ppSize - 1
  BY Sizes, PlacementInverse
<1>2. CASE t.ppSize <= 1 \/ nLayers = 0 \/ each = 0
  BY <1>2 DEF LayerOwner
<1>3. CASE ~(t.ppSize <= 1 \/ nLayers = 0 \/ each = 0)
  <2> DEFINE quotient == layer \div each
  <2>1. each \in Nat \ {0}
    BY <1>1, <1>3, DivMod
  <2>2. LayerOwner(t, nLayers, layer) = IF quotient >= t.ppSize THEN t.ppSize - 1 ELSE quotient
    BY <1>3 DEF LayerOwner
  <2>3. /\ LayerOffset(t, nLayers, stage) = stage * each
        /\ stage + 1 # t.ppSize => LayerOffset(t, nLayers, stage + 1) = (stage + 1) * each
    BY <1>1 DEF LayerOffset
  <2>4. LayersOf(t, nLayers, g) =
          LayerOffset(t, nLayers, stage) .. LayerOffset(t, nLayers, stage + 1) - 1
    BY DEF LayersOf
  <2> HIDE DEF each, stage
  <2>5. stage * each \in Nat /\ (stage + 1) * each \in Nat
    BY <2>1, <1>1, Product
  <2>6. layer \in Nat /\ stage * each <= layer
    <3>1. LayerOffset(t, nLayers, stage + 1) \in Int
      <4>1. CASE stage + 1 = t.ppSize
        BY <4>1 DEF LayerOffset
      <4>2. CASE stage + 1 # t.ppSize
        BY <4>2, <2>3, <2>5
      <4> QED
        BY <4>1, <4>2
    <3> QED
      BY <3>1, <2>3, <2>4, <2>5
  <2>7. quotient \in Nat /\ layer = each * quotient + (layer % each) /\ layer % each \in 0 .. each - 1
    BY <2>1, <2>6, DivMod
  <2> HIDE DEF quotient
  <2>8. stage <= quotient
    <3>1. SUFFICES ASSUME quotient + 1 <= stage PROVE FALSE
      BY <1>1, <2>7
    <3>2. (quotient + 1) * each <= stage * each
      BY <3>1, <2>1, <2>7, <1>1, Product
    <3> QED
      BY <3>2, <2>1, <2>6, <2>7, <1>1
  <2>9. CASE stage + 1 = t.ppSize
    BY <2>9, <2>2, <2>7, <2>8, <1>1 DEF stage
  <2>10. CASE stage + 1 # t.ppSize
    <3>1. layer < (stage + 1) * each
      BY <2>10, <2>3, <2>4, <2>5
    <3>2. quotient <= stage
      <4>1. SUFFICES ASSUME stage + 1 <= quotient PROVE FALSE
        BY <1>1, <2>7
      <4>2. (stage + 1) * each <= quotient * each
        BY <4>1, <2>1, <2>7, <1>1, Product
      <4> QED
        BY <4>2, <3>1, <2>1, <2>6, <2>7, <1>1
    <3>3. quotient = stage
      BY <3>2, <2>7, <2>8, <1>1
    <3> QED
      BY <3>3, <2>2, <1>1, <2>10 DEF stage
  <2> QED
    BY <2>9, <2>10 DEF stage
<1> QED
  BY <1>2, <1>3

\* Without sequence parallelism the root gives a weight to every node whose
\* segments compute with it, and a sliced one in that node's slice.
THEOREM WeightsReachTheirOps ==
  ASSUME NEW t, IsTopology(t), t.spSize = 1, NEW nLayers \in Nat, NEW g \in Nodes(t),
         NEW w, w.layer \in 0 .. nLayers - 1, HasOp(t, nLayers, g, w)
  PROVE  /\ Receives(t, nLayers, g, w)
         /\ w.op \in SlicedOps => SliceFor(t, g, w) = TpRank(t, g)
<1>1. /\ t.tpSize \in Nat \ {0} /\ t.ppSize \in Nat \ {0} /\ t.nNodes \in Nat \ {0}
      /\ StageSize(t) = t.tpSize /\ t.nNodes = t.ppSize * t.tpSize
  BY Sizes DEF StageSize
<1>2. PpRank(t, g) = g \div t.tpSize /\ PpRank(t, g) \in 0 .. t.ppSize - 1
  BY <1>1, PlacementInverse DEF PpRank
<1>3. t.nNodes # 1 => LastPpStage(t) = t.ppSize - 1
  <2>1. Root \in Nodes(t) /\ Root = t.tpSize * 0 + 0
    BY <1>1 DEF Nodes, Root
  <2>2. Root \div t.tpSize = 0 /\ Root % t.tpSize = 0
    BY <2>1, <1>1, DivModUnique DEF Root
  <2>3. (Root % t.tpSize) \div t.tpSize = 0
    BY <2>2 DEF Root
  <2>4. PpRank(t, Root) = 0 /\ SpRank(t, Root) = 0
    BY <2>2, <2>3, <1>1 DEF PpRank, SpRank
  <2>5. TpGroupEnd(t, Root) = t.tpSize
    BY <2>4, <1>1 DEF TpGroupEnd, TpGroupStart
  <2>6. t.nNodes \div t.tpSize = t.ppSize
    BY <1>1, DivOfProduct
  <2> QED
    BY <2>5, <2>6, <1>1 DEF LastPpStage
<1>4. w.op \in SlicedOps => w.op # EmbeddingOp
  BY DEF SlicedOps, EmbeddingOp
<1>5. ASSUME w.op \in SlicedOps, t.nNodes # 1
      PROVE  OwnerStage(t, nLayers, w) \in {AllStages, PpRank(t, g)}
  <2>1. CASE w.op = "final_matmul_logits" /\ LastPpStage(t) > 0
    <3>1. PpRank(t, g) = t.ppSize - 1
      BY <2>1 DEF HasOp, FinalOps, EmbeddingOp
    <3> QED
      BY <2>1, <3>1, <1>3, <1>5 DEF OwnerStage
  <2>2. CASE w.op = "final_matmul_logits" /\ ~(LastPpStage(t) > 0)
    <3>1. t.ppSize <= 1
      BY <1>5, <1>3, <2>2, <1>1
    <3> QED
      BY <3>1, <2>2 DEF OwnerStage, LayerOwner
  <2>3. CASE w.op # "final_matmul_logits"
    <3>1. w.layer \in LayersOf(t, nLayers, g)
      BY <2>3, <1>5 DEF HasOp, SlicedOps, FinalOps, EmbeddingOp
    <3> QED
      BY <3>1, <2>3, OwnerAgrees DEF OwnerStage
  <2> QED
    BY <2>1, <2>2, <2>3
<1>6. Receives(t, nLayers, g, w)
  <2>1. CASE w.op = EmbeddingOp
    BY <2>1 DEF Receives, HasOp
  <2>2. CASE w.op \notin SlicedOps \/ t.nNodes = 1
    BY <2>2, <1>4 DEF Receives, HasOp
  <2>3. CASE w.op # EmbeddingOp /\ w.op \in SlicedOps /\ t.nNodes # 1
    BY <2>3, <1>5, <1>2 DEF Receives, NodeInPpStage
  <2> QED
    BY <2>1, <2>2, <2>3
<1>7. w.op \in SlicedOps => SliceFor(t, g, w) = TpRank(t, g)
  <2>1. g \in Nat
    BY <1>1 DEF Nodes
  <2>2. g % t.tpSize \in 0 .. t.tpSize - 1
    BY <2>1, <1>1, DivMod
  <2>3. (g % t.tpSize) % t.tpSize = g % t.tpSize
    <3> DEFINE r == g % t.tpSize
    <3>1. r \in Nat /\ r = t.tpSize * 0 + r /\ r \in 0 .. t.tpSize - 1 /\ 0 \in Nat
      BY <2>2, <1>1
    <3> HIDE DEF r
    <3>2. r % t.tpSize = r
      BY <3>1, <1>1, DivModUnique
    <3> QED
      BY <3>2 DEF r
  <2> QED
    BY <2>3, <1>1 DEF SliceFor, TpRank
<1> QED
  BY <1>6, <1>7

-----------------------------------------------------------------------------
(* Threads.                                                                *)

\* With a length of T * s + r the ranges start at t * s + min(t, r).
LEMMA Starts ==
  ASSUME NEW len \in Nat, NEW T \in Nat \ {0}, NEW t \in Nat
  PROVE  LET s == len \div T
             r == len % T
         IN  /\ SplitStart(len, T, t) = t * s + (IF t < r THEN t ELSE r)
             /\ SplitEnd(len, T, t) = t * s + s + (IF t < r THEN t + 1 ELSE r)
<1> DEFINE s == len \div T
           r == len % T
<1>1. s \in Nat /\ r \in 0 .. T - 1 /\ len = T * s + r
  BY DivMod
<1>2. SplitStart(len, T, t) = t * s + (IF t < r THEN t ELSE r)
  BY DEF SplitStart
<1>3. SplitEnd(len, T, t) = SplitStart(len, T, t) + s + (IF t < r THEN 1 ELSE 0)
  BY DEF SplitEnd
<1> HIDE DEF s, r
<1>4. t * s \in Nat
  BY <1>1, Product
<1>5. SplitEnd(len, T, t) = t * s + s + (IF t < r THEN t + 1 ELSE r)
  BY <1>1, <1>2, <1>3, <1>4
<1> QED
  BY <1>2, <1>5 DEF s, r

\* A thread's range ends before the range of any later thread starts.
LEMMA RangesApart ==
  ASSUME NEW len \in Nat, NEW T \in Nat \ {0}, NEW t \in Nat, NEW u \in Nat, t < u
  PROVE  SplitEnd(len, T, t) <= SplitStart(len, T, u)
<1> DEFINE s == len \div T
           r == len % T
<1>1. s \in Nat /\ r \in 0 .. T - 1
  BY DivMod
<1>2. /\ SplitEnd(len, T, t) = t * s + s + (IF t < r THEN t + 1 ELSE r)
      /\ SplitStart(len, T, u) = u * s + (IF u < r THEN u ELSE r)
  <2>1. SplitEnd(len, T, t) = t * s + s + (IF t < r THEN t + 1 ELSE r)
    BY Starts
  <2>2. SplitStart(len, T, u) = u * s + (IF u < r THEN u ELSE r)
    BY Starts
  <2> QED
    BY <2>1, <2>2
<1> HIDE DEF s, r
<1>3. t * s + s <= u * s
  <2>1. (t + 1) * s <= u * s
    BY <1>1, t + 1 \in Nat, t + 1 <= u, Product
  <2> QED
    BY <1>1, <2>1
<1>4. t * s \in Nat /\ u * s \in Nat
  BY <1>1, Product
<1>5. (IF t < r THEN t + 1 ELSE r) <= (IF u < r THEN u ELSE r)
  BY <1>1
<1> QED
  BY <1>1, <1>2, <1>3, <1>4, <1>5

\* SPLIT_THREADS (nn-quants.hpp:82): whatever the length and the number of
\* threads, also with more threads than items, every item is the work of
\* exactly one thread, so that an operation leaves nothing out and no two
\* threads write the same place.
THEOREM ThreadsShareAll ==
  ASSUME NEW len \in Nat, NEW T \in Nat \ {0}, NEW i \in 0 .. len - 1
  PROVE  \E t \in 0 .. T - 1 :
           /\ i \in ThreadRange(len, T, t)
           /\ \A u \in 0 .. T - 1 : i \in ThreadRange(len, T, u) => u = t
<1> DEFINE s == len \div T
           r == len % T
<1>0. s \in Nat /\ r \in 0 .. T - 1 /\ len = T * s + r
  BY DivMod
<1>2. \A t \in Nat : /\ SplitStart(len, T, t) = t * s + (IF t < r THEN t ELSE r)
                     /\ SplitEnd(len, T, t) = t * s + s + (IF t < r THEN t + 1 ELSE r)
  <2> SUFFICES ASSUME NEW t \in Nat
               PROVE  /\ SplitStart(len, T, t) = t * s + (IF t < r THEN t ELSE r)
                      /\ SplitEnd(len, T, t) = t * s + s + (IF t < r THEN t + 1 ELSE r)
    OBVIOUS
  <2> QED
    BY Starts
<1>3. \A t \in Nat : SplitStart(len, T, t) \in Nat /\ SplitEnd(len, T, t) \in Nat
  <2> HIDE DEF s, r
  <2>1. \A t \in Nat : t * s \in Nat
    BY <1>0, Product
  <2> QED
    BY <1>0, <1>2, <2>1
<1> HIDE DEF s, r
<1>1. s \in Nat /\ r \in 0 .. T - 1 /\ len = T * s + r /\ r \in Nat
  BY <1>0
<1>4. \E t \in 0 .. T - 1 : i \in ThreadRange(len, T, t)
  <2>1. CASE i < r * (s + 1)
    <3> DEFINE z == s + 1
               t == i \div z
               k == i % z
    <3>0. z \in Nat \ {0} /\ i \in Nat
      BY <1>1
    <3> HIDE DEF z
    <3>9. t \in Nat /\ k \in 0 .. z - 1 /\ i = z * t + k
      BY <3>0, DivMod
    <3> HIDE DEF t, k
    <3>1. t \in Nat /\ k \in 0 .. s /\ i = (s + 1) * t + k
      BY <1>1, <3>9 DEF z
    <3>2. t < r
      <4>1. ASSUME r <= t PROVE FALSE
        <5>1. r * (s + 1) <= t * (s + 1)
          BY <1>1, <3>1, <4>1, Product
        <5> QED
          BY <1>1, <2>1, <3>1, <5>1
      <4> QED
        BY <1>1, <3>1, <4>1
    <3>3. t \in 0 .. T - 1
      BY <1>1, <3>1, <3>2
    <3>4. SplitStart(len, T, t) = t * s + t /\ SplitEnd(len, T, t) = t * s + s + (t + 1)
      BY <1>2, <3>1, <3>2
    <3>5. i = t * s + t + k
      BY <1>1, <3>1
    <3>6. t * s \in Nat
      BY <1>1, <3>1, Product
    <3> QED
      BY <1>1, <3>1, <3>3, <3>4, <3>5, <3>6 DEF ThreadRange
  <2>2. CASE ~(i < r * (s + 1))
    <3> DEFINE m == i - r * (s + 1)
    <3>1. m \in Nat /\ i = r * s + r + m
      BY <1>1, <2>2
    <3> HIDE DEF m
    <3>2. s # 0
      <4>1. ASSUME s = 0 PROVE FALSE
        BY <1>1, <2>2, <4>1
      <4> QED
        BY <4>1
    <3> DEFINE q == m \div s
               k == m % s
    <3>3. q \in Nat /\ k \in 0 .. s - 1 /\ m = s * q + k
      BY <1>1, <3>1, <3>2, DivMod
    <3> HIDE DEF q, k
    <3> DEFINE t == r + q
    <3>4. t < T
      <4>1. ASSUME T <= t PROVE FALSE
        <5>1. T * s <= t * s
          BY <1>1, <3>3, <4>1, Product
        <5>2. t * s = r * s + q * s
          BY <1>1, <3>3
        <5> QED
          BY <1>1, <3>1, <3>3, <5>1, <5>2
      <4> QED
        BY <1>1, <3>3, <4>1
    <3>5. t \in 0 .. T - 1 /\ ~(t < r) /\ t \in Nat
      BY <1>1, <3>3, <3>4
    <3>6. SplitStart(len, T, t) = t * s + r /\ SplitEnd(len, T, t) = t * s + s + r
      BY <1>2, <3>5
    <3>7. i = t * s + r + k
      BY <1>1, <3>1, <3>3
    <3>8. t * s \in Nat
      BY <1>1, <3>5, Product
    <3> QED
      BY <1>1, <3>3, <3>5, <3>6, <3>7, <3>8 DEF ThreadRange
  <2> QED
    BY <2>1, <2>2
<1>5. ASSUME NEW t \in 0 .. T - 1, NEW u \in 0 .. T - 1,
             i \in ThreadRange(len, T, t), i \in ThreadRange(len, T, u)
      PROVE  u = t
  <2>1. t \in Nat /\ u \in Nat /\ i \in Nat
    OBVIOUS
  <2>2. /\ SplitStart(len, T, t) <= i /\ i < SplitEnd(len, T, t)
        /\ SplitStart(len, T, u) <= i /\ i < SplitEnd(len, T, u)
    BY <1>3, <1>5, <2>1 DEF ThreadRange
  <2>3. ~(t < u)
    <3>1. t < u => SplitEnd(len, T, t) <= SplitStart(len, T, u)
      BY <2>1, RangesApart
    <3> QED
      BY <1>3, <2>1, <2>2, <3>1
  <2>4. ~(u < t)
    <3>1. u < t => SplitEnd(len, T, u) <= SplitStart(len, T, t)
      BY <2>1, RangesApart
    <3> QED
      BY <1>3, <2>1, <2>2, <3>1
  <2> QED
    BY <2>1, <2>3, <2>4
<1> QED
  BY <1>4, <1>5

-----------------------------------------------------------------------------
(* Weights.                                                                *)

\* splitRowMatmulWeight: what a node copies are whole rows of the weight, and
\* each row is copied by exactly one of the nodes, to one place.
THEOREM RowsSplit ==
  ASSUME NEW nNodes \in Nat \ {0}, NEW d0 \in Nat \ {0}, NEW n \in Nat \ {0},
         NEW row \in 0 .. nNodes * d0 - 1
  PROVE  \E i \in 0 .. nNodes - 1, d \in 0 .. d0 - 1 :
           /\ \A j \in 0 .. n - 1 : RowBlock(d0, n, i, d, j) = Block(n, row, j)
           /\ \A k \in 0 .. nNodes - 1, e \in 0 .. d0 - 1 :
                RowBlock(d0, n, k, e, 0) = Block(n, row, 0) => k = i /\ e = d
<1> DEFINE i == row \div d0
           d == row % d0
<1>0. row \in Nat
  OBVIOUS
<1>1. i \in Nat /\ d \in 0 .. d0 - 1 /\ row = d0 * i + d
  BY <1>0, DivMod
<1>2. \A k \in Nat, e \in 0 .. d0 - 1 : row = d0 * k + e => k = i /\ e = d
  BY <1>0, DivModUnique
<1> HIDE DEF i, d
<1>3. i \in 0 .. nNodes - 1
  <2>1. ASSUME nNodes <= i PROVE FALSE
    <3>1. nNodes * d0 <= i * d0
      BY <1>1, <2>1, Product
    <3> QED
      BY <1>0, <1>1, <3>1
  <2> QED
    BY <1>1, <2>1
<1>4. \A k \in Nat, e, j \in Nat : RowBlock(d0, n, k, e, j) = Block(n, d0 * k + e, j)
  BY DEF RowBlock, Block
<1>5. \A j \in 0 .. n - 1 : RowBlock(d0, n, i, d, j) = Block(n, row, j)
  BY <1>1, <1>4
<1>6. ASSUME NEW k \in 0 .. nNodes - 1, NEW e \in 0 .. d0 - 1,
             RowBlock(d0, n, k, e, 0) = Block(n, row, 0)
      PROVE  k = i /\ e = d
  <2>1. Block(n, d0 * k + e, 0) = Block(n, row, 0)
    BY <1>4, <1>6
  <2> DEFINE x == d0 * k + e
  <2>2. x \in Nat
    OBVIOUS
  <2>3. x * n = row * n
    BY <2>1 DEF Block
  <2> HIDE DEF x
  <2>4. x = row
    BY <1>0, <2>2, <2>3
  <2>5. k \in Nat /\ row = d0 * k + e
    BY <2>4 DEF x
  <2> QED
    BY <1>2, <2>5
<1> QED
  BY <1>1, <1>3, <1>5, <1>6

\* splitColMatmulWeight: a node copies n0 blocks of every row, from block
\* i * n0 on, and each block of a row is copied by exactly one of the nodes.
THEOREM ColumnsSplit ==
  ASSUME NEW nNodes \in Nat \ {0}, NEW n0 \in Nat \ {0}, NEW n, n = nNodes * n0,
         NEW row \in Nat, NEW c \in 0 .. n - 1
  PROVE  \E i \in 0 .. nNodes - 1, j \in 0 .. n0 - 1 :
           /\ ColBlock(n0, n, i, row, j) = Block(n, row, c)
           /\ \A k \in 0 .. nNodes - 1, l \in 0 .. n0 - 1 :
                ColBlock(n0, n, k, row, l) = Block(n, row, c) => k = i /\ l = j
<1> DEFINE i == c \div n0
           j == c % n0
<1>0. n \in Nat /\ c \in Nat /\ c < nNodes * n0
  OBVIOUS
<1>1. i \in Nat /\ j \in 0 .. n0 - 1 /\ c = n0 * i + j
  BY <1>0, DivMod
<1>2. \A k \in Nat, l \in 0 .. n0 - 1 : c = n0 * k + l => k = i /\ l = j
  BY <1>0, DivModUnique
<1> HIDE DEF i, j
<1>3. i \in 0 .. nNodes - 1
  <2>1. ASSUME nNodes <= i PROVE FALSE
    <3>1. nNodes * n0 <= i * n0
      BY <1>1, <2>1, Product
    <3> QED
      BY <1>0, <1>1, <3>1
  <2> QED
    BY <1>1, <2>1
<1>4. \A k \in Nat, l \in Nat :
        ColBlock(n0, n, k, row, l) = Block(n, row, c) <=> n0 * k + l = c
  <2> SUFFICES ASSUME NEW k \in Nat, NEW l \in Nat
               PROVE  ColBlock(n0, n, k, row, l) = Block(n, row, c) <=> n0 * k + l = c
    OBVIOUS
  <2> DEFINE x == n * row
             y == n0 * k
  <2>1. x \in Nat /\ y \in Nat
    BY <1>0, Product
  <2>2. ColBlock(n0, n, k, row, l) = x + y + l /\ Block(n, row, c) = x + c
    BY <1>0 DEF ColBlock, Block
  <2> HIDE DEF x, y
  <2>3. (x + y + l = x + c) <=> (y + l = c)
    BY <1>0, <2>1
  <2> QED
    BY <2>2, <2>3 DEF y
<1>5. ColBlock(n0, n, i, row, j) = Block(n, row, c)
  BY <1>1, <1>4
<1>6. ASSUME NEW k \in 0 .. nNodes - 1, NEW l \in 0 .. n0 - 1,
             ColBlock(n0, n, k, row, l) = Block(n, row, c)
      PROVE  k = i /\ l = j
  <2>1. k \in Nat /\ l \in Nat
    OBVIOUS
  <2>2. n0 * k + l = c
    BY <1>4, <1>6, <2>1
  <2> QED
    BY <1>2, <2>1, <2>2
<1> QED
  BY <1>1, <1>3, <1>5, <1>6

-----------------------------------------------------------------------------
(* Attention heads.                                                        *)

\* multiheadAtt_F32 counts a node's heads from zero and divides by KvMul.  That
\* is the key-value head of the query head if the nodes divide the key-value
\* heads; runInferenceApp (app.cpp:1604) only asks for no more nodes than
\* heads, and the slicers (nn-core.cpp:216) that they divide the row.
THEOREM HeadsReadTheirRows ==
  ASSUME NEW nNodes \in Nat \ {0}, NEW perNode \in Nat \ {0}, NEW mul \in Nat \ {0},
         NEW headDim \in Nat, NEW i \in 0 .. nNodes - 1, NEW h0 \in 0 .. perNode * mul - 1
  PROVE  LET nKvHeads == nNodes * perNode
             nHeads == nKvHeads * mul
         IN  KvRead(nHeads, nKvHeads, headDim, nNodes, i, h0)
               = KvOwn(nHeads, nKvHeads, headDim, nNodes, i, h0)
<1> DEFINE K == nNodes * perNode
           g == h0 \div mul
           x == h0 % mul
<1>1. K \in Nat \ {0}
  OBVIOUS
<1>2. KvMul(K * mul, K) = mul
  <2> HIDE DEF K
  <2>1. K * mul = K * mul + 0 /\ K * mul \in Nat /\ 0 \in 0 .. K - 1
    BY <1>1
  <2> QED
    BY <1>1, <2>1, DivModUnique DEF KvMul
<1>3. (K * mul) \div nNodes = perNode * mul
  <2> DEFINE y == perNode * mul
  <2>1. y \in Nat /\ K * mul = nNodes * y + 0 /\ 0 \in 0 .. nNodes - 1
    OBVIOUS
  <2> HIDE DEF y, K
  <2>2. nNodes * y \in Nat
    BY <2>1, Product
  <2> QED
    BY <2>1, <2>2, DivModUnique DEF y
<1>4. (headDim * K) \div nNodes = headDim * perNode
  <2> DEFINE y == headDim * perNode
  <2>1. y \in Nat /\ headDim * K = nNodes * y + 0 /\ 0 \in 0 .. nNodes - 1
    OBVIOUS
  <2> HIDE DEF y, K
  <2>2. nNodes * y \in Nat
    BY <2>1, Product
  <2> QED
    BY <2>1, <2>2, DivModUnique DEF y
<1>0. h0 \in Nat
  OBVIOUS
<1>5. g \in Nat /\ x \in 0 .. mul - 1 /\ h0 = mul * g + x
  BY <1>0, DivMod
<1> HIDE DEF K, g, x
<1>6. i * (perNode * mul) + h0 = mul * (i * perNode + g) + x
  BY <1>5
<1>7. (i * (perNode * mul) + h0) \div mul = i * perNode + g
  <2> DEFINE q == i * perNode + g
             a == i * (perNode * mul) + h0
  <2>1. q \in Nat /\ a \in Nat /\ a = mul * q + x
    BY <1>5, <1>6
  <2> HIDE DEF q, a
  <2>2. a \div mul = q
    BY <1>5, <2>1, DivModUnique
  <2> QED
    BY <2>2 DEF q, a
<1>8. KvOwn(K * mul, K, headDim, nNodes, i, h0) = (i * perNode + g) * headDim
  BY <1>2, <1>3, <1>7 DEF KvOwn, GlobalHead
<1>9. KvRead(K * mul, K, headDim, nNodes, i, h0) = i * (headDim * perNode) + g * headDim
  BY <1>2, <1>4 DEF KvRead, g
<1>10. (i * perNode + g) * headDim = i * (headDim * perNode) + g * headDim
  BY <1>5
<1> QED
  BY <1>8, <1>9, <1>10 DEF K

-----------------------------------------------------------------------------
(* Naturals and flattened sequences.                                       *)

\* Every set of naturals that is not empty has a least element.
LEMMA LeastNatural ==
  ASSUME NEW T, T \subseteq Nat, T # {}
  PROVE  \E n \in T : \A m \in T : n <= m
<1>1. PICK R : R = OpToRel(<, Nat)
  OBVIOUS
<1>2. IsWellFoundedOn(R, Nat)
  BY <1>1, NatLessThanWellFounded
<1>3. R = {ss \in Nat \X Nat : ss[1] < ss[2]}
  BY <1>1 DEF OpToRel
<1>4. PICK n \in T : \A m \in T : ~(<<m, n>> \in R)
  BY <1>2, WFMin
<1>5. ASSUME NEW m \in T
      PROVE  n <= m
  <2>1. <<m, n>> \notin R
    BY <1>4
  <2>2. <<m, n>> \in Nat \X Nat => ~(m < n)
    BY <2>1, <1>3
  <2>3. m \in Nat /\ n \in Nat
    OBVIOUS
  <2> QED
    BY <2>2, <2>3
<1> QED
  BY <1>5

\* A property of 0 that goes from each natural to the next holds of all.  T is
\* the set of naturals that have it.
LEMMA AllNaturals ==
  ASSUME NEW T, 0 \in T, \A n \in Nat : n \in T => n + 1 \in T
  PROVE  Nat \subseteq T
<1> SUFFICES ASSUME Nat \ T # {} PROVE FALSE
  OBVIOUS
<1>1. PICK n \in Nat \ T : \A m \in Nat \ T : n <= m
  BY LeastNatural
<1>2. n # 0 /\ n - 1 \in Nat
  OBVIOUS
<1>3. n - 1 \in T
  BY <1>1, <1>2
<1>4. (n - 1) + 1 = n
  OBVIOUS
<1> QED
  BY <1>2, <1>3, <1>4

\* ss is n sequences, and f[k] the concatenation of the first k of them.
AreSequences(V, n, ss) == Len(ss) = n /\ (n = 0 => ss = <<>>) /\ \A k \in 1 .. n : ss[k] \in Seq(V)
Concatenates(V, n, ss, f) ==
  /\ f \in [0 .. n -> Seq(V)] /\ f[0] = <<>> /\ f[n] = FlattenSeq(ss)
  /\ \A k \in 1 .. n : f[k] = f[k - 1] \o ss[k]

LEMMA Flattened ==
  ASSUME NEW V, NEW n \in Nat, NEW ss, AreSequences(V, n, ss)
  PROVE  \E f : Concatenates(V, n, ss, f)
<1>0. Len(ss) = n /\ (n = 0 => ss = <<>>) /\ \A k \in 1 .. n : ss[k] \in Seq(V)
  BY DEF AreSequences
<1> DEFINE Upto(k, f) == /\ f \in [0 .. k -> Seq(V)] /\ f[0] = <<>>
                         /\ \A i \in 1 .. k : f[i] = f[i - 1] \o ss[i]
           T == {k \in Nat : k <= n => \E f : Upto(k, f)}
<1> HIDE DEF Upto
<1>1. 0 \in T
  <2>1. <<>> \in Seq(V)
    BY EmptySeq
  <2>2. Upto(0, [i \in 0 .. 0 |-> <<>>])
    BY <2>1 DEF Upto
  <2> QED
    BY <2>2
<1>2. ASSUME NEW k \in Nat, k \in T
      PROVE  k + 1 \in T
  <2>0. k + 1 \in Nat /\ k + 1 # 0 /\ (k + 1) - 1 = k /\ 1 .. k + 1 = 1 .. k \cup {k + 1}
        /\ k \in 0 .. k /\ 0 \in 0 .. k
    OBVIOUS
  <2> SUFFICES ASSUME k + 1 <= n PROVE \E f : Upto(k + 1, f)
    BY <2>0, Zenon
  <2>1. k <= n
    OBVIOUS
  <2>2. PICK f : Upto(k, f)
    BY <1>2, <2>1, Zenon
  <2>3. f \in [0 .. k -> Seq(V)] /\ f[0] = <<>> /\ \A i \in 1 .. k : f[i] = f[i - 1] \o ss[i]
    BY <2>2 DEF Upto
  <2>4. f[k] \in Seq(V) /\ ss[k + 1] \in Seq(V)
    BY <1>0, <2>3
  <2>5. PICK v \in Seq(V) : v = f[k] \o ss[k + 1]
    BY <2>4, ConcatProperties
  <2>6. PICK g : g = [i \in 0 .. k + 1 |-> IF i = k + 1 THEN v ELSE f[i]]
    OBVIOUS
  <2>7. g \in [0 .. k + 1 -> Seq(V)] /\ g[0] = <<>> /\ g[k + 1] = v
    BY <2>3, <2>6
  <2>8. \A i \in 0 .. k : g[i] = f[i]
    BY <2>6
  <2>9. ASSUME NEW i \in 1 .. k + 1
        PROVE  g[i] = g[i - 1] \o ss[i]
    <3>1. CASE i = k + 1
      BY <2>0, <2>5, <2>7, <2>8, <3>1
    <3>2. CASE i \in 1 .. k
      <4>1. i \in 0 .. k /\ i - 1 \in 0 .. k
        BY <3>2
      <4> QED
        BY <3>2, <4>1, <2>3, <2>8
    <3> QED
      BY <2>0, <3>1, <3>2
  <2>10. Upto(k + 1, g)
    BY <2>7, <2>9 DEF Upto
  <2> QED
    BY <2>10
<1>3. n \in T
  <2> HIDE DEF T
  <2> QED
    BY <1>1, <1>2, AllNaturals
<1>4. PICK f : Upto(n, f)
  <2>1. n <= n
    OBVIOUS
  <2> QED
    BY <1>3, <2>1, Zenon
<1>5. f \in [0 .. n -> Seq(V)] /\ f[0] = <<>> /\ \A i \in 1 .. n : f[i] = f[i - 1] \o ss[i]
  BY <1>4 DEF Upto
<1>6. f[n] = FlattenSeq(ss)
  <2>1. CASE n = 0
    <3>1. ss = <<>> /\ FlattenSeq(ss) = ss
      BY <1>0, <2>1 DEF FlattenSeq
    <3> QED
      BY <2>1, <3>1, <1>5
  <2>2. CASE n # 0
    <3>0. f[1] = ss[1]
      <4>1. f[1] = <<>> \o ss[1] /\ ss[1] \in Seq(V)
        <5>1. 1 \in 1 .. n /\ 1 - 1 = 0
          BY <2>2
        <5>2. f[1] = f[1 - 1] \o ss[1]
          BY <5>1, <1>5
        <5> QED
          BY <1>0, <5>1, <5>2, <1>5
      <4> QED
        BY ONLY <4>1, ConcatEmptySeq
    <3> DEFINE Of(g) == g = [i \in 1 .. Len(ss) |-> IF i = 1 THEN ss[i] ELSE g[i - 1] \o ss[i]]
               c == CHOOSE g : Of(g)
               U == {i \in Nat : i \in 1 .. n => c[i] = f[i]}
    <3>1. FlattenSeq(ss) = c[n]
      BY <1>0, <2>2, Zenon DEF FlattenSeq
    <3>2. Of([i \in 1 .. n |-> f[i]])
      <4>1. ASSUME NEW i \in 1 .. n
            PROVE  f[i] = IF i = 1 THEN ss[i] ELSE [j \in 1 .. n |-> f[j]][i - 1] \o ss[i]
        <5>1. f[i] = f[i - 1] \o ss[i]
          BY <1>5
        <5>2. i = 1 => f[i] = ss[i]
          BY <3>0
        <5>3. i # 1 => i - 1 \in 1 .. n
          OBVIOUS
        <5> QED
          BY <5>1, <5>2, <5>3
      <4> QED
        BY <1>0, <4>1
    <3>3. Of(c)
      BY <3>2, Zenon
    <3> HIDE DEF c
    <3>4. \A i \in 1 .. n : c[i] = IF i = 1 THEN ss[i] ELSE c[i - 1] \o ss[i]
      BY <1>0, <3>3
    <3>5. 0 \in U
      OBVIOUS
    <3>6. ASSUME NEW i \in Nat, i \in U
          PROVE  i + 1 \in U
      <4>0. i + 1 \in Nat /\ (i + 1) - 1 = i
        OBVIOUS
      <4> SUFFICES ASSUME i + 1 \in 1 .. n PROVE c[i + 1] = f[i + 1]
        BY <4>0, Zenon
      <4>1. f[i + 1] = f[i] \o ss[i + 1]
        BY <4>0, <1>5
      <4>2. CASE i = 0
        BY <4>2, <3>0, <3>4
      <4>3. CASE i # 0
        <5>1. i \in 1 .. n /\ i + 1 # 1
          BY <4>3
        <5>2. c[i] = f[i]
          BY <5>1, <3>6, Zenon
        <5>3. c[i + 1] = c[i] \o ss[i + 1]
          BY <4>0, <5>1, <3>4
        <5> QED
          BY <4>1, <5>2, <5>3
      <4> QED
        BY <4>2, <4>3
    <3>7. n \in U
      <4> HIDE DEF U
      <4> QED
        BY <3>5, <3>6, AllNaturals
    <3> QED
      BY <3>1, <3>7, <2>2
  <2> QED
    BY <2>1, <2>2
<1> QED
  BY <1>5, <1>6 DEF Concatenates

LEMMA Multiples ==
  ASSUME NEW L \in Nat
  PROVE  /\ \A k \in Nat : k * L \in Nat /\ (k + 1) * L = k * L + L
         /\ \A j, k \in Nat : j <= k => j * L <= k * L
         /\ 0 * L = 0
<1>1. \A k \in Nat : k * L \in Nat /\ (k + 1) * L = k * L + L
  OBVIOUS
<1>2. ASSUME NEW j \in Nat, NEW k \in Nat, j <= k
      PROVE  j * L <= k * L
  BY <1>2, Product
<1> QED
  BY <1>1, <1>2

\* Sequences of one length, one after the other.
Chunked(V, n, L, ss, s) ==
  /\ s \in Seq(V) /\ Len(s) = n * L
  /\ \A k \in 1 .. n, i \in 1 .. L : s[(k - 1) * L + i] = ss[k][i]

LEMMA FlattenChunks ==
  ASSUME NEW V, NEW n \in Nat, NEW L \in Nat, NEW ss, AreSequences(V, n, ss),
         \A k \in 1 .. n : Len(ss[k]) = L
  PROVE  Chunked(V, n, L, ss, FlattenSeq(ss))
<1>0. PICK f : Concatenates(V, n, ss, f)
  BY Flattened
<1>1. /\ f \in [0 .. n -> Seq(V)] /\ f[0] = <<>> /\ f[n] = FlattenSeq(ss)
      /\ \A k \in 1 .. n : f[k] = f[k - 1] \o ss[k] /\ ss[k] \in Seq(V)
  BY <1>0 DEF Concatenates, AreSequences
<1> DEFINE Holds(m) == /\ Len(f[m]) = m * L
                       /\ \A k \in 1 .. m, i \in 1 .. L : f[m][(k - 1) * L + i] = ss[k][i]
           T == {m \in Nat : m <= n => Holds(m)}
<1> HIDE DEF Holds
<1>2. 0 \in T
  <2>1. Holds(0)
    BY <1>1, Multiples DEF Holds
  <2> QED
    BY <2>1
<1>3. ASSUME NEW m \in Nat, m \in T
      PROVE  m + 1 \in T
  <2>0. m + 1 \in Nat /\ (m + 1) - 1 = m
    OBVIOUS
  <2> SUFFICES ASSUME m + 1 <= n PROVE Holds(m + 1)
    BY <2>0, Zenon
  <2>1. m <= n /\ m + 1 \in 1 .. n /\ m \in 0 .. n
    OBVIOUS
  <2>2. Holds(m)
    BY <1>3, <2>1, Zenon
  <2>3. Len(f[m]) = m * L /\ \A k \in 1 .. m, i \in 1 .. L : f[m][(k - 1) * L + i] = ss[k][i]
    BY <2>2 DEF Holds
  <2>4. PICK a, b, c : a = f[m] /\ b = ss[m + 1] /\ c = f[m + 1]
    OBVIOUS
  <2>5. a \in Seq(V) /\ b \in Seq(V) /\ Len(b) = L /\ c = a \o b
    BY <2>0, <2>1, <2>4, <1>1
  <2>6. PICK x \in Nat : x = m * L /\ (m + 1) * L = x + L
    BY Multiples
  <2>7. /\ Len(a) = x /\ Len(c) = x + L
        /\ \A i \in 1 .. x + L : c[i] = IF i <= x THEN a[i] ELSE b[i - x]
    <3>1. Len(a) = x
      BY <2>3, <2>4, <2>6
    <3> QED
      BY ONLY <3>1, <2>5, x \in Nat, L \in Nat, ConcatProperties
  <2>8. ASSUME NEW k \in 1 .. m + 1, NEW i \in 1 .. L
        PROVE  f[m + 1][(k - 1) * L + i] = ss[k][i]
    <3>1. CASE k = m + 1
      <4>1. (k - 1) * L + i = x + i /\ x + i \in 1 .. x + L /\ ~(x + i <= x) /\ (x + i) - x = i
        BY ONLY <3>1, <2>0, <2>6, x \in Nat, L \in Nat, i \in 1 .. L
      <4> QED
        BY <3>1, <4>1, <2>4, <2>7
    <3>2. CASE k \in 1 .. m
      <4>1. PICK y \in Nat : y = (k - 1) * L
        BY Multiples
      <4>2. y + L <= x
        <5>1. k - 1 \in Nat /\ (k - 1) + 1 = k /\ k \in Nat /\ k <= m
          BY <3>2
        <5>2. k * L = (k - 1) * L + L /\ k * L <= m * L
          BY <5>1, Multiples
        <5> QED
          BY <5>2, <4>1, <2>6
      <4>3. y + i \in 1 .. x + L /\ y + i <= x
        BY <4>2
      <4> QED
        BY <3>2, <4>1, <4>3, <2>3, <2>4, <2>7
    <3> QED
      BY <3>1, <3>2
  <2> QED
    BY <2>4, <2>6, <2>7, <2>8 DEF Holds
<1>4. n \in T
  <2> HIDE DEF T
  <2> QED
    BY <1>2, <1>3, AllNaturals
<1>5. Holds(n)
  <2>1. n <= n
    OBVIOUS
  <2> QED
    BY <1>4, <2>1, Zenon
<1> QED
  BY <1>1, <1>5 DEF Holds, Chunked

\* A place among the chunks is a place of one of them.
LEMMA ChunkOfPlace ==
  ASSUME NEW n \in Nat, NEW L \in Nat, NEW p \in 1 .. n * L
  PROVE  \E k \in 1 .. n, i \in 1 .. L : p = (k - 1) * L + i
<1>1. L # 0 /\ p - 1 \in Nat
  BY Multiples
<1>2. PICK q \in Nat, r \in 0 .. L - 1 : p - 1 = L * q + r
  BY <1>1, DivMod
<1>3. L * q = q * L /\ q * L \in Nat /\ n * L \in Nat
  BY <1>1, Multiples
<1>4. q < n
  <2>1. n <= q => n * L <= q * L
    BY Multiples
  <2> QED
    BY <1>2, <1>3, <2>1
<1>5. q + 1 \in 1 .. n /\ r + 1 \in 1 .. L /\ (q + 1) - 1 = q
  BY <1>4
<1>6. p = q * L + (r + 1)
  BY <1>2, <1>3
<1> QED
  BY <1>5, <1>6

\* The elements are those of the parts.
MadeOf(s, n, ss) ==
  /\ \A p \in 1 .. Len(s) : \E k \in 1 .. n : \E i \in 1 .. Len(ss[k]) : s[p] = ss[k][i]
  /\ \A k \in 1 .. n : \A i \in 1 .. Len(ss[k]) : \E p \in 1 .. Len(s) : s[p] = ss[k][i]

LEMMA FlattenElements ==
  ASSUME NEW V, NEW n \in Nat, NEW ss, AreSequences(V, n, ss)
  PROVE  FlattenSeq(ss) \in Seq(V) /\ MadeOf(FlattenSeq(ss), n, ss)
<1>0. PICK f : Concatenates(V, n, ss, f)
  BY Flattened
<1>1. /\ f \in [0 .. n -> Seq(V)] /\ f[0] = <<>> /\ f[n] = FlattenSeq(ss)
      /\ \A k \in 1 .. n : f[k] = f[k - 1] \o ss[k] /\ ss[k] \in Seq(V)
  BY <1>0 DEF Concatenates, AreSequences
<1> DEFINE Holds(m) == /\ \A p \in 1 .. Len(f[m]) :
                            \E k \in 1 .. m : \E i \in 1 .. Len(ss[k]) : f[m][p] = ss[k][i]
                       /\ \A k \in 1 .. m : \A i \in 1 .. Len(ss[k]) :
                            \E p \in 1 .. Len(f[m]) : f[m][p] = ss[k][i]
           T == {m \in Nat : m <= n => Holds(m)}
<1> HIDE DEF Holds
<1>2. 0 \in T
  <2>1. Holds(0)
    BY <1>1 DEF Holds
  <2> QED
    BY <2>1
<1>3. ASSUME NEW m \in Nat, m \in T
      PROVE  m + 1 \in T
  <2>0. m + 1 \in Nat /\ (m + 1) - 1 = m
    OBVIOUS
  <2> SUFFICES ASSUME m + 1 <= n PROVE Holds(m + 1)
    BY <2>0, Zenon
  <2>1. m <= n /\ m + 1 \in 1 .. n /\ m \in 0 .. n
    OBVIOUS
  <2>2. Holds(m)
    BY <1>3, <2>1, Zenon
  <2>3. PICK a, b, c : a = f[m] /\ b = ss[m + 1] /\ c = f[m + 1]
    OBVIOUS
  <2>4. a \in Seq(V) /\ b \in Seq(V) /\ c = a \o b
    BY <2>0, <2>1, <2>3, <1>1
  <2>5. PICK x \in Nat, y \in Nat : x = Len(a) /\ y = Len(b)
    BY <2>4, LenProperties
  <2>6. /\ Len(c) = x + y
        /\ \A i \in 1 .. x + y : c[i] = IF i <= x THEN a[i] ELSE b[i - x]
    BY <2>4, <2>5, ConcatProperties
  <2>7. /\ \A p \in 1 .. x : \E k \in 1 .. m : \E i \in 1 .. Len(ss[k]) : a[p] = ss[k][i]
        /\ \A k \in 1 .. m : \A i \in 1 .. Len(ss[k]) : \E p \in 1 .. x : a[p] = ss[k][i]
    BY <2>2, <2>3, <2>5 DEF Holds
  <2>8. ASSUME NEW p \in 1 .. x + y
        PROVE  \E k \in 1 .. m + 1 : \E i \in 1 .. Len(ss[k]) : c[p] = ss[k][i]
    <3>1. CASE p <= x
      <4>1. p \in 1 .. x /\ c[p] = a[p] /\ \A k \in 1 .. m : k \in 1 .. m + 1
        BY <3>1, <2>6
      <4> QED
        BY <4>1, <2>7
    <3>2. CASE ~(p <= x)
      <4>1. p - x \in 1 .. y /\ c[p] = b[p - x] /\ m + 1 \in 1 .. m + 1
        BY <3>2, <2>6
      <4> QED
        BY <4>1, <2>3, <2>5
    <3> QED
      BY <3>1, <3>2
  <2>9. ASSUME NEW k \in 1 .. m + 1, NEW i \in 1 .. Len(ss[k])
        PROVE  \E p \in 1 .. x + y : c[p] = ss[k][i]
    <3>1. CASE k = m + 1
      <4>1. i \in 1 .. y /\ ss[k][i] = b[i]
        BY <3>1, <2>3, <2>5
      <4>2. x + i \in 1 .. x + y /\ ~(x + i <= x) /\ (x + i) - x = i
        BY <4>1
      <4> QED
        BY <4>1, <4>2, <2>6
    <3>2. CASE k \in 1 .. m
      <4>1. PICK p \in 1 .. x : a[p] = ss[k][i]
        BY <3>2, <2>7
      <4>2. p \in 1 .. x + y /\ p <= x
        OBVIOUS
      <4> QED
        BY <4>1, <4>2, <2>6
    <3> QED
      BY <3>1, <3>2
  <2> QED
    BY <2>3, <2>6, <2>8, <2>9 DEF Holds
<1>4. n \in T
  <2> HIDE DEF T
  <2> QED
    BY <1>2, <1>3, AllNaturals
<1>5. Holds(n)
  <2>1. n <= n
    OBVIOUS
  <2> QED
    BY <1>4, <2>1, Zenon
<1> QED
  BY <1>1, <1>5 DEF Holds, MadeOf

\* A sequence over S with nothing in it twice.
DistinctIn(s, S) == s \in Seq(S) /\ \A i, j \in 1 .. Len(s) : i # j => s[i] # s[j]

LEMMA NothingDistinct == ASSUME NEW S PROVE DistinctIn(<<>>, S)
BY EmptySeq DEF DistinctIn

LEMMA OneDistinct == ASSUME NEW x PROVE DistinctIn(<<x>>, {x})
BY DEF DistinctIn

LEMMA WidenDistinct ==
  ASSUME NEW S, NEW T, S \subseteq T, NEW s, DistinctIn(s, S)
  PROVE  DistinctIn(s, T)
BY SeqMonotonic DEF DistinctIn

LEMMA ConcatDistinct ==
  ASSUME NEW A, NEW B, A \cap B = {}, NEW a, NEW b, DistinctIn(a, A), DistinctIn(b, B)
  PROVE  DistinctIn(a \o b, A \cup B)
<1>1. /\ a \in Seq(A) /\ b \in Seq(B)
      /\ \A i, j \in 1 .. Len(a) : i # j => a[i] # a[j]
      /\ \A i, j \in 1 .. Len(b) : i # j => b[i] # b[j]
  BY DEF DistinctIn
<1>2. a \in Seq(A \cup B) /\ b \in Seq(A \cup B)
  BY <1>1, SeqMonotonic
<1>3. PICK x \in Nat, y \in Nat, c \in {a \o b} : x = Len(a) /\ y = Len(b) /\ c = a \o b
  BY <1>1, LenProperties
<1>4. /\ c \in Seq(A \cup B) /\ Len(c) = x + y
      /\ \A i \in 1 .. x + y : c[i] = IF i <= x THEN a[i] ELSE b[i - x]
  BY <1>2, <1>3, ConcatProperties
<1>5. \A i \in 1 .. x : a[i] \in A
  BY <1>1, <1>3, ElementOfSeq
<1>6. \A i \in 1 .. y : b[i] \in B
  BY <1>1, <1>3, ElementOfSeq
<1>7. ASSUME NEW i \in 1 .. x + y, NEW j \in 1 .. x + y, i < j
      PROVE  c[i] # c[j]
  <2>1. CASE j <= x
    <3>1. i \in 1 .. x /\ j \in 1 .. x /\ i # j /\ c[i] = a[i] /\ c[j] = a[j]
      BY <2>1, <1>4, <1>7
    <3> QED
      BY <3>1, <1>1, <1>3
  <2>2. CASE ~(i <= x)
    <3>1. /\ i - x \in 1 .. y /\ j - x \in 1 .. y /\ i - x # j - x
          /\ c[i] = b[i - x] /\ c[j] = b[j - x]
      BY <2>2, <1>4, <1>7
    <3> QED
      BY <3>1, <1>1, <1>3
  <2>3. CASE i <= x /\ ~(j <= x)
    <3>1. i \in 1 .. x /\ j - x \in 1 .. y /\ c[i] = a[i] /\ c[j] = b[j - x]
      BY <2>3, <1>4
    <3> QED
      BY <3>1, <1>5, <1>6
  <2> QED
    BY <2>1, <2>2, <2>3
<1>8. \A i, j \in 1 .. Len(c) : i # j => c[i] # c[j]
  <2> SUFFICES ASSUME NEW i \in 1 .. x + y, NEW j \in 1 .. x + y, i # j PROVE c[i] # c[j]
    BY <1>4
  <2>1. i < j \/ j < i
    OBVIOUS
  <2> QED
    BY <2>1, <1>7
<1> QED
  BY <1>3, <1>4, <1>8 DEF DistinctIn

\* Sequences over sets that have nothing in common, one after the other.
LEMMA FlattenDistinct ==
  ASSUME NEW n \in Nat, NEW ss, Len(ss) = n, n = 0 => ss = <<>>,
         NEW S, \A k \in 1 .. n : DistinctIn(ss[k], S[k]),
         \A k, l \in 1 .. n : k < l => S[k] \cap S[l] = {}
  PROVE  DistinctIn(FlattenSeq(ss), UNION {S[k] : k \in 1 .. n})
<1> DEFINE U(m) == UNION {S[k] : k \in 1 .. m}
<1>1. \A k \in 1 .. n : ss[k] \in Seq(U(n))
  <2> SUFFICES ASSUME NEW k \in 1 .. n PROVE ss[k] \in Seq(U(n))
    OBVIOUS
  <2>1. ss[k] \in Seq(S[k])
    BY DEF DistinctIn
  <2>2. S[k] \subseteq U(n)
    OBVIOUS
  <2> HIDE DEF U
  <2> QED
    BY <2>1, <2>2, SeqMonotonic
<1>2. AreSequences(U(n), n, ss)
  BY <1>1 DEF AreSequences
<1>3. PICK f : Concatenates(U(n), n, ss, f)
  <2> HIDE DEF U
  <2> QED
    BY <1>2, Flattened
<1>4. /\ f[0] = <<>> /\ f[n] = FlattenSeq(ss)
      /\ \A k \in 1 .. n : f[k] = f[k - 1] \o ss[k]
  BY <1>3 DEF Concatenates
<1> DEFINE T == {m \in Nat : m <= n => DistinctIn(f[m], U(m))}
<1>5. 0 \in T
  <2>1. DistinctIn(f[0], U(0))
    BY <1>4, NothingDistinct
  <2> QED
    BY <2>1
<1>6. ASSUME NEW m \in Nat, m \in T
      PROVE  m + 1 \in T
  <2>0. m + 1 \in Nat /\ (m + 1) - 1 = m
    OBVIOUS
  <2> SUFFICES ASSUME m + 1 <= n PROVE DistinctIn(f[m + 1], U(m + 1))
    BY <2>0, Zenon
  <2>1. m <= n /\ m + 1 \in 1 .. n
    OBVIOUS
  <2>2. DistinctIn(f[m], U(m))
    BY <1>6, <2>1, Zenon
  <2>3. DistinctIn(ss[m + 1], S[m + 1])
    BY <2>1
  <2>4. U(m) \cap S[m + 1] = {}
    <3> SUFFICES ASSUME NEW k \in 1 .. m, NEW x \in S[k] PROVE x \notin S[m + 1]
      OBVIOUS
    <3>1. k \in 1 .. n /\ k < m + 1
      BY <2>1
    <3> QED
      BY <3>1, <2>1
  <2>5. U(m + 1) = U(m) \cup S[m + 1]
    <3>1. 1 .. m + 1 = 1 .. m \cup {m + 1}
      OBVIOUS
    <3> QED
      BY <3>1
  <2>6. f[m + 1] = f[m] \o ss[m + 1]
    BY <2>0, <2>1, <1>4
  <2> HIDE DEF U
  <2>7. DistinctIn(f[m] \o ss[m + 1], U(m) \cup S[m + 1])
    BY <2>2, <2>3, <2>4, ConcatDistinct
  <2> QED
    BY <2>5, <2>6, <2>7
<1>7. n \in T
  <2> HIDE DEF T
  <2> QED
    BY <1>5, <1>6, AllNaturals
<1>8. DistinctIn(f[n], U(n))
  <2>1. n <= n
    OBVIOUS
  <2> QED
    BY <1>7, <2>1, Zenon
<1> QED
  BY <1>4, <1>8

-----------------------------------------------------------------------------
(* Reading a configuration.                                                *)

\* The names of the fields that are no counts.
Others ==
  {"ack", "nBatches", "nNodes", "size", "name", "nodeIndex", "ppRank", "tpRank", "tpGroupStart",
   "tpGroupEnd", "spRank", "spGroupStart", "spGroupEnd", "positionPipeIndex", "tokenPipeIndex",
   "xPipeIndex", "logitsPipeIndex", "pipeIndex", "syncType", "spKvKBufferIndex",
   "spKvVBufferIndex", "spKvLocalSeqStart", "spKvLocalSeqLen", "spKvDim0",
   "spKvPositionPipeIdx", "code", "index", "weightSize", "input", "output", "config"}
Names == Counts \cup Others

\* What an agenda consists of: loops are nested three deep.
Looping(S) == [name : Names, body : Seq(S)]
Plain  == [name : Names, body : {<<>>}]
Inner  == Looping(Plain)
Middle == Looping(Inner)
Items  == Looping(Middle)

CountValues == [Counts -> Nat]
FieldSet    == [name : Names, value : Nat]
Readings    == Seq(Items) \X CountValues \X Seq(FieldSet)

Noted(c, field) == IF field.name \in Counts THEN [c EXCEPT ![field.name] = field.value] ELSE c

\* The reader at agenda a with the counts c can take the next of the fields f
\* or enter a loop and be in R then, or it ends with the fields and the counts d.
Advances(R, d, a, c, f) ==
  IF a = <<>> THEN f = <<>> /\ c = d
  ELSE IF Head(a).body = <<>>
  THEN /\ f # <<>> /\ Head(f).name = Head(a).name
       /\ <<Tail(a), Noted(c, Head(f)), Tail(f)>> \in R
  ELSE /\ Head(a).name \in Counts
       /\ <<Times(c[Head(a).name], Head(a).body) \o Tail(a), c, f>> \in R

\* Agenda a, from the counts c, reads exactly the fields f and ends with d.
Reads(a, c, f, d) ==
  \E R \in SUBSET Readings : <<a, c, f>> \in R /\ \A t \in R : Advances(R, d, t[1], t[2], t[3])

\* From counts in C the agenda a reads exactly f, and ends with counts in D.
Follows(a, f, C, D) == \A c \in C : \E d \in D : Reads(a, c, f, d)

LEMMA ItemKinds == Plain \subseteq Inner /\ Inner \subseteq Middle /\ Middle \subseteq Items
<1>1. Plain \subseteq Inner
  <2>1. <<>> \in Seq(Plain)
    BY EmptySeq
  <2> QED
    BY <2>1 DEF Plain, Inner, Looping
<1>2. ASSUME NEW S, NEW T, S \subseteq T
      PROVE  Looping(S) \subseteq Looping(T)
  <2>1. \A s \in Seq(S) : s \in Seq(T)
    BY <1>2, SeqMonotonic
  <2> QED
    BY <2>1 DEF Looping
<1>3. Inner \subseteq Middle
  BY <1>1, <1>2 DEF Inner, Middle
<1>4. Middle \subseteq Items
  BY <1>3, <1>2 DEF Middle, Items
<1> QED
  BY <1>1, <1>3, <1>4

LEMMA AdvancesMore ==
  ASSUME NEW R, NEW Q, R \subseteq Q, NEW d, NEW a, NEW c, NEW f, Advances(R, d, a, c, f)
  PROVE  Advances(Q, d, a, c, f)
BY DEF Advances

\* Reads is what a recursive definition of it would say.
LEMMA ReadsIs ==
  ASSUME NEW a \in Seq(Items), NEW c \in CountValues, NEW f \in Seq(FieldSet), NEW d
  PROVE  Reads(a, c, f, d) <=>
           IF a = <<>> THEN f = <<>> /\ c = d
           ELSE IF Head(a).body = <<>>
           THEN /\ f # <<>> /\ Head(f).name = Head(a).name
                /\ Reads(Tail(a), Noted(c, Head(f)), Tail(f), d)
           ELSE /\ Head(a).name \in Counts
                /\ Reads(Times(c[Head(a).name], Head(a).body) \o Tail(a), c, f, d)
<1> DEFINE Goes(R) == \A t \in R : Advances(R, d, t[1], t[2], t[3])
<1> HIDE DEF Goes
<1>1. ASSUME NEW x, NEW y, NEW z
      PROVE  Reads(x, y, z, d) <=> \E R \in SUBSET Readings : <<x, y, z>> \in R /\ Goes(R)
  BY Zenon DEF Reads, Goes
<1>2. ASSUME NEW R, Goes(R), NEW x, NEW y, NEW z, <<x, y, z>> \in R
      PROVE  Advances(R, d, x, y, z)
  BY <1>2 DEF Goes
<1>3. ASSUME NEW R \in SUBSET Readings, Goes(R), Advances(R, d, a, c, f)
      PROVE  Reads(a, c, f, d)
  <2> DEFINE Q == R \cup {<<a, c, f>>}
  <2>1. <<a, c, f>> \in Readings
    BY DEF Readings
  <2>2. Q \in SUBSET Readings /\ <<a, c, f>> \in Q
    BY <2>1
  <2>3. Goes(Q)
    <3> SUFFICES ASSUME NEW t \in Q PROVE Advances(Q, d, t[1], t[2], t[3])
      BY DEF Goes
    <3>1. CASE t \in R
      <4>1. Advances(R, d, t[1], t[2], t[3])
        BY <1>3, <3>1 DEF Goes
      <4> QED
        BY <4>1, AdvancesMore
    <3>2. CASE t = <<a, c, f>>
      <4>1. t[1] = a /\ t[2] = c /\ t[3] = f
        BY <3>2
      <4>2. Advances(Q, d, a, c, f)
        BY <1>3, AdvancesMore
      <4> QED
        BY <4>1, <4>2
    <3> QED
      BY <3>1, <3>2
  <2> HIDE DEF Q
  <2> QED
    BY <2>2, <2>3, <1>1, Zenon
<1>4. CASE a = <<>>
  <2>1. ASSUME Reads(a, c, f, d)
        PROVE  f = <<>> /\ c = d
    <3>1. PICK R \in SUBSET Readings : <<a, c, f>> \in R /\ Goes(R)
      BY <2>1, <1>1
    <3>2. Advances(R, d, a, c, f)
      BY <3>1, <1>2
    <3> QED
      BY <3>2, <1>4 DEF Advances
  <2>2. ASSUME f = <<>>, c = d
        PROVE  Reads(a, c, f, d)
    <3>1. Goes({})
      BY DEF Goes
    <3>2. Advances({}, d, a, c, f)
      BY <2>2, <1>4 DEF Advances
    <3> QED
      BY <3>1, <3>2, <1>3
  <2> QED
    BY <1>4, <2>1, <2>2
<1>5. CASE a # <<>> /\ Head(a).body = <<>>
  <2>1. ASSUME Reads(a, c, f, d)
        PROVE  /\ f # <<>> /\ Head(f).name = Head(a).name
               /\ Reads(Tail(a), Noted(c, Head(f)), Tail(f), d)
    <3>1. PICK R \in SUBSET Readings : <<a, c, f>> \in R /\ Goes(R)
      BY <2>1, <1>1
    <3>2. Advances(R, d, a, c, f)
      BY <3>1, <1>2
    <3> QED
      BY <3>1, <3>2, <1>5, <1>1 DEF Advances
  <2>2. ASSUME f # <<>>, Head(f).name = Head(a).name,
               Reads(Tail(a), Noted(c, Head(f)), Tail(f), d)
        PROVE  Reads(a, c, f, d)
    <3>1. PICK R \in SUBSET Readings : <<Tail(a), Noted(c, Head(f)), Tail(f)>> \in R /\ Goes(R)
      BY <2>2, <1>1
    <3>2. Advances(R, d, a, c, f)
      BY <2>2, <3>1, <1>5 DEF Advances
    <3> QED
      BY <3>1, <3>2, <1>3
  <2> QED
    BY <1>5, <2>1, <2>2
<1>6. CASE a # <<>> /\ Head(a).body # <<>>
  <2>1. ASSUME Reads(a, c, f, d)
        PROVE  /\ Head(a).name \in Counts
               /\ Reads(Times(c[Head(a).name], Head(a).body) \o Tail(a), c, f, d)
    <3>1. PICK R \in SUBSET Readings : <<a, c, f>> \in R /\ Goes(R)
      BY <2>1, <1>1
    <3>2. Advances(R, d, a, c, f)
      BY <3>1, <1>2
    <3> QED
      BY <3>1, <3>2, <1>6, <1>1 DEF Advances
  <2>2. ASSUME Head(a).name \in Counts,
               Reads(Times(c[Head(a).name], Head(a).body) \o Tail(a), c, f, d)
        PROVE  Reads(a, c, f, d)
    <3>1. PICK R \in SUBSET Readings :
            <<Times(c[Head(a).name], Head(a).body) \o Tail(a), c, f>> \in R /\ Goes(R)
      BY <2>2, <1>1
    <3>2. Advances(R, d, a, c, f)
      BY <2>2, <3>1, <1>6 DEF Advances
    <3> QED
      BY <3>1, <3>2, <1>3
  <2> QED
    BY <1>6, <2>1, <2>2
<1> QED
  BY <1>4, <1>5, <1>6

\* What is read has its types.
LEMMA ReadsTypes ==
  ASSUME NEW a, NEW c, NEW f, NEW d, Reads(a, c, f, d)
  PROVE  a \in Seq(Items) /\ c \in CountValues /\ f \in Seq(FieldSet)
<1>1. <<a, c, f>> \in Readings
  BY DEF Reads
<1> QED
  BY <1>1 DEF Readings

\* A loop's body, as often as the count says.
LEMMA TimesAre ==
  ASSUME NEW V, NEW n \in Nat, NEW s \in Seq(V)
  PROVE  /\ AreSequences(V, n, [i \in 1 .. n |-> s])
         /\ Times(n, s) = FlattenSeq([i \in 1 .. n |-> s])
BY DEF AreSequences, Times

LEMMA TimesType ==
  ASSUME NEW V, NEW n \in Nat, NEW s \in Seq(V)
  PROVE  Times(n, s) \in Seq(V)
<1>1. PICK ss : AreSequences(V, n, ss) /\ Times(n, s) = FlattenSeq(ss)
  BY TimesAre
<1> QED
  BY <1>1, FlattenElements

\* One agenda after the other.
LEMMA ReadsConcat ==
  ASSUME NEW a, NEW c, NEW f, NEW d, Reads(a, c, f, d),
         NEW b, NEW g, NEW e, Reads(b, d, g, e)
  PROVE  Reads(a \o b, c, f \o g, e)
<1>1. PICK P \in SUBSET Readings :
        <<a, c, f>> \in P /\ \A t \in P : Advances(P, d, t[1], t[2], t[3])
  BY DEF Reads
<1>2. PICK Q \in SUBSET Readings :
        <<b, d, g>> \in Q /\ \A t \in Q : Advances(Q, e, t[1], t[2], t[3])
  BY DEF Reads
<1>3. b \in Seq(Items) /\ d \in CountValues /\ g \in Seq(FieldSet)
  BY ReadsTypes
<1> DEFINE N == {<<t[1] \o b, t[2], t[3] \o g>> : t \in P}
           R == N \cup Q
<1>4. ASSUME NEW t \in P
      PROVE  t[1] \in Seq(Items) /\ t[2] \in CountValues /\ t[3] \in Seq(FieldSet)
  BY DEF Readings
<1>5. N \subseteq Readings
  <2> SUFFICES ASSUME NEW t \in P PROVE <<t[1] \o b, t[2], t[3] \o g>> \in Readings
    OBVIOUS
  <2>1. t[1] \o b \in Seq(Items) /\ t[3] \o g \in Seq(FieldSet)
    BY <1>3, <1>4, ConcatProperties
  <2> QED
    BY <1>4, <2>1 DEF Readings
<1>6. ASSUME NEW x, NEW y, NEW z, <<x, y, z>> \in P
      PROVE  <<x \o b, y, z \o g>> \in R
  <2>1. <<x, y, z>>[1] = x /\ <<x, y, z>>[2] = y /\ <<x, y, z>>[3] = z
    OBVIOUS
  <2> QED
    BY <1>6, <2>1
<1>7. ASSUME NEW t \in P
      PROVE  Advances(R, e, t[1] \o b, t[2], t[3] \o g)
  <2>1. PICK x \in Seq(Items), y \in CountValues, z \in Seq(FieldSet) :
          x = t[1] /\ y = t[2] /\ z = t[3]
    BY <1>4
  <2>2. Advances(P, d, x, y, z)
    BY <1>1, <2>1
  <2>3. CASE x = <<>>
    <3>1. z = <<>> /\ y = d
      BY <2>2, <2>3 DEF Advances
    <3>2. x \o b = b /\ z \o g = g
      BY <2>3, <3>1, <1>3, ConcatEmptySeq
    <3>3. Advances(Q, e, b, d, g)
      BY <1>2
    <3>4. Advances(R, e, b, d, g)
      BY <3>3, AdvancesMore
    <3> HIDE DEF R
    <3> QED
      BY <2>1, <3>1, <3>2, <3>4
  <2>4. CASE x # <<>>
    <3>1. /\ Head(x) \in Items /\ Tail(x) \in Seq(Items)
          /\ x \o b # <<>> /\ Head(x \o b) = Head(x) /\ Tail(x \o b) = Tail(x) \o b
      BY <2>4, <1>3
    <3>2. CASE Head(x).body = <<>>
      <4>1. z # <<>> /\ Head(z).name = Head(x).name /\ <<Tail(x), Noted(y, Head(z)), Tail(z)>> \in P
        BY <2>2, <2>4, <3>2 DEF Advances
      <4>2. z \o g # <<>> /\ Head(z \o g) = Head(z) /\ Tail(z \o g) = Tail(z) \o g
        BY <4>1, <1>3
      <4>3. <<Tail(x) \o b, Noted(y, Head(z)), Tail(z) \o g>> \in R
        BY <4>1, <1>6
      <4> HIDE DEF R
      <4>4. Advances(R, e, x \o b, y, z \o g)
        BY <3>1, <3>2, <4>1, <4>2, <4>3 DEF Advances
      <4> QED
        BY <2>1, <4>4
    <3>3. CASE Head(x).body # <<>>
      <4>1. PICK u : u = Times(y[Head(x).name], Head(x).body)
        OBVIOUS
      <4>2. Head(x).name \in Counts /\ <<u \o Tail(x), y, z>> \in P
        BY <2>2, <2>4, <3>3, <4>1 DEF Advances
      <4>3. <<(u \o Tail(x)) \o b, y, z \o g>> \in R
        BY <4>2, <1>6
      <4>4. u \in Seq(Items)
        <5>1. Head(x).body \in Seq(Items)
          <6>1. Head(x).body \in Seq(Middle)
            BY <3>1 DEF Items, Looping
          <6> QED
            BY <6>1, ItemKinds, SeqMonotonic
        <5>2. y[Head(x).name] \in Nat
          BY <4>2 DEF CountValues
        <5> QED
          BY <4>1, <5>1, <5>2, TimesType
      <4>5. (u \o Tail(x)) \o b = u \o (Tail(x) \o b)
        <5>1. PICK v \in Seq(Items) : v = Tail(x)
          BY ONLY <3>1
        <5>2. b \in Seq(Items)
          BY <1>3
        <5>3. (u \o v) \o b = u \o (v \o b)
          BY ONLY <4>4, v \in Seq(Items), <5>2, ConcatAssociative
        <5> QED
          BY ONLY <5>1, <5>3
      <4> HIDE DEF R
      <4>6. Advances(R, e, x \o b, y, z \o g)
        BY <3>1, <3>3, <4>1, <4>2, <4>3, <4>5 DEF Advances
      <4> QED
        BY <2>1, <4>6
    <3> QED
      BY <3>2, <3>3
  <2> QED
    BY <2>3, <2>4
<1>8. \A t \in R : Advances(R, e, t[1], t[2], t[3])
  <2> SUFFICES ASSUME NEW t \in R PROVE Advances(R, e, t[1], t[2], t[3])
    OBVIOUS
  <2>1. CASE t \in Q
    <3>1. Advances(Q, e, t[1], t[2], t[3])
      BY <1>2, <2>1
    <3> QED
      BY <3>1, AdvancesMore
  <2>2. CASE t \in N
    <3>1. PICK s \in P : t = <<s[1] \o b, s[2], s[3] \o g>>
      BY <2>2
    <3>2. t[1] = s[1] \o b /\ t[2] = s[2] /\ t[3] = s[3] \o g
      BY <3>1
    <3>3. Advances(R, e, s[1] \o b, s[2], s[3] \o g)
      BY <1>7
    <3> HIDE DEF R
    <3> QED
      BY <3>2, <3>3
  <2> QED
    BY <2>1, <2>2
<1>9. <<a \o b, c, f \o g>> \in R
  BY <1>1, <1>6
<1>10. R \in SUBSET Readings
  BY <1>5
<1> HIDE DEF R
<1> QED
  BY <1>8, <1>9, <1>10 DEF Reads

LEMMA FollowsNothing ==
  ASSUME NEW C, C \subseteq CountValues
  PROVE  Follows(<<>>, <<>>, C, C)
<1>1. <<>> \in Seq(Items) /\ <<>> \in Seq(FieldSet)
  BY EmptySeq
<1> QED
  BY <1>1, ReadsIs DEF Follows

LEMMA FollowsConcat ==
  ASSUME NEW C, NEW D, NEW E, NEW a, NEW f, Follows(a, f, C, D), NEW b, NEW g, Follows(b, g, D, E)
  PROVE  Follows(a \o b, f \o g, C, E)
<1> SUFFICES ASSUME NEW c \in C PROVE \E e \in E : Reads(a \o b, c, f \o g, e)
  BY DEF Follows
<1>1. PICK d \in D : Reads(a, c, f, d)
  BY DEF Follows
<1>2. PICK e \in E : Reads(b, d, g, e)
  BY DEF Follows
<1> QED
  BY <1>1, <1>2, ReadsConcat

LEMMA ReadType ==
  ASSUME NEW names \in Seq(Names)
  PROVE  /\ Read(names) \in Seq(Plain) /\ Read(names) \in Seq(Inner) /\ Read(names) \in Seq(Items)
         /\ Len(Read(names)) = Len(names)
         /\ \A i \in 1 .. Len(names) : Read(names)[i].name = names[i] /\ Read(names)[i].body = <<>>
<1>1. PICK n \in Nat : n = Len(names) /\ DOMAIN names = 1 .. n /\ \A i \in 1 .. n : names[i] \in Names
  BY LenProperties, ElementOfSeq
<1>2. Read(names) = [i \in 1 .. n |-> [name |-> names[i], body |-> <<>>]]
  BY <1>1 DEF Read
<1>3. Read(names) \in Seq(Plain) /\ Len(Read(names)) = n
  BY <1>1, <1>2 DEF Plain
<1>4. \A i \in 1 .. n : Read(names)[i].name = names[i] /\ Read(names)[i].body = <<>>
  BY <1>2
<1>5. Plain \subseteq Inner /\ Plain \subseteq Items
  BY ItemKinds
<1> QED
  BY <1>1, <1>3, <1>4, <1>5, SeqMonotonic

LEMMA FieldsType ==
  ASSUME NEW names \in Seq(Names)
  PROVE  /\ Fields(names) \in Seq(FieldSet) /\ Len(Fields(names)) = Len(names)
         /\ \A i \in 1 .. Len(names) : Fields(names)[i].name = names[i]
<1>1. PICK n \in Nat : n = Len(names) /\ DOMAIN names = 1 .. n /\ \A i \in 1 .. n : names[i] \in Names
  BY LenProperties, ElementOfSeq
<1>2. Fields(names) = [i \in 1 .. n |-> [name |-> names[i], value |-> 0]]
  BY <1>1 DEF Fields
<1>3. Fields(names) \in Seq(FieldSet) /\ Len(Fields(names)) = n
  BY <1>1, <1>2 DEF FieldSet
<1>4. \A i \in 1 .. n : Fields(names)[i].name = names[i]
  BY <1>2
<1> QED
  BY <1>1, <1>3, <1>4

\* The lists of names of reader and writer are made of the same parts.
LEMMA ReadJoin ==
  ASSUME NEW s \in Seq(Names), NEW t \in Seq(Names)
  PROVE  Read(s \o t) = Read(s) \o Read(t)
<1>1. PICK u \in Seq(Names) : u = s \o t
  BY ConcatProperties
<1>2. /\ Len(u) = Len(s) + Len(t) /\ Len(s) \in Nat /\ Len(t) \in Nat
      /\ \A i \in 1 .. Len(s) + Len(t) : u[i] = IF i <= Len(s) THEN s[i] ELSE t[i - Len(s)]
  BY <1>1, ConcatProperties, LenProperties
<1>3. PICK a \in Seq(Plain), b \in Seq(Plain), c \in Seq(Plain) :
        a = Read(s) /\ b = Read(t) /\ c = Read(u)
  BY ReadType
<1>4. PICK x \in Nat, y \in Nat : x = Len(s) /\ y = Len(t)
  BY <1>2
<1>5. /\ Len(a) = x /\ Len(b) = y /\ Len(c) = x + y
      /\ \A i \in 1 .. x : a[i] = [name |-> s[i], body |-> <<>>]
      /\ \A i \in 1 .. y : b[i] = [name |-> t[i], body |-> <<>>]
      /\ \A i \in 1 .. x + y : c[i] = [name |-> u[i], body |-> <<>>]
  <2>1. Len(a) = x /\ Len(b) = y /\ Len(c) = x + y
    BY <1>2, <1>3, <1>4, ReadType
  <2>2. DOMAIN s = 1 .. x /\ DOMAIN t = 1 .. y /\ DOMAIN u = 1 .. x + y
    BY <1>2, <1>4, LenProperties
  <2> QED
    BY <2>1, <2>2, <1>3 DEF Read
<1>6. /\ a \o b \in Seq(Plain) /\ Len(a \o b) = x + y
      /\ \A i \in 1 .. x + y : (a \o b)[i] = IF i <= x THEN a[i] ELSE b[i - x]
  BY <1>5, ConcatProperties
<1>7. ASSUME NEW i \in 1 .. x + y
      PROVE  c[i] = (a \o b)[i]
  <2>1. CASE i <= x
    <3>1. i \in 1 .. x
      BY <2>1
    <3> QED
      BY <2>1, <3>1, <1>2, <1>4, <1>5, <1>6
  <2>2. CASE ~(i <= x)
    <3>1. i - x \in 1 .. y
      BY <2>2
    <3> QED
      BY <2>2, <3>1, <1>2, <1>4, <1>5, <1>6
  <2> QED
    BY <2>1, <2>2
<1>8. c = a \o b
  BY <1>5, <1>6, <1>7, SeqEqual
<1> QED
  BY <1>1, <1>3, <1>8

LEMMA OthersAreNoCounts == ASSUME NEW x \in Others PROVE x \notin Counts
BY DEF Counts, Others

\* Fields that are no counts.
LEMMA FollowsNames ==
  ASSUME NEW names \in Seq(Others), NEW C, C \subseteq CountValues
  PROVE  Follows(Read(names), Fields(names), C, C)
<1> SUFFICES ASSUME NEW c \in C PROVE Reads(Read(names), c, Fields(names), c)
  BY DEF Follows
<1> DEFINE Holds(n) == \A s \in Seq(Others) :
             Len(s) = n => Reads(Read(s), c, Fields(s), c)
           T == {n \in Nat : Holds(n)}
<1> HIDE DEF Holds
<1>1. Holds(0)
  <2> SUFFICES ASSUME NEW s \in Seq(Others), Len(s) = 0 PROVE Reads(Read(s), c, Fields(s), c)
    BY DEF Holds
  <2>1. PICK a \in Seq(Items), f \in Seq(FieldSet) :
          a = Read(s) /\ f = Fields(s) /\ Len(a) = 0 /\ Len(f) = 0
    BY ReadType, FieldsType, SeqMonotonic DEF Names
  <2>2. a = <<>> /\ f = <<>>
    BY <2>1
  <2>3. c \in CountValues
    OBVIOUS
  <2>4. Reads(a, c, f, c)
    BY ONLY <2>2, <2>3, a \in Seq(Items), f \in Seq(FieldSet), ReadsIs
  <2> QED
    BY <2>1, <2>4
<1>2. ASSUME NEW n \in Nat, Holds(n)
      PROVE  Holds(n + 1)
  <2> SUFFICES ASSUME NEW s \in Seq(Others), Len(s) = n + 1
               PROVE  Reads(Read(s), c, Fields(s), c)
    BY DEF Holds
  <2>1. PICK t \in Seq(Others) : t = Tail(s) /\ Len(t) = n /\ \A i \in 1 .. n : t[i] = s[i + 1]
    <3>1. s # <<>>
      OBVIOUS
    <3>2. Tail(s) \in Seq(Others) /\ Len(Tail(s)) = n /\ \A i \in 1 .. n : Tail(s)[i] = s[i + 1]
      BY <3>1, HeadTailProperties
    <3> QED
      BY <3>2
  <2>2. s[1] \notin Counts
    <3>1. s[1] \in Others
      BY ElementOfSeq
    <3> QED
      BY <3>1, OthersAreNoCounts
  <2>3. Reads(Read(t), c, Fields(t), c)
    BY <1>2, <2>1 DEF Holds
  <2>4. PICK a \in Seq(Items), f \in Seq(FieldSet) :
          /\ a = Read(s) /\ f = Fields(s) /\ Len(a) = n + 1 /\ Len(f) = n + 1
          /\ \A i \in 1 .. n + 1 : a[i].name = s[i] /\ a[i].body = <<>> /\ f[i].name = s[i]
    BY ReadType, FieldsType, SeqMonotonic DEF Names
  <2>5. a # <<>> /\ f # <<>> /\ Head(a) = a[1] /\ Head(f) = f[1]
    BY <2>4
  <2>6. Head(a).body = <<>> /\ Head(f).name = Head(a).name /\ Head(f).name \notin Counts
    <3>1. 1 \in 1 .. n + 1
      OBVIOUS
    <3> QED
      BY <3>1, <2>2, <2>4, <2>5
  <2>7. Noted(c, Head(f)) = c
    BY <2>6 DEF Noted
  <2>8. Tail(a) = Read(t)
    BY <2>1, <2>4 DEF Read
  <2>9. Tail(f) = Fields(t)
    BY <2>1, <2>4 DEF Fields
  <2>10. c \in CountValues
    OBVIOUS
  <2>11. Reads(Tail(a), Noted(c, Head(f)), Tail(f), c)
    BY <2>3, <2>7, <2>8, <2>9
  <2>12. Reads(a, c, f, c)
    BY ONLY <2>5, <2>6, <2>10, <2>11, a \in Seq(Items), f \in Seq(FieldSet), ReadsIs
  <2> QED
    BY <2>4, <2>12
<1>3. Nat \subseteq T
  <2>1. 0 \in T /\ \A n \in Nat : n \in T => n + 1 \in T
    BY <1>1, <1>2
  <2> HIDE DEF T
  <2> QED
    BY <2>1, AllNaturals
<1>4. Len(names) \in Nat
  BY LenProperties
<1>5. Holds(Len(names))
  BY <1>3, <1>4
<1> QED
  BY <1>5 DEF Holds

\* A sequence of one.
LEMMA Single ==
  ASSUME NEW V, NEW x \in V
  PROVE  /\ <<x>> \in Seq(V) /\ Len(<<x>>) = 1 /\ <<x>>[1] = x
         /\ <<x>> # <<>> /\ Head(<<x>>) = x /\ Tail(<<x>>) = <<>>
OBVIOUS

LEMMA SingleOf ==
  ASSUME NEW V, NEW a \in Seq(V), Len(a) = 1
  PROVE  a # <<>> /\ Head(a) = a[1] /\ Tail(a) = <<>>
<1>0. a # <<>>
  <2>1. Len(<<>>) # Len(a)
    BY EmptySeq
  <2> QED
    BY <2>1, Zenon
<1>1. a # <<>> /\ Head(a) = a[1]
  BY <1>0
<1>2. Tail(a) \in Seq(V) /\ Len(Tail(a)) = 0
  BY <1>1, HeadTailProperties
<1> QED
  BY <1>1, <1>2, EmptySeq

\* A count.
LEMMA ReadsCount ==
  ASSUME NEW x \in Counts, NEW v \in Nat, NEW c \in CountValues
  PROVE  Reads(Read(<<x>>), c, Count(x, v), [c EXCEPT ![x] = v])
<1>1. x \in Names
  BY DEF Names
<1>2. PICK s \in Seq(Names) : s = <<x>> /\ Len(s) = 1 /\ s[1] = x
  BY <1>1, Single
<1>3. PICK a \in Seq(Items) : a = Read(s) /\ Len(a) = 1 /\ a[1].name = x /\ a[1].body = <<>>
  <2>1. /\ Read(s) \in Seq(Items) /\ Len(Read(s)) = Len(s)
        /\ \A i \in 1 .. Len(s) : Read(s)[i].name = s[i] /\ Read(s)[i].body = <<>>
    BY ReadType
  <2> QED
    BY <1>2, <2>1
<1>4. PICK f \in Seq(FieldSet) :
        f = Count(x, v) /\ f # <<>> /\ Head(f).name = x /\ Head(f).value = v /\ Tail(f) = <<>>
  <2>1. PICK y : y = [name |-> x, value |-> v]
    OBVIOUS
  <2>3. y \in FieldSet /\ y.name = x /\ y.value = v
    BY <1>1, <2>1 DEF FieldSet
  <2>2. Count(x, v) = <<y>>
    BY <2>1 DEF Count
  <2> QED
    BY <2>2, <2>3, Single
<1>5. a # <<>> /\ Head(a) = a[1] /\ Tail(a) = <<>>
  BY <1>3, SingleOf
<1>6. PICK d \in CountValues : Noted(c, Head(f)) = d /\ d = [c EXCEPT ![x] = v]
  <2>1. PICK h : h = Head(f) /\ h.name = x /\ h.value = v
    BY <1>4
  <2>2. Noted(c, h) = [c EXCEPT ![x] = v]
    BY <2>1 DEF Noted
  <2> QED
    BY <2>1, <2>2 DEF CountValues
<1>7. Reads(<<>>, d, <<>>, d)
  <2>1. <<>> \in Seq(Items) /\ <<>> \in Seq(FieldSet)
    BY EmptySeq
  <2> QED
    BY <2>1, ReadsIs
<1>8. Reads(a, c, f, d)
  <2>1. /\ Reads(Tail(a), Noted(c, Head(f)), Tail(f), d)
        /\ Head(a).body = <<>> /\ Head(f).name = Head(a).name /\ f # <<>>
    BY <1>3, <1>4, <1>5, <1>6, <1>7
  <2> QED
    BY ONLY <2>1, <1>5, c \in CountValues, a \in Seq(Items), f \in Seq(FieldSet), ReadsIs
<1> QED
  BY <1>2, <1>3, <1>4, <1>6, <1>8

LEMMA FollowsCount ==
  ASSUME NEW x \in Counts, NEW v \in Nat, NEW C, C \subseteq CountValues, NEW D,
         \A c \in C : [c EXCEPT ![x] = v] \in D
  PROVE  Follows(Read(<<x>>), Count(x, v), C, D)
BY ReadsCount, Zenon DEF Follows

\* A loop reads what its body, as often as the count says, reads.
LEMMA FollowsLoop ==
  ASSUME NEW x \in Counts, NEW n \in Nat, NEW body \in Seq(Middle), body # <<>>,
         NEW C, C \subseteq CountValues, \A c \in C : c[x] = n, NEW D,
         NEW f, Follows(Times(n, body), f, C, D)
  PROVE  Follows(Loop(x, body), f, C, D)
<1> SUFFICES ASSUME NEW c \in C PROVE \E d \in D : Reads(Loop(x, body), c, f, d)
  BY DEF Follows
<1>1. PICK d \in D : Reads(Times(n, body), c, f, d)
  BY DEF Follows
<1>2. PICK u \in Seq(Items) : u = Times(n, body)
  BY <1>1, ReadsTypes
<1>3. f \in Seq(FieldSet) /\ c \in CountValues
  BY <1>1, ReadsTypes
<1>4. PICK y : y = [name |-> x, body |-> body]
  OBVIOUS
<1>9. y \in Items /\ y.name = x /\ y.body = body
  <2>1. x \in Names
    BY DEF Names
  <2> QED
    BY <2>1, <1>4 DEF Items, Looping
<1>5. PICK a \in Seq(Items) : a = Loop(x, body) /\ a # <<>> /\ Head(a) = y /\ Tail(a) = <<>>
  <2>1. Loop(x, body) = <<y>>
    BY <1>4 DEF Loop
  <2> QED
    BY <2>1, <1>9, Single
<1>6. u \o Tail(a) = u
  BY <1>2, <1>5, ConcatEmptySeq
<1>7. Times(c[Head(a).name], Head(a).body) = u
  BY <1>2, <1>5, <1>9
<1>8. Reads(a, c, f, d)
  <2>1. /\ Reads(Times(c[Head(a).name], Head(a).body) \o Tail(a), c, f, d)
        /\ Head(a).name \in Counts /\ Head(a).body # <<>>
    BY <1>1, <1>2, <1>5, <1>6, <1>7, <1>9
  <2> QED
    BY ONLY <2>1, <1>3, <1>5, a \in Seq(Items), ReadsIs
<1> QED
  BY <1>5, <1>8

LEMMA FollowsMore ==
  ASSUME NEW a, NEW f, NEW C, NEW D, Follows(a, f, C, D), NEW B, B \subseteq C, NEW E, D \subseteq E
  PROVE  Follows(a, f, B, E)
BY Zenon DEF Follows

\* A body that reads one part after the other reads them all.
LEMMA FollowsTimes ==
  ASSUME NEW n \in Nat, NEW body \in Seq(Items), NEW fs, AreSequences(FieldSet, n, fs),
         NEW C, C \subseteq CountValues, \A k \in 1 .. n : Follows(body, fs[k], C, C)
  PROVE  Follows(Times(n, body), FlattenSeq(fs), C, C)
<1>1. PICK as : AreSequences(Items, n, as) /\ Times(n, body) = FlattenSeq(as)
                /\ \A k \in 1 .. n : as[k] = body
  <2>1. \A k \in 1 .. n : [i \in 1 .. n |-> body][k] = body
    OBVIOUS
  <2> QED
    BY <2>1, TimesAre
<1>2. PICK u : Concatenates(Items, n, as, u)
  BY <1>1, Flattened
<1>3. PICK v : Concatenates(FieldSet, n, fs, v)
  BY Flattened
<1>4. /\ u[0] = <<>> /\ u[n] = Times(n, body) /\ \A k \in 1 .. n : u[k] = u[k - 1] \o body
  BY <1>1, <1>2 DEF Concatenates
<1>5. /\ v[0] = <<>> /\ v[n] = FlattenSeq(fs) /\ \A k \in 1 .. n : v[k] = v[k - 1] \o fs[k]
  BY <1>3 DEF Concatenates
<1> DEFINE T == {m \in Nat : m <= n => Follows(u[m], v[m], C, C)}
<1>6. 0 \in T
  <2>1. Follows(<<>>, <<>>, C, C)
    BY FollowsNothing
  <2> QED
    BY <2>1, <1>4, <1>5
<1>7. ASSUME NEW m \in Nat, m \in T
      PROVE  m + 1 \in T
  <2>0. m + 1 \in Nat /\ (m + 1) - 1 = m
    OBVIOUS
  <2> SUFFICES ASSUME m + 1 <= n PROVE Follows(u[m + 1], v[m + 1], C, C)
    BY <2>0, Zenon
  <2>1. m <= n /\ m + 1 \in 1 .. n
    OBVIOUS
  <2>2. Follows(u[m], v[m], C, C)
    BY <1>7, <2>1, Zenon
  <2>3. u[m + 1] = u[m] \o body /\ v[m + 1] = v[m] \o fs[m + 1]
    BY <2>0, <2>1, <1>4, <1>5
  <2>4. Follows(body, fs[m + 1], C, C)
    BY <2>1
  <2>5. Follows(u[m] \o body, v[m] \o fs[m + 1], C, C)
    BY ONLY <2>2, <2>4, FollowsConcat
  <2> QED
    BY <2>3, <2>5
<1>8. n \in T
  <2> HIDE DEF T
  <2> QED
    BY <1>6, <1>7, AllNaturals
<1>9. Follows(u[n], v[n], C, C)
  <2>1. n <= n
    OBVIOUS
  <2> QED
    BY <1>8, <2>1, Zenon
<1> QED
  BY <1>4, <1>5, <1>9

\* The same fields over and over.
LEMMA FollowsSame ==
  ASSUME NEW x \in Counts, NEW n \in Nat, NEW body \in Seq(Middle), body # <<>>,
         NEW C, C \subseteq CountValues, \A c \in C : c[x] = n,
         NEW f \in Seq(FieldSet), Follows(body, f, C, C)
  PROVE  Follows(Loop(x, body), Times(n, f), C, C)
<1>1. AreSequences(FieldSet, n, [i \in 1 .. n |-> f]) /\ Times(n, f) = FlattenSeq([i \in 1 .. n |-> f])
  BY TimesAre
<1>2. \A k \in 1 .. n : Follows(body, [i \in 1 .. n |-> f][k], C, C)
  OBVIOUS
<1>3. body \in Seq(Items)
  BY ItemKinds, SeqMonotonic
<1>4. Follows(Times(n, body), Times(n, f), C, C)
  BY ONLY <1>1, <1>2, <1>3, FollowsTimes, n \in Nat, C \subseteq CountValues
<1> QED
  BY <1>4, FollowsLoop

Knows(x, v) == {c \in CountValues : c[x] = v}

LEMMA Learns ==
  ASSUME NEW x \in Counts, NEW v \in Nat, NEW C, C \subseteq CountValues
  PROVE  Follows(Read(<<x>>), Count(x, v), C, Knows(x, v))
<1>1. \A c \in C : [c EXCEPT ![x] = v] \in Knows(x, v)
  BY DEF Knows, CountValues
<1> QED
  BY <1>1, FollowsCount

LEMMA LearnsMore ==
  ASSUME NEW x \in Counts, NEW v \in Nat, NEW y \in Counts, NEW u \in Nat, x # y
  PROVE  Follows(Read(<<x>>), Count(x, v), Knows(y, u), Knows(x, v) \cap Knows(y, u))
<1>1. \A c \in Knows(y, u) : [c EXCEPT ![x] = v] \in Knows(x, v) \cap Knows(y, u)
  BY DEF Knows, CountValues
<1>2. Knows(y, u) \subseteq CountValues
  BY DEF Knows
<1> QED
  BY <1>1, <1>2, FollowsCount

\* Names of fields.
LEMMA NameLists ==
  ASSUME NEW a \in Names, NEW b \in Names, NEW c \in Names, NEW d \in Names, NEW e \in Names,
         NEW f \in Names, NEW g \in Names
  PROVE  /\ <<a, b>> = <<a>> \o <<b>>
         /\ <<a, b, c, d>> = <<a>> \o <<b, c>> \o <<d>>
         /\ <<a, b, c, d, e, f, g>> = <<a, b, c>> \o <<d>> \o <<e, f, g>>
         /\ <<a>> \in Seq(Names) /\ <<a, b>> \in Seq(Names) /\ <<a, b, c>> \in Seq(Names)
OBVIOUS

LEMMA NetTypes ==
  /\ <<"ack">> \in Seq(Others) /\ <<"nBatches", "nNodes">> \in Seq(Others)
  /\ <<"size", "name">> \in Seq(Others) /\ <<"pipeIndex">> \in Seq(Others)
  /\ <<"code", "index", "weightSize">> \in Seq(Others) /\ <<"name", "input", "output">> \in Seq(Others)
  /\ <<"config">> \in Seq(Others) /\ RankFields \in Seq(Others) /\ SyncFields \in Seq(Others)
<1>1. <<"ack">> \in Seq(Others) /\ <<"nBatches", "nNodes">> \in Seq(Others)
  BY DEF Others
<1>2. <<"size", "name">> \in Seq(Others) /\ <<"pipeIndex">> \in Seq(Others)
  BY DEF Others
<1>3. <<"code", "index", "weightSize">> \in Seq(Others) /\ <<"name", "input", "output">> \in Seq(Others)
  BY DEF Others
<1>4. <<"config">> \in Seq(Others)
  BY DEF Others
<1>5. RankFields \in Seq(Others)
  BY DEF Others, RankFields
<1>6. SyncFields \in Seq(Others)
  BY DEF Others, SyncFields
<1> QED
  BY <1>1, <1>2, <1>3, <1>4, <1>5, <1>6

\* A list of names as the body of a loop.
LEMMA FollowsList ==
  ASSUME NEW x \in Counts, NEW n \in Nat, NEW names \in Seq(Others), names # <<>>,
         NEW C, C \subseteq CountValues, \A c \in C : c[x] = n
  PROVE  Follows(Loop(x, Read(names)), Times(n, Fields(names)), C, C)
<1>1. names \in Seq(Names)
  BY SeqMonotonic DEF Names
<1>2. Read(names) \in Seq(Plain) /\ Len(Read(names)) = Len(names) /\ Fields(names) \in Seq(FieldSet)
  BY <1>1, ReadType, FieldsType
<1>3. Read(names) # <<>>
  <2>1. Len(names) # Len(<<>>)
    BY EmptySeq
  <2> QED
    BY <1>2, <2>1
<1>4. Read(names) \in Seq(Middle)
  BY <1>2, ItemKinds, SeqMonotonic
<1>5. Follows(Read(names), Fields(names), C, C)
  BY FollowsNames
<1> QED
  BY <1>2, <1>3, <1>4, <1>5, FollowsSame

\* The net's configuration is read as it is written.
LEMMA NetFollows == Follows(ReadNet, NetFields, CountValues, CountValues)
<1> DEFINE P == Knows("nPipes", Net.pipes)
           S == Knows("nPreSyncs", Net.preSyncs)
<1>0. "nPipes" \in Counts /\ "nPreSyncs" \in Counts /\ Net.pipes \in Nat /\ Net.preSyncs \in Nat
  BY ModelLoadingAssumption DEF Counts
<1>1. PICK ack, dims, pipe, sync :
        /\ ack = <<"ack">> /\ dims = <<"nBatches", "nNodes">>
        /\ pipe = <<"size", "name">> /\ sync = <<"pipeIndex">>
  OBVIOUS
<1>2. /\ ack \in Seq(Others) /\ dims \in Seq(Others) /\ pipe \in Seq(Others) /\ sync \in Seq(Others)
      /\ pipe # <<>> /\ sync # <<>>
  BY <1>1, NetTypes
<1>3. P \subseteq CountValues /\ S \subseteq CountValues
  BY DEF Knows
<1>4. Follows(Read(ack), Fields(ack), CountValues, CountValues)
  BY <1>2, FollowsNames
<1>5. Follows(Read(dims), Fields(dims), CountValues, CountValues)
  BY <1>2, FollowsNames
<1>6. Follows(Read(<<"nPipes">>), Count("nPipes", Net.pipes), CountValues, P)
  BY <1>0, Learns
<1>7. Follows(Loop("nPipes", Read(pipe)), Times(Net.pipes, Fields(pipe)), P, P)
  BY <1>0, <1>2, <1>3, FollowsList DEF Knows
<1>8. Follows(Read(<<"nPreSyncs">>), Count("nPreSyncs", Net.preSyncs), P, S)
  BY <1>0, <1>3, Learns
<1>9. Follows(Loop("nPreSyncs", Read(sync)), Times(Net.preSyncs, Fields(sync)), S, CountValues)
  <2>1. Follows(Loop("nPreSyncs", Read(sync)), Times(Net.preSyncs, Fields(sync)), S, S)
    BY <1>0, <1>2, <1>3, FollowsList DEF Knows
  <2> QED
    BY <2>1, <1>3, FollowsMore
<1> HIDE DEF P, S
<1>10. Follows(Read(ack) \o Read(dims), Fields(ack) \o Fields(dims), CountValues, CountValues)
  BY ONLY <1>4, <1>5, FollowsConcat
<1>11. Follows(Read(ack) \o Read(dims) \o Read(<<"nPipes">>),
               Fields(ack) \o Fields(dims) \o Count("nPipes", Net.pipes), CountValues, P)
  BY ONLY <1>10, <1>6, FollowsConcat
<1>12. Follows(Read(ack) \o Read(dims) \o Read(<<"nPipes">>) \o Loop("nPipes", Read(pipe)),
               Fields(ack) \o Fields(dims) \o Count("nPipes", Net.pipes)
                 \o Times(Net.pipes, Fields(pipe)), CountValues, P)
  BY ONLY <1>11, <1>7, FollowsConcat
<1>13. Follows(Read(ack) \o Read(dims) \o Read(<<"nPipes">>) \o Loop("nPipes", Read(pipe))
                 \o Read(<<"nPreSyncs">>),
               Fields(ack) \o Fields(dims) \o Count("nPipes", Net.pipes)
                 \o Times(Net.pipes, Fields(pipe)) \o Count("nPreSyncs", Net.preSyncs),
               CountValues, S)
  BY ONLY <1>12, <1>8, FollowsConcat
<1>14. Follows(Read(ack) \o Read(dims) \o Read(<<"nPipes">>) \o Loop("nPipes", Read(pipe))
                 \o Read(<<"nPreSyncs">>) \o Loop("nPreSyncs", Read(sync)),
               Fields(ack) \o Fields(dims) \o Count("nPipes", Net.pipes)
                 \o Times(Net.pipes, Fields(pipe)) \o Count("nPreSyncs", Net.preSyncs)
                 \o Times(Net.preSyncs, Fields(sync)),
               CountValues, CountValues)
  BY ONLY <1>13, <1>9, FollowsConcat
<1>15. Read(<<"ack", "nBatches", "nNodes", "nPipes">>) = Read(ack) \o Read(dims) \o Read(<<"nPipes">>)
  <2>1. PICK a, b, c, d : a = "ack" /\ b = "nBatches" /\ c = "nNodes" /\ d = "nPipes"
    OBVIOUS
  <2>2. a \in Names /\ b \in Names /\ c \in Names /\ d \in Names
    BY <2>1 DEF Names, Others, Counts
  <2>3. /\ <<a, b, c, d>> = <<a>> \o <<b, c>> \o <<d>>
        /\ <<a>> \in Seq(Names) /\ <<b, c>> \in Seq(Names) /\ <<d>> \in Seq(Names)
    BY ONLY <2>2, NameLists
  <2>4. <<a>> \o <<b, c>> \in Seq(Names)
    BY <2>3, ConcatProperties
  <2>5. /\ Read(<<a>> \o <<b, c>>) = Read(<<a>>) \o Read(<<b, c>>)
        /\ Read(<<a>> \o <<b, c>> \o <<d>>) = Read(<<a>> \o <<b, c>>) \o Read(<<d>>)
    BY ONLY <2>3, <2>4, ReadJoin
  <2>6. Read(<<a, b, c, d>>) = Read(<<a>>) \o Read(<<b, c>>) \o Read(<<d>>)
    BY ONLY <2>3, <2>5
  <2> QED
    BY ONLY <2>1, <2>6, <1>1
<1> QED
  BY ONLY <1>1, <1>14, <1>15 DEF ReadNet, NetFields, Field

\* So is an operation.
LEMMA OpFollows ==
  ASSUME NEW b \in BOOLEAN
  PROVE  Follows(ReadOp, OpFields(b), CountValues, CountValues)
<1>1. PICK n \in Nat : n = (IF b THEN 1 ELSE 0)
  OBVIOUS
<1>2. PICK head, tail, config :
        /\ head = <<"code", "index", "weightSize">> /\ tail = <<"name", "input", "output">>
        /\ config = <<"config">>
  OBVIOUS
<1>3. head \in Seq(Others) /\ tail \in Seq(Others) /\ config \in Seq(Others) /\ config # <<>>
  BY <1>2, NetTypes
<1> DEFINE K == Knows("configSize", n)
<1>4. "configSize" \in Counts /\ K \subseteq CountValues
  BY DEF Counts, Knows
<1>5. Follows(Read(head), Fields(head), CountValues, CountValues)
  BY <1>3, FollowsNames
<1>6. Follows(Read(<<"configSize">>), Count("configSize", n), CountValues, K)
  BY <1>4, Learns
<1>7. Follows(Read(tail), Fields(tail), K, K)
  BY <1>3, <1>4, FollowsNames
<1>8. Follows(Loop("configSize", Read(config)), Times(n, Fields(config)), K, CountValues)
  <2>1. Follows(Loop("configSize", Read(config)), Times(n, Fields(config)), K, K)
    BY <1>3, <1>4, FollowsList DEF Knows
  <2> QED
    BY <2>1, <1>4, FollowsMore
<1>9. Times(n, Fields(config)) = IF b THEN Field("config") ELSE <<>>
  <2>1. PICK f \in Seq(FieldSet) : f = Fields(config)
    <3>1. config \in Seq(Names)
      BY <1>3, SeqMonotonic DEF Names
    <3> QED
      BY <3>1, FieldsType
  <2>2. PICK ss : AreSequences(FieldSet, n, ss) /\ Times(n, f) = FlattenSeq(ss)
                  /\ \A k \in 1 .. n : ss[k] = f
    <3>1. \A k \in 1 .. n : [i \in 1 .. n |-> f][k] = f
      OBVIOUS
    <3> QED
      BY <3>1, TimesAre
  <2>3. PICK u : Concatenates(FieldSet, n, ss, u)
    BY <2>2, Flattened
  <2>4. u[0] = <<>> /\ u[n] = Times(n, f) /\ \A k \in 1 .. n : u[k] = u[k - 1] \o f
    BY <2>2, <2>3 DEF Concatenates
  <2>5. CASE b
    <3>1. n = 1 /\ 1 \in 1 .. n /\ 1 - 1 = 0
      BY <2>5, <1>1
    <3>2. Times(n, f) = <<>> \o f
      BY <2>4, <3>1
    <3>3. <<>> \o f = f
      BY ConcatEmptySeq
    <3> QED
      BY <2>1, <2>5, <3>2, <3>3, <1>2 DEF Field
  <2>6. CASE ~b
    BY <2>6, <2>1, <2>4, <1>1
  <2> QED
    BY <2>5, <2>6
<1> HIDE DEF K
<1>10. Follows(Read(head) \o Read(<<"configSize">>), Fields(head) \o Count("configSize", n), CountValues, K)
  BY ONLY <1>5, <1>6, FollowsConcat
<1>11. Follows(Read(head) \o Read(<<"configSize">>) \o Read(tail),
               Fields(head) \o Count("configSize", n) \o Fields(tail), CountValues, K)
  BY ONLY <1>10, <1>7, FollowsConcat
<1>12. Follows(Read(head) \o Read(<<"configSize">>) \o Read(tail) \o Loop("configSize", Read(config)),
               Fields(head) \o Count("configSize", n) \o Fields(tail) \o Times(n, Fields(config)),
               CountValues, CountValues)
  BY ONLY <1>11, <1>8, FollowsConcat
<1>13. Read(<<"code", "index", "weightSize", "configSize", "name", "input", "output">>) =
         Read(head) \o Read(<<"configSize">>) \o Read(tail)
  <2>1. PICK a, c, d, e, f, g, h :
          /\ a = "code" /\ c = "index" /\ d = "weightSize" /\ e = "configSize"
          /\ f = "name" /\ g = "input" /\ h = "output"
    OBVIOUS
  <2>2. /\ a \in Names /\ c \in Names /\ d \in Names /\ e \in Names
        /\ f \in Names /\ g \in Names /\ h \in Names
    BY <2>1 DEF Names, Others, Counts
  <2>3. /\ <<a, c, d, e, f, g, h>> = <<a, c, d>> \o <<e>> \o <<f, g, h>>
        /\ <<a, c, d>> \in Seq(Names) /\ <<e>> \in Seq(Names) /\ <<f, g, h>> \in Seq(Names)
    BY ONLY <2>2, NameLists
  <2>4. <<a, c, d>> \o <<e>> \in Seq(Names)
    BY <2>3, ConcatProperties
  <2>5. /\ Read(<<a, c, d>> \o <<e>>) = Read(<<a, c, d>>) \o Read(<<e>>)
        /\ Read(<<a, c, d>> \o <<e>> \o <<f, g, h>>) = Read(<<a, c, d>> \o <<e>>) \o Read(<<f, g, h>>)
    BY ONLY <2>3, <2>4, ReadJoin
  <2>6. Read(<<a, c, d, e, f, g, h>>) = Read(<<a, c, d>>) \o Read(<<e>>) \o Read(<<f, g, h>>)
    BY ONLY <2>3, <2>5
  <2> QED
    BY ONLY <2>1, <2>6, <1>2
<1>14. OpFields(b) =
         Fields(head) \o Count("configSize", n) \o Fields(tail) \o Times(n, Fields(config))
  BY ONLY <1>1, <1>2, <1>9 DEF OpFields
<1>15. ReadOp = Read(head) \o Read(<<"configSize">>) \o Read(tail) \o Loop("configSize", Read(config))
  BY ONLY <1>2, <1>13 DEF ReadOp
<1> QED
  BY ONLY <1>12, <1>14, <1>15

LEMMA LoopType ==
  ASSUME NEW x \in Names, NEW S, NEW body \in Seq(S)
  PROVE  Loop(x, body) \in Seq(Looping(S))
<1>1. [name |-> x, body |-> body] \in Looping(S)
  BY DEF Looping
<1> QED
  BY <1>1 DEF Loop

LEMMA ReadOpType == ReadOp \in Seq(Inner) /\ ReadOp # <<>>
<1>1. PICK a, b : a = <<"code", "index", "weightSize", "configSize", "name", "input", "output">>
                  /\ b = <<"config">>
  OBVIOUS
<1>2. a \in Seq(Names) /\ b \in Seq(Names) /\ Len(a) = 7
  BY <1>1 DEF Names, Others, Counts
<1>3. Read(a) \in Seq(Inner) /\ Len(Read(a)) = 7 /\ Read(b) \in Seq(Plain)
  BY <1>2, ReadType
<1>4. "configSize" \in Names
  BY DEF Names, Counts
<1>5. Loop("configSize", Read(b)) \in Seq(Inner)
  BY <1>3, <1>4, LoopType DEF Inner
<1>6. PICK c \in Seq(Inner), d \in Seq(Inner) :
        c = Read(a) /\ Len(c) = 7 /\ d = Loop("configSize", Read(b)) /\ ReadOp = c \o d
  BY <1>1, <1>3, <1>5 DEF ReadOp
<1>7. c \o d \in Seq(Inner) /\ Len(c \o d) # 0
  BY ONLY <1>6, ConcatProperties, LenProperties, SMTT(60)
<1>8. Len(<<>>) = 0
  OBVIOUS
<1> QED
  BY ONLY <1>6, <1>7, <1>8

\* A pair of counts.
LEMMA PairOfCounts ==
  ASSUME NEW x \in Counts, NEW y \in Counts
  PROVE  /\ Read(<<x, y>>) = Read(<<x>>) \o Read(<<y>>)
         /\ <<x, y>> \in Seq(Names)
<1>1. x \in Names /\ y \in Names
  BY DEF Names
<1>2. <<x, y>> = <<x>> \o <<y>> /\ <<x>> \in Seq(Names) /\ <<y>> \in Seq(Names) /\ <<x, y>> \in Seq(Names)
  BY ONLY <1>1, NameLists, Single
<1>3. Read(<<x>> \o <<y>>) = Read(<<x>>) \o Read(<<y>>)
  BY ONLY <1>2, ReadJoin
<1> QED
  BY <1>2, <1>3

Segment == [syncs : Nat, ops : Seq(BOOLEAN)]

LEMMA ReadNamesType ==
  ASSUME NEW names \in Seq(Others)
  PROVE  Read(names) \in Seq(Plain)
<1>1. names \in Seq(Names)
  BY SeqMonotonic DEF Names
<1> QED
  BY <1>1, ReadType

LEMMA ReadSegmentType == ReadSegment \in Seq(Middle) /\ ReadSegment # <<>>
<1>1. "nSyncs" \in Counts /\ "nOps" \in Counts /\ "nSyncs" \in Names /\ "nOps" \in Names
  BY DEF Names, Counts
<1>2. PICK p \in Seq(Names) : p = <<"nSyncs", "nOps">> /\ Len(p) = 2
  <2>1. Len(<<"nSyncs", "nOps">>) = 2
    OBVIOUS
  <2> QED
    BY <2>1, <1>1, PairOfCounts
<1>3. Read(p) \in Seq(Plain) /\ Len(Read(p)) = 2
  BY <1>2, ReadType
<1>4. Loop("nSyncs", Read(SyncFields)) \in Seq(Inner)
  BY <1>1, NetTypes, ReadNamesType, LoopType DEF Inner
<1>5. Loop("nOps", ReadOp) \in Seq(Middle)
  BY <1>1, ReadOpType, LoopType DEF Middle
<1>6. PICK a \in Seq(Middle), b \in Seq(Middle), c \in Seq(Middle) :
        /\ a = Read(p) /\ b = Loop("nSyncs", Read(SyncFields)) /\ c = Loop("nOps", ReadOp)
        /\ Len(a) = 2
  BY <1>3, <1>4, <1>5, ItemKinds, SeqMonotonic
<1>7. /\ a \o b \o c \in Seq(Middle) /\ Len(a \o b \o c) # 0
  <2>0. Len(a) = 2 /\ Len(b) \in Nat /\ Len(c) \in Nat
    BY <1>6, LenProperties
  <2>1. a \o b \in Seq(Middle) /\ Len(a \o b) = Len(a) + Len(b)
    BY ONLY a \in Seq(Middle), b \in Seq(Middle), ConcatProperties
  <2>2. a \o b \o c \in Seq(Middle) /\ Len(a \o b \o c) = Len(a \o b) + Len(c)
    BY ONLY <2>1, c \in Seq(Middle), ConcatProperties
  <2> QED
    BY ONLY <2>0, <2>1, <2>2
<1>8. ReadSegment = a \o b \o c
  BY <1>2, <1>6 DEF ReadSegment
<1>9. Len(<<>>) = 0
  OBVIOUS
<1> QED
  BY ONLY <1>7, <1>8, <1>9

\* What is read was written as fields.
LEMMA FollowsType ==
  ASSUME NEW a, NEW f, NEW C, NEW D, Follows(a, f, C, D), C # {}
  PROVE  f \in Seq(FieldSet)
BY ReadsTypes DEF Follows

LEMMA SomeCounts == CountValues # {}
<1>1. [c \in Counts |-> 0] \in CountValues
  BY DEF CountValues
<1> QED
  BY <1>1

\* A list of parts.
LEMMA FollowsParts ==
  ASSUME NEW x \in Counts, NEW n \in Nat, NEW body \in Seq(Middle), body # <<>>, NEW fs, Len(fs) = n,
         n = 0 => fs = <<>>, \A k \in 1 .. n : Follows(body, fs[k], CountValues, CountValues)
  PROVE  Follows(Loop(x, body), FlattenSeq(fs), Knows(x, n), CountValues)
<1>1. AreSequences(FieldSet, n, fs)
  BY FollowsType, SomeCounts DEF AreSequences
<1>2. body \in Seq(Items)
  BY ItemKinds, SeqMonotonic
<1>3. Follows(Times(n, body), FlattenSeq(fs), CountValues, CountValues)
  BY <1>1, <1>2, FollowsTimes
<1>4. Knows(x, n) \subseteq CountValues /\ \A c \in Knows(x, n) : c[x] = n
  BY DEF Knows
<1>5. Follows(Times(n, body), FlattenSeq(fs), Knows(x, n), CountValues)
  BY <1>3, <1>4, FollowsMore
<1> QED
  BY ONLY x \in Counts, n \in Nat, body \in Seq(Middle), body # <<>>, <1>4, <1>5, FollowsLoop

LEMMA SegmentFollows ==
  ASSUME NEW s \in Segment
  PROVE  Follows(ReadSegment, SegmentFields(s), CountValues, CountValues)
<1>1. PICK m \in Nat, ops \in Seq(BOOLEAN) : m = s.syncs /\ ops = s.ops
  BY DEF Segment
<1>2. PICK n \in Nat : n = Len(ops)
  BY LenProperties
<1>3. "nSyncs" \in Counts /\ "nOps" \in Counts /\ "nSyncs" # "nOps"
  BY DEF Counts
<1> DEFINE S == Knows("nSyncs", m)
           O == Knows("nOps", n)
           fs == [i \in DOMAIN ops |-> OpFields(ops[i])]
<1>4. S \subseteq CountValues /\ O \subseteq CountValues
  BY DEF Knows
<1>5. Follows(Read(<<"nSyncs">>), Count("nSyncs", m), CountValues, S)
  BY <1>3, Learns
<1>6. Follows(Read(<<"nOps">>), Count("nOps", n), S, O \cap S)
  BY <1>3, LearnsMore
<1>7. Follows(Loop("nSyncs", Read(SyncFields)), Times(m, Fields(SyncFields)), O \cap S, O)
  <2>1. SyncFields # <<>>
    BY DEF SyncFields
  <2>2. O \cap S \subseteq CountValues /\ \A c \in O \cap S : c["nSyncs"] = m
    BY <1>4 DEF Knows
  <2>3. Follows(Loop("nSyncs", Read(SyncFields)), Times(m, Fields(SyncFields)), O \cap S, O \cap S)
    BY ONLY <2>1, <2>2, <1>3, NetTypes, m \in Nat, FollowsList
  <2> QED
    BY <2>3, FollowsMore
<1>8. Follows(Loop("nOps", ReadOp), FlattenSeq(fs), O, CountValues)
  <2>1. DOMAIN ops = 1 .. n /\ \A k \in 1 .. n : ops[k] \in BOOLEAN
    BY <1>2, LenProperties, ElementOfSeq
  <2>2. Len(fs) = n /\ \A k \in 1 .. n : fs[k] = OpFields(ops[k])
    BY <2>1
  <2>3. \A k \in 1 .. n : Follows(ReadOp, fs[k], CountValues, CountValues)
    BY <2>1, <2>2, OpFollows, Zenon
  <2>4. n = 0 => fs = <<>>
    BY <2>1
  <2>5. ReadOp \in Seq(Middle) /\ ReadOp # <<>>
    BY ReadOpType, ItemKinds, SeqMonotonic
  <2> HIDE DEF fs
  <2> QED
    BY ONLY <2>2, <2>3, <2>4, <2>5, <1>3, n \in Nat, FollowsParts
<1> HIDE DEF S, O, fs
<1>9. Follows(Read(<<"nSyncs">>) \o Read(<<"nOps">>), Count("nSyncs", m) \o Count("nOps", n),
              CountValues, O \cap S)
  BY ONLY <1>5, <1>6, FollowsConcat
<1>10. Follows(Read(<<"nSyncs">>) \o Read(<<"nOps">>) \o Loop("nSyncs", Read(SyncFields)),
               Count("nSyncs", m) \o Count("nOps", n) \o Times(m, Fields(SyncFields)), CountValues, O)
  BY ONLY <1>9, <1>7, FollowsConcat
<1>11. Follows(Read(<<"nSyncs">>) \o Read(<<"nOps">>) \o Loop("nSyncs", Read(SyncFields))
                 \o Loop("nOps", ReadOp),
               Count("nSyncs", m) \o Count("nOps", n) \o Times(m, Fields(SyncFields))
                 \o FlattenSeq(fs), CountValues, CountValues)
  BY ONLY <1>10, <1>8, FollowsConcat
<1>12. Read(<<"nSyncs", "nOps">>) = Read(<<"nSyncs">>) \o Read(<<"nOps">>)
  BY <1>3, PairOfCounts
<1>13. SegmentFields(s) = Count("nSyncs", m) \o Count("nOps", n) \o Times(m, Fields(SyncFields))
                          \o FlattenSeq(fs)
  BY ONLY <1>1, <1>2 DEF SegmentFields, fs
<1>14. ReadSegment = Read(<<"nSyncs">>) \o Read(<<"nOps">>) \o Loop("nSyncs", Read(SyncFields))
                     \o Loop("nOps", ReadOp)
  BY ONLY <1>12 DEF ReadSegment
<1> QED
  BY ONLY <1>11, <1>13, <1>14

\* The node's configuration is read as it is written, whatever its segments.
LEMMA NodeFollows == Follows(ReadNode, NodeFields, CountValues, CountValues)
<1>1. PICK m \in Nat, segments \in Seq(Segment) : m = Node.buffers /\ segments = Node.segments
  BY ModelLoadingAssumption DEF Segment
<1>2. PICK n \in Nat : n = Len(segments)
  BY LenProperties
<1>3. "nBuffers" \in Counts /\ "nSegments" \in Counts /\ "nBuffers" # "nSegments"
  BY DEF Counts
<1>4. PICK ack, buffer : ack = <<"ack">> /\ buffer = <<"size", "name">>
  OBVIOUS
<1>5. ack \in Seq(Others) /\ RankFields \in Seq(Others) /\ buffer \in Seq(Others) /\ buffer # <<>>
  BY <1>4, NetTypes
<1> DEFINE B == Knows("nBuffers", m)
           S == Knows("nSegments", n)
           fs == [i \in DOMAIN segments |-> SegmentFields(segments[i])]
<1>6. B \subseteq CountValues /\ S \subseteq CountValues
  BY DEF Knows
<1>7. Follows(Read(ack), Fields(ack), CountValues, CountValues)
  BY <1>5, FollowsNames
<1>8. Follows(Read(RankFields), Fields(RankFields), CountValues, CountValues)
  BY <1>5, FollowsNames
<1>9. Follows(Read(<<"nBuffers">>), Count("nBuffers", m), CountValues, B)
  BY <1>3, Learns
<1>10. Follows(Read(<<"nSegments">>), Count("nSegments", n), B, S \cap B)
  BY <1>3, LearnsMore
<1>11. Follows(Loop("nBuffers", Read(buffer)), Times(m, Fields(buffer)), S \cap B, S)
  <2>1. S \cap B \subseteq CountValues /\ \A c \in S \cap B : c["nBuffers"] = m
    BY <1>6 DEF Knows
  <2>2. Follows(Loop("nBuffers", Read(buffer)), Times(m, Fields(buffer)), S \cap B, S \cap B)
    BY ONLY <2>1, <1>3, <1>5, m \in Nat, FollowsList
  <2> QED
    BY <2>2, FollowsMore
<1>12. Follows(Loop("nSegments", ReadSegment), FlattenSeq(fs), S, CountValues)
  <2>1. DOMAIN segments = 1 .. n /\ \A k \in 1 .. n : segments[k] \in Segment
    BY <1>2, LenProperties, ElementOfSeq
  <2>2. Len(fs) = n /\ \A k \in 1 .. n : fs[k] = SegmentFields(segments[k])
    BY <2>1
  <2>3. \A k \in 1 .. n : Follows(ReadSegment, fs[k], CountValues, CountValues)
    BY <2>1, <2>2, SegmentFollows, Zenon
  <2>4. n = 0 => fs = <<>>
    BY <2>1
  <2> HIDE DEF fs
  <2> QED
    BY ONLY <2>2, <2>3, <2>4, ReadSegmentType, <1>3, n \in Nat, FollowsParts
<1> HIDE DEF B, S, fs
<1>13. Follows(Read(ack) \o Read(RankFields), Fields(ack) \o Fields(RankFields),
               CountValues, CountValues)
  BY ONLY <1>7, <1>8, FollowsConcat
<1>14. Follows(Read(ack) \o Read(RankFields) \o Read(<<"nBuffers">>),
               Fields(ack) \o Fields(RankFields) \o Count("nBuffers", m), CountValues, B)
  BY ONLY <1>13, <1>9, FollowsConcat
<1>15. Follows(Read(ack) \o Read(RankFields) \o Read(<<"nBuffers">>) \o Read(<<"nSegments">>),
               Fields(ack) \o Fields(RankFields) \o Count("nBuffers", m) \o Count("nSegments", n),
               CountValues, S \cap B)
  BY ONLY <1>14, <1>10, FollowsConcat
<1>16. Follows(Read(ack) \o Read(RankFields) \o Read(<<"nBuffers">>) \o Read(<<"nSegments">>)
                 \o Loop("nBuffers", Read(buffer)),
               Fields(ack) \o Fields(RankFields) \o Count("nBuffers", m) \o Count("nSegments", n)
                 \o Times(m, Fields(buffer)), CountValues, S)
  BY ONLY <1>15, <1>11, FollowsConcat
<1>17. Follows(Read(ack) \o Read(RankFields) \o Read(<<"nBuffers">>) \o Read(<<"nSegments">>)
                 \o Loop("nBuffers", Read(buffer)) \o Loop("nSegments", ReadSegment),
               Fields(ack) \o Fields(RankFields) \o Count("nBuffers", m) \o Count("nSegments", n)
                 \o Times(m, Fields(buffer)) \o FlattenSeq(fs), CountValues, CountValues)
  BY ONLY <1>16, <1>12, FollowsConcat
<1>18. Read(<<"ack">> \o RankFields \o <<"nBuffers", "nSegments">>) =
         Read(ack) \o Read(RankFields) \o Read(<<"nBuffers">>) \o Read(<<"nSegments">>)
  <2>1. PICK b, s : b = <<"nBuffers">> /\ s = <<"nSegments">>
    OBVIOUS
  <2>2. /\ b \in Seq(Names) /\ s \in Seq(Names) /\ <<"nBuffers", "nSegments">> \in Seq(Names)
        /\ Read(<<"nBuffers", "nSegments">>) = Read(b) \o Read(s)
    <3>1. "nBuffers" \in Names /\ "nSegments" \in Names
      BY DEF Names, Counts
    <3> QED
      BY <2>1, <3>1, <1>3, PairOfCounts, Single
  <2>3. PICK x \in Seq(Names), y \in Seq(Names), z \in Seq(Names) :
          x = ack /\ y = RankFields /\ z = <<"nBuffers", "nSegments">>
    BY <2>2, <1>5, SeqMonotonic DEF Names
  <2>4. x \o y \in Seq(Names)
    BY ONLY x \in Seq(Names), y \in Seq(Names), ConcatProperties
  <2>5. Read(x \o y) = Read(x) \o Read(y) /\ Read(x \o y \o z) = Read(x \o y) \o Read(z)
    BY ONLY <2>4, x \in Seq(Names), y \in Seq(Names), z \in Seq(Names), ReadJoin
  <2>6. /\ Read(x) \in Seq(Plain) /\ Read(y) \in Seq(Plain) /\ Read(b) \in Seq(Plain)
        /\ Read(s) \in Seq(Plain)
    BY ONLY <2>2, x \in Seq(Names), y \in Seq(Names), ReadType
  <2>7. Read(x) \o Read(y) \in Seq(Plain)
    BY ONLY <2>6, ConcatProperties
  <2>8. Read(x) \o Read(y) \o (Read(b) \o Read(s)) = Read(x) \o Read(y) \o Read(b) \o Read(s)
    <3>1. PICK p \in Seq(Plain), q \in Seq(Plain), r \in Seq(Plain) :
            p = Read(x) \o Read(y) /\ q = Read(b) /\ r = Read(s)
      BY ONLY <2>6, <2>7
    <3>2. p \o (q \o r) = (p \o q) \o r
      BY ONLY p \in Seq(Plain), q \in Seq(Plain), r \in Seq(Plain), ConcatAssociative, SMTT(60)
    <3> QED
      BY ONLY <3>1, <3>2
  <2>9. Read(x \o y \o z) = Read(x) \o Read(y) \o Read(b) \o Read(s)
    BY ONLY <2>2, <2>3, <2>5, <2>8
  <2> QED
    BY ONLY <2>1, <2>3, <2>9, <1>4
<1>19. NodeFields =
         Fields(ack) \o Fields(RankFields) \o Count("nBuffers", m) \o Count("nSegments", n)
         \o Times(m, Fields(buffer)) \o FlattenSeq(fs)
  BY ONLY <1>1, <1>2, <1>4 DEF NodeFields, Field, fs
<1>20. ReadNode =
         Read(ack) \o Read(RankFields) \o Read(<<"nBuffers">>) \o Read(<<"nSegments">>)
         \o Loop("nBuffers", Read(buffer)) \o Loop("nSegments", ReadSegment)
  BY ONLY <1>4, <1>18 DEF ReadNode
<1> QED
  BY ONLY <1>17, <1>19, <1>20

\* For all numbers of pipes, syncs, buffers, segments and operations the reader
\* of a configuration takes each field as what it was written as, and all of them
\* (NnRootConfigWriter::writeNet, writeNode; NnWorkerConfigReader::readNet, readNode).
THEOREM ConfigurationsAgree ==
  /\ Follows(ReadNet, NetFields, CountValues, CountValues)
  /\ Follows(ReadNode, NodeFields, CountValues, CountValues)
BY NetFollows, NodeFollows

-----------------------------------------------------------------------------
(* The weights of the file.                                                *)

WeightSet(ops, layers, experts) == [op : ops, layer : layers, expert : experts]

LEMMA OneWeight ==
  ASSUME NEW op, NEW L, NEW l \in L, NEW E, NEW e \in E
  PROVE  DistinctIn(Weight(op, l, e), WeightSet({op}, L, E))
<1>1. PICK w : w = [op |-> op, layer |-> l, expert |-> e]
  OBVIOUS
<1>2. {w} \subseteq WeightSet({op}, L, E)
  BY <1>1 DEF WeightSet
<1>3. DistinctIn(<<w>>, WeightSet({op}, L, E))
  BY <1>2, OneDistinct, WidenDistinct
<1> QED
  BY <1>1, <1>3 DEF Weight

LEMMA JoinWeights ==
  ASSUME NEW A, NEW B, A \cap B = {}, NEW L, NEW E,
         NEW s, DistinctIn(s, WeightSet(A, L, E)), NEW t, DistinctIn(t, WeightSet(B, L, E))
  PROVE  DistinctIn(s \o t, WeightSet(A \cup B, L, E))
<1>1. WeightSet(A, L, E) \cap WeightSet(B, L, E) = {}
  BY DEF WeightSet
<1>2. WeightSet(A, L, E) \cup WeightSet(B, L, E) \subseteq WeightSet(A \cup B, L, E)
  BY DEF WeightSet
<1>3. DistinctIn(s \o t, WeightSet(A, L, E) \cup WeightSet(B, L, E))
  BY <1>1, ConcatDistinct
<1> QED
  BY <1>2, <1>3, WidenDistinct

LEMMA AddWeight ==
  ASSUME NEW A, NEW L, NEW E, NEW s, DistinctIn(s, WeightSet(A, L, E)),
         NEW op, op \notin A, NEW l \in L, NEW e \in E
  PROVE  DistinctIn(s \o Weight(op, l, e), WeightSet(A \cup {op}, L, E))
<1>1. A \cap {op} = {}
  OBVIOUS
<1> QED
  BY ONLY <1>1, DistinctIn(s, WeightSet(A, L, E)), l \in L, e \in E, OneWeight, JoinWeights

FeedForwardOps == {"block_matmul_w1", "block_matmul_w2", "block_matmul_w3"}

LEMMA FeedForwardDistinct ==
  ASSUME NEW l, NEW e
  PROVE  DistinctIn(FeedForward(l, e), WeightSet(FeedForwardOps, {l}, {e}))
<1>1. PICK a, b, c : a = "block_matmul_w1" /\ b = "block_matmul_w2" /\ c = "block_matmul_w3"
  OBVIOUS
<1>2. a # b /\ c \notin {a} \cup {b} /\ {a} \cup {b} \cup {c} = FeedForwardOps
  BY <1>1 DEF FeedForwardOps
<1>3. DistinctIn(Weight(a, l, e), WeightSet({a}, {l}, {e}))
  BY OneWeight
<1>4. DistinctIn(Weight(a, l, e) \o Weight(b, l, e), WeightSet({a} \cup {b}, {l}, {e}))
  BY <1>2, <1>3, AddWeight
<1>5. DistinctIn(Weight(a, l, e) \o Weight(b, l, e) \o Weight(c, l, e),
                 WeightSet({a} \cup {b} \cup {c}, {l}, {e}))
  BY ONLY <1>2, <1>4, AddWeight
<1> QED
  BY ONLY <1>1, <1>2, <1>5 DEF FeedForward

\* The experts differ in nothing else.
LEMMA ExpertsDistinct ==
  ASSUME NEW l, NEW n \in Nat
  PROVE  DistinctIn(FlattenSeq([e \in 1 .. n |-> FeedForward(l, e - 1)]),
                    WeightSet(FeedForwardOps, {l}, Nat))
<1>1. PICK ss, S : /\ ss = [e \in 1 .. n |-> FeedForward(l, e - 1)]
                   /\ S = [e \in 1 .. n |-> WeightSet(FeedForwardOps, {l}, {e - 1})]
  OBVIOUS
<1>2. Len(ss) = n /\ (n = 0 => ss = <<>>)
  BY <1>1
<1>3. \A e \in 1 .. n : DistinctIn(ss[e], S[e])
  BY <1>1, FeedForwardDistinct
<1>4. \A e, d \in 1 .. n : e < d => S[e] \cap S[d] = {}
  BY <1>1 DEF WeightSet
<1>5. DistinctIn(FlattenSeq(ss), UNION {S[e] : e \in 1 .. n})
  BY ONLY <1>2, <1>3, <1>4, n \in Nat, FlattenDistinct
<1>6. UNION {S[e] : e \in 1 .. n} \subseteq WeightSet(FeedForwardOps, {l}, Nat)
  BY <1>1 DEF WeightSet
<1> QED
  BY ONLY <1>1, <1>5, <1>6, WidenDistinct

LEMMA ModelType ==
  ASSUME NEW m \in Models
  PROVE  /\ m.nLayers \in Nat \ {0} /\ m.nExperts \in Nat
         /\ IsTopology(m.topology) /\ m.topology.nNodes \in Nat \ {0}
<1>1. PICK t \in Topologies, l \in Layers, e \in Experts :
        m = [topology |-> t, nLayers |-> l, nExperts |-> e]
  BY DEF Models
<1>2. PICK n \in 1 .. MaxNodes, pp \in 1 .. MaxNodes, sp \in 1 .. MaxNodes :
        t = CreateTopology(n, pp, sp) /\ CanCreate(t.nNodes, t.ppSize, t.spSize)
  BY DEF Topologies
<1>3. n \in Nat \ {0} /\ pp \in Nat /\ sp \in Nat /\ t.nNodes = n /\ CanCreate(n, pp, sp)
  BY <1>2, ModelLoadingAssumption DEF CreateTopology
<1>4. IsTopology(t)
  BY <1>2, <1>3 DEF IsTopology
<1> QED
  BY <1>1, <1>3, <1>4, ModelLoadingAssumption

LayerOps ==
  {"block_matmul_q", "block_matmul_k", "block_matmul_v", "block_matmul_wo", "block_moe_gate",
   "block_matmul_w1", "block_matmul_w2", "block_matmul_w3", "block_norm_q", "block_norm_k",
   "block_norm_0", "block_norm_1"}

LEMMA LayerDistinct ==
  ASSUME NEW m \in Models, NEW l
  PROVE  DistinctIn(LayerWeights(m, l), WeightSet(LayerOps, {l}, Nat))
<1>1. PICK q, k, v, wo, g, nq, nk, n0, n1, F :
        /\ q = "block_matmul_q" /\ k = "block_matmul_k" /\ v = "block_matmul_v"
        /\ wo = "block_matmul_wo" /\ g = "block_moe_gate" /\ nq = "block_norm_q"
        /\ nk = "block_norm_k" /\ n0 = "block_norm_0" /\ n1 = "block_norm_1"
        /\ F = FeedForwardOps
  OBVIOUS
<1> DEFINE I == {g} \cup F \cup {nq} \cup {nk}
           A == {q} \cup {k} \cup {v} \cup {wo}
           middle == IF m.nExperts > 0
                     THEN Weight(g, l, 0)
                          \o FlattenSeq([e \in 1 .. m.nExperts |-> FeedForward(l, e - 1)])
                          \o Weight(nq, l, 0) \o Weight(nk, l, 0)
                     ELSE FeedForward(l, 0)
<1>2. /\ {g} \cap F = {} /\ nq \notin {g} \cup F /\ nk \notin {g} \cup F \cup {nq}
      /\ k \notin {q} /\ v \notin {q} \cup {k} /\ wo \notin {q} \cup {k} \cup {v}
      /\ A \cap I = {} /\ n0 \notin A \cup I /\ n1 \notin A \cup I \cup {n0}
      /\ A \cup I \cup {n0} \cup {n1} = LayerOps
  BY <1>1 DEF FeedForwardOps, LayerOps
<1>3. l \in {l} /\ 0 \in Nat
  OBVIOUS
<1>4. DistinctIn(middle, WeightSet(I, {l}, Nat))
  <2>1. CASE m.nExperts > 0
    <3>1. PICK x : x = FlattenSeq([e \in 1 .. m.nExperts |-> FeedForward(l, e - 1)])
      OBVIOUS
    <3>2. DistinctIn(x, WeightSet(F, {l}, Nat))
      BY <3>1, <1>1, ModelType, ExpertsDistinct
    <3>3. DistinctIn(Weight(g, l, 0), WeightSet({g}, {l}, Nat))
      BY ONLY <1>3, OneWeight
    <3>4. DistinctIn(Weight(g, l, 0) \o x, WeightSet({g} \cup F, {l}, Nat))
      BY ONLY <3>2, <3>3, <1>2, JoinWeights
    <3>5. DistinctIn(Weight(g, l, 0) \o x \o Weight(nq, l, 0), WeightSet({g} \cup F \cup {nq}, {l}, Nat))
      BY ONLY <3>4, <1>2, <1>3, AddWeight
    <3>6. DistinctIn(Weight(g, l, 0) \o x \o Weight(nq, l, 0) \o Weight(nk, l, 0),
                     WeightSet(I, {l}, Nat))
      BY ONLY <3>5, <1>2, <1>3, AddWeight
    <3> QED
      BY <2>1, <3>1, <3>6
  <2>2. CASE ~(m.nExperts > 0)
    <3>1. DistinctIn(FeedForward(l, 0), WeightSet(F, {l}, {0}))
      BY <1>1, FeedForwardDistinct
    <3>2. WeightSet(F, {l}, {0}) \subseteq WeightSet(I, {l}, Nat)
      BY DEF WeightSet
    <3>3. DistinctIn(FeedForward(l, 0), WeightSet(I, {l}, Nat))
      BY ONLY <3>1, <3>2, WidenDistinct
    <3> QED
      BY <2>2, <3>3
  <2> QED
    BY <2>1, <2>2
<1> HIDE DEF I, middle
<1>5. DistinctIn(Weight(q, l, 0), WeightSet({q}, {l}, Nat))
  BY ONLY <1>3, OneWeight
<1>6. DistinctIn(Weight(q, l, 0) \o Weight(k, l, 0), WeightSet({q} \cup {k}, {l}, Nat))
  BY ONLY <1>5, <1>2, <1>3, AddWeight
<1>7. DistinctIn(Weight(q, l, 0) \o Weight(k, l, 0) \o Weight(v, l, 0),
                 WeightSet({q} \cup {k} \cup {v}, {l}, Nat))
  BY ONLY <1>6, <1>2, <1>3, AddWeight
<1>8. DistinctIn(Weight(q, l, 0) \o Weight(k, l, 0) \o Weight(v, l, 0) \o Weight(wo, l, 0),
                 WeightSet(A, {l}, Nat))
  BY ONLY <1>7, <1>2, <1>3, AddWeight
<1> HIDE DEF A
<1>9. DistinctIn(Weight(q, l, 0) \o Weight(k, l, 0) \o Weight(v, l, 0) \o Weight(wo, l, 0) \o middle,
                 WeightSet(A \cup I, {l}, Nat))
  BY ONLY <1>4, <1>8, <1>2, JoinWeights
<1>10. DistinctIn(Weight(q, l, 0) \o Weight(k, l, 0) \o Weight(v, l, 0) \o Weight(wo, l, 0) \o middle
                    \o Weight(n0, l, 0), WeightSet(A \cup I \cup {n0}, {l}, Nat))
  BY ONLY <1>9, <1>2, <1>3, AddWeight
<1>11. DistinctIn(Weight(q, l, 0) \o Weight(k, l, 0) \o Weight(v, l, 0) \o Weight(wo, l, 0) \o middle
                    \o Weight(n0, l, 0) \o Weight(n1, l, 0),
                  WeightSet(A \cup I \cup {n0} \cup {n1}, {l}, Nat))
  BY ONLY <1>10, <1>2, <1>3, AddWeight
<1> QED
  BY ONLY <1>1, <1>2, <1>11 DEF LayerWeights, middle

AllOps == LayerOps \cup {"embedding", "final_norm", "final_matmul_logits"}

Weights(m) == WeightSet(AllOps, 0 .. m.nLayers - 1, Nat)

\* No weight is twice in the file.
LEMMA FileDistinct ==
  ASSUME NEW m \in Models
  PROVE  DistinctIn(FileOrder(m), Weights(m))
<1>1. PICK n \in Nat \ {0} : n = m.nLayers
  BY ModelType
<1>2. PICK ss, S, L : /\ ss = [l \in 1 .. n |-> LayerWeights(m, l - 1)]
                      /\ S = [l \in 1 .. n |-> WeightSet(LayerOps, {l - 1}, Nat)]
                      /\ L = 0 .. n - 1
  OBVIOUS
<1>3. Len(ss) = n /\ (n = 0 => ss = <<>>) /\ 0 \in L /\ 0 \in Nat
  BY <1>2
<1>4. \A l \in 1 .. n : DistinctIn(ss[l], S[l])
  BY <1>2, LayerDistinct
<1>5. \A l, k \in 1 .. n : l < k => S[l] \cap S[k] = {}
  BY <1>2 DEF WeightSet
<1>6. DistinctIn(FlattenSeq(ss), UNION {S[l] : l \in 1 .. n})
  BY ONLY <1>3, <1>4, <1>5, n \in Nat \ {0}, FlattenDistinct
<1>7. UNION {S[l] : l \in 1 .. n} \subseteq WeightSet(LayerOps, L, Nat)
  BY <1>2 DEF WeightSet
<1>8. DistinctIn(FlattenSeq(ss), WeightSet(LayerOps, L, Nat))
  BY ONLY <1>6, <1>7, WidenDistinct
<1>9. PICK a, b, c : a = "embedding" /\ b = "final_norm" /\ c = "final_matmul_logits"
  OBVIOUS
<1>10. /\ {a} \cap LayerOps = {} /\ b \notin {a} \cup LayerOps /\ c \notin {a} \cup LayerOps \cup {b}
       /\ {a} \cup LayerOps \cup {b} \cup {c} = AllOps
  BY <1>9 DEF LayerOps, AllOps
<1>11. DistinctIn(Weight(a, 0, 0), WeightSet({a}, L, Nat))
  BY ONLY <1>3, OneWeight
<1>12. DistinctIn(Weight(a, 0, 0) \o FlattenSeq(ss), WeightSet({a} \cup LayerOps, L, Nat))
  BY ONLY <1>8, <1>10, <1>11, JoinWeights
<1>13. DistinctIn(Weight(a, 0, 0) \o FlattenSeq(ss) \o Weight(b, 0, 0),
                  WeightSet({a} \cup LayerOps \cup {b}, L, Nat))
  BY ONLY <1>12, <1>3, <1>10, AddWeight
<1>14. DistinctIn(Weight(a, 0, 0) \o FlattenSeq(ss) \o Weight(b, 0, 0) \o Weight(c, 0, 0),
                  WeightSet({a} \cup LayerOps \cup {b} \cup {c}, L, Nat))
  BY ONLY <1>13, <1>3, <1>10, AddWeight
<1> QED
  BY ONLY <1>1, <1>2, <1>9, <1>10, <1>14 DEF FileOrder, Weights

-----------------------------------------------------------------------------
(* The script.                                                             *)

Delivery(m, n, w) ==
  Do(IF n = Root THEN "load" ELSE "write", n, [name |-> "weight", value |-> Part(m, n, w)])

DeliveriesOf(m, w) == {Delivery(m, n, w) : n \in Nodes(m.topology)}

LEMMA DeliveryFields ==
  ASSUME NEW m, NEW n, NEW w
  PROVE  /\ Delivery(m, n, w).node = n
         /\ Delivery(m, n, w).what = IF n = Root THEN "load" ELSE "write"
         /\ Delivery(m, n, w).data.name = "weight"
         /\ Delivery(m, n, w).data.value = Part(m, n, w)
         /\ Delivery(m, n, w).data.value.weight = w
BY DEF Delivery, Do, Part

\* Every node that receives the weight is given it once.
LEMMA DistributeOnce ==
  ASSUME NEW m \in Models, NEW w
  PROVE  /\ DistinctIn(Distribute(m, w), DeliveriesOf(m, w))
         /\ \A p \in 1 .. Len(Distribute(m, w)) :
              \E n \in Nodes(m.topology) :
                Receives(m.topology, m.nLayers, n, w) /\ Distribute(m, w)[p] = Delivery(m, n, w)
         /\ \A n \in Nodes(m.topology) : Receives(m.topology, m.nLayers, n, w) =>
              \E p \in 1 .. Len(Distribute(m, w)) : Distribute(m, w)[p] = Delivery(m, n, w)
<1>1. PICK k \in Nat \ {0} : k = m.topology.nNodes /\ Nodes(m.topology) = 0 .. k - 1
  BY ModelType DEF Nodes
<1> DEFINE Given(n) == Receives(m.topology, m.nLayers, n, w)
<1>2. PICK ss, S : /\ ss = [i \in 1 .. k |-> IF Given(i - 1) THEN Deliver(m, i - 1, w) ELSE <<>>]
                   /\ S = [i \in 1 .. k |-> {Delivery(m, i - 1, w)}]
  OBVIOUS
<1>3. Distribute(m, w) = FlattenSeq(ss)
  BY <1>1, <1>2 DEF Distribute
<1> HIDE DEF Given
<1>4. Len(ss) = k /\ (k = 0 => ss = <<>>)
  BY <1>2
<1>5. \A i \in 1 .. k : ss[i] = IF Given(i - 1) THEN <<Delivery(m, i - 1, w)>> ELSE <<>>
  BY <1>2 DEF Deliver, Delivery
<1>6. ASSUME NEW i \in 1 .. k
      PROVE  DistinctIn(ss[i], S[i]) /\ ss[i] \in Seq(DeliveriesOf(m, w))
  <2>1. PICK d : d = Delivery(m, i - 1, w)
    OBVIOUS
  <2>2. S[i] = {d} /\ {d} \subseteq DeliveriesOf(m, w)
    BY <2>1, <1>1, <1>2 DEF DeliveriesOf
  <2>3. ss[i] = <<d>> \/ ss[i] = <<>>
    BY <2>1, <1>5
  <2>4. DistinctIn(ss[i], {d})
    BY <2>3, OneDistinct, NothingDistinct
  <2>5. DistinctIn(ss[i], DeliveriesOf(m, w))
    BY <2>2, <2>4, WidenDistinct
  <2> QED
    BY <2>2, <2>4, <2>5 DEF DistinctIn
<1>7. \A i, j \in 1 .. k : i < j => S[i] \cap S[j] = {}
  <2> SUFFICES ASSUME NEW i \in 1 .. k, NEW j \in 1 .. k, i < j PROVE S[i] \cap S[j] = {}
    OBVIOUS
  <2>1. Delivery(m, i - 1, w).node = i - 1 /\ Delivery(m, j - 1, w).node = j - 1
    BY DeliveryFields
  <2>2. Delivery(m, i - 1, w) # Delivery(m, j - 1, w)
    BY <2>1
  <2> QED
    BY <2>2, <1>2
<1>15. k \in Nat /\ \A i \in 1 .. k : DistinctIn(ss[i], S[i])
  BY <1>6
<1>8. DistinctIn(FlattenSeq(ss), UNION {S[i] : i \in 1 .. k})
  BY ONLY <1>4, <1>15, <1>7, FlattenDistinct
<1>9. UNION {S[i] : i \in 1 .. k} \subseteq DeliveriesOf(m, w)
  <2> SUFFICES ASSUME NEW i \in 1 .. k PROVE S[i] \subseteq DeliveriesOf(m, w)
    OBVIOUS
  <2>1. i - 1 \in Nodes(m.topology)
    BY <1>1
  <2> QED
    BY <2>1, <1>2 DEF DeliveriesOf
<1>10. MadeOf(FlattenSeq(ss), k, ss)
  <2>1. AreSequences(DeliveriesOf(m, w), k, ss)
    BY <1>4, <1>6 DEF AreSequences
  <2> QED
    BY <2>1, <1>15, FlattenElements
<1>11. /\ \A p \in 1 .. Len(FlattenSeq(ss)) :
            \E i \in 1 .. k : \E j \in 1 .. Len(ss[i]) : FlattenSeq(ss)[p] = ss[i][j]
       /\ \A i \in 1 .. k : \A j \in 1 .. Len(ss[i]) :
            \E p \in 1 .. Len(FlattenSeq(ss)) : FlattenSeq(ss)[p] = ss[i][j]
  BY ONLY <1>10 DEF MadeOf
<1>12. ASSUME NEW p \in 1 .. Len(FlattenSeq(ss))
       PROVE  \E n \in Nodes(m.topology) : Given(n) /\ FlattenSeq(ss)[p] = Delivery(m, n, w)
  <2>0. PICK i \in 1 .. k : \E j \in 1 .. Len(ss[i]) : FlattenSeq(ss)[p] = ss[i][j]
    BY <1>11
  <2>1. PICK j \in 1 .. Len(ss[i]) : FlattenSeq(ss)[p] = ss[i][j]
    BY <2>0
  <2>2. Given(i - 1)
    <3>1. ss[i] # <<>>
      OBVIOUS
    <3> QED
      BY <3>1, <1>5
  <2>3. PICK d : d = Delivery(m, i - 1, w)
    OBVIOUS
  <2>4. ss[i] = <<d>>
    BY <2>2, <2>3, <1>5
  <2>5. ss[i][j] = d
    BY <2>4
  <2>6. i - 1 \in Nodes(m.topology)
    BY <1>1
  <2> QED
    BY <2>1, <2>2, <2>3, <2>5, <2>6
<1>13. ASSUME NEW n \in Nodes(m.topology), Given(n)
       PROVE  \E p \in 1 .. Len(FlattenSeq(ss)) : FlattenSeq(ss)[p] = Delivery(m, n, w)
  <2>1. PICK i \in 1 .. k : i - 1 = n
    <3>1. n + 1 \in 1 .. k /\ (n + 1) - 1 = n
      BY <1>1
    <3> QED
      BY <3>1
  <2>2. PICK d : d = Delivery(m, n, w)
    OBVIOUS
  <2>3. ss[i] = <<d>>
    BY <2>1, <2>2, <1>5, <1>13
  <2>4. 1 \in 1 .. Len(ss[i]) /\ ss[i][1] = d
    BY <2>3
  <2> QED
    BY <2>2, <2>4, <1>11
<1>14. DistinctIn(FlattenSeq(ss), DeliveriesOf(m, w))
  BY <1>8, <1>9, WidenDistinct
<1> QED
  BY ONLY <1>3, <1>12, <1>13, <1>14 DEF Given

Deliveries(m) == FlattenSeq([i \in DOMAIN FileOrder(m) |-> Distribute(m, FileOrder(m)[i])])

AllDeliveries(m) == UNION {DeliveriesOf(m, w) : w \in Weights(m)}

\* s holds the deliveries of the file's weights to the nodes that receive them,
\* each once.
DeliversAll(m, s) ==
  /\ DistinctIn(s, AllDeliveries(m))
  /\ \A p \in 1 .. Len(s) : \E n \in Nodes(m.topology) : \E w \in Range(FileOrder(m)) :
       Receives(m.topology, m.nLayers, n, w) /\ s[p] = Delivery(m, n, w)
  /\ \A n \in Nodes(m.topology) : \A w \in Range(FileOrder(m)) :
       Receives(m.topology, m.nLayers, n, w) => \E p \in 1 .. Len(s) : s[p] = Delivery(m, n, w)

LEMMA FileType ==
  ASSUME NEW m \in Models
  PROVE  Range(FileOrder(m)) \subseteq Weights(m) /\ DOMAIN FileOrder(m) = 1 .. Len(FileOrder(m))
<1>1. FileOrder(m) \in Seq(Weights(m))
  BY FileDistinct DEF DistinctIn
<1>2. DOMAIN FileOrder(m) = 1 .. Len(FileOrder(m))
  BY <1>1, LenProperties
<1>3. \A i \in 1 .. Len(FileOrder(m)) : FileOrder(m)[i] \in Weights(m)
  BY <1>1, ElementOfSeq
<1> QED
  BY <1>2, <1>3 DEF Range

\* The loader gives each weight of the file, or its slice of it, once to each
\* node that receives it and to no other (NnRootWeightLoader, loadLlmNetWeight).
THEOREM DeliveriesOnce ==
  ASSUME NEW m \in Models
  PROVE  DeliversAll(m, Deliveries(m))
<1>0. PICK file : file = FileOrder(m) /\ DistinctIn(file, Weights(m))
  BY FileDistinct
<1>1. PICK k \in Nat :
        /\ k = Len(file) /\ DOMAIN file = 1 .. k /\ file = FileOrder(m)
        /\ \A i \in 1 .. k : file[i] \in Weights(m)
        /\ \A i, j \in 1 .. k : i # j => file[i] # file[j]
  <2>1. file \in Seq(Weights(m)) /\ \A i, j \in 1 .. Len(file) : i # j => file[i] # file[j]
    BY <1>0 DEF DistinctIn
  <2>2. Len(file) \in Nat /\ DOMAIN file = 1 .. Len(file)
    BY <2>1, LenProperties
  <2>3. \A i \in 1 .. Len(file) : file[i] \in Weights(m)
    BY <2>1, ElementOfSeq
  <2> QED
    BY ONLY <1>0, <2>1, <2>2, <2>3
<1>2. PICK ss, S : /\ ss = [i \in 1 .. k |-> Distribute(m, file[i])]
                   /\ S = [i \in 1 .. k |-> DeliveriesOf(m, file[i])]
  OBVIOUS
<1>3. Deliveries(m) = FlattenSeq(ss)
  BY <1>1, <1>2 DEF Deliveries
<1>4. Len(ss) = k /\ (k = 0 => ss = <<>>) /\ \A i \in 1 .. k : ss[i] = Distribute(m, file[i])
  BY <1>2
<1>5. \A i \in 1 .. k : DistinctIn(ss[i], S[i])
  BY <1>2, DistributeOnce
<1>6. \A i, j \in 1 .. k : i < j => S[i] \cap S[j] = {}
  <2> SUFFICES ASSUME NEW i \in 1 .. k, NEW j \in 1 .. k, i < j, NEW d \in S[i] PROVE d \notin S[j]
    OBVIOUS
  <2>1. file[i] # file[j]
    BY <1>1
  <2>2. \A x \in 1 .. k : d \in S[x] => d.data.value.weight = file[x]
    BY DeliveryFields, <1>2 DEF DeliveriesOf
  <2> QED
    BY <2>1, <2>2
<1>7. DistinctIn(FlattenSeq(ss), UNION {S[i] : i \in 1 .. k})
  BY ONLY <1>4, <1>5, <1>6, k \in Nat, FlattenDistinct
<1>8. \A i \in 1 .. k : S[i] \subseteq AllDeliveries(m)
  BY <1>1, <1>2 DEF AllDeliveries
<1>9. DistinctIn(FlattenSeq(ss), AllDeliveries(m))
  <2>1. UNION {S[i] : i \in 1 .. k} \subseteq AllDeliveries(m)
    BY <1>8
  <2> QED
    BY ONLY <2>1, <1>7, WidenDistinct
<1>10. MadeOf(FlattenSeq(ss), k, ss)
  <2>1. \A i \in 1 .. k : ss[i] \in Seq(S[i])
    BY <1>5 DEF DistinctIn
  <2>2. \A i \in 1 .. k : ss[i] \in Seq(AllDeliveries(m))
    BY <2>1, <1>8, SeqMonotonic
  <2>3. AreSequences(AllDeliveries(m), k, ss)
    BY <2>2, <1>4 DEF AreSequences
  <2> QED
    BY <2>3, FlattenElements
<1>11. ASSUME NEW p \in 1 .. Len(FlattenSeq(ss))
       PROVE  \E n \in Nodes(m.topology) : \E w \in Range(file) :
                Receives(m.topology, m.nLayers, n, w) /\ FlattenSeq(ss)[p] = Delivery(m, n, w)
  <2>1. PICK i \in 1 .. k : \E j \in 1 .. Len(ss[i]) : FlattenSeq(ss)[p] = ss[i][j]
    BY <1>10 DEF MadeOf
  <2>2. PICK j \in 1 .. Len(ss[i]) : FlattenSeq(ss)[p] = ss[i][j]
    BY <2>1
  <2>3. PICK s, w : s = ss[i] /\ w = file[i] /\ s = Distribute(m, w)
    BY <1>4
  <2>4. PICK n \in Nodes(m.topology) :
          Receives(m.topology, m.nLayers, n, w) /\ s[j] = Delivery(m, n, w)
    BY <2>3, DistributeOnce
  <2>5. w \in Range(file)
    BY <2>3, <1>1 DEF Range
  <2> QED
    BY <2>2, <2>3, <2>4, <2>5
<1>12. ASSUME NEW n \in Nodes(m.topology), NEW w \in Range(file),
              Receives(m.topology, m.nLayers, n, w)
       PROVE  \E p \in 1 .. Len(FlattenSeq(ss)) : FlattenSeq(ss)[p] = Delivery(m, n, w)
  <2>1. PICK i \in 1 .. k : w = file[i]
    BY <1>1 DEF Range
  <2>2. PICK s : s = ss[i] /\ s = Distribute(m, w)
    BY <2>1, <1>4
  <2>3. PICK j \in 1 .. Len(s) : s[j] = Delivery(m, n, w)
    BY <2>2, <1>12, DistributeOnce
  <2>4. \E p \in 1 .. Len(FlattenSeq(ss)) : FlattenSeq(ss)[p] = ss[i][j]
    BY <2>2, <1>10 DEF MadeOf
  <2> QED
    BY <2>2, <2>3, <2>4
<1> QED
  BY ONLY <1>1, <1>3, <1>9, <1>11, <1>12 DEF DeliversAll

\* A configuration has at least the field "ack".
-----------------------------------------------------------------------------
(* The root's script: where each handshake, weight and farewell is.        *)

LEMMA StillSome ==
  ASSUME NEW V, NEW a \in Seq(V), a # <<>>, NEW b \in Seq(V)
  PROVE  a \o b \in Seq(V) /\ a \o b # <<>>
<1>1. Len(a) \in Nat /\ Len(b) \in Nat /\ Len(a) # 0
  BY LenProperties, EmptySeq
<1>2. a \o b \in Seq(V) /\ Len(a \o b) = Len(a) + Len(b)
  BY ConcatProperties
<1>3. Len(a \o b) # Len(<<>>)
  BY <1>1, <1>2, EmptySeq
<1> QED
  BY <1>2, <1>3, Zenon

LEMMA FieldsAre ==
  ASSUME NEW names \in Seq(Others)
  PROVE  Fields(names) \in Seq(FieldSet)
<1>1. names \in Seq(Names)
  BY SeqMonotonic DEF Names
<1> QED
  BY <1>1, FieldsType

LEMMA CountIs ==
  ASSUME NEW x \in Counts, NEW v \in Nat
  PROVE  Count(x, v) \in Seq(FieldSet)
<1>1. PICK y : y = [name |-> x, value |-> v]
  OBVIOUS
<1>2. y \in FieldSet
  BY <1>1 DEF FieldSet, Names
<1>3. <<y>> \in Seq(FieldSet)
  BY ONLY <1>2, Single
<1> QED
  BY ONLY <1>1, <1>3 DEF Count

LEMMA AckFirst == Field("ack") \in Seq(FieldSet) /\ Field("ack") # <<>>
<1>1. PICK a \in Seq(Others) : a = <<"ack">> /\ Len(a) = 1
  <2>1. PICK x : x = "ack"
    OBVIOUS
  <2>2. x \in Others
    BY <2>1 DEF Others
  <2> QED
    BY <2>1, <2>2, Single
<1>2. a \in Seq(Names)
  BY <1>1, SeqMonotonic DEF Names
<1>3. Fields(a) \in Seq(FieldSet) /\ Len(Fields(a)) = 1
  BY <1>1, <1>2, FieldsType
<1>4. Fields(a) # <<>>
  <2>1. Len(Fields(a)) # Len(<<>>)
    BY <1>3, EmptySeq
  <2> QED
    BY <2>1, Zenon
<1> QED
  BY <1>1, <1>3, <1>4 DEF Field

LEMMA NetSome == NetFields \in Seq(FieldSet) /\ NetFields # <<>>
<1>1. PICK a, b, c, d, e, f :
        /\ a = Field("ack") /\ b = Fields(<<"nBatches", "nNodes">>)
        /\ c = Count("nPipes", Net.pipes) /\ d = Times(Net.pipes, Fields(<<"size", "name">>))
        /\ e = Count("nPreSyncs", Net.preSyncs)
        /\ f = Times(Net.preSyncs, Fields(<<"pipeIndex">>))
  OBVIOUS
<1>2. /\ "nPipes" \in Counts /\ "nPreSyncs" \in Counts
      /\ Net.pipes \in Nat /\ Net.preSyncs \in Nat
  BY ModelLoadingAssumption DEF Counts
<1>3. a \in Seq(FieldSet) /\ a # <<>> /\ b \in Seq(FieldSet)
  BY <1>1, AckFirst, NetTypes, FieldsAre
<1>4. c \in Seq(FieldSet) /\ e \in Seq(FieldSet)
  BY <1>1, <1>2, CountIs
<1>5. d \in Seq(FieldSet) /\ f \in Seq(FieldSet)
  BY <1>1, <1>2, NetTypes, FieldsAre, TimesType
<1>6. a \o b \in Seq(FieldSet) /\ a \o b # <<>>
  BY ONLY <1>3, StillSome
<1>7. a \o b \o c \in Seq(FieldSet) /\ a \o b \o c # <<>>
  BY ONLY <1>4, <1>6, StillSome
<1>8. a \o b \o c \o d \in Seq(FieldSet) /\ a \o b \o c \o d # <<>>
  BY ONLY <1>5, <1>7, StillSome
<1>9. a \o b \o c \o d \o e \in Seq(FieldSet) /\ a \o b \o c \o d \o e # <<>>
  BY ONLY <1>4, <1>8, StillSome
<1>10. a \o b \o c \o d \o e \o f \in Seq(FieldSet) /\ a \o b \o c \o d \o e \o f # <<>>
  BY ONLY <1>5, <1>9, StillSome
<1> QED
  BY ONLY <1>1, <1>10 DEF NetFields

LEMMA NodeSome == NodeFields \in Seq(FieldSet) /\ NodeFields # <<>>
<1>1. PICK a, b, c, d, e, f :
        /\ a = Field("ack") /\ b = Fields(RankFields)
        /\ c = Count("nBuffers", Node.buffers) /\ d = Count("nSegments", Len(Node.segments))
        /\ e = Times(Node.buffers, Fields(<<"size", "name">>))
        /\ f = FlattenSeq([i \in DOMAIN Node.segments |-> SegmentFields(Node.segments[i])])
  OBVIOUS
<1>2. PICK segments \in Seq(Segment) : segments = Node.segments
  BY ModelLoadingAssumption DEF Segment
<1>3. /\ "nBuffers" \in Counts /\ "nSegments" \in Counts
      /\ Node.buffers \in Nat /\ Len(segments) \in Nat
  BY ModelLoadingAssumption, LenProperties DEF Counts
<1>4. a \in Seq(FieldSet) /\ a # <<>> /\ b \in Seq(FieldSet)
  BY <1>1, AckFirst, NetTypes, FieldsAre
<1>5. c \in Seq(FieldSet) /\ d \in Seq(FieldSet)
  BY <1>1, <1>2, <1>3, CountIs
<1>6. e \in Seq(FieldSet)
  BY <1>1, <1>3, NetTypes, FieldsAre, TimesType
<1>7. f \in Seq(FieldSet)
  <2>1. PICK n \in Nat : /\ n = Len(segments) /\ DOMAIN segments = 1 .. n
                         /\ \A k \in 1 .. n : segments[k] \in Segment
    BY LenProperties, ElementOfSeq
  <2>2. PICK fs : fs = [i \in 1 .. n |-> SegmentFields(segments[i])]
    OBVIOUS
  <2>3. \A k \in 1 .. n : fs[k] \in Seq(FieldSet)
    <3>1. \A s \in Segment : SegmentFields(s) \in Seq(FieldSet)
      BY SegmentFollows, FollowsType, SomeCounts, Zenon
    <3> QED
      BY <3>1, <2>1, <2>2
  <2>4. Len(fs) = n /\ (n = 0 => fs = <<>>)
    BY <2>2
  <2>5. AreSequences(FieldSet, n, fs)
    BY <2>3, <2>4 DEF AreSequences
  <2>6. FlattenSeq(fs) \in Seq(FieldSet)
    BY <2>5, FlattenElements
  <2> QED
    BY ONLY <2>1, <2>2, <2>6, <1>1, <1>2
<1>8. a \o b \in Seq(FieldSet) /\ a \o b # <<>>
  BY ONLY <1>4, StillSome
<1>9. a \o b \o c \in Seq(FieldSet) /\ a \o b \o c # <<>>
  BY ONLY <1>5, <1>8, StillSome
<1>10. a \o b \o c \o d \in Seq(FieldSet) /\ a \o b \o c \o d # <<>>
  BY ONLY <1>5, <1>9, StillSome
<1>11. a \o b \o c \o d \o e \in Seq(FieldSet) /\ a \o b \o c \o d \o e # <<>>
  BY ONLY <1>6, <1>10, StillSome
<1>12. a \o b \o c \o d \o e \o f \in Seq(FieldSet) /\ a \o b \o c \o d \o e \o f # <<>>
  BY ONLY <1>7, <1>11, StillSome
<1> QED
  BY ONLY <1>1, <1>12 DEF NodeFields

Zero        == [name |-> "zero", value |-> 0]
ConfigMoves == [what : {"write", "readAck"}, node : Nat, data : FieldSet \cup {0, Zero}]

NetLen       == Len(NetFields)
NodeLen      == Len(NodeFields)
HandshakeLen == NetLen + NodeLen + 2

Handshake(w) == Write(w, NetFields) \o ReadAck(w) \o Write(w, NodeFields) \o ReadAck(w)
Farewell(w)  == Write(w, Field("zero")) \o ReadAck(w)

LEMMA WriteMoves ==
  ASSUME NEW w \in Nat, NEW fields \in Seq(FieldSet)
  PROVE  /\ Write(w, fields) \in Seq(ConfigMoves) /\ Len(Write(w, fields)) = Len(fields)
         /\ \A i \in 1 .. Len(fields) : Write(w, fields)[i] = Do("write", w, fields[i])
<1>1. PICK n \in Nat : n = Len(fields) /\ DOMAIN fields = 1 .. n /\ \A i \in 1 .. n : fields[i] \in FieldSet
  BY LenProperties, ElementOfSeq
<1>2. Write(w, fields) = [i \in 1 .. n |-> Do("write", w, fields[i])]
  BY <1>1 DEF Write
<1>3. \A i \in 1 .. n : Do("write", w, fields[i]) \in ConfigMoves
  BY <1>1 DEF Do, ConfigMoves
<1> QED
  BY ONLY <1>1, <1>2, <1>3

LEMMA ReadAckMove ==
  ASSUME NEW w \in Nat
  PROVE  ReadAck(w) \in Seq(ConfigMoves) /\ Len(ReadAck(w)) = 1 /\ ReadAck(w)[1] = Do("readAck", w, 0)
<1>1. PICK a : a = Do("readAck", w, 0)
  OBVIOUS
<1>2. a \in ConfigMoves
  BY <1>1 DEF Do, ConfigMoves
<1> QED
  BY ONLY <1>1, <1>2, Single DEF ReadAck

LEMMA Lengths == NetLen \in Nat \ {0} /\ NodeLen \in Nat \ {0} /\ HandshakeLen \in Nat
<1>1. NetLen \in Nat \ {0} /\ NodeLen \in Nat \ {0}
  BY NetSome, NodeSome, EmptySeq DEF NetLen, NodeLen
<1> QED
  BY <1>1 DEF HandshakeLen

\* Where the elements of a concatenation are.
IsJoin(V, a, b, x, y, c) ==
  /\ c \in Seq(V) /\ c = a \o b /\ Len(c) = x + y
  /\ \A i \in 1 .. x : c[i] = a[i]
  /\ \A i \in 1 .. y : c[x + i] = b[i]

LEMMA Joined ==
  ASSUME NEW V, NEW a \in Seq(V), NEW b \in Seq(V), NEW x \in Nat, NEW y \in Nat,
         Len(a) = x, Len(b) = y
  PROVE  \E c : IsJoin(V, a, b, x, y, c)
<1>1. PICK c \in Seq(V) : c = a \o b
  BY ConcatProperties
<1>2. /\ Len(c) = x + y
      /\ \A i \in 1 .. x + y : c[i] = IF i <= x THEN a[i] ELSE b[i - x]
  BY <1>1, ConcatProperties
<1>3. \A i \in 1 .. y : x + i \in 1 .. x + y /\ ~(x + i <= x) /\ (x + i) - x = i
  OBVIOUS
<1>4. \A i \in 1 .. x : i \in 1 .. x + y /\ i <= x
  OBVIOUS
<1>5. \A i \in 1 .. x : c[i] = a[i]
  BY ONLY <1>2, <1>4
<1>6. \A i \in 1 .. y : c[x + i] = b[i]
  BY ONLY <1>2, <1>3
<1> QED
  BY ONLY <1>1, <1>2, <1>5, <1>6, c \in Seq(V) DEF IsJoin

LEMMA TwoOf ==
  ASSUME NEW V, NEW a \in V, NEW b \in V
  PROVE  /\ <<a>> \o <<b>> \in Seq(V) /\ Len(<<a>> \o <<b>>) = 2
         /\ (<<a>> \o <<b>>)[1] = a /\ (<<a>> \o <<b>>)[2] = b
<1>1. PICK s \in Seq(V) : s = <<a>> /\ Len(s) = 1 /\ s[1] = a
  BY Single
<1>2. PICK t \in Seq(V) : t = <<b>> /\ Len(t) = 1 /\ t[1] = b
  BY Single
<1>3. PICK c : IsJoin(V, s, t, 1, 1, c)
  BY <1>1, <1>2, Joined
<1>4. c \in Seq(V) /\ c = s \o t /\ Len(c) = 2 /\ c[1] = a /\ c[2] = b
  BY <1>1, <1>2, <1>3 DEF IsJoin
<1> QED
  BY ONLY <1>1, <1>2, <1>4

LEMMA HandshakeMoves ==
  ASSUME NEW w \in Nat
  PROVE  /\ Handshake(w) \in Seq(ConfigMoves) /\ Len(Handshake(w)) = HandshakeLen
         /\ \A i \in 1 .. NetLen : Handshake(w)[i] = Do("write", w, NetFields[i])
         /\ Handshake(w)[NetLen + 1] = Do("readAck", w, 0)
         /\ \A i \in 1 .. NodeLen : Handshake(w)[NetLen + 1 + i] = Do("write", w, NodeFields[i])
         /\ Handshake(w)[HandshakeLen] = Do("readAck", w, 0)
<1>1. PICK x \in Nat, y \in Nat : x = NetLen /\ y = NodeLen
  BY Lengths
<1>2. PICK a \in Seq(ConfigMoves) :
        a = Write(w, NetFields) /\ Len(a) = x /\ \A i \in 1 .. x : a[i] = Do("write", w, NetFields[i])
  BY <1>1, NetSome, WriteMoves DEF NetLen
<1>3. PICK b \in Seq(ConfigMoves) : b = ReadAck(w) /\ Len(b) = 1 /\ b[1] = Do("readAck", w, 0)
  BY ReadAckMove
<1>4. PICK c \in Seq(ConfigMoves) :
        c = Write(w, NodeFields) /\ Len(c) = y /\ \A i \in 1 .. y : c[i] = Do("write", w, NodeFields[i])
  BY <1>1, NodeSome, WriteMoves DEF NodeLen
<1>0. 1 \in Nat /\ 1 \in 1 .. 1 /\ x + 1 \in Nat /\ x + 1 + y \in Nat
  OBVIOUS
<1>5. PICK d : IsJoin(ConfigMoves, a, b, x, 1, d)
  BY <1>0, <1>2, <1>3, Joined
<1>14. /\ d \in Seq(ConfigMoves) /\ d = a \o b /\ Len(d) = x + 1
       /\ \A i \in 1 .. x : d[i] = a[i]
       /\ d[x + 1] = b[1]
  BY <1>0, <1>5 DEF IsJoin
<1>6. PICK e : IsJoin(ConfigMoves, d, c, x + 1, y, e)
  BY <1>0, <1>4, <1>14, Joined
<1>15. /\ e \in Seq(ConfigMoves) /\ e = d \o c /\ Len(e) = x + 1 + y
       /\ \A i \in 1 .. x + 1 : e[i] = d[i]
       /\ \A i \in 1 .. y : e[x + 1 + i] = c[i]
  BY <1>6 DEF IsJoin
<1>7. PICK f : IsJoin(ConfigMoves, e, b, x + 1 + y, 1, f)
  BY <1>0, <1>3, <1>15, Joined
<1>16. /\ f \in Seq(ConfigMoves) /\ f = e \o b /\ Len(f) = x + 1 + y + 1
       /\ \A i \in 1 .. x + 1 + y : f[i] = e[i]
       /\ f[x + 1 + y + 1] = b[1]
  BY <1>0, <1>7 DEF IsJoin
<1>8. Handshake(w) = f
  BY ONLY <1>2, <1>3, <1>4, <1>14, <1>15, <1>16 DEF Handshake
<1>9. HandshakeLen = x + 1 + y + 1
  BY <1>1 DEF HandshakeLen
<1>10. ASSUME NEW i \in 1 .. x
       PROVE  f[i] = Do("write", w, NetFields[i])
  <2>1. i \in 1 .. x + 1 /\ i \in 1 .. x + 1 + y
    OBVIOUS
  <2>2. f[i] = e[i] /\ e[i] = d[i] /\ d[i] = a[i]
    BY <2>1, <1>14, <1>15, <1>16
  <2> QED
    BY ONLY <2>2, <1>2, i \in 1 .. x
<1>11. f[x + 1] = Do("readAck", w, 0)
  <2>1. x + 1 \in 1 .. x + 1 /\ x + 1 \in 1 .. x + 1 + y
    OBVIOUS
  <2>2. f[x + 1] = e[x + 1] /\ e[x + 1] = d[x + 1]
    BY <2>1, <1>15, <1>16
  <2> QED
    BY ONLY <2>2, <1>3, <1>14
<1>12. ASSUME NEW i \in 1 .. y
       PROVE  f[x + 1 + i] = Do("write", w, NodeFields[i])
  <2>1. x + 1 + i \in 1 .. x + 1 + y
    OBVIOUS
  <2>2. f[x + 1 + i] = e[x + 1 + i] /\ e[x + 1 + i] = c[i]
    BY <2>1, <1>15, <1>16
  <2> QED
    BY ONLY <2>2, <1>4, i \in 1 .. y
<1>13. f[x + 1 + y + 1] = Do("readAck", w, 0)
  BY ONLY <1>3, <1>16
<1> QED
  BY ONLY <1>1, <1>8, <1>9, <1>10, <1>11, <1>12, <1>13, <1>16

LEMMA FarewellMoves ==
  ASSUME NEW w \in Nat
  PROVE  /\ Farewell(w) \in Seq(ConfigMoves) /\ Len(Farewell(w)) = 2
         /\ Farewell(w)[1] = Do("write", w, Zero) /\ Farewell(w)[2] = Do("readAck", w, 0)
<1>1. PICK a, b : a = Do("write", w, Zero) /\ b = Do("readAck", w, 0)
  OBVIOUS
<1>2. a \in ConfigMoves /\ b \in ConfigMoves
  BY <1>1 DEF Do, ConfigMoves
<1>3. Write(w, Field("zero")) = <<a>>
  BY <1>1 DEF Write, Field, Fields, Zero
<1>4. ReadAck(w) = <<b>>
  BY <1>1 DEF ReadAck
<1>5. Farewell(w) = <<a>> \o <<b>>
  BY <1>3, <1>4 DEF Farewell
<1> QED
  BY ONLY <1>1, <1>2, <1>5, TwoOf

\* Where the root begins with worker w, ends with the configurations, ends with
\* the weights, and tells worker w that it has ended.
Base(w)       == (w - 1) * HandshakeLen
Configured(m) == (m.topology.nNodes - 1) * HandshakeLen
Delivered(m)  == Configured(m) + Len(Deliveries(m))
End(m, w)     == Delivered(m) + (2 * (w - 1) + 1)

\* What each place of the script s holds.
IsScript(m, s) ==
  /\ Len(s) = Delivered(m) + 2 * (m.topology.nNodes - 1)
  /\ \A w \in Workers(m) : \A i \in 1 .. HandshakeLen : s[Base(w) + i] = Handshake(w)[i]
  /\ \A i \in 1 .. Len(Deliveries(m)) : s[Configured(m) + i] = Deliveries(m)[i]
  /\ \A w \in Workers(m) : s[End(m, w)] = Farewell(w)[1] /\ s[End(m, w) + 1] = Farewell(w)[2]

LEMMA WorkersAre ==
  ASSUME NEW m \in Models
  PROVE  /\ Workers(m) = 1 .. m.topology.nNodes - 1 /\ m.topology.nNodes - 1 \in Nat
         /\ Nodes(m.topology) = Workers(m) \cup {Root} /\ Root \notin Workers(m)
<1>1. PICK k \in Nat \ {0} : k = m.topology.nNodes
  BY ModelType
<1> QED
  BY <1>1 DEF Workers, Nodes, Root

LEMMA HandshakesMoves ==
  ASSUME NEW m \in Models, NEW n \in Nat, n = m.topology.nNodes - 1
  PROVE  /\ WriteToWorkers(m) \in Seq(ConfigMoves)
         /\ Len(WriteToWorkers(m)) = n * HandshakeLen
         /\ \A w \in 1 .. n, i \in 1 .. HandshakeLen :
              WriteToWorkers(m)[(w - 1) * HandshakeLen + i] = Handshake(w)[i]
<1>1. PICK ss : ss = [w \in 1 .. n |-> Handshake(w)]
  OBVIOUS
<1>2. Len(ss) = n /\ (n = 0 => ss = <<>>) /\ \A w \in 1 .. n : ss[w] = Handshake(w)
  BY <1>1
<1>3. \A w \in 1 .. n : ss[w] \in Seq(ConfigMoves) /\ Len(ss[w]) = HandshakeLen
  BY <1>2, HandshakeMoves
<1>4. AreSequences(ConfigMoves, n, ss)
  BY <1>2, <1>3 DEF AreSequences
<1>5. Chunked(ConfigMoves, n, HandshakeLen, ss, FlattenSeq(ss))
  BY <1>3, <1>4, Lengths, FlattenChunks
<1>6. WriteToWorkers(m) = FlattenSeq(ss)
  BY <1>1 DEF WriteToWorkers, Handshake
<1> QED
  BY ONLY <1>2, <1>5, <1>6 DEF Chunked

LEMMA FarewellsMoves ==
  ASSUME NEW m \in Models, NEW n \in Nat, n = m.topology.nNodes - 1
  PROVE  /\ Finish(m) \in Seq(ConfigMoves)
         /\ Len(Finish(m)) = n * 2
         /\ \A w \in 1 .. n, i \in 1 .. 2 : Finish(m)[(w - 1) * 2 + i] = Farewell(w)[i]
<1>1. PICK ss : ss = [w \in 1 .. n |-> Farewell(w)]
  OBVIOUS
<1>2. Len(ss) = n /\ (n = 0 => ss = <<>>) /\ \A w \in 1 .. n : ss[w] = Farewell(w)
  BY <1>1
<1>3. \A w \in 1 .. n : ss[w] \in Seq(ConfigMoves) /\ Len(ss[w]) = 2
  BY <1>2, FarewellMoves
<1>4. AreSequences(ConfigMoves, n, ss)
  BY <1>2, <1>3 DEF AreSequences
<1>5. Chunked(ConfigMoves, n, 2, ss, FlattenSeq(ss))
  BY <1>3, <1>4, FlattenChunks
<1>6. Finish(m) = FlattenSeq(ss)
  BY <1>1 DEF Finish, Farewell
<1> QED
  BY ONLY <1>2, <1>5, <1>6 DEF Chunked

LEMMA ScriptIs ==
  ASSUME NEW m \in Models
  PROVE  IsScript(m, Script(m))
<1>1. PICK n \in Nat : n = m.topology.nNodes - 1 /\ Workers(m) = 1 .. n
  BY WorkersAre
<1>2. PICK L \in Nat, p \in Nat : L = HandshakeLen /\ p = n * L
  BY Lengths, Product
<1>3. PICK V : V = ConfigMoves \cup AllDeliveries(m)
  OBVIOUS
<1>4. PICK a : a = WriteToWorkers(m) /\ a \in Seq(V) /\ Len(a) = p
               /\ \A w \in 1 .. n, i \in 1 .. L : a[(w - 1) * L + i] = Handshake(w)[i]
  <2>1. PICK b : b = WriteToWorkers(m)
    OBVIOUS
  <2>2. /\ b \in Seq(ConfigMoves) /\ Len(b) = p
        /\ \A w \in 1 .. n, i \in 1 .. L : b[(w - 1) * L + i] = Handshake(w)[i]
    BY ONLY <2>1, <1>1, <1>2, m \in Models, n \in Nat, HandshakesMoves
  <2>3. b \in Seq(V)
    BY <2>2, <1>3, SeqMonotonic
  <2> QED
    BY ONLY <2>1, <2>2, <2>3
<1>5. PICK b : b = Deliveries(m) /\ b \in Seq(V) /\ Len(b) \in Nat
  <2>1. Deliveries(m) \in Seq(AllDeliveries(m))
    BY DeliveriesOnce DEF DeliversAll, DistinctIn
  <2>2. Deliveries(m) \in Seq(V)
    BY <2>1, <1>3, SeqMonotonic
  <2> QED
    BY <2>2, LenProperties
<1>6. PICK c : c = Finish(m) /\ c \in Seq(V) /\ Len(c) = n * 2
               /\ \A w \in 1 .. n, i \in 1 .. 2 : c[(w - 1) * 2 + i] = Farewell(w)[i]
  <2>1. PICK d : d = Finish(m)
    OBVIOUS
  <2>2. /\ d \in Seq(ConfigMoves) /\ Len(d) = n * 2
        /\ \A w \in 1 .. n, i \in 1 .. 2 : d[(w - 1) * 2 + i] = Farewell(w)[i]
    BY ONLY <2>1, <1>1, m \in Models, n \in Nat, FarewellsMoves
  <2>3. d \in Seq(V)
    BY <2>2, <1>3, SeqMonotonic
  <2> QED
    BY ONLY <2>1, <2>2, <2>3
<1>7. PICK q \in Nat : q = Len(b)
  BY <1>5
<1>8. PICK d : IsJoin(V, a, b, p, q, d)
  BY <1>4, <1>5, <1>7, Joined
<1>9. /\ d \in Seq(V) /\ d = a \o b /\ Len(d) = p + q
      /\ \A i \in 1 .. p : d[i] = a[i]
      /\ \A i \in 1 .. q : d[p + i] = b[i]
  BY <1>8 DEF IsJoin
<1>10. p + q \in Nat /\ n * 2 \in Nat
  OBVIOUS
<1>11. PICK e : IsJoin(V, d, c, p + q, n * 2, e)
  BY <1>6, <1>9, <1>10, Joined
<1>12. /\ e = d \o c /\ Len(e) = p + q + n * 2
       /\ \A i \in 1 .. p + q : e[i] = d[i]
       /\ \A i \in 1 .. n * 2 : e[p + q + i] = c[i]
  BY <1>11 DEF IsJoin
<1>13. e = Script(m)
  BY <1>4, <1>5, <1>6, <1>9, <1>12 DEF Script, Deliveries
<1>14. Configured(m) = p /\ Delivered(m) = p + q
  BY <1>1, <1>2, <1>5, <1>7 DEF Configured, Delivered
<1>15. ASSUME NEW w \in 1 .. n, NEW i \in 1 .. L
       PROVE  e[Base(w) + i] = Handshake(w)[i]
  <2>1. PICK x \in Nat : x = (w - 1) * L /\ x + L <= p
    <3>1. w - 1 \in Nat /\ (w - 1) + 1 = w /\ w \in Nat /\ w <= n
      OBVIOUS
    <3>2. (w - 1) * L \in Nat /\ w * L = (w - 1) * L + L /\ w * L <= n * L
      BY <3>1, Multiples
    <3> QED
      BY <3>2, <1>2
  <2>2. x + i \in 1 .. p /\ x + i \in 1 .. p + q
    BY <2>1
  <2>3. e[x + i] = a[x + i]
    BY <2>2, <1>9, <1>12
  <2>4. Base(w) = x
    BY <2>1, <1>2 DEF Base
  <2>5. a[x + i] = Handshake(w)[i]
    BY <2>1, <1>4
  <2> QED
    BY <2>3, <2>4, <2>5
<1>16. ASSUME NEW i \in 1 .. q
       PROVE  e[p + i] = b[i]
  <2>1. p + i \in 1 .. p + q
    OBVIOUS
  <2> QED
    BY <2>1, <1>9, <1>12
<1>17. ASSUME NEW w \in 1 .. n
       PROVE  e[End(m, w)] = Farewell(w)[1] /\ e[End(m, w) + 1] = Farewell(w)[2]
  <2>1. PICK x \in Nat : x = (w - 1) * 2 /\ x + 1 \in 1 .. n * 2 /\ x + 2 \in 1 .. n * 2
    OBVIOUS
  <2>2. End(m, w) = p + q + (x + 1) /\ End(m, w) + 1 = p + q + (x + 2)
    BY <2>1, <1>14 DEF End
  <2>3. e[p + q + (x + 1)] = c[x + 1] /\ e[p + q + (x + 2)] = c[x + 2]
    BY <2>1, <1>12
  <2>4. c[x + 1] = Farewell(w)[1] /\ c[x + 2] = Farewell(w)[2]
    BY <2>1, <1>6
  <2> QED
    BY <2>2, <2>3, <2>4
<1>18. Len(e) = Delivered(m) + 2 * n
  BY <1>12, <1>14
<1> QED
  BY ONLY <1>1, <1>2, <1>5, <1>7, <1>13, <1>14, <1>15, <1>16, <1>17, <1>18 DEF IsScript

\* The script s writes the fields to w after place o, and awaits their
\* acknowledgement.
WritesAll(s, w, o, fields) ==
  /\ \A i \in 1 .. Len(fields) : s[o + i] = Do("write", w, fields[i])
  /\ s[o + (Len(fields) + 1)] = Do("readAck", w, 0)

WritesTo(s, w, p)  == s[p].what = "write" /\ s[p].node = w
AwaitsOf(s, w, p)  == s[p].what = "readAck" /\ s[p].node = w
NodeBase(w)        == Base(w) + (NetLen + 1)
Settled(w)         == Base(w) + HandshakeLen

\* The part of the script that is about worker w.
PlacesOf(m, s, w) ==
  /\ Base(w) \in Nat /\ NodeBase(w) \in Nat /\ Settled(w) \in Nat
  /\ NodeBase(w) = Base(w) + Len(NetFields) + 1
  /\ Settled(w) = NodeBase(w) + Len(NodeFields) + 1
  /\ Settled(w) <= Configured(m)
  /\ WritesAll(s, w, Base(w), NetFields)
  /\ WritesAll(s, w, NodeBase(w), NodeFields)
  /\ End(m, w) \in Delivered(m) + 1 .. Len(s) - 1
  /\ s[End(m, w)] = Do("write", w, Zero) /\ s[End(m, w) + 1] = Do("readAck", w, 0)
  /\ \A p \in 1 .. Len(s) : WritesTo(s, w, p) =>
       \/ p \in Base(w) + 1 .. NodeBase(w) - 1
       \/ p \in NodeBase(w) + 1 .. Settled(w) - 1
       \/ p \in Configured(m) + 1 .. Delivered(m)
       \/ p = End(m, w)
  /\ \A p \in 1 .. Len(s) : AwaitsOf(s, w, p) => p \in {NodeBase(w), Settled(w), End(m, w) + 1}

\* The weights among the root's steps.
WeightPlaces(m, s) ==
  /\ Configured(m) \in Nat /\ Delivered(m) \in Nat /\ Configured(m) < Delivered(m)
  /\ Delivered(m) <= Len(s) /\ Len(s) \in Nat
  /\ \A p \in Configured(m) + 1 .. Delivered(m) : \E n \in Nodes(m.topology), v \in Range(FileOrder(m)) :
       Receives(m.topology, m.nLayers, n, v) /\ s[p] = Delivery(m, n, v)
  /\ \A p, q \in Configured(m) + 1 .. Delivered(m) : p # q => s[p] # s[q]
  /\ \A n \in Nodes(m.topology), v \in Range(FileOrder(m)) :
       Receives(m.topology, m.nLayers, n, v)
       => \E p \in Configured(m) + 1 .. Delivered(m) : s[p] = Delivery(m, n, v)
  /\ \A p \in 1 .. Len(s) :
       \/ p \in Configured(m) + 1 .. Delivered(m)
       \/ s[p].what \in {"write", "readAck"} /\ s[p].node \in Workers(m)

\* The first weight is the embedding, which the root loads.
LEMMA FirstWeight ==
  ASSUME NEW m \in Models
  PROVE  Len(Deliveries(m)) \in Nat \ {0}
<1>1. PICK e : e = [op |-> "embedding", layer |-> 0, expert |-> 0]
  OBVIOUS
<1>2. PICK a : a = Weight("embedding", 0, 0) /\ a = <<e>>
  BY <1>1 DEF Weight
<1>3. e \in Range(FileOrder(m))
  <2>1. PICK n \in Nat \ {0} : n = m.nLayers
    BY ModelType
  <2>2. PICK b, c, d : /\ b = FlattenSeq([l \in 1 .. m.nLayers |-> LayerWeights(m, l - 1)])
                       /\ c = Weight("final_norm", 0, 0) /\ d = Weight("final_matmul_logits", 0, 0)
    OBVIOUS
  <2>3. FileOrder(m) = a \o b \o c \o d
    BY <1>2, <2>2 DEF FileOrder
  <2>4. PICK f : f = FileOrder(m) /\ f = a \o b \o c \o d
    BY <2>3
  <2>5. PICK V : /\ a \in Seq(V) /\ b \in Seq(V) /\ c \in Seq(V) /\ d \in Seq(V)
    <3>1. PICK X : X = Weights(m) \cup {e} \cup {[op |-> "final_norm", layer |-> 0, expert |-> 0],
                     [op |-> "final_matmul_logits", layer |-> 0, expert |-> 0]}
      OBVIOUS
    <3>2. a \in Seq(X) /\ c \in Seq(X) /\ d \in Seq(X)
      BY <1>2, <2>2, <3>1 DEF Weight
    <3>3. b \in Seq(X)
      <4>1. PICK g : g = [l \in 1 .. n |-> LayerWeights(m, l - 1)]
        OBVIOUS
      <4>2. ASSUME NEW l \in 1 .. n
            PROVE  g[l] \in Seq(X)
        <5>1. PICK k \in 0 .. n - 1 : k = l - 1
          OBVIOUS
        <5>2. LayerWeights(m, k) \in Seq(WeightSet(LayerOps, {k}, Nat))
          BY <5>1, LayerDistinct DEF DistinctIn
        <5>3. WeightSet(LayerOps, {k}, Nat) \subseteq Weights(m)
          BY <5>1, <2>1 DEF WeightSet, Weights, AllOps
        <5>4. LayerWeights(m, k) \in Seq(X)
          BY <5>2, <5>3, <3>1, SeqMonotonic
        <5> QED
          BY <5>1, <5>4, <4>1
      <4>3. AreSequences(X, n, g)
        BY <4>1, <4>2 DEF AreSequences
      <4>4. FlattenSeq(g) \in Seq(X)
        BY <4>3, FlattenElements
      <4> QED
        BY <4>1, <4>4, <2>1, <2>2
    <3> QED
      BY <3>2, <3>3
  <2>6. a \o b \in Seq(V) /\ Len(a) = 1 /\ a[1] = e
    BY <2>5, <1>2, ConcatProperties
  <2>7. (a \o b)[1] = e /\ 1 \in 1 .. Len(a \o b)
    BY <2>5, <2>6, ConcatProperties, LenProperties
  <2>8. a \o b \o c \in Seq(V) /\ (a \o b \o c)[1] = e /\ 1 \in 1 .. Len(a \o b \o c)
    BY ONLY <2>5, <2>6, <2>7, ConcatProperties, LenProperties
  <2>9. (a \o b \o c \o d)[1] = e /\ 1 \in 1 .. Len(a \o b \o c \o d)
    BY ONLY <2>5, <2>8, ConcatProperties, LenProperties
  <2>10. f[1] = e /\ 1 \in DOMAIN f
    BY <2>4, <2>9, FileType
  <2> QED
    BY <2>4, <2>10 DEF Range
<1>4. Receives(m.topology, m.nLayers, Root, e) /\ Root \in Nodes(m.topology)
  BY <1>1, WorkersAre DEF Receives, EmbeddingOp
<1>5. \E p \in 1 .. Len(Deliveries(m)) : Deliveries(m)[p] = Delivery(m, Root, e)
  BY <1>3, <1>4, DeliveriesOnce DEF DeliversAll
<1>6. Len(Deliveries(m)) \in Nat
  BY DeliveriesOnce, LenProperties DEF DeliversAll, DistinctIn
<1> QED
  BY <1>5, <1>6

LEMMA Bounds ==
  ASSUME NEW m \in Models, NEW w \in Workers(m)
  PROVE  /\ w \in Nat \ {0}
         /\ Base(w) \in Nat /\ NodeBase(w) \in Nat /\ Settled(w) \in Nat
         /\ NodeBase(w) = Base(w) + NetLen + 1 /\ Settled(w) = NodeBase(w) + NodeLen + 1
         /\ Configured(m) \in Nat /\ Settled(w) <= Configured(m)
         /\ Delivered(m) \in Nat /\ Configured(m) < Delivered(m)
         /\ Len(Script(m)) = Delivered(m) + 2 * (m.topology.nNodes - 1)
         /\ End(m, w) \in Delivered(m) + 1 .. Len(Script(m)) - 1
<1>1. PICK n \in Nat : n = m.topology.nNodes - 1 /\ Workers(m) = 1 .. n
  BY WorkersAre
<1>2. PICK L \in Nat, a \in Nat, d \in Nat : L = HandshakeLen /\ a = NetLen /\ d = NodeLen /\ L = a + d + 2
  BY Lengths DEF HandshakeLen
<1>3. w - 1 \in Nat /\ (w - 1) + 1 = w /\ w \in Nat \ {0} /\ w <= n
  BY <1>1
<1>4. PICK b \in Nat : b = (w - 1) * L /\ w * L = b + L /\ w * L <= n * L /\ n * L \in Nat
  BY <1>3, Multiples
<1>5. Base(w) = b /\ NodeBase(w) = b + (a + 1) /\ Settled(w) = b + L /\ Configured(m) = n * L
  BY <1>1, <1>2, <1>4 DEF Base, NodeBase, Settled, Configured
<1>6. PICK q \in Nat \ {0} : q = Len(Deliveries(m))
  BY FirstWeight
<1>7. PICK c \in Nat : c = n * L /\ b + L <= c
  BY <1>4
<1>8. Delivered(m) = c + q
  BY <1>5, <1>6, <1>7 DEF Delivered
<1>9. Len(Script(m)) = Delivered(m) + 2 * n
  BY <1>1, ScriptIs DEF IsScript
<1>10. End(m, w) = c + q + (2 * (w - 1) + 1)
  BY <1>8 DEF End
<1>11. End(m, w) \in c + q + 1 .. c + q + 2 * n - 1
  BY <1>3, <1>10
<1>12. Settled(w) = b + (a + 1) + d + 1 /\ Settled(w) <= c /\ Configured(m) = c
  BY <1>2, <1>5, <1>7
<1>13. Len(Script(m)) = c + q + 2 * n
  BY <1>8, <1>9
<1>14. Base(w) \in Nat /\ NodeBase(w) \in Nat /\ NodeBase(w) = b + a + 1
  BY <1>5
<1>15. /\ Delivered(m) \in Nat /\ Configured(m) < Delivered(m) /\ Configured(m) \in Nat
       /\ Settled(w) \in Nat /\ Settled(w) <= Configured(m)
  BY ONLY <1>6, <1>7, <1>8, <1>12, q \in Nat \ {0}, c \in Nat, b \in Nat, a \in Nat, d \in Nat
<1>16. End(m, w) \in Delivered(m) + 1 .. Len(Script(m)) - 1
  BY ONLY <1>8, <1>11, <1>13
<1>17. NodeBase(w) = Base(w) + NetLen + 1 /\ Settled(w) = NodeBase(w) + NodeLen + 1
  BY ONLY <1>2, <1>5, <1>12, <1>14
<1> QED
  BY ONLY <1>1, <1>3, <1>9, <1>14, <1>15, <1>16, <1>17

\* Every place is one of a handshake, of the deliveries or of a farewell.
LEMMA PlaceKinds ==
  ASSUME NEW m \in Models, NEW p \in 1 .. Len(Script(m))
  PROVE  \/ \E v \in Workers(m), i \in 1 .. HandshakeLen : p = Base(v) + i
         \/ p \in Configured(m) + 1 .. Delivered(m)
         \/ \E v \in Workers(m) : p = End(m, v) \/ p = End(m, v) + 1
<1>1. PICK n \in Nat : n = m.topology.nNodes - 1 /\ Workers(m) = 1 .. n
  BY WorkersAre
<1>2. PICK L \in Nat, c \in Nat : L = HandshakeLen /\ c = n * L /\ Configured(m) = c
  BY <1>1, Lengths, Product DEF Configured
<1>3. PICK d \in Nat : d = Delivered(m)
  BY <1>2, FirstWeight DEF Delivered
<1>4. Len(Script(m)) = d + n * 2
  BY <1>1, <1>3, ScriptIs DEF IsScript
<1>5. CASE p <= c
  <2>1. p \in 1 .. n * L
    BY <1>2, <1>4, <1>5
  <2>2. PICK k \in 1 .. n, i \in 1 .. L : p = (k - 1) * L + i
    BY <2>1, ChunkOfPlace
  <2> QED
    BY <2>2, <1>1, <1>2 DEF Base
<1>6. CASE p > d
  <2>1. PICK x \in 1 .. n * 2 : p = d + x
    BY <1>4, <1>6
  <2>2. PICK k \in 1 .. n, i \in 1 .. 2 : x = (k - 1) * 2 + i
    <3>1. PICK y \in Nat : y = 2
      OBVIOUS
    <3>2. x \in 1 .. n * y
      BY <3>1
    <3>3. PICK k \in 1 .. n, i \in 1 .. y : x = (k - 1) * y + i
      BY ONLY <3>2, n \in Nat, y \in Nat, ChunkOfPlace
    <3> QED
      BY <3>1, <3>3
  <2>3. End(m, k) = d + (2 * (k - 1) + 1)
    BY <1>3 DEF End
  <2>4. p = End(m, k) \/ p = End(m, k) + 1
    BY <2>1, <2>2, <2>3
  <2> QED
    BY <2>4, <1>1
<1>7. CASE c < p /\ p <= d
  BY <1>2, <1>3, <1>7
<1> QED
  BY <1>5, <1>6, <1>7, <1>2, <1>3, <1>4

LEMMA HandshakePlaces ==
  ASSUME NEW m \in Models, NEW w \in Workers(m), NEW s, s = Script(m)
  PROVE  /\ WritesAll(s, w, Base(w), NetFields)
         /\ WritesAll(s, w, NodeBase(w), NodeFields)
         /\ s[End(m, w)] = Do("write", w, Zero) /\ s[End(m, w) + 1] = Do("readAck", w, 0)
<1>1. PICK b \in Nat, a \in Nat, d \in Nat :
        b = Base(w) /\ a = NetLen /\ d = NodeLen /\ HandshakeLen = a + d + 2 /\ w \in Nat
  BY Bounds, Lengths DEF HandshakeLen
<1>2. \A i \in 1 .. a + d + 2 : s[b + i] = Handshake(w)[i]
  BY <1>1, ScriptIs DEF IsScript
<1>3. PICK h : h = Handshake(w)
  OBVIOUS
<1>4. /\ \A i \in 1 .. a : h[i] = Do("write", w, NetFields[i])
      /\ h[a + 1] = Do("readAck", w, 0)
      /\ \A i \in 1 .. d : h[a + 1 + i] = Do("write", w, NodeFields[i])
      /\ h[a + d + 2] = Do("readAck", w, 0)
  BY <1>1, <1>3, HandshakeMoves
<1>5. WritesAll(s, w, Base(w), NetFields)
  <2>1. ASSUME NEW i \in 1 .. a
        PROVE  s[b + i] = Do("write", w, NetFields[i])
    BY <1>2, <1>3, <1>4
  <2>2. s[b + (a + 1)] = Do("readAck", w, 0)
    BY <1>2, <1>3, <1>4
  <2> QED
    BY ONLY <1>1, <2>1, <2>2 DEF WritesAll, NetLen
<1>6. WritesAll(s, w, NodeBase(w), NodeFields)
  <2>1. PICK x \in Nat : x = NodeBase(w) /\ x = b + (a + 1)
    BY <1>1 DEF NodeBase
  <2>2. ASSUME NEW i \in 1 .. d
        PROVE  s[x + i] = Do("write", w, NodeFields[i])
    <3>1. a + 1 + i \in 1 .. a + d + 2 /\ x + i = b + (a + 1 + i)
      BY <2>1
    <3>2. s[b + (a + 1 + i)] = h[a + 1 + i]
      BY <3>1, <1>2, <1>3
    <3> QED
      BY <3>1, <3>2, <1>4
  <2>3. s[x + (d + 1)] = Do("readAck", w, 0)
    <3>1. a + d + 2 \in 1 .. a + d + 2 /\ x + (d + 1) = b + (a + d + 2)
      BY <2>1
    <3> QED
      BY <3>1, <1>2, <1>3, <1>4
  <2> QED
    BY ONLY <1>1, <2>1, <2>2, <2>3 DEF WritesAll, NodeLen
<1>7. /\ s[End(m, w)] = Farewell(w)[1] /\ s[End(m, w) + 1] = Farewell(w)[2]
  BY ScriptIs DEF IsScript
<1> QED
  BY <1>1, <1>5, <1>6, <1>7, FarewellMoves

\* Whom a step of a handshake or of a farewell is about, and what it is.
LEMMA OthersMoves ==
  ASSUME NEW m \in Models, NEW w \in Workers(m), NEW s, s = Script(m), NEW i \in 1 .. HandshakeLen
  PROVE  /\ s[Base(w) + i].node = w
         /\ \/ s[Base(w) + i].what = "write" /\ Base(w) + i \in Base(w) + 1 .. NodeBase(w) - 1
            \/ s[Base(w) + i].what = "readAck" /\ Base(w) + i = NodeBase(w)
            \/ s[Base(w) + i].what = "write" /\ Base(w) + i \in NodeBase(w) + 1 .. Settled(w) - 1
            \/ s[Base(w) + i].what = "readAck" /\ Base(w) + i = Settled(w)
<1>1. PICK b \in Nat, a \in Nat, d \in Nat :
        b = Base(w) /\ a = NetLen /\ d = NodeLen /\ HandshakeLen = a + d + 2
        /\ NodeBase(w) = b + a + 1 /\ Settled(w) = b + a + 1 + d + 1
  BY Bounds, Lengths DEF HandshakeLen
<1>2. /\ \A j \in 1 .. a : s[b + j] = Do("write", w, NetFields[j])
      /\ s[b + (a + 1)] = Do("readAck", w, 0)
  BY <1>1, HandshakePlaces DEF WritesAll, NetLen
<1>3. /\ \A j \in 1 .. d : s[NodeBase(w) + j] = Do("write", w, NodeFields[j])
      /\ s[NodeBase(w) + (d + 1)] = Do("readAck", w, 0)
  BY <1>1, HandshakePlaces DEF WritesAll, NodeLen
<1>4. \A x : \A y : Do(x, w, y).node = w /\ Do(x, w, y).what = x
  BY DEF Do
<1>5. CASE i \in 1 .. a
  BY <1>1, <1>2, <1>4, <1>5
<1>6. CASE i = a + 1
  <2>1. b + i = NodeBase(w)
    BY <1>1, <1>6
  <2> QED
    BY <2>1, <1>1, <1>2, <1>4, <1>6
<1>7. CASE i \in a + 2 .. a + 1 + d
  <2>1. PICK j \in 1 .. d : i = a + 1 + j
    BY <1>7, <1>1
  <2>2. b + i = NodeBase(w) + j
    BY <1>1, <2>1
  <2>3. s[b + i].node = w /\ s[b + i].what = "write"
    BY <2>2, <1>3, <1>4
  <2> QED
    BY <1>1, <2>1, <2>2, <2>3
<1>8. CASE i = a + d + 2
  <2>1. b + i = NodeBase(w) + (d + 1) /\ b + i = Settled(w)
    BY <1>1, <1>8
  <2>2. s[b + i].node = w /\ s[b + i].what = "readAck"
    BY <2>1, <1>3, <1>4
  <2> QED
    BY <1>1, <2>1, <2>2
<1> QED
  BY <1>1, <1>5, <1>6, <1>7, <1>8

LEMMA WeightsAre ==
  ASSUME NEW m \in Models, NEW s, s = Script(m)
  PROVE  WeightPlaces(m, s)
<1>1. PICK n \in Nat : n = m.topology.nNodes - 1 /\ Workers(m) = 1 .. n
  BY WorkersAre
<1>2. PICK c \in Nat, q \in Nat \ {0} : c = Configured(m) /\ q = Len(Deliveries(m))
  BY <1>1, Lengths, Product, FirstWeight DEF Configured
<1>3. Delivered(m) = c + q
  BY <1>2 DEF Delivered
<1>4. Len(s) = c + q + 2 * n
  BY <1>1, <1>3, ScriptIs DEF IsScript
<1>5. PICK ds : ds = Deliveries(m)
  OBVIOUS
<1>6. \A i \in 1 .. q : s[c + i] = ds[i]
  BY <1>2, <1>5, ScriptIs DEF IsScript
<1>7. \A p \in c + 1 .. c + q : p - c \in 1 .. q /\ s[p] = ds[p - c]
  <2>1. ASSUME NEW p \in c + 1 .. c + q
        PROVE  p - c \in 1 .. q /\ s[p] = ds[p - c]
    <3>1. PICK i \in 1 .. q : i = p - c /\ p = c + i
      OBVIOUS
    <3>2. s[c + i] = ds[i]
      BY <1>6
    <3> QED
      BY ONLY <3>1, <3>2
  <2> QED
    BY ONLY <2>1
<1>8. DeliversAll(m, ds) /\ Len(ds) = q
  BY <1>2, <1>5, DeliveriesOnce
<1>9. ASSUME NEW p \in c + 1 .. c + q
      PROVE  \E x \in Nodes(m.topology), v \in Range(FileOrder(m)) :
               Receives(m.topology, m.nLayers, x, v) /\ s[p] = Delivery(m, x, v)
  <2>1. PICK i \in 1 .. q : s[p] = ds[i]
    BY ONLY <1>7, p \in c + 1 .. c + q
  <2>2. PICK x \in Nodes(m.topology) : \E v \in Range(FileOrder(m)) :
          Receives(m.topology, m.nLayers, x, v) /\ ds[i] = Delivery(m, x, v)
    BY ONLY <1>8, i \in 1 .. q DEF DeliversAll
  <2> QED
    BY ONLY <2>1, <2>2
<1>10. ASSUME NEW x \in c + 1 .. c + q, NEW y \in c + 1 .. c + q, x # y
       PROVE  s[x] # s[y]
  <2>1. x - c # y - c
    BY <1>10
  <2> QED
    BY <2>1, <1>7, <1>8 DEF DeliversAll, DistinctIn
<1>11. ASSUME NEW x \in Nodes(m.topology), NEW v \in Range(FileOrder(m)),
              Receives(m.topology, m.nLayers, x, v)
       PROVE  \E p \in c + 1 .. c + q : s[p] = Delivery(m, x, v)
  <2>1. PICK i \in 1 .. q : ds[i] = Delivery(m, x, v)
    BY <1>8, <1>11 DEF DeliversAll
  <2>2. c + i \in c + 1 .. c + q
    OBVIOUS
  <2> QED
    BY <2>1, <2>2, <1>6
<1>12. ASSUME NEW p \in 1 .. Len(s), p \notin c + 1 .. c + q
       PROVE  s[p].what \in {"write", "readAck"} /\ s[p].node \in Workers(m)
  <2>1. CASE \E v \in Workers(m), i \in 1 .. HandshakeLen : p = Base(v) + i
    BY <2>1, OthersMoves
  <2>2. CASE \E v \in Workers(m) : p = End(m, v) \/ p = End(m, v) + 1
    <3>1. PICK v \in Workers(m) : p = End(m, v) \/ p = End(m, v) + 1
      BY ONLY <2>2
    <3>2. s[p] = Do("write", v, Zero) \/ s[p] = Do("readAck", v, 0)
      BY <3>1, HandshakePlaces
    <3> QED
      BY <3>2 DEF Do
  <2> QED
    BY <2>1, <2>2, <1>2, <1>3, <1>12, PlaceKinds
<1>13. /\ Configured(m) = c /\ Delivered(m) = c + q /\ c < c + q /\ c + q \in Nat
       /\ c + q <= Len(s) /\ Len(s) \in Nat
  BY ONLY <1>2, <1>3, <1>4, n \in Nat, c \in Nat, q \in Nat \ {0}
<1>14. PICK I : I = c + 1 .. c + q /\ I = Configured(m) + 1 .. Delivered(m)
  BY <1>13
<1>15. /\ \A p \in I : \E x \in Nodes(m.topology), v \in Range(FileOrder(m)) :
            Receives(m.topology, m.nLayers, x, v) /\ s[p] = Delivery(m, x, v)
       /\ \A x, y \in I : x # y => s[x] # s[y]
  BY ONLY <1>9, <1>10, <1>14, Zenon
<1>16. \A x \in Nodes(m.topology), v \in Range(FileOrder(m)) :
         Receives(m.topology, m.nLayers, x, v) => \E p \in I : s[p] = Delivery(m, x, v)
  BY ONLY <1>11, <1>14, Zenon
<1>17. ASSUME NEW p \in 1 .. Len(s)
        PROVE  p \in I \/ (s[p].what \in {"write", "readAck"} /\ s[p].node \in Workers(m))
  <2>1. CASE p \in I
    BY ONLY <2>1
  <2>2. CASE p \notin I
    <3>1. p \notin c + 1 .. c + q
      BY ONLY <2>2, <1>14
    <3> QED
      BY ONLY <3>1, <1>12, p \in 1 .. Len(s), Zenon
  <2> QED
    BY ONLY <2>1, <2>2
<1>18. /\ Configured(m) \in Nat /\ Delivered(m) \in Nat /\ Configured(m) < Delivered(m)
       /\ Delivered(m) <= Len(s) /\ Len(s) \in Nat
  BY ONLY <1>13, c \in Nat
<1> QED
  BY ONLY <1>14, <1>15, <1>16, <1>18, <1>17, Zenon DEF WeightPlaces

LEMMA PlacesAre ==
  ASSUME NEW m \in Models, NEW w \in Workers(m), NEW s, s = Script(m)
  PROVE  PlacesOf(m, s, w)
<1>0. PICK b, x, y, c, d, e :
        /\ b = Base(w) /\ x = NodeBase(w) /\ y = Settled(w) /\ c = Configured(m)
        /\ d = Delivered(m) /\ e = End(m, w)
  OBVIOUS
<1>1. /\ b \in Nat /\ x \in Nat /\ y \in Nat /\ c \in Nat /\ d \in Nat /\ e \in Nat
      /\ x = b + Len(NetFields) + 1 /\ y = x + Len(NodeFields) + 1
      /\ y <= c /\ e \in d + 1 .. Len(s) - 1
  <2>1. /\ b \in Nat /\ x \in Nat /\ y \in Nat /\ c \in Nat /\ d \in Nat
        /\ x = b + NetLen + 1 /\ y = x + NodeLen + 1
        /\ y <= c /\ e \in d + 1 .. Len(s) - 1
    BY ONLY <1>0, Bounds, m \in Models, w \in Workers(m), s = Script(m)
  <2>2. e \in Nat
    BY ONLY <2>1
  <2> QED
    BY ONLY <2>1, <2>2 DEF NetLen, NodeLen
<1>2. ASSUME NEW p \in 1 .. Len(s), s[p].node = w, s[p].what \in {"write", "readAck"}
      PROVE  /\ s[p].what = "write" => \/ p \in b + 1 .. x - 1
                                       \/ p \in x + 1 .. y - 1
                                       \/ p \in c + 1 .. d
                                       \/ p = e
             /\ s[p].what = "readAck" => p \in {x, y, e + 1}
  <2>1. CASE \E v \in Workers(m), i \in 1 .. HandshakeLen : p = Base(v) + i
    <3>1. PICK v \in Workers(m), i \in 1 .. HandshakeLen : p = Base(v) + i
      BY <2>1
    <3>2. v = w
      BY <3>1, <1>2, OthersMoves
    <3>3. \/ s[p].what = "write" /\ p \in b + 1 .. x - 1
          \/ s[p].what = "readAck" /\ p = x
          \/ s[p].what = "write" /\ p \in x + 1 .. y - 1
          \/ s[p].what = "readAck" /\ p = y
      BY ONLY <3>1, <3>2, <1>0, m \in Models, w \in Workers(m), s = Script(m), OthersMoves
    <3> QED
      BY ONLY <3>3
  <2>2. CASE p \in Configured(m) + 1 .. Delivered(m)
    <3>1. PICK n \in Nodes(m.topology), v \in Range(FileOrder(m)) : s[p] = Delivery(m, n, v)
      BY <2>2, WeightsAre DEF WeightPlaces
    <3>2. s[p].what # "readAck"
      BY <3>1, DeliveryFields
    <3> QED
      BY <2>2, <3>2, <1>0
  <2>3. CASE \E v \in Workers(m) : p = End(m, v) \/ p = End(m, v) + 1
    <3>1. PICK v \in Workers(m) : p = End(m, v) \/ p = End(m, v) + 1
      BY <2>3
    <3>2. s[End(m, v)] = Do("write", v, Zero) /\ s[End(m, v) + 1] = Do("readAck", v, 0)
      BY HandshakePlaces
    <3>3. v = w
      BY <3>1, <3>2, <1>2 DEF Do
    <3>4. \/ p = e /\ s[p].what = "write"
          \/ p = e + 1 /\ s[p].what = "readAck"
      BY ONLY <3>1, <3>2, <3>3, <1>0 DEF Do
    <3> QED
      BY ONLY <3>4
  <2> QED
    BY <2>1, <2>2, <2>3, PlaceKinds
<1>3. /\ WritesAll(s, w, b, NetFields) /\ WritesAll(s, w, x, NodeFields)
      /\ s[e] = Do("write", w, Zero) /\ s[e + 1] = Do("readAck", w, 0)
  BY <1>0, HandshakePlaces
<1>4. ASSUME NEW p \in 1 .. Len(s)
      PROVE  /\ WritesTo(s, w, p) => \/ p \in b + 1 .. x - 1
                                     \/ p \in x + 1 .. y - 1
                                     \/ p \in c + 1 .. d
                                     \/ p = e
             /\ AwaitsOf(s, w, p) => p \in {x, y, e + 1}
  BY ONLY <1>2, p \in 1 .. Len(s) DEF WritesTo, AwaitsOf
<1> QED
  BY ONLY <1>0, <1>1, <1>3, <1>4 DEF PlacesOf, WritesTo, AwaitsOf

-----------------------------------------------------------------------------
(* What is on its way to a worker.                                         *)

Sent(s) == {s[p].data : p \in 1 .. Len(s)}

\* pos lists the steps from r up to n that write to w, and q what they write.
Lists(s, w, r, n, q, pos) ==
  /\ pos \in [1 .. Len(q) -> r .. n - 1]
  /\ \A i, j \in 1 .. Len(q) : i < j => pos[i] < pos[j]
  /\ \A i \in 1 .. Len(q) : WritesTo(s, w, pos[i]) /\ q[i] = s[pos[i]].data
  /\ \A p \in r .. n - 1 : WritesTo(s, w, p) => \E i \in 1 .. Len(q) : pos[i] = p

\* q is what the steps from r up to n wrote to w; if n is before r, nothing is
\* written to w in between.
Carries(s, w, r, n, q) ==
  /\ r \in Nat /\ n \in Nat /\ q \in Seq(Sent(s))
  /\ \A p \in n .. r - 1 : ~WritesTo(s, w, p)
  /\ \E pos : Lists(s, w, r, n, q, pos)

LEMMA CarriesNothing ==
  ASSUME NEW s, NEW w, NEW r \in Nat, NEW n \in Nat, n <= r, \A p \in n .. r - 1 : ~WritesTo(s, w, p)
  PROVE  Carries(s, w, r, n, <<>>)
<1>1. PICK q : q = <<>> /\ q \in Seq(Sent(s)) /\ Len(q) = 0
  BY EmptySeq
<1>2. PICK pos : pos = [i \in 1 .. Len(q) |-> 0]
  OBVIOUS
<1>3. 1 .. Len(q) = {} /\ r .. n - 1 = {}
  BY <1>1
<1>4. pos \in [1 .. Len(q) -> r .. n - 1]
  BY ONLY <1>2, <1>3
<1>5. Lists(s, w, r, n, q, pos)
  BY ONLY <1>3, <1>4 DEF Lists
<1> QED
  BY <1>1, <1>5 DEF Carries

LEMMA CarriesNone ==
  ASSUME NEW s, NEW w, NEW r, NEW n, NEW q, Carries(s, w, r, n, q),
         \A p \in r .. n - 1 : ~WritesTo(s, w, p)
  PROVE  q = <<>>
<1>1. PICK pos : Lists(s, w, r, n, q, pos)
  BY DEF Carries
<1>2. q \in Seq(Sent(s)) /\ Len(q) \in Nat
  BY LenProperties DEF Carries
<1>3. 1 \notin 1 .. Len(q)
  BY <1>1 DEF Lists
<1>4. Len(q) = 0
  BY <1>2, <1>3
<1> QED
  BY <1>2, <1>4, EmptySeq

LEMMA CarriesOther ==
  ASSUME NEW s, NEW w, NEW r, NEW n, NEW q, Carries(s, w, r, n, q), ~WritesTo(s, w, n)
  PROVE  Carries(s, w, r, n + 1, q)
<1>1. PICK pos : Lists(s, w, r, n, q, pos)
  BY DEF Carries
<1>2. r \in Nat /\ n \in Nat /\ q \in Seq(Sent(s)) /\ \A p \in n .. r - 1 : ~WritesTo(s, w, p)
  BY DEF Carries
<1>3. r .. n - 1 \subseteq r .. n /\ r .. n \subseteq (r .. n - 1) \cup {n} /\ (n + 1) - 1 = n
  BY <1>2
<1>4. pos \in [1 .. Len(q) -> r .. n]
  BY <1>1, <1>3 DEF Lists
<1>5. \A p \in r .. n : WritesTo(s, w, p) => \E i \in 1 .. Len(q) : pos[i] = p
  BY <1>1, <1>3 DEF Lists
<1>6. Lists(s, w, r, n + 1, q, pos)
  BY ONLY <1>1, <1>3, <1>4, <1>5 DEF Lists
<1>7. \A p \in n + 1 .. r - 1 : ~WritesTo(s, w, p)
  BY <1>2
<1> QED
  BY <1>2, <1>6, <1>7 DEF Carries

LEMMA CarriesWrite ==
  ASSUME NEW s, NEW w, NEW r, NEW n \in 1 .. Len(s), NEW q, Carries(s, w, r, n, q), WritesTo(s, w, n)
  PROVE  Carries(s, w, r, n + 1, Append(q, s[n].data))
<1>1. PICK pos : Lists(s, w, r, n, q, pos)
  BY DEF Carries
<1>2. r \in Nat /\ n \in Nat /\ q \in Seq(Sent(s)) /\ \A p \in n .. r - 1 : ~WritesTo(s, w, p)
  BY DEF Carries
<1>3. r <= n
  BY <1>2
<1>4. PICK k \in Nat : k = Len(q)
  BY <1>2, LenProperties
<1>5. s[n].data \in Sent(s)
  BY DEF Sent
<1>6. PICK y \in Seq(Sent(s)) : /\ y = Append(q, s[n].data) /\ Len(y) = k + 1
                                /\ \A i \in 1 .. k : y[i] = q[i]
                                /\ y[k + 1] = s[n].data
  BY <1>2, <1>4, <1>5, AppendProperties
<1>7. PICK ps : ps = [i \in 1 .. k + 1 |-> IF i <= k THEN pos[i] ELSE n]
  OBVIOUS
<1>8. \A i \in 1 .. k : ps[i] = pos[i] /\ pos[i] \in r .. n - 1
  BY <1>1, <1>4, <1>7 DEF Lists
<1>9. ps[k + 1] = n
  BY <1>7
<1>10. ps \in [1 .. k + 1 -> r .. n]
  <2>1. \A i \in 1 .. k + 1 : ps[i] \in r .. n
    BY <1>2, <1>3, <1>8, <1>9
  <2> QED
    BY <2>1, <1>7
<1>11. ASSUME NEW i \in 1 .. k + 1, NEW j \in 1 .. k + 1, i < j
       PROVE  ps[i] < ps[j]
  <2>1. i \in 1 .. k
    BY <1>11
  <2>2. CASE j \in 1 .. k
    BY <1>1, <1>4, <1>8, <1>11, <2>1, <2>2 DEF Lists
  <2>3. CASE j = k + 1
    BY <1>2, <1>8, <1>9, <2>1, <2>3
  <2> QED
    BY <2>2, <2>3
<1>12. ASSUME NEW i \in 1 .. k + 1
       PROVE  WritesTo(s, w, ps[i]) /\ y[i] = s[ps[i]].data
  <2>1. CASE i \in 1 .. k
    BY <1>1, <1>4, <1>6, <1>8, <2>1 DEF Lists
  <2>2. CASE i = k + 1
    BY <1>6, <1>9, <2>2
  <2> QED
    BY <2>1, <2>2
<1>13. ASSUME NEW p \in r .. n, WritesTo(s, w, p)
       PROVE  \E i \in 1 .. k + 1 : ps[i] = p
  <2>1. CASE p = n
    BY <1>9, <2>1
  <2>2. CASE p \in r .. n - 1
    <3>1. PICK i \in 1 .. k : pos[i] = p
      BY <1>1, <1>4, <1>13, <2>2 DEF Lists
    <3> QED
      BY <3>1, <1>8
  <2> QED
    BY <2>1, <2>2, <1>2
<1>14. Lists(s, w, r, n + 1, y, ps)
  <2>1. (n + 1) - 1 = n
    BY <1>2
  <2> QED
    BY ONLY <2>1, <1>6, <1>10, <1>11, <1>12, <1>13 DEF Lists
<1>15. \A p \in n + 1 .. r - 1 : ~WritesTo(s, w, p)
  BY <1>2
<1> QED
  BY <1>2, <1>6, <1>14, <1>15 DEF Carries

\* The first of what is on its way was written at the first such step p.
First(s, w, r, n, q, p) ==
  /\ p \in r .. n - 1 /\ WritesTo(s, w, p) /\ Head(q) = s[p].data
  /\ \A x \in r .. p - 1 : ~WritesTo(s, w, x)
  /\ Carries(s, w, p + 1, n, Tail(q))

LEMMA CarriesHead ==
  ASSUME NEW s, NEW w, NEW r, NEW n, NEW q, Carries(s, w, r, n, q), q # <<>>
  PROVE  \E p : First(s, w, r, n, q, p)
<1>1. PICK pos : Lists(s, w, r, n, q, pos)
  BY DEF Carries
<1>2. r \in Nat /\ n \in Nat /\ q \in Seq(Sent(s)) /\ \A p \in n .. r - 1 : ~WritesTo(s, w, p)
  BY DEF Carries
<1>3. Len(q) \in Nat /\ Len(q) # 0
  BY <1>2, LenProperties, EmptySeq
<1>4. PICK k \in Nat : k + 1 = Len(q)
  <2>1. Len(q) - 1 \in Nat /\ (Len(q) - 1) + 1 = Len(q)
    BY <1>3
  <2> QED
    BY <2>1
<1>5. PICK p : p = pos[1]
  OBVIOUS
<1>6. p \in r .. n - 1 /\ WritesTo(s, w, p) /\ q[1] = s[p].data /\ p \in Nat
  <2>1. 1 \in 1 .. Len(q)
    BY <1>4
  <2>2. p \in r .. n - 1 /\ WritesTo(s, w, p) /\ q[1] = s[p].data
    BY <2>1, <1>1, <1>5 DEF Lists
  <2> QED
    BY <2>2, <1>2
<1>7. PICK y \in Seq(Sent(s)) : /\ y = Tail(q) /\ Len(y) = k
                                /\ \A i \in 1 .. k : y[i] = q[i + 1]
                                /\ Head(q) = q[1]
  <2>1. PICK y : y = Tail(q)
    OBVIOUS
  <2>2. y \in Seq(Sent(s)) /\ Len(y) = Len(q) - 1 /\ \A i \in 1 .. Len(y) : y[i] = q[i + 1]
    BY ONLY <2>1, <1>2, q # <<>>, HeadTailProperties
  <2>3. Head(q) = q[1]
    BY <1>2
  <2>4. Len(y) = k
    BY <2>2, <1>4
  <2> QED
    BY ONLY <2>1, <2>2, <2>3, <2>4
<1>8. \A i \in 1 .. k + 1 : pos[i] \in r .. n - 1 /\ WritesTo(s, w, pos[i]) /\ q[i] = s[pos[i]].data
  BY <1>1, <1>4 DEF Lists
<1>9. \A i, j \in 1 .. k + 1 : i < j => pos[i] < pos[j]
  BY <1>1, <1>4 DEF Lists
<1>10. \A x \in r .. n - 1 : WritesTo(s, w, x) => \E i \in 1 .. k + 1 : pos[i] = x
  BY <1>1, <1>4 DEF Lists
<1>11. \A i \in 1 .. k : i + 1 \in 1 .. k + 1 /\ 1 < i + 1 /\ 1 \in 1 .. k + 1
  OBVIOUS
<1>12. \A i \in 1 .. k : p < pos[i + 1]
  BY <1>5, <1>9, <1>11
<1>13. PICK ps : ps = [i \in 1 .. k |-> pos[i + 1]]
  OBVIOUS
<1>14. ps \in [1 .. k -> p + 1 .. n - 1]
  <2>1. \A i \in 1 .. k : pos[i + 1] \in p + 1 .. n - 1
    BY <1>2, <1>6, <1>8, <1>11, <1>12
  <2> QED
    BY <2>1, <1>13
<1>15. \A i, j \in 1 .. k : i < j => ps[i] < ps[j]
  BY <1>9, <1>11, <1>13
<1>16. \A i \in 1 .. k : WritesTo(s, w, ps[i]) /\ y[i] = s[ps[i]].data
  BY <1>7, <1>8, <1>11, <1>13
<1>17. ASSUME NEW x \in p + 1 .. n - 1, WritesTo(s, w, x)
       PROVE  \E i \in 1 .. k : ps[i] = x
  <2>1. x \in r .. n - 1
    BY <1>2, <1>6
  <2>2. PICK j \in 1 .. k + 1 : pos[j] = x
    BY <2>1, <1>10, <1>17
  <2>3. j # 1
    BY <2>2, <1>5, <1>6
  <2>4. PICK i \in 1 .. k : j = i + 1
    <3>1. j - 1 \in 1 .. k /\ j = (j - 1) + 1
      BY <2>3
    <3> QED
      BY <3>1
  <2> QED
    BY <2>2, <2>4, <1>13
<1>18. ASSUME NEW x \in r .. p - 1, WritesTo(s, w, x)
       PROVE  FALSE
  <2>1. x \in r .. n - 1 /\ x < p
    BY <1>2, <1>6
  <2>2. PICK j \in 1 .. k + 1 : pos[j] = x
    BY <2>1, <1>10, <1>18
  <2>3. CASE j = 1
    BY <2>1, <2>2, <2>3, <1>5, <1>6
  <2>4. CASE j # 1
    <3>1. p < pos[j]
      BY <2>4, <1>5, <1>9, <1>11
    <3> QED
      BY <3>1, <2>1, <2>2, <1>6
  <2> QED
    BY <2>3, <2>4
<1>19. Lists(s, w, p + 1, n, y, ps)
  BY ONLY <1>7, <1>14, <1>15, <1>16, <1>17 DEF Lists
<1>20. \A x \in n .. (p + 1) - 1 : ~WritesTo(s, w, x)
  BY <1>2, <1>6
<1>21. Carries(s, w, p + 1, n, y)
  BY <1>2, <1>6, <1>7, <1>19, <1>20 DEF Carries
<1> QED
  BY <1>6, <1>7, <1>18, <1>21 DEF First

-----------------------------------------------------------------------------
(* The reader of a configuration, and the writer ahead of it.              *)

\* f is the fields after the first k.
Left(f, fields, k) ==
  /\ k \in 0 .. Len(fields) /\ f \in Seq(FieldSet) /\ Len(f) = Len(fields) - k
  /\ \A i \in 1 .. Len(f) : f[i] = fields[k + i]

LEMMA LeftAll ==
  ASSUME NEW fields \in Seq(FieldSet)
  PROVE  Left(fields, fields, 0)
<1>1. Len(fields) \in Nat
  BY LenProperties
<1>2. \A i \in 1 .. Len(fields) : 0 + i = i
  OBVIOUS
<1> QED
  BY <1>1, <1>2 DEF Left

LEMMA LeftNone ==
  ASSUME NEW f, NEW fields \in Seq(FieldSet), NEW k, Left(f, fields, k)
  PROVE  f = <<>> <=> k = Len(fields)
<1>1. Len(fields) \in Nat /\ Len(f) = Len(fields) - k /\ k \in Nat /\ f \in Seq(FieldSet)
  BY LenProperties DEF Left
<1>2. f = <<>> <=> Len(f) = 0
  BY <1>1, EmptySeq
<1> QED
  BY <1>1, <1>2

LEMMA LeftFirst ==
  ASSUME NEW f, NEW fields \in Seq(FieldSet), NEW k, Left(f, fields, k), f # <<>>
  PROVE  /\ k + 1 \in 1 .. Len(fields) /\ Head(f) = fields[k + 1]
         /\ Left(Tail(f), fields, k + 1)
<1>1. /\ Len(fields) \in Nat /\ Len(f) = Len(fields) - k /\ k \in 0 .. Len(fields)
      /\ f \in Seq(FieldSet) /\ Len(f) \in Nat
  BY LenProperties DEF Left
<1>2. Len(f) # 0
  BY <1>1, EmptySeq
<1>3. PICK y : y = Tail(f)
  OBVIOUS
<1>4. y \in Seq(FieldSet) /\ Len(y) = Len(f) - 1 /\ \A i \in 1 .. Len(y) : y[i] = f[i + 1]
  BY ONLY <1>1, <1>3, f # <<>>, HeadTailProperties
<1>5. \A i \in 1 .. Len(f) : f[i] = fields[k + i]
  BY DEF Left
<1>6. 1 \in 1 .. Len(f) /\ k + 1 \in 1 .. Len(fields)
  BY <1>1, <1>2
<1>7. Head(f) = f[1]
  BY <1>1
<1>8. ASSUME NEW i \in 1 .. Len(y)
      PROVE  y[i] = fields[k + 1 + i]
  <2>1. i + 1 \in 1 .. Len(f) /\ k + (i + 1) = k + 1 + i
    BY <1>1, <1>4
  <2>2. y[i] = f[i + 1] /\ f[i + 1] = fields[k + (i + 1)]
    BY <2>1, <1>4, <1>5
  <2> QED
    BY <2>1, <2>2
<1>9. Len(y) = Len(fields) - (k + 1)
  BY <1>1, <1>4
<1> QED
  BY <1>1, <1>3, <1>4, <1>5, <1>6, <1>7, <1>8, <1>9 DEF Left

\* Worker w is at agenda a with the counts c, and q is on its way to it, when
\* the root that writes the fields from place o has come to place n: the agenda
\* reads exactly the fields that q begins and the rest of the script continues.
Reading(s, w, o, fields, n, a, c, q) ==
  /\ n \in Nat /\ n <= o + (Len(fields) + 1)
  /\ \E k \in 0 .. Len(fields) :
       /\ k = 0 \/ o + (k + 1) <= n
       /\ Carries(s, w, o + (k + 1), n, q)
       /\ \E f : Left(f, fields, k) /\ \E d : Reads(a, c, f, d)

LEMMA ReadingBegins ==
  ASSUME NEW s, NEW w, NEW o \in Nat, NEW fields \in Seq(FieldSet), NEW n \in Nat, n <= o + 1,
         \A p \in n .. o : ~WritesTo(s, w, p), NEW a, NEW c \in CountValues,
         Follows(a, fields, CountValues, CountValues)
  PROVE  Reading(s, w, o, fields, n, a, c, <<>>)
<1>1. Len(fields) \in Nat
  BY LenProperties
<1>2. Carries(s, w, o + 1, n, <<>>)
  <2>1. o + 1 \in Nat /\ (o + 1) - 1 = o
    OBVIOUS
  <2> QED
    BY <2>1, CarriesNothing
<1>3. PICK d : Reads(a, c, fields, d)
  BY DEF Follows
<1>4. Left(fields, fields, 0)
  BY LeftAll
<1>5. 0 \in 0 .. Len(fields) /\ o + (0 + 1) = o + 1 /\ n <= o + (Len(fields) + 1)
  BY <1>1
<1> QED
  BY <1>2, <1>3, <1>4, <1>5 DEF Reading

\* What the reader of a configuration finds first.
Meets(s, w, o, fields, n, a, c, q, k, f, d) ==
  /\ k \in 0 .. Len(fields) /\ (k = 0 \/ o + (k + 1) <= n)
  /\ Carries(s, w, o + (k + 1), n, q)
  /\ Left(f, fields, k) /\ Reads(a, c, f, d)

LEMMA ReadingMeets ==
  ASSUME NEW s, NEW w, NEW o \in Nat, NEW fields \in Seq(FieldSet), NEW n, NEW a, NEW c, NEW q,
         Reading(s, w, o, fields, n, a, c, q)
  PROVE  \E k, f, d : Meets(s, w, o, fields, n, a, c, q, k, f, d)
BY DEF Reading, Meets

LEMMA ReadingEnds ==
  ASSUME NEW s, NEW w, NEW o \in Nat, NEW fields \in Seq(FieldSet), fields # <<>>, NEW n, NEW a,
         NEW c, NEW q, Reading(s, w, o, fields, n, a, c, q), a = <<>>
  PROVE  q = <<>> /\ n = o + (Len(fields) + 1)
<1>1. PICK k, f, d : Meets(s, w, o, fields, n, a, c, q, k, f, d)
  BY ReadingMeets
<1>2. n \in Nat /\ n <= o + (Len(fields) + 1) /\ Len(fields) \in Nat \ {0}
  BY LenProperties, EmptySeq DEF Reading
<1>3. f = <<>>
  <2>1. a \in Seq(Items) /\ c \in CountValues /\ f \in Seq(FieldSet) /\ Reads(a, c, f, d)
    BY <1>1, ReadsTypes DEF Meets
  <2> QED
    BY <2>1, ReadsIs
<1>4. k = Len(fields)
  BY <1>1, <1>3, LeftNone DEF Meets
<1>5. n = o + (Len(fields) + 1)
  BY <1>1, <1>2, <1>4 DEF Meets
<1>6. Carries(s, w, n, n, q)
  BY <1>1, <1>4, <1>5 DEF Meets
<1>7. n .. n - 1 = {}
  BY <1>2
<1>8. q = <<>>
  BY <1>6, <1>7, CarriesNone
<1> QED
  BY <1>5, <1>8

\* The reader that has a field to read finds it.
LEMMA MeetsFirst ==
  ASSUME NEW s, NEW w, NEW o \in Nat, NEW fields \in Seq(FieldSet), WritesAll(s, w, o, fields),
         NEW n, NEW a, NEW c, NEW q, NEW k, NEW f, NEW d,
         Meets(s, w, o, fields, n, a, c, q, k, f, d), q # <<>>, f # <<>>
  PROVE  /\ Head(q) = Head(f) /\ o + (k + 2) <= n /\ k + 1 \in 0 .. Len(fields)
         /\ Carries(s, w, o + (k + 2), n, Tail(q)) /\ Left(Tail(f), fields, k + 1)
<1>1. /\ k + 1 \in 1 .. Len(fields) /\ Head(f) = fields[k + 1]
      /\ Left(Tail(f), fields, k + 1) /\ k \in Nat
  <2>1. Left(f, fields, k) /\ k \in Nat
    BY DEF Meets
  <2> QED
    BY <2>1, LeftFirst
<1>2. PICK r \in Nat : r = o + (k + 1) /\ r + 1 = o + (k + 2)
  BY <1>1
<1>3. Carries(s, w, r, n, q) /\ n \in Nat
  BY <1>2 DEF Meets, Carries
<1>4. PICK p : First(s, w, r, n, q, p)
  BY <1>3, CarriesHead
<1>5. s[r] = Do("write", w, fields[k + 1])
  BY <1>1, <1>2 DEF WritesAll
<1>6. WritesTo(s, w, r) /\ s[r].data = Head(f)
  BY <1>1, <1>5 DEF WritesTo, Do
<1>7. /\ p \in r .. n - 1 /\ Head(q) = s[p].data /\ \A x \in r .. p - 1 : ~WritesTo(s, w, x)
      /\ Carries(s, w, p + 1, n, Tail(q))
  BY <1>4 DEF First
<1>8. p = r
  <2>1. r \notin r .. p - 1
    BY <1>6, <1>7
  <2> QED
    BY <2>1, <1>2, <1>3, <1>7
<1> QED
  BY <1>1, <1>2, <1>3, <1>6, <1>7, <1>8

LEMMA ReadingInStep ==
  ASSUME NEW s, NEW w, NEW o \in Nat, NEW fields \in Seq(FieldSet), fields # <<>>,
         WritesAll(s, w, o, fields), NEW n, NEW a, NEW c, NEW q,
         Reading(s, w, o, fields, n, a, c, q), q # <<>>
  PROVE  a # <<>> /\ (Head(a).body = <<>> => Head(a).name = Head(q).name)
<1>1. a # <<>>
  BY ReadingEnds
<1>2. PICK k, f, d : Meets(s, w, o, fields, n, a, c, q, k, f, d)
  BY ReadingMeets
<1>3. a \in Seq(Items) /\ c \in CountValues /\ f \in Seq(FieldSet) /\ Reads(a, c, f, d)
  BY <1>2, ReadsTypes DEF Meets
<1>4. ASSUME Head(a).body = <<>>
      PROVE  Head(a).name = Head(q).name
  <2>1. f # <<>> /\ Head(f).name = Head(a).name
    BY <1>1, <1>3, <1>4, ReadsIs
  <2> QED
    BY <2>1, <1>2, MeetsFirst
<1> QED
  BY <1>1, <1>4

LEMMA ReadingField ==
  ASSUME NEW s, NEW w, NEW o \in Nat, NEW fields \in Seq(FieldSet), WritesAll(s, w, o, fields),
         NEW n, NEW a, NEW c, NEW q, Reading(s, w, o, fields, n, a, c, q), q # <<>>,
         a # <<>>, Head(a).body = <<>>
  PROVE  /\ Reading(s, w, o, fields, n, Tail(a), Noted(c, Head(q)), Tail(q))
         /\ Noted(c, Head(q)) \in CountValues
<1>1. PICK k, f, d : Meets(s, w, o, fields, n, a, c, q, k, f, d)
  BY ReadingMeets
<1>2. a \in Seq(Items) /\ c \in CountValues /\ f \in Seq(FieldSet) /\ Reads(a, c, f, d)
  BY <1>1, ReadsTypes DEF Meets
<1>3. f # <<>> /\ Reads(Tail(a), Noted(c, Head(f)), Tail(f), d)
  BY <1>2, ReadsIs
<1>4. /\ Head(q) = Head(f) /\ o + (k + 2) <= n /\ k + 1 \in 0 .. Len(fields)
      /\ Carries(s, w, o + (k + 2), n, Tail(q)) /\ Left(Tail(f), fields, k + 1)
  BY <1>1, <1>3, MeetsFirst
<1>5. k \in Nat /\ (k + 1) + 1 = k + 2
  BY <1>1 DEF Meets
<1>6. Reads(Tail(a), Noted(c, Head(q)), Tail(f), d)
  BY <1>3, <1>4
<1>7. Noted(c, Head(q)) \in CountValues
  BY <1>6, ReadsTypes
<1>8. n \in Nat /\ n <= o + (Len(fields) + 1)
  BY DEF Reading
<1> QED
  BY ONLY <1>4, <1>5, <1>6, <1>7, <1>8 DEF Reading

LEMMA ReadingLoop ==
  ASSUME NEW s, NEW w, NEW o \in Nat, NEW fields \in Seq(FieldSet),
         NEW n, NEW a, NEW c, NEW q, Reading(s, w, o, fields, n, a, c, q),
         a # <<>>, Head(a).body # <<>>
  PROVE  Reading(s, w, o, fields, n, Times(c[Head(a).name], Head(a).body) \o Tail(a), c, q)
<1>1. PICK k, f, d : Meets(s, w, o, fields, n, a, c, q, k, f, d)
  BY ReadingMeets
<1>2. a \in Seq(Items) /\ c \in CountValues /\ f \in Seq(FieldSet) /\ Reads(a, c, f, d)
  BY <1>1, ReadsTypes DEF Meets
<1>3. Reads(Times(c[Head(a).name], Head(a).body) \o Tail(a), c, f, d)
  BY <1>2, ReadsIs
<1> QED
  BY <1>1, <1>3 DEF Reading, Meets

\* The root goes on, and does not await this worker's acknowledgement.
LEMMA ReadingGoesOn ==
  ASSUME NEW s, NEW w, NEW o \in Nat, NEW fields \in Seq(FieldSet), WritesAll(s, w, o, fields),
         NEW n \in 1 .. Len(s), NEW a, NEW c, NEW q, Reading(s, w, o, fields, n, a, c, q),
         ~AwaitsOf(s, w, n), NEW z,
         z = IF WritesTo(s, w, n) THEN Append(q, s[n].data) ELSE q
  PROVE  Reading(s, w, o, fields, n + 1, a, c, z)
<1>1. PICK k, f, d : Meets(s, w, o, fields, n, a, c, q, k, f, d)
  BY ReadingMeets
<1>2. Carries(s, w, o + (k + 1), n, q)
  BY <1>1 DEF Meets
<1>3. Carries(s, w, o + (k + 1), n + 1, z)
  BY <1>2, CarriesWrite, CarriesOther
<1>4. n # o + (Len(fields) + 1)
  BY DEF WritesAll, AwaitsOf, Do
<1>5. n + 1 \in Nat /\ n + 1 <= o + (Len(fields) + 1) /\ (o + (k + 1) <= n => o + (k + 1) <= n + 1)
  <2>1. n \in Nat /\ n <= o + (Len(fields) + 1) /\ Len(fields) \in Nat /\ k \in Nat
    BY <1>1, LenProperties DEF Reading, Meets
  <2> QED
    BY <2>1, <1>4
<1> QED
  BY <1>1, <1>3, <1>5 DEF Reading, Meets

-----------------------------------------------------------------------------
(* What a node has loaded.                                                 *)

LEMMA BagOfSet ==
  ASSUME NEW S
  PROVE  /\ DOMAIN SetToBag(S) = S /\ \A e \in S : SetToBag(S)[e] = 1
         /\ BagToSet(SetToBag(S)) = S /\ EmptyBag = SetToBag({})
BY DEF SetToBag, BagToSet, EmptyBag

LEMMA BagAdd ==
  ASSUME NEW S, NEW v, v \notin S
  PROVE  SetToBag(S) (+) SetToBag({v}) = SetToBag(S \cup {v})
<1>1. PICK a, b, c : a = SetToBag(S) /\ b = SetToBag({v}) /\ c = SetToBag(S \cup {v})
  OBVIOUS
<1>2. a = [e \in S |-> 1] /\ b = [e \in {v} |-> 1] /\ c = [e \in S \cup {v} |-> 1]
  BY <1>1 DEF SetToBag
<1>3. a (+) b = [e \in S \cup {v} |-> (IF e \in S THEN a[e] ELSE 0) + (IF e \in {v} THEN b[e] ELSE 0)]
  BY ONLY <1>2 DEF (+)
<1>4. \A e \in S \cup {v} : (IF e \in S THEN a[e] ELSE 0) + (IF e \in {v} THEN b[e] ELSE 0) = 1
  BY <1>2
<1> QED
  BY ONLY <1>1, <1>2, <1>3, <1>4

\* The steps before r that give node n a weight one of its operations uses.
GivenTo(m, s, n, r) ==
  {p \in Configured(m) + 1 .. Delivered(m) :
     p < r /\ s[p].node = n /\ HasOp(m.topology, m.nLayers, n, s[p].data.value.weight)}

PartsOf(m, s, n, r) == {s[p].data.value : p \in GivenTo(m, s, n, r)}

LEMMA PartsNone ==
  ASSUME NEW m \in Models, NEW s, s = Script(m), NEW n, NEW r \in Nat, r <= Configured(m) + 1
  PROVE  PartsOf(m, s, n, r) = {}
<1>1. Configured(m) \in Nat
  BY WeightsAre DEF WeightPlaces
<1>2. GivenTo(m, s, n, r) = {}
  BY <1>1 DEF GivenTo
<1> QED
  BY <1>2 DEF PartsOf

LEMMA PartsSkip ==
  ASSUME NEW m \in Models, NEW s, s = Script(m), NEW n, NEW r \in Nat, NEW q \in Nat, r <= q,
         \A p \in r .. q - 1 : p \in Configured(m) + 1 .. Delivered(m) => s[p].node # n
  PROVE  PartsOf(m, s, n, q) = PartsOf(m, s, n, r)
<1>1. Configured(m) \in Nat /\ Delivered(m) \in Nat
  BY WeightsAre DEF WeightPlaces
<1>2. ASSUME NEW p \in Configured(m) + 1 .. Delivered(m), s[p].node = n
      PROVE  p < q <=> p < r
  <2>1. p \in Nat
    BY <1>1
  <2>2. p \notin r .. q - 1
    BY <1>2
  <2> QED
    BY <2>1, <2>2
<1>3. GivenTo(m, s, n, q) = GivenTo(m, s, n, r)
  BY <1>2 DEF GivenTo
<1> QED
  BY <1>3 DEF PartsOf

\* The weight at place p is new to its node.
LEMMA PartsNext ==
  ASSUME NEW m \in Models, NEW s, s = Script(m), NEW n, NEW p \in Configured(m) + 1 .. Delivered(m),
         s[p].node = n
  PROVE  /\ s[p].data.value \notin PartsOf(m, s, n, p)
         /\ PartsOf(m, s, n, p + 1) =
              IF HasOp(m.topology, m.nLayers, n, s[p].data.value.weight)
              THEN PartsOf(m, s, n, p) \cup {s[p].data.value} ELSE PartsOf(m, s, n, p)
<1>1. Configured(m) \in Nat /\ Delivered(m) \in Nat
  BY WeightsAre DEF WeightPlaces
<1>2. \A x \in Configured(m) + 1 .. Delivered(m) : x < p + 1 <=> x < p \/ x = p
  BY <1>1
<1>3. GivenTo(m, s, n, p + 1) =
        IF HasOp(m.topology, m.nLayers, n, s[p].data.value.weight)
        THEN GivenTo(m, s, n, p) \cup {p} ELSE GivenTo(m, s, n, p)
  BY <1>2 DEF GivenTo
<1>4. PartsOf(m, s, n, p + 1) =
        IF HasOp(m.topology, m.nLayers, n, s[p].data.value.weight)
        THEN PartsOf(m, s, n, p) \cup {s[p].data.value} ELSE PartsOf(m, s, n, p)
  BY <1>3 DEF PartsOf
<1>5. ASSUME NEW x \in GivenTo(m, s, n, p), s[x].data.value = s[p].data.value
      PROVE  FALSE
  <2>1. x \in Configured(m) + 1 .. Delivered(m) /\ x # p /\ s[x].node = n
    BY <1>1 DEF GivenTo
  <2>2. PICK k \in Nodes(m.topology), v \in Range(FileOrder(m)) : s[x] = Delivery(m, k, v)
    BY <2>1, WeightsAre DEF WeightPlaces
  <2>3. PICK l \in Nodes(m.topology), u \in Range(FileOrder(m)) : s[p] = Delivery(m, l, u)
    BY WeightsAre DEF WeightPlaces
  <2>4. k = l
    BY <2>1, <2>2, <2>3, DeliveryFields
  <2>5. v = u
    BY <1>5, <2>2, <2>3, DeliveryFields
  <2>6. s[x] # s[p]
    BY <2>1, WeightsAre DEF WeightPlaces
  <2> QED
    BY <2>2, <2>3, <2>4, <2>5, <2>6
<1>6. s[p].data.value \notin PartsOf(m, s, n, p)
  BY <1>5 DEF PartsOf
<1> QED
  BY <1>4, <1>6

\* After the last weight a node has all parts it needs.
LEMMA PartsAll ==
  ASSUME NEW m \in Models, m.topology.spSize = 1, NEW s, s = Script(m),
         NEW n \in Nodes(m.topology), NEW r \in Nat, Delivered(m) < r
  PROVE  PartsOf(m, s, n, r) = Needed(m, n)
<1>1. Configured(m) \in Nat /\ Delivered(m) \in Nat
  BY WeightsAre DEF WeightPlaces
<1>0. PICK t : t = m.topology
  OBVIOUS
<1>2. PICK nL \in Nat : t = m.topology /\ nL = m.nLayers /\ IsTopology(t)
  BY <1>0, ModelType
<1>3. ASSUME NEW v \in Range(FileOrder(m)), HasOp(t, nL, n, v)
      PROVE  /\ Receives(t, nL, n, v)
             /\ Part(m, n, v) = [weight |-> v, slice |-> IF v.op \in SlicedOps THEN TpRank(t, n) ELSE 0]
  <2>1. v \in Weights(m)
    BY FileType
  <2>2. v.layer \in 0 .. nL - 1
    BY <1>2, <2>1 DEF Weights, WeightSet
  <2>3. Receives(t, nL, n, v) /\ (v.op \in SlicedOps => SliceFor(t, n, v) = TpRank(t, n))
    BY <1>2, <1>3, <2>2, WeightsReachTheirOps
  <2>4. v.op \notin SlicedOps => SliceFor(t, n, v) = 0
    BY DEF SliceFor
  <2> QED
    BY <1>2, <2>3, <2>4 DEF Part
<1>4. Needed(m, n) = {Part(m, n, v) : v \in {v \in Range(FileOrder(m)) : HasOp(t, nL, n, v)}}
  BY <1>2, <1>3 DEF Needed
<1>5. ASSUME NEW p \in GivenTo(m, s, n, r)
      PROVE  \E v \in Range(FileOrder(m)) : HasOp(t, nL, n, v) /\ s[p].data.value = Part(m, n, v)
  <2>1. /\ p \in Configured(m) + 1 .. Delivered(m) /\ s[p].node = n
        /\ HasOp(t, nL, n, s[p].data.value.weight)
    BY <1>2 DEF GivenTo
  <2>2. PICK k \in Nodes(m.topology), v \in Range(FileOrder(m)) : s[p] = Delivery(m, k, v)
    BY <2>1, WeightsAre DEF WeightPlaces
  <2>3. k = n /\ s[p].data.value.weight = v /\ s[p].data.value = Part(m, k, v)
    BY <2>1, <2>2, DeliveryFields
  <2> QED
    BY <2>1, <2>3
<1>6. ASSUME NEW v \in Range(FileOrder(m)), HasOp(t, nL, n, v)
      PROVE  \E p \in GivenTo(m, s, n, r) : s[p].data.value = Part(m, n, v)
  <2>1. PICK p \in Configured(m) + 1 .. Delivered(m) : s[p] = Delivery(m, n, v)
    BY <1>2, <1>3, <1>6, WeightsAre, SMTT(60) DEF WeightPlaces
  <2>2. s[p].node = n /\ s[p].data.value.weight = v /\ s[p].data.value = Part(m, n, v)
    BY <2>1, DeliveryFields
  <2>3. p < r
    BY <1>1
  <2> QED
    BY <1>2, <1>6, <2>2, <2>3 DEF GivenTo
<1> QED
  BY <1>4, <1>5, <1>6 DEF PartsOf

-----------------------------------------------------------------------------
(* A worker at each phase, and what its steps and the root's do to it.     *)

\* Worker w, when the root has come to place n of the script s: a is its agenda,
\* c its counts, q what is on its way to it, k its acknowledgements and b what it
\* has loaded.
AtNet(s, w, n, a, c, q, k, b) ==
  /\ k = 0 /\ b = EmptyBag /\ Reading(s, w, Base(w), NetFields, n, a, c, q)

AtNode(s, w, n, a, c, q, k, b) ==
  /\ n >= NodeBase(w) /\ k = (IF n = NodeBase(w) THEN 1 ELSE 0) /\ b = EmptyBag
  /\ Reading(s, w, NodeBase(w), NodeFields, n, a, c, q)

AtWeights(m, s, w, n, q, k, b) ==
  /\ n \in Settled(w) .. End(m, w) + 1 /\ k = (IF n = Settled(w) THEN 1 ELSE 0)
  /\ \E r \in Settled(w) + 1 .. End(m, w) :
       Carries(s, w, r, n, q) /\ b = SetToBag(PartsOf(m, s, w, r))

AtReady(m, s, w, n, q, k, b) ==
  /\ n \in Nat /\ n > End(m, w) /\ k = (IF n = End(m, w) + 1 THEN 1 ELSE 0) /\ q = <<>>
  /\ b = SetToBag(PartsOf(m, s, w, End(m, w) + 1))

AtListening(n, q, k, b) ==
  n \in Nat /\ q = <<>> /\ k \in {0, 1} /\ \E X : b = SetToBag(X)

WorkerAt(m, s, w, n, ph, a, c, q, k, b) ==
  \/ ph = "net" /\ AtNet(s, w, n, a, c, q, k, b)
  \/ ph = "node" /\ AtNode(s, w, n, a, c, q, k, b)
  \/ ph = "weights" /\ AtWeights(m, s, w, n, q, k, b)
  \/ ph = "ready" /\ AtReady(m, s, w, n, q, k, b)
  \/ ph = "listening" /\ AtListening(n, q, k, b)

\* The places of worker w, for arithmetic.
LEMMA PlaceNumbers ==
  ASSUME NEW m \in Models, NEW w \in Workers(m), NEW s, s = Script(m)
  PROVE  /\ Base(w) \in Nat /\ NodeBase(w) \in Nat /\ Settled(w) \in Nat /\ End(m, w) \in Nat
         /\ Len(s) \in Nat /\ Len(NetFields) \in Nat /\ Len(NodeFields) \in Nat
         /\ NodeBase(w) = Base(w) + (Len(NetFields) + 1)
         /\ Settled(w) = NodeBase(w) + (Len(NodeFields) + 1)
         /\ Base(w) < NodeBase(w) /\ NodeBase(w) < Settled(w) /\ Settled(w) <= Configured(m)
         /\ Configured(m) \in Nat /\ Delivered(m) \in Nat /\ Configured(m) < Delivered(m)
         /\ Delivered(m) < End(m, w) /\ End(m, w) + 1 <= Len(s) /\ Settled(w) + 1 <= End(m, w)
<1>1. /\ Base(w) \in Nat /\ NodeBase(w) \in Nat /\ Settled(w) \in Nat
      /\ NodeBase(w) = Base(w) + Len(NetFields) + 1
      /\ Settled(w) = NodeBase(w) + Len(NodeFields) + 1
      /\ Settled(w) <= Configured(m) /\ End(m, w) \in Delivered(m) + 1 .. Len(s) - 1
  BY PlacesAre DEF PlacesOf
<1>2. /\ Configured(m) \in Nat /\ Delivered(m) \in Nat /\ Configured(m) < Delivered(m) /\ Len(s) \in Nat
  BY WeightsAre DEF WeightPlaces
<1>3. Len(NetFields) \in Nat /\ Len(NodeFields) \in Nat
  BY NetSome, NodeSome, LenProperties
<1> QED
  BY ONLY <1>1, <1>2, <1>3, SMTT(60)

\* The root awaits the acknowledgements of w at three places and writes to it at
\* none of them.
LEMMA AckPlaces ==
  ASSUME NEW m \in Models, NEW w \in Workers(m), NEW s, s = Script(m)
  PROVE  /\ \A p \in {NodeBase(w), Settled(w), End(m, w) + 1} : AwaitsOf(s, w, p) /\ ~WritesTo(s, w, p)
         /\ \A p \in 1 .. Len(s) : AwaitsOf(s, w, p) => p \in {NodeBase(w), Settled(w), End(m, w) + 1}
         /\ \A p \in 1 .. Len(s) : p <= Base(w) \/ p > End(m, w) => ~WritesTo(s, w, p)
         /\ \A p \in 1 .. Len(s) : p > Settled(w) /\ WritesTo(s, w, p) =>
              p \in Configured(m) + 1 .. Delivered(m) \/ p = End(m, w)
<1>1. PICK b, x, y, cc, d, e :
        /\ b = Base(w) /\ x = NodeBase(w) /\ y = Settled(w) /\ cc = Configured(m)
        /\ d = Delivered(m) /\ e = End(m, w)
  OBVIOUS
<1>2. /\ b \in Nat /\ x \in Nat /\ y \in Nat /\ cc \in Nat /\ d \in Nat /\ e \in Nat
      /\ x = b + (Len(NetFields) + 1) /\ y = x + (Len(NodeFields) + 1)
      /\ b < x /\ x < y /\ y <= cc /\ cc < d /\ d < e
  BY ONLY <1>1, m \in Models, w \in Workers(m), s = Script(m), PlaceNumbers
<1>3. s[x] = Do("readAck", w, 0) /\ s[y] = Do("readAck", w, 0) /\ s[e + 1] = Do("readAck", w, 0)
  BY <1>1, <1>2, PlacesAre, SMTT(60) DEF PlacesOf, WritesAll
<1>4. \A p \in {x, y, e + 1} : AwaitsOf(s, w, p) /\ ~WritesTo(s, w, p)
  BY <1>3 DEF AwaitsOf, WritesTo, Do
<1>5. \A p \in 1 .. Len(s) : AwaitsOf(s, w, p) => p \in {x, y, e + 1}
  BY <1>1, PlacesAre DEF PlacesOf
<1>6. \A p \in 1 .. Len(s) : WritesTo(s, w, p) =>
        p \in b + 1 .. x - 1 \/ p \in x + 1 .. y - 1 \/ p \in cc + 1 .. d \/ p = e
  BY <1>1, PlacesAre DEF PlacesOf
<1>7. \A p \in 1 .. Len(s) : p <= b \/ p > e => ~WritesTo(s, w, p)
  BY ONLY <1>2, <1>6
<1>8. \A p \in 1 .. Len(s) : p > y /\ WritesTo(s, w, p) => p \in cc + 1 .. d \/ p = e
  BY ONLY <1>2, <1>6
<1> QED
  BY ONLY <1>1, <1>4, <1>5, <1>7, <1>8

\* The root goes on, and it does not await an acknowledgement of worker w.
LEMMA WorkerGoesOn ==
  ASSUME NEW m \in Models, NEW w \in Workers(m), NEW s, s = Script(m), NEW n \in 1 .. Len(s),
         NEW ph, NEW a, NEW c, NEW q, NEW k, NEW b, WorkerAt(m, s, w, n, ph, a, c, q, k, b),
         ~AwaitsOf(s, w, n), NEW z,
         z = IF WritesTo(s, w, n) /\ ph # "listening" THEN Append(q, s[n].data) ELSE q
  PROVE  WorkerAt(m, s, w, n + 1, ph, a, c, z, k, b)
<1>1. /\ Base(w) \in Nat /\ NodeBase(w) \in Nat /\ Settled(w) \in Nat /\ End(m, w) \in Nat
      /\ NodeBase(w) < Settled(w) /\ Settled(w) <= End(m, w)
      /\ NodeFields \in Seq(FieldSet) /\ NetFields \in Seq(FieldSet)
      /\ WritesAll(s, w, Base(w), NetFields) /\ WritesAll(s, w, NodeBase(w), NodeFields)
  BY PlaceNumbers, NetSome, NodeSome, HandshakePlaces
<1>2. n # NodeBase(w) /\ n # Settled(w) /\ n # End(m, w) + 1
  BY AckPlaces
<1>3. CASE ph = "net"
  <2>1. AtNet(s, w, n, a, c, q, k, b)
    BY <1>3 DEF WorkerAt
  <2>2. AtNet(s, w, n + 1, a, c, z, k, b)
    BY <2>1, <1>1, <1>3, ReadingGoesOn DEF AtNet
  <2> QED
    BY <2>2, <1>3 DEF WorkerAt
<1>4. CASE ph = "node"
  <2>1. AtNode(s, w, n, a, c, q, k, b)
    BY <1>4 DEF WorkerAt
  <2>2. Reading(s, w, NodeBase(w), NodeFields, n + 1, a, c, z)
    BY <2>1, <1>1, <1>4, ReadingGoesOn DEF AtNode
  <2>3. n + 1 >= NodeBase(w) /\ k = (IF n + 1 = NodeBase(w) THEN 1 ELSE 0) /\ b = EmptyBag
    BY <2>1, <1>1, <1>2 DEF AtNode
  <2>4. AtNode(s, w, n + 1, a, c, z, k, b)
    BY <2>2, <2>3 DEF AtNode
  <2> QED
    BY <2>4, <1>4 DEF WorkerAt
<1>5. CASE ph = "weights"
  <2>1. AtWeights(m, s, w, n, q, k, b)
    BY <1>5 DEF WorkerAt
  <2>2. PICK r \in Settled(w) + 1 .. End(m, w) :
          Carries(s, w, r, n, q) /\ b = SetToBag(PartsOf(m, s, w, r))
    BY <2>1 DEF AtWeights
  <2>3. Carries(s, w, r, n + 1, z)
    BY <2>2, <1>5, CarriesWrite, CarriesOther
  <2>4. n + 1 \in Settled(w) .. End(m, w) + 1 /\ k = (IF n + 1 = Settled(w) THEN 1 ELSE 0)
    BY <2>1, <1>1, <1>2 DEF AtWeights
  <2>5. AtWeights(m, s, w, n + 1, z, k, b)
    BY <2>2, <2>3, <2>4 DEF AtWeights
  <2> QED
    BY <2>5, <1>5 DEF WorkerAt
<1>6. CASE ph = "ready"
  <2>1. AtReady(m, s, w, n, q, k, b)
    BY <1>6 DEF WorkerAt
  <2>2. n > End(m, w)
    BY <2>1 DEF AtReady
  <2>3. z = q
    BY <2>2, AckPlaces
  <2>4. AtReady(m, s, w, n + 1, z, k, b)
    BY <2>1, <2>3, <1>1, <1>2 DEF AtReady
  <2> QED
    BY <2>4, <1>6 DEF WorkerAt
<1>7. CASE ph = "listening"
  BY <1>7 DEF WorkerAt, AtListening
<1> QED
  BY <1>3, <1>4, <1>5, <1>6, <1>7 DEF WorkerAt

\* The root takes an acknowledgement of worker w.
LEMMA WorkerAcked ==
  ASSUME NEW m \in Models, NEW w \in Workers(m), NEW s, s = Script(m), NEW n \in 1 .. Len(s),
         NEW ph, NEW a, NEW c, NEW q, NEW k, NEW b, WorkerAt(m, s, w, n, ph, a, c, q, k, b),
         AwaitsOf(s, w, n), k > 0
  PROVE  WorkerAt(m, s, w, n + 1, ph, a, c, q, k - 1, b)
<1>1. /\ Base(w) \in Nat /\ NodeBase(w) \in Nat /\ Settled(w) \in Nat /\ End(m, w) \in Nat
      /\ NodeBase(w) < Settled(w) /\ Settled(w) < End(m, w)
      /\ Settled(w) = NodeBase(w) + (Len(NodeFields) + 1) /\ Len(NodeFields) \in Nat
  BY PlaceNumbers
<1>2. ~WritesTo(s, w, n)
  BY DEF AwaitsOf, WritesTo
<1>3. CASE ph = "net"
  BY <1>3 DEF WorkerAt, AtNet
<1>4. CASE ph = "node"
  <2>1. AtNode(s, w, n, a, c, q, k, b)
    BY <1>4 DEF WorkerAt
  <2>2. n = NodeBase(w) /\ k = 1 /\ b = EmptyBag
    BY <2>1 DEF AtNode
  <2>3. Reading(s, w, NodeBase(w), NodeFields, n + 1, a, c, q)
    <3>1. PICK j, f, d : Meets(s, w, NodeBase(w), NodeFields, n, a, c, q, j, f, d)
      BY <2>1, <1>1, NodeSome, ReadingMeets DEF AtNode
    <3>2. Carries(s, w, NodeBase(w) + (j + 1), n + 1, q)
      BY <3>1, <1>2, CarriesOther DEF Meets
    <3>3. n + 1 \in Nat /\ n + 1 <= NodeBase(w) + (Len(NodeFields) + 1)
      BY <2>2, <1>1
    <3>4. j = 0
      <4>1. j \in Nat /\ (j = 0 \/ NodeBase(w) + (j + 1) <= n)
        BY <3>1 DEF Meets
      <4> QED
        BY <4>1, <2>2, <1>1
    <3> QED
      BY <3>1, <3>2, <3>3, <3>4 DEF Reading, Meets
  <2>4. AtNode(s, w, n + 1, a, c, q, k - 1, b)
    BY <2>2, <2>3, <1>1 DEF AtNode
  <2> QED
    BY <2>4, <1>4 DEF WorkerAt
<1>5. CASE ph = "weights"
  <2>1. AtWeights(m, s, w, n, q, k, b)
    BY <1>5 DEF WorkerAt
  <2>2. PICK r \in Settled(w) + 1 .. End(m, w) :
          Carries(s, w, r, n, q) /\ b = SetToBag(PartsOf(m, s, w, r))
    BY <2>1 DEF AtWeights
  <2>3. n = Settled(w) /\ k = 1
    BY <2>1 DEF AtWeights
  <2>4. Carries(s, w, r, n + 1, q)
    BY <2>2, <1>2, CarriesOther
  <2>5. n + 1 \in Settled(w) .. End(m, w) + 1 /\ k - 1 = (IF n + 1 = Settled(w) THEN 1 ELSE 0)
    BY <2>3, <1>1
  <2>6. AtWeights(m, s, w, n + 1, q, k - 1, b)
    BY <2>2, <2>4, <2>5 DEF AtWeights
  <2> QED
    BY <2>6, <1>5 DEF WorkerAt
<1>6. CASE ph = "ready"
  <2>1. AtReady(m, s, w, n, q, k, b)
    BY <1>6 DEF WorkerAt
  <2>2. n = End(m, w) + 1 /\ k = 1
    BY <2>1 DEF AtReady
  <2>3. n + 1 \in Nat /\ n + 1 > End(m, w) /\ k - 1 = (IF n + 1 = End(m, w) + 1 THEN 1 ELSE 0)
    BY <2>2, <1>1
  <2>4. AtReady(m, s, w, n + 1, q, k - 1, b)
    BY <2>1, <2>3 DEF AtReady
  <2> QED
    BY <2>4, <1>6 DEF WorkerAt
<1>7. CASE ph = "listening"
  <2>1. n \in Nat /\ q = <<>> /\ k \in {0, 1} /\ \E X : b = SetToBag(X)
    BY <1>7 DEF WorkerAt, AtListening
  <2>2. k - 1 \in {0, 1} /\ n + 1 \in Nat
    BY <2>1
  <2> QED
    BY <2>1, <2>2, <1>7 DEF WorkerAt, AtListening
<1> QED
  BY <1>3, <1>4, <1>5, <1>6, <1>7 DEF WorkerAt

\* Worker w reads a field of a configuration.
LEMMA WorkerReadsField ==
  ASSUME NEW m \in Models, NEW w \in Workers(m), NEW s, s = Script(m), NEW n,
         NEW ph \in {"net", "node"}, NEW a, NEW c, NEW q, NEW k, NEW b,
         WorkerAt(m, s, w, n, ph, a, c, q, k, b), a # <<>>, q # <<>>, Head(a).body = <<>>
  PROVE  /\ WorkerAt(m, s, w, n, ph, Tail(a), Noted(c, Head(q)), Tail(q), k, b)
         /\ Noted(c, Head(q)) \in CountValues
<1>1. /\ Base(w) \in Nat /\ NodeBase(w) \in Nat
      /\ NodeFields \in Seq(FieldSet) /\ NetFields \in Seq(FieldSet)
      /\ WritesAll(s, w, Base(w), NetFields) /\ WritesAll(s, w, NodeBase(w), NodeFields)
  BY PlaceNumbers, NetSome, NodeSome, HandshakePlaces
<1>2. CASE ph = "net"
  BY <1>1, <1>2, ReadingField DEF WorkerAt, AtNet
<1>3. CASE ph = "node"
  BY <1>1, <1>3, ReadingField DEF WorkerAt, AtNode
<1> QED
  BY <1>2, <1>3

LEMMA WorkerEntersLoop ==
  ASSUME NEW m \in Models, NEW w \in Workers(m), NEW s, s = Script(m), NEW n,
         NEW ph \in {"net", "node"}, NEW a, NEW c, NEW q, NEW k, NEW b,
         WorkerAt(m, s, w, n, ph, a, c, q, k, b), a # <<>>, Head(a).body # <<>>, NEW l,
         l = Times(c[Head(a).name], Head(a).body) \o Tail(a)
  PROVE  WorkerAt(m, s, w, n, ph, l, c, q, k, b)
<1>1. /\ Base(w) \in Nat /\ NodeBase(w) \in Nat
      /\ NodeFields \in Seq(FieldSet) /\ NetFields \in Seq(FieldSet)
  BY PlaceNumbers, NetSome, NodeSome
<1>2. CASE ph = "net"
  BY <1>1, <1>2, ReadingLoop DEF WorkerAt, AtNet
<1>3. CASE ph = "node"
  BY <1>1, <1>3, ReadingLoop DEF WorkerAt, AtNode
<1> QED
  BY <1>2, <1>3

\* It has read the configuration of the net.
LEMMA WorkerHasNet ==
  ASSUME NEW m \in Models, NEW w \in Workers(m), NEW s, s = Script(m), NEW n,
         NEW a, NEW c \in CountValues, NEW q, NEW k, NEW b,
         WorkerAt(m, s, w, n, "net", a, c, q, k, b), a = <<>>
  PROVE  WorkerAt(m, s, w, n, "node", ReadNode, c, q, k + 1, b)
<1>1. /\ Base(w) \in Nat /\ NodeBase(w) \in Nat /\ NodeBase(w) = Base(w) + (Len(NetFields) + 1)
      /\ NodeFields \in Seq(FieldSet) /\ NetFields \in Seq(FieldSet) /\ NetFields # <<>>
  BY PlaceNumbers, NetSome, NodeSome
<1>2. AtNet(s, w, n, a, c, q, k, b)
  BY DEF WorkerAt
<1>3. q = <<>> /\ n = NodeBase(w) /\ k = 0 /\ b = EmptyBag
  BY <1>1, <1>2, ReadingEnds DEF AtNet
<1>4. \A p \in n .. NodeBase(w) : ~WritesTo(s, w, p)
  <2>1. ~WritesTo(s, w, NodeBase(w))
    BY AckPlaces
  <2>2. n .. NodeBase(w) = {NodeBase(w)}
    BY <1>1, <1>3
  <2> QED
    BY <2>1, <2>2
<1>5. Reading(s, w, NodeBase(w), NodeFields, n, ReadNode, c, q)
  <2>1. n \in Nat /\ n <= NodeBase(w) + 1
    BY <1>1, <1>3
  <2> QED
    BY <2>1, <1>1, <1>3, <1>4, NodeFollows, ReadingBegins
<1>6. AtNode(s, w, n, ReadNode, c, q, k + 1, b)
  BY <1>1, <1>3, <1>5 DEF AtNode
<1> QED
  BY <1>6 DEF WorkerAt

\* It has read the configuration of the node.
LEMMA WorkerHasNode ==
  ASSUME NEW m \in Models, NEW w \in Workers(m), NEW s, s = Script(m), NEW n,
         NEW a, NEW c, NEW q, NEW k, NEW b,
         WorkerAt(m, s, w, n, "node", a, c, q, k, b), a = <<>>, NEW l
  PROVE  WorkerAt(m, s, w, n, "weights", l, c, q, k + 1, b)
<1>1. /\ NodeBase(w) \in Nat /\ Settled(w) = NodeBase(w) + (Len(NodeFields) + 1)
      /\ NodeFields \in Seq(FieldSet) /\ NodeFields # <<>> /\ Settled(w) \in Nat
      /\ NodeBase(w) < Settled(w) /\ End(m, w) \in Nat /\ Settled(w) + 1 <= End(m, w)
      /\ Settled(w) + 1 <= Configured(m) + 1
  BY PlaceNumbers, NodeSome
<1>2. AtNode(s, w, n, a, c, q, k, b)
  BY DEF WorkerAt
<1>3. q = <<>> /\ n = Settled(w) /\ b = EmptyBag
  BY <1>1, <1>2, ReadingEnds DEF AtNode
<1>4. k = 0
  BY <1>1, <1>2, <1>3 DEF AtNode
<1>5. PICK r \in Nat : r = Settled(w) + 1
  BY <1>1
<1>6. Carries(s, w, r, n, q)
  <2>1. ~WritesTo(s, w, Settled(w))
    BY AckPlaces
  <2>2. n .. r - 1 = {Settled(w)}
    BY <1>1, <1>3, <1>5
  <2>3. \A p \in n .. r - 1 : ~WritesTo(s, w, p)
    BY <2>1, <2>2
  <2>4. n \in Nat /\ n <= r
    BY <1>1, <1>3, <1>5
  <2> QED
    BY <2>3, <2>4, <1>3, CarriesNothing
<1>7. b = SetToBag(PartsOf(m, s, w, r))
  <2>1. PartsOf(m, s, w, r) = {}
    BY <1>1, <1>5, PartsNone
  <2> QED
    BY <2>1, <1>3, BagOfSet
<1>8. /\ n \in Settled(w) .. End(m, w) + 1 /\ k + 1 = (IF n = Settled(w) THEN 1 ELSE 0)
      /\ r \in Settled(w) + 1 .. End(m, w)
  BY <1>1, <1>3, <1>4, <1>5
<1>9. AtWeights(m, s, w, n, q, k + 1, b)
  BY <1>6, <1>7, <1>8 DEF AtWeights
<1> QED
  BY <1>9 DEF WorkerAt

\* What is first on the way to a worker that reads weights is the next weight of
\* the script, or the end if none is left.
LEMMA NextWeight ==
  ASSUME NEW m \in Models, NEW w \in Workers(m), NEW s, s = Script(m), NEW n, NEW q,
         NEW r \in Settled(w) + 1 .. End(m, w), n \in Settled(w) .. End(m, w) + 1,
         Carries(s, w, r, n, q), q # <<>>
  PROVE  \E p \in Nat :
           /\ r <= p /\ p < n /\ s[p].node = w /\ Head(q) = s[p].data /\ Carries(s, w, p + 1, n, Tail(q))
           /\ PartsOf(m, s, w, p) = PartsOf(m, s, w, r)
           /\ \/ p \in Configured(m) + 1 .. Delivered(m) /\ Head(q).name = "weight"
              \/ p = End(m, w) /\ Head(q).name = "zero"
<1>1. /\ Settled(w) \in Nat /\ End(m, w) \in Nat /\ Len(s) \in Nat /\ End(m, w) + 1 <= Len(s)
      /\ Configured(m) \in Nat /\ Delivered(m) \in Nat /\ Delivered(m) < End(m, w)
  BY PlaceNumbers
<1>2. PICK p : First(s, w, r, n, q, p)
  BY CarriesHead
<1>3. /\ p \in r .. n - 1 /\ WritesTo(s, w, p) /\ Head(q) = s[p].data
      /\ \A x \in r .. p - 1 : ~WritesTo(s, w, x)
      /\ Carries(s, w, p + 1, n, Tail(q))
  BY <1>2 DEF First
<1>4. p \in Nat /\ p \in 1 .. Len(s) /\ p > Settled(w) /\ r \in Nat /\ r <= p /\ p < n
  BY <1>1, <1>3
<1>5. p \in Configured(m) + 1 .. Delivered(m) \/ p = End(m, w)
  BY <1>3, <1>4, AckPlaces
<1>6. ASSUME NEW x \in Configured(m) + 1 .. Delivered(m), s[x].node = w
      PROVE  WritesTo(s, w, x) /\ s[x].data.name = "weight"
  <2>1. PICK l \in Nodes(m.topology), v \in Range(FileOrder(m)) : s[x] = Delivery(m, l, v)
    BY WeightsAre DEF WeightPlaces
  <2>2. s[x].node = l /\ s[x].what = (IF l = Root THEN "load" ELSE "write") /\ s[x].data.name = "weight"
    BY <2>1, DeliveryFields
  <2> QED
    BY <2>2, <1>6, WorkersAre DEF WritesTo
<1>7. PartsOf(m, s, w, p) = PartsOf(m, s, w, r)
  <2>1. \A x \in r .. p - 1 : x \in Configured(m) + 1 .. Delivered(m) => s[x].node # w
    BY <1>3, <1>6
  <2> QED
    BY <2>1, <1>4, PartsSkip
<1>8. CASE p \in Configured(m) + 1 .. Delivered(m)
  BY <1>3, <1>4, <1>6, <1>7, <1>8 DEF WritesTo
<1>9. CASE p = End(m, w)
  <2>0. s[End(m, w)] = Do("write", w, Zero)
    BY HandshakePlaces
  <2>1. Head(q).name = "zero"
    BY ONLY <2>0, <1>3, <1>9 DEF Do, Zero
  <2> QED
    BY <1>3, <1>4, <1>7, <1>9, <2>1 DEF WritesTo
<1> QED
  BY <1>5, <1>8, <1>9

\* A worker loads a weight it was given, if an operation uses it.
Loads(m, n, b, part) ==
  IF HasOp(m.topology, m.nLayers, n, part.weight) THEN b (+) SetToBag({part}) ELSE b

LEMMA PartsLoaded ==
  ASSUME NEW m \in Models, NEW s, s = Script(m), NEW n, NEW p \in Configured(m) + 1 .. Delivered(m),
         s[p].node = n, NEW b, b = SetToBag(PartsOf(m, s, n, p))
  PROVE  Loads(m, n, b, s[p].data.value) = SetToBag(PartsOf(m, s, n, p + 1))
<1>1. PICK v, old : v = s[p].data.value /\ old = PartsOf(m, s, n, p) /\ v \notin old
  BY PartsNext
<1>2. PartsOf(m, s, n, p + 1) =
        IF HasOp(m.topology, m.nLayers, n, v.weight) THEN old \cup {v} ELSE old
  BY <1>1, PartsNext
<1>3. SetToBag(old) (+) SetToBag({v}) = SetToBag(old \cup {v})
  BY <1>1, BagAdd
<1> QED
  BY <1>1, <1>2, <1>3 DEF Loads

LEMMA WorkerReadsWeight ==
  ASSUME NEW m \in Models, NEW w \in Workers(m), NEW s, s = Script(m), NEW n,
         NEW a, NEW c, NEW q, NEW k, NEW b,
         WorkerAt(m, s, w, n, "weights", a, c, q, k, b), q # <<>>, Head(q).name = "weight"
  PROVE  WorkerAt(m, s, w, n, "weights", a, c, Tail(q), k, Loads(m, w, b, Head(q).value))
<1>1. AtWeights(m, s, w, n, q, k, b)
  BY DEF WorkerAt
<1>2. PICK r \in Settled(w) + 1 .. End(m, w) :
        Carries(s, w, r, n, q) /\ b = SetToBag(PartsOf(m, s, w, r))
  BY <1>1 DEF AtWeights
<1>3. n \in Settled(w) .. End(m, w) + 1 /\ k = (IF n = Settled(w) THEN 1 ELSE 0)
  BY <1>1 DEF AtWeights
<1>4. PICK p \in Nat :
        /\ r <= p /\ p < n /\ s[p].node = w /\ Head(q) = s[p].data /\ Carries(s, w, p + 1, n, Tail(q))
        /\ PartsOf(m, s, w, p) = PartsOf(m, s, w, r)
        /\ \/ p \in Configured(m) + 1 .. Delivered(m) /\ Head(q).name = "weight"
           \/ p = End(m, w) /\ Head(q).name = "zero"
  BY <1>2, <1>3, NextWeight
<1>5. p \in Configured(m) + 1 .. Delivered(m)
  BY <1>4
<1>6. Loads(m, w, b, Head(q).value) = SetToBag(PartsOf(m, s, w, p + 1))
  BY <1>2, <1>4, <1>5, PartsLoaded
<1>7. p + 1 \in Settled(w) + 1 .. End(m, w)
  <2>1. Settled(w) \in Nat /\ End(m, w) \in Nat /\ Delivered(m) \in Nat /\ Delivered(m) < End(m, w)
        /\ Configured(m) \in Nat
    BY PlaceNumbers
  <2> QED
    BY <2>1, <1>4, <1>5
<1>8. AtWeights(m, s, w, n, Tail(q), k, Loads(m, w, b, Head(q).value))
  BY <1>3, <1>4, <1>6, <1>7 DEF AtWeights
<1> QED
  BY <1>8 DEF WorkerAt

LEMMA WorkerReadsZero ==
  ASSUME NEW m \in Models, NEW w \in Workers(m), NEW s, s = Script(m), NEW n,
         NEW a, NEW c, NEW q, NEW k, NEW b,
         WorkerAt(m, s, w, n, "weights", a, c, q, k, b), q # <<>>, Head(q).name = "zero"
  PROVE  WorkerAt(m, s, w, n, "ready", a, c, Tail(q), k + 1, b)
<1>1. AtWeights(m, s, w, n, q, k, b)
  BY DEF WorkerAt
<1>2. PICK r \in Settled(w) + 1 .. End(m, w) :
        Carries(s, w, r, n, q) /\ b = SetToBag(PartsOf(m, s, w, r))
  BY <1>1 DEF AtWeights
<1>3. n \in Settled(w) .. End(m, w) + 1 /\ k = (IF n = Settled(w) THEN 1 ELSE 0)
  BY <1>1 DEF AtWeights
<1>4. PICK p \in Nat :
        /\ r <= p /\ p < n /\ s[p].node = w /\ Head(q) = s[p].data /\ Carries(s, w, p + 1, n, Tail(q))
        /\ PartsOf(m, s, w, p) = PartsOf(m, s, w, r)
        /\ \/ p \in Configured(m) + 1 .. Delivered(m) /\ Head(q).name = "weight"
           \/ p = End(m, w) /\ Head(q).name = "zero"
  BY <1>2, <1>3, NextWeight
<1>5. PICK e \in Nat : /\ e = End(m, w) /\ Delivered(m) \in Nat /\ Delivered(m) < e
                       /\ Settled(w) \in Nat /\ Settled(w) < e
  BY PlaceNumbers, SMTT(60)
<1>6. p = e
  BY <1>4, <1>5
<1>7. n = e + 1 /\ k = 0
  BY <1>3, <1>4, <1>5, <1>6
<1>8. Tail(q) = <<>>
  <2>1. (e + 1) .. n - 1 = {}
    BY <1>7
  <2> QED
    BY <2>1, <1>4, <1>6, CarriesNone
<1>9. PartsOf(m, s, w, e + 1) = PartsOf(m, s, w, r)
  <2>1. \A x \in e .. (e + 1) - 1 : x \in Configured(m) + 1 .. Delivered(m) => s[x].node # w
    BY <1>5
  <2>2. PartsOf(m, s, w, e + 1) = PartsOf(m, s, w, e)
    BY <2>1, PartsSkip
  <2> QED
    BY <2>2, <1>4, <1>6
<1>10. AtReady(m, s, w, n, Tail(q), k + 1, b)
  BY <1>2, <1>5, <1>7, <1>8, <1>9 DEF AtReady
<1> QED
  BY <1>10 DEF WorkerAt

\* What every worker's state is like.
LEMMA WorkerTypes ==
  ASSUME NEW m \in Models, NEW w \in Workers(m), NEW s, s = Script(m), NEW n,
         NEW ph, NEW a, NEW c, NEW q, NEW k, NEW b, WorkerAt(m, s, w, n, ph, a, c, q, k, b)
  PROVE  /\ ph \in {"net", "node", "weights", "ready", "listening"}
         /\ k \in {0, 1} /\ \E X : b = SetToBag(X)
<1>1. k \in {0, 1}
  BY DEF WorkerAt, AtNet, AtNode, AtWeights, AtReady, AtListening
<1>2. ph \in {"net", "node", "weights", "ready", "listening"}
  BY DEF WorkerAt
<1>3. EmptyBag = SetToBag({})
  BY BagOfSet
<1>4. \E X : b = SetToBag(X)
  BY <1>3 DEF WorkerAt, AtNet, AtNode, AtWeights, AtReady, AtListening
<1> QED
  BY <1>1, <1>2, <1>4

\* What a worker finds is what it is about to read.
LEMMA WorkerInStep ==
  ASSUME NEW m \in Models, NEW w \in Workers(m), NEW s, s = Script(m), NEW n,
         NEW ph, NEW a, NEW c, NEW q, NEW k, NEW b, WorkerAt(m, s, w, n, ph, a, c, q, k, b),
         q # <<>>
  PROVE  \/ /\ ph \in {"net", "node"} /\ a # <<>>
            /\ Head(a).body = <<>> => Head(a).name = Head(q).name
         \/ ph = "weights" /\ Head(q).name \in {"weight", "zero"}
<1>1. /\ Base(w) \in Nat /\ NodeBase(w) \in Nat /\ NetFields # <<>> /\ NodeFields # <<>>
      /\ NodeFields \in Seq(FieldSet) /\ NetFields \in Seq(FieldSet)
      /\ WritesAll(s, w, Base(w), NetFields) /\ WritesAll(s, w, NodeBase(w), NodeFields)
  BY PlaceNumbers, NetSome, NodeSome, HandshakePlaces
<1>2. CASE ph = "net"
  BY <1>1, <1>2, ReadingInStep DEF WorkerAt, AtNet
<1>3. CASE ph = "node"
  BY <1>1, <1>3, ReadingInStep DEF WorkerAt, AtNode
<1>4. CASE ph = "weights"
  <2>1. AtWeights(m, s, w, n, q, k, b)
    BY <1>4 DEF WorkerAt
  <2>2. PICK r \in Settled(w) + 1 .. End(m, w) : Carries(s, w, r, n, q)
    BY <2>1 DEF AtWeights
  <2>3. n \in Settled(w) .. End(m, w) + 1
    BY <2>1 DEF AtWeights
  <2>4. Head(q).name \in {"weight", "zero"}
    BY <2>2, <2>3, NextWeight
  <2> QED
    BY <2>4, <1>4
<1> QED
  BY <1>2, <1>3, <1>4 DEF WorkerAt, AtReady, AtListening

-----------------------------------------------------------------------------
(* The inductive invariant and its steps.                                  *)

LEMMA KindsOfStep ==
  ASSUME NEW m \in Models, NEW s, s = Script(m), NEW p \in 1 .. Len(s)
  PROVE  /\ s[p].what = "load" => s[p].node = Root /\ p \in Configured(m) + 1 .. Delivered(m)
         /\ s[p].what # "load" => s[p].node \in Workers(m) /\ s[p].node # Root
<1>1. CASE p \in Configured(m) + 1 .. Delivered(m)
  <2>1. PICK n \in Nodes(m.topology), v \in Range(FileOrder(m)) : s[p] = Delivery(m, n, v)
    BY <1>1, WeightsAre DEF WeightPlaces
  <2>2. s[p].node = n /\ s[p].what = IF n = Root THEN "load" ELSE "write"
    BY <2>1, DeliveryFields
  <2> QED
    BY <2>2, <1>1, WorkersAre
<1>2. CASE p \notin Configured(m) + 1 .. Delivered(m)
  <2>1. s[p].what \in {"write", "readAck"} /\ s[p].node \in Workers(m)
    BY <1>2, WeightsAre DEF WeightPlaces
  <2> QED
    BY <2>1, WorkersAre
<1> QED
  BY <1>1, <1>2

LEMMA WorkerQueue ==
  ASSUME NEW m \in Models, NEW w \in Workers(m), NEW s, s = Script(m), NEW n,
         NEW ph, NEW a, NEW c, NEW q, NEW k, NEW b, WorkerAt(m, s, w, n, ph, a, c, q, k, b)
  PROVE  q \in Seq(Sent(s))
<1>1. \A o, fields : Reading(s, w, o, fields, n, a, c, q) => q \in Seq(Sent(s))
  BY DEF Reading, Carries
<1>2. AtWeights(m, s, w, n, q, k, b) => q \in Seq(Sent(s))
  BY DEF AtWeights, Carries
<1>3. <<>> \in Seq(Sent(s))
  BY EmptySeq
<1> QED
  BY <1>1, <1>2, <1>3 DEF WorkerAt, AtNet, AtNode, AtReady, AtListening

\* The inductive invariant.
AtStep(w) ==
  WorkerAt(model, Script(model), w, next, phase[w], agenda[w], counts[w], chan[w], acks[w], loaded[w])

RootAt ==
  /\ root \in {"running", "ready", "failed"} /\ next \in 1 .. Len(Script(model)) + 1
  /\ root = "running" => next <= Len(Script(model))
  /\ root = "ready" => next = Len(Script(model)) + 1
  /\ loaded[Root] = SetToBag(PartsOf(model, Script(model), Root, next))

Domains ==
  /\ phase \in [Workers(model) -> {"net", "node", "weights", "ready", "listening"}]
  /\ counts \in [Workers(model) -> CountValues]
  /\ DOMAIN agenda = Workers(model) /\ DOMAIN chan = Workers(model) /\ DOMAIN acks = Workers(model)
  /\ DOMAIN loaded = Nodes(model.topology)

IInv ==
  /\ model \in Models /\ Domains /\ RootAt
  /\ \A w \in Workers(model) : AtStep(w)
  /\ \A w \in Workers(model) : Len(chan[w]) <= SocketCapacity
  /\ failures \in 0 .. MaxFailures

LEMMA ScriptOf == ASSUME NEW m \in Models PROVE Scripts[m] = Script(m)
BY DEF Scripts

LEMMA ScriptLength ==
  ASSUME NEW m \in Models
  PROVE  Len(Script(m)) \in Nat \ {0}
BY WeightsAre DEF WeightPlaces

LEMMA IInvInit == Init => IInv
<1> SUFFICES ASSUME Init PROVE IInv
  OBVIOUS
<1>1. PICK m \in Models, s \in {Script(model)} : m = model /\ s = Script(m)
  BY DEF Init
<1>2. /\ root = "running" /\ next = 1 /\ failures = 0
      /\ \A w \in Workers(m) : /\ phase[w] = "net" /\ agenda[w] = ReadNet
                               /\ counts[w] = [x \in Counts |-> 0]
                               /\ chan[w] = <<>> /\ acks[w] = 0
      /\ \A n \in Nodes(m.topology) : loaded[n] = EmptyBag
  BY <1>1 DEF Init
<1>3. Root \in Nodes(m.topology) /\ Workers(m) \subseteq Nodes(m.topology)
  BY WorkersAre
<1>4. [x \in Counts |-> 0] \in CountValues
  BY DEF CountValues
<1>5. Domains
  BY <1>1, <1>4 DEF Init, Domains
<1>6. RootAt
  <2>1. Len(s) \in Nat \ {0}
    BY <1>1, ScriptLength
  <2>2. PartsOf(m, s, Root, 1) = {}
    <3>1. 1 \in Nat /\ 1 <= Configured(m) + 1
      BY <1>1, WeightsAre DEF WeightPlaces
    <3> QED
      BY <3>1, <1>1, PartsNone
  <2>3. loaded[Root] = SetToBag(PartsOf(m, s, Root, 1))
    BY <2>2, <1>2, <1>3, BagOfSet
  <2> QED
    BY <2>1, <2>3, <1>1, <1>2 DEF RootAt
<1>7. ASSUME NEW w \in Workers(m)
      PROVE  AtStep(w)
  <2>1. /\ Base(w) \in Nat /\ NetFields \in Seq(FieldSet) /\ Len(s) \in Nat /\ Base(w) < Len(s)
    <3>1. PlacesOf(m, s, w) /\ WeightPlaces(m, s)
      BY <1>1, PlacesAre, WeightsAre
    <3>2. Base(w) \in Nat /\ Len(s) \in Nat /\ NodeBase(w) \in Nat /\ Base(w) < NodeBase(w)
          /\ NodeBase(w) < Settled(w) /\ Settled(w) \in Nat /\ Settled(w) <= Configured(m)
          /\ Configured(m) \in Nat /\ Configured(m) < Delivered(m) /\ Delivered(m) <= Len(s)
          /\ Delivered(m) \in Nat
      BY <3>1, <1>1, PlaceNumbers DEF WeightPlaces
    <3> QED
      BY ONLY <3>2, NetSome
  <2>2. \A p \in 1 .. Base(w) : ~WritesTo(s, w, p)
    BY <2>1, <1>1, AckPlaces
  <2>3. Reading(s, w, Base(w), NetFields, 1, ReadNet, [x \in Counts |-> 0], <<>>)
    <3>1. 1 \in Nat /\ 1 <= Base(w) + 1
      BY <2>1
    <3> QED
      BY <3>1, <2>1, <2>2, <1>4, NetFollows, ReadingBegins
  <2>4. AtNet(s, w, 1, ReadNet, [x \in Counts |-> 0], <<>>, 0, EmptyBag)
    BY <2>3 DEF AtNet
  <2>5. WorkerAt(m, s, w, 1, "net", ReadNet, [x \in Counts |-> 0], <<>>, 0, EmptyBag)
    BY <2>4 DEF WorkerAt
  <2> QED
    BY <2>5, <1>1, <1>2, <1>3 DEF AtStep
<1>8. \A w \in Workers(m) : Len(chan[w]) <= SocketCapacity
  BY <1>2, EmptySeq, ModelLoadingAssumption
<1>9. failures \in 0 .. MaxFailures
  BY <1>2, ModelLoadingAssumption
<1> QED
  BY <1>1, <1>5, <1>6, <1>7, <1>8, <1>9 DEF IInv

\* The root's step is the one of the script.
LEMMA RootSteps ==
  ASSUME IInv, root = "running"
  PROVE  /\ Scripts[model] = Script(model) /\ next \in 1 .. Len(Script(model))
         /\ Step = Script(model)[next]
         /\ Len(Script(model)) \in Nat
<1>1. Scripts[model] = Script(model) /\ Len(Script(model)) \in Nat \ {0}
  BY ScriptOf, ScriptLength DEF IInv
<1>2. next \in 1 .. Len(Script(model))
  BY <1>1 DEF IInv, RootAt
<1> QED
  BY <1>1, <1>2 DEF Step

\* Where the root is after its step.
LEMMA RootAdvances ==
  ASSUME IInv, root = "running", next' = next + 1, Advance
  PROVE  /\ root' \in {"running", "ready", "failed"} /\ next' \in 1 .. Len(Script(model)) + 1
         /\ root' = "running" => next' <= Len(Script(model))
         /\ root' = "ready" => next' = Len(Script(model)) + 1
<1>1. PICK N \in Nat : N = Len(Script(model)) /\ next \in 1 .. N /\ Scripts[model] = Script(model)
  BY RootSteps
<1>2. root' = IF next < N THEN root ELSE "ready"
  BY <1>1 DEF Advance
<1> QED
  BY ONLY <1>1, <1>2, root = "running", next' = next + 1

LEMMA LoadsStep ==
  ASSUME IInv, RootLoads
  PROVE  IInv'
<1>1. /\ root = "running" /\ Step.what = "load" /\ next' = next + 1 /\ Advance
      /\ UNCHANGED <<model, phase, agenda, counts, chan, acks, failures>>
  BY DEF RootLoads
<1>0. Load(Root, Step.data.value)
  BY DEF RootLoads
<1>2. PICK m \in Models, s \in {Script(model)} : m = model /\ s = Script(m)
  BY DEF IInv
<1>3. Step = s[next] /\ next \in 1 .. Len(s)
  BY <1>1, <1>2, RootSteps
<1>4. /\ s[next].node = Root /\ next \in Configured(m) + 1 .. Delivered(m)
  BY <1>1, <1>2, <1>3, KindsOfStep
<1>5. Domains /\ RootAt /\ Root \in Nodes(m.topology)
  BY <1>2, WorkersAre DEF IInv
<1>6. /\ loaded'[Root] = Loads(m, Root, loaded[Root], s[next].data.value)
      /\ \A n \in Nodes(m.topology) : n # Root => loaded'[n] = loaded[n]
      /\ DOMAIN loaded' = DOMAIN loaded
  <2>1. loaded' = IF HasOp(m.topology, m.nLayers, Root, s[next].data.value.weight)
                  THEN [loaded EXCEPT ![Root] = @ (+) SetToBag({s[next].data.value})] ELSE loaded
    BY <1>0, <1>2, <1>3 DEF Load
  <2>2. DOMAIN loaded = Nodes(m.topology)
    BY <1>2, <1>5 DEF Domains
  <2> QED
    BY ONLY <2>1, <2>2, <1>5 DEF Loads
<1>7. Domains'
  BY <1>1, <1>5, <1>6 DEF Domains
<1>8. RootAt'
  <2>1. loaded[Root] = SetToBag(PartsOf(m, s, Root, next))
    BY <1>2, <1>5 DEF RootAt
  <2>2. loaded'[Root] = SetToBag(PartsOf(m, s, Root, next + 1))
    BY <2>1, <1>2, <1>4, <1>6, PartsLoaded
  <2> QED
    BY <2>2, <1>1, <1>2, RootAdvances DEF RootAt
<1>9. ASSUME NEW w \in Workers(m)
      PROVE  AtStep(w)'
  <2>1. ~AwaitsOf(s, w, next) /\ ~WritesTo(s, w, next)
    BY <1>1, <1>3 DEF AwaitsOf, WritesTo
  <2>2. WorkerAt(m, s, w, next, phase[w], agenda[w], counts[w], chan[w], acks[w], loaded[w])
    BY <1>2 DEF IInv, AtStep
  <2>3. WorkerAt(m, s, w, next + 1, phase[w], agenda[w], counts[w], chan[w], acks[w], loaded[w])
    BY <2>1, <2>2, <1>2, <1>3, WorkerGoesOn
  <2>4. loaded'[w] = loaded[w]
    BY <1>6, WorkersAre
  <2> QED
    BY <2>3, <2>4, <1>1, <1>2 DEF AtStep
<1> QED
  BY <1>1, <1>2, <1>7, <1>8, <1>9 DEF IInv

\* The parts of the root when its step is about a worker.
LEMMA RootKeepsParts ==
  ASSUME IInv, root = "running", Step.what # "load", loaded' = loaded, next' = next + 1,
         UNCHANGED model, Advance
  PROVE  RootAt'
<1>1. PICK m \in Models, s \in {Script(model)} : m = model /\ s = Script(m)
  BY DEF IInv
<1>2. Step = s[next] /\ next \in 1 .. Len(s) /\ s[next].node # Root
  BY <1>1, RootSteps, KindsOfStep
<1>3. PartsOf(m, s, Root, next + 1) = PartsOf(m, s, Root, next)
  <2>1. next \in Nat /\ next + 1 \in Nat /\ next .. (next + 1) - 1 = {next} /\ next <= next + 1
    BY <1>2
  <2> QED
    BY <2>1, <1>1, <1>2, PartsSkip
<1>4. loaded[Root] = SetToBag(PartsOf(m, s, Root, next))
  BY <1>1 DEF IInv, RootAt
<1> QED
  BY <1>1, <1>3, <1>4, RootAdvances DEF RootAt

LEMMA WritesStep ==
  ASSUME IInv, RootWrites
  PROVE  IInv'
<1>1. /\ root = "running" /\ Step.what = "write"
      /\ IF phase[Step.node] = "listening" THEN chan' = chan
         ELSE /\ Len(chan[Step.node]) < SocketCapacity
              /\ chan' = [chan EXCEPT ![Step.node] = Append(@, Step.data)]
      /\ next' = next + 1 /\ Advance
      /\ UNCHANGED <<model, phase, agenda, counts, acks, loaded, failures>>
  BY DEF RootWrites
<1>2. PICK m \in Models, s \in {Script(model)} : m = model /\ s = Script(m)
  BY DEF IInv
<1>3. Step = s[next] /\ next \in 1 .. Len(s) /\ s[next].node \in Workers(m)
  BY <1>1, <1>2, RootSteps, KindsOfStep
<1>4. PICK v \in Workers(m) : v = s[next].node
  BY <1>3
<1>5. Domains /\ DOMAIN chan = Workers(m)
  BY <1>2 DEF IInv, Domains
<1>6. DOMAIN chan' = Workers(m) /\ \A w \in Workers(m) :
        chan'[w] = IF w = v /\ phase[v] # "listening" THEN Append(chan[v], s[next].data) ELSE chan[w]
  BY ONLY <1>1, <1>3, <1>4, <1>5
<1>7. Domains'
  BY <1>1, <1>2, <1>5, <1>6 DEF Domains
<1>8. RootAt'
  BY <1>1, RootKeepsParts
<1>9. ASSUME NEW w \in Workers(m)
      PROVE  AtStep(w)'
  <2>1. ~AwaitsOf(s, w, next) /\ (WritesTo(s, w, next) <=> w = v)
    BY <1>1, <1>3, <1>4 DEF AwaitsOf, WritesTo
  <2>2. WorkerAt(m, s, w, next, phase[w], agenda[w], counts[w], chan[w], acks[w], loaded[w])
    BY <1>2 DEF IInv, AtStep
  <2>3. chan'[w] = IF WritesTo(s, w, next) /\ phase[w] # "listening"
                   THEN Append(chan[w], s[next].data) ELSE chan[w]
    BY <2>1, <1>6
  <2>4. WorkerAt(m, s, w, next + 1, phase[w], agenda[w], counts[w], chan'[w], acks[w], loaded[w])
    BY <2>1, <2>2, <2>3, <1>2, <1>3, WorkerGoesOn
  <2> QED
    BY <2>4, <1>1, <1>2 DEF AtStep
<1>10. ASSUME NEW w \in Workers(m)
       PROVE  Len(chan'[w]) <= SocketCapacity
  <2>1. Len(chan[w]) <= SocketCapacity
    BY <1>2 DEF IInv
  <2>2. CASE w = v /\ phase[v] # "listening"
    <3>1. chan[v] \in Seq(Sent(s))
      BY <1>2, WorkerQueue DEF IInv, AtStep
    <3>2. s[next].data \in Sent(s)
      BY <1>3 DEF Sent
    <3>3. Len(chan'[w]) = Len(chan[v]) + 1 /\ Len(chan[v]) \in Nat
      BY <3>1, <3>2, <2>2, <1>6, AppendProperties, LenProperties
    <3>4. Len(chan[v]) < SocketCapacity
      BY <2>2, <1>1, <1>3, <1>4
    <3> QED
      BY <3>3, <3>4, ModelLoadingAssumption
  <2> QED
    BY <2>1, <2>2, <1>6
<1> QED
  BY <1>1, <1>2, <1>7, <1>8, <1>9, <1>10 DEF IInv

LEMMA AckStep ==
  ASSUME IInv, RootReadsAck
  PROVE  IInv'
<1>1. /\ root = "running" /\ Step.what = "readAck" /\ acks[Step.node] > 0
      /\ acks' = [acks EXCEPT ![Step.node] = @ - 1]
      /\ next' = next + 1 /\ Advance
      /\ UNCHANGED <<model, phase, agenda, counts, chan, loaded, failures>>
  BY DEF RootReadsAck
<1>2. PICK m \in Models, s \in {Script(model)} : m = model /\ s = Script(m)
  BY DEF IInv
<1>3. Step = s[next] /\ next \in 1 .. Len(s) /\ s[next].node \in Workers(m)
  BY <1>1, <1>2, RootSteps, KindsOfStep
<1>4. PICK v \in Workers(m) : v = s[next].node
  BY <1>3
<1>5. Domains /\ DOMAIN acks = Workers(m)
  BY <1>2 DEF IInv, Domains
<1>6. DOMAIN acks' = Workers(m) /\ \A w \in Workers(m) : acks'[w] = IF w = v THEN acks[w] - 1 ELSE acks[w]
  BY ONLY <1>1, <1>3, <1>4, <1>5
<1>7. Domains'
  BY <1>1, <1>2, <1>5, <1>6 DEF Domains
<1>8. RootAt'
  BY <1>1, RootKeepsParts
<1>9. ASSUME NEW w \in Workers(m)
      PROVE  AtStep(w)'
  <2>1. ~WritesTo(s, w, next) /\ (AwaitsOf(s, w, next) <=> w = v)
    BY <1>1, <1>3, <1>4 DEF AwaitsOf, WritesTo
  <2>2. WorkerAt(m, s, w, next, phase[w], agenda[w], counts[w], chan[w], acks[w], loaded[w])
    BY <1>2 DEF IInv, AtStep
  <2>3. WorkerAt(m, s, w, next + 1, phase[w], agenda[w], counts[w], chan[w], acks'[w], loaded[w])
    <3>1. CASE w = v
      <4>1. acks'[w] = acks[w] - 1 /\ acks[w] > 0
        BY <3>1, <1>1, <1>3, <1>4, <1>6
      <4> QED
        BY <4>1, <3>1, <2>1, <2>2, <1>2, <1>3, WorkerAcked
    <3>2. CASE w # v
      BY <3>2, <2>1, <2>2, <1>2, <1>3, <1>6, WorkerGoesOn
    <3> QED
      BY <3>1, <3>2
  <2> QED
    BY <2>3, <1>1, <1>2 DEF AtStep
<1> QED
  BY <1>1, <1>2, <1>7, <1>8, <1>9 DEF IInv

\* Nothing of worker w changes.
Untouched(w) ==
  /\ phase'[w] = phase[w] /\ agenda'[w] = agenda[w] /\ counts'[w] = counts[w]
  /\ chan'[w] = chan[w] /\ acks'[w] = acks[w] /\ loaded'[w] = loaded[w]

\* A step of one worker.
LEMMA OneWorker ==
  ASSUME IInv, NEW v \in Workers(model), UNCHANGED <<model, root, next>>, Domains',
         loaded'[Root] = loaded[Root], \A w \in Workers(model) : w # v => Untouched(w),
         AtStep(v)', Len(chan'[v]) <= SocketCapacity, failures' \in 0 .. MaxFailures
  PROVE  IInv'
<1>1. \A w \in Workers(model) : AtStep(w) /\ Len(chan[w]) <= SocketCapacity
  BY DEF IInv
<1>2. ASSUME NEW w \in Workers(model)
      PROVE  AtStep(w)' /\ Len(chan'[w]) <= SocketCapacity
  <2>1. CASE w = v
    BY <2>1
  <2>2. CASE w # v
    BY <1>1, <2>2 DEF Untouched, AtStep
  <2> QED
    BY <2>1, <2>2
<1>3. RootAt'
  BY DEF IInv, RootAt
<1>4. model \in Models
  BY DEF IInv
<1> QED
  BY <1>2, <1>3, <1>4 DEF IInv

\* What is taken from a queue leaves a shorter one.
LEMMA ShorterQueue ==
  ASSUME IInv, NEW w \in Workers(model), chan[w] # <<>>
  PROVE  Len(Tail(chan[w])) <= SocketCapacity
<1>1. PICK q : q = chan[w] /\ q \in Seq(Sent(Script(model))) /\ Len(q) <= SocketCapacity
  BY WorkerQueue DEF IInv, AtStep
<1>2. Len(Tail(q)) = Len(q) - 1 /\ Len(q) \in Nat
  BY ONLY <1>1, chan[w] # <<>>, HeadTailProperties, LenProperties
<1>3. SocketCapacity \in Nat
  BY ModelLoadingAssumption
<1> QED
  BY ONLY <1>1, <1>2, <1>3

LEMMA FieldStep ==
  ASSUME IInv, NEW v \in Workers(model), ReadField(v)
  PROVE  IInv'
<1>1. /\ phase[v] \in {"net", "node"} /\ agenda[v] # <<>> /\ chan[v] # <<>>
      /\ Head(agenda[v]).body = <<>>
      /\ chan' = [chan EXCEPT ![v] = Tail(@)]
      /\ agenda' = [agenda EXCEPT ![v] = Tail(@)]
      /\ UNCHANGED <<model, root, next, phase, acks, loaded, failures>>
  BY DEF ReadField
<1>2. counts' = IF Head(chan[v]).name \in Counts
                THEN [counts EXCEPT ![v][Head(chan[v]).name] = Head(chan[v]).value] ELSE counts
  BY DEF ReadField
<1>3. PICK m \in Models, s \in {Script(model)} : m = model /\ s = Script(m)
  BY DEF IInv
<1>4. Domains /\ failures \in 0 .. MaxFailures
  BY DEF IInv
<1>5. WorkerAt(m, s, v, next, phase[v], agenda[v], counts[v], chan[v], acks[v], loaded[v])
  BY <1>3 DEF IInv, AtStep
<1>6. PICK nc : nc = Noted(counts[v], Head(chan[v])) /\ nc \in CountValues
  <2>1. v \in Workers(m) /\ phase[v] \in {"net", "node"} /\ agenda[v] # <<>> /\ chan[v] # <<>>
        /\ Head(agenda[v]).body = <<>>
    BY <1>1, <1>3
  <2>2. Noted(counts[v], Head(chan[v])) \in CountValues
    BY ONLY <2>1, <1>3, <1>5, m \in Models, WorkerReadsField
  <2> QED
    BY <2>2
<1>7. counts' = [counts EXCEPT ![v] = nc]
  <2>1. counts \in [Workers(model) -> CountValues]
    BY <1>4 DEF Domains
  <2>2. CASE Head(chan[v]).name \in Counts
    BY <2>2, <1>2, <1>6 DEF Noted
  <2>3. CASE Head(chan[v]).name \notin Counts
    BY <2>1, <2>3, <1>2, <1>6 DEF Noted
  <2> QED
    BY <2>2, <2>3
<1>8. Domains'
  <2>1. [counts EXCEPT ![v] = nc] \in [Workers(model) -> CountValues]
    BY ONLY <1>4, <1>6 DEF Domains
  <2> QED
    BY ONLY <1>1, <1>4, <1>7, <2>1 DEF Domains
<1>9. /\ agenda'[v] = Tail(agenda[v]) /\ chan'[v] = Tail(chan[v]) /\ counts'[v] = nc
      /\ \A w \in Workers(model) : w # v => Untouched(w)
  <2>1. /\ DOMAIN agenda = Workers(model) /\ DOMAIN chan = Workers(model)
        /\ DOMAIN counts = Workers(model)
    BY ONLY <1>4 DEF Domains
  <2>2. counts'[v] = nc /\ \A w \in Workers(model) : w # v => counts'[w] = counts[w]
    BY ONLY <1>7, <2>1, v \in Workers(model)
  <2>3. agenda'[v] = Tail(agenda[v]) /\ \A w \in Workers(model) : w # v => agenda'[w] = agenda[w]
    BY ONLY <1>1, <2>1, v \in Workers(model)
  <2>4. chan'[v] = Tail(chan[v]) /\ \A w \in Workers(model) : w # v => chan'[w] = chan[w]
    BY ONLY <1>1, <2>1, v \in Workers(model)
  <2> QED
    BY ONLY <1>1, <2>2, <2>3, <2>4 DEF Untouched
<1>10. WorkerAt(m, s, v, next, phase[v], Tail(agenda[v]), nc, Tail(chan[v]), acks[v], loaded[v])
  BY <1>1, <1>3, <1>5, <1>6, WorkerReadsField
<1>11. AtStep(v)'
  BY <1>1, <1>3, <1>9, <1>10 DEF AtStep
<1> QED
  BY <1>1, <1>4, <1>8, <1>9, <1>11, ShorterQueue, OneWorker

LEMMA LoopStep ==
  ASSUME IInv, NEW v \in Workers(model), EnterLoop(v)
  PROVE  IInv'
<1>1. /\ phase[v] \in {"net", "node"} /\ agenda[v] # <<>> /\ Head(agenda[v]).body # <<>>
      /\ UNCHANGED <<model, root, next, phase, counts, chan, acks, loaded, failures>>
  BY DEF EnterLoop
<1>2. PICK l : l = Times(counts[v][Head(agenda[v]).name], Head(agenda[v]).body) \o Tail(agenda[v])
  OBVIOUS
<1>3. agenda' = [agenda EXCEPT ![v] = l]
  BY <1>2 DEF EnterLoop
<1>4. PICK m \in Models, s \in {Script(model)} : m = model /\ s = Script(m)
  BY DEF IInv
<1>5. Domains /\ failures \in 0 .. MaxFailures /\ Len(chan[v]) <= SocketCapacity
  BY DEF IInv
<1>6. WorkerAt(m, s, v, next, phase[v], agenda[v], counts[v], chan[v], acks[v], loaded[v])
  BY <1>4 DEF IInv, AtStep
<1>7. WorkerAt(m, s, v, next, phase[v], l, counts[v], chan[v], acks[v], loaded[v])
  BY <1>1, <1>2, <1>4, <1>6, WorkerEntersLoop
<1>8. Domains'
  BY ONLY <1>1, <1>3, <1>5 DEF Domains
<1>9. agenda'[v] = l /\ \A w \in Workers(model) : w # v => Untouched(w)
  BY ONLY <1>1, <1>3, <1>5, v \in Workers(model) DEF Domains, Untouched
<1>10. AtStep(v)'
  BY <1>1, <1>4, <1>7, <1>9 DEF AtStep
<1> QED
  BY <1>1, <1>5, <1>8, <1>9, <1>10, OneWorker

LEMMA WriteAckStep ==
  ASSUME IInv, NEW v \in Workers(model), WriteAck(v)
  PROVE  IInv'
<1>1. /\ phase[v] \in {"net", "node"} /\ agenda[v] = <<>>
      /\ acks' = [acks EXCEPT ![v] = @ + 1]
      /\ UNCHANGED <<model, root, next, counts, chan, loaded, failures>>
  BY DEF WriteAck
<1>2. PICK ph, l : /\ ph = IF phase[v] = "net" THEN "node" ELSE "weights"
                   /\ l = IF phase[v] = "net" THEN ReadNode ELSE <<>>
  OBVIOUS
<1>3. phase' = [phase EXCEPT ![v] = ph] /\ agenda' = [agenda EXCEPT ![v] = l]
  BY <1>2 DEF WriteAck
<1>4. PICK m \in Models, s \in {Script(model)} : m = model /\ s = Script(m)
  BY DEF IInv
<1>5. Domains /\ failures \in 0 .. MaxFailures /\ Len(chan[v]) <= SocketCapacity
  BY DEF IInv
<1>6. WorkerAt(m, s, v, next, phase[v], agenda[v], counts[v], chan[v], acks[v], loaded[v])
  BY <1>4 DEF IInv, AtStep
<1>7. counts[v] \in CountValues
  BY <1>5 DEF Domains
<1>8. WorkerAt(m, s, v, next, ph, l, counts[v], chan[v], acks[v] + 1, loaded[v])
  <2>1. CASE phase[v] = "net"
    BY <2>1, <1>1, <1>2, <1>4, <1>6, <1>7, WorkerHasNet
  <2>2. CASE phase[v] = "node"
    BY <2>2, <1>1, <1>2, <1>4, <1>6, WorkerHasNode
  <2> QED
    BY <2>1, <2>2, <1>1
<1>9. ph \in {"net", "node", "weights", "ready", "listening"}
  BY <1>2
<1>10. Domains'
  BY ONLY <1>1, <1>3, <1>5, <1>9 DEF Domains
<1>11. /\ phase'[v] = ph /\ agenda'[v] = l /\ acks'[v] = acks[v] + 1
       /\ \A w \in Workers(model) : w # v => Untouched(w)
  BY ONLY <1>1, <1>3, <1>5, v \in Workers(model) DEF Domains, Untouched
<1>12. AtStep(v)'
  BY <1>1, <1>4, <1>8, <1>11 DEF AtStep
<1> QED
  BY <1>1, <1>5, <1>10, <1>11, <1>12, OneWorker

LEMMA WeightStep ==
  ASSUME IInv, NEW v \in Workers(model), ReadWeight(v)
  PROVE  IInv'
<1>1. /\ phase[v] = "weights" /\ chan[v] # <<>> /\ Head(chan[v]).name = "weight"
      /\ chan' = [chan EXCEPT ![v] = Tail(@)]
      /\ UNCHANGED <<model, root, next, phase, agenda, counts, acks, failures>>
  BY DEF ReadWeight
<1>2. PICK m \in Models, s \in {Script(model)} : m = model /\ s = Script(m)
  BY DEF IInv
<1>3. Domains /\ failures \in 0 .. MaxFailures
  BY DEF IInv
<1>4. v \in Nodes(m.topology) /\ v # Root /\ Workers(m) \subseteq Nodes(m.topology)
  BY <1>2, WorkersAre
<1>5. PICK part : part = Head(chan[v]).value
  OBVIOUS
<1>6. /\ loaded'[v] = Loads(m, v, loaded[v], part)
      /\ \A n \in Nodes(m.topology) : n # v => loaded'[n] = loaded[n]
      /\ DOMAIN loaded' = DOMAIN loaded
  <2>1. loaded' = IF HasOp(m.topology, m.nLayers, v, part.weight)
                  THEN [loaded EXCEPT ![v] = @ (+) SetToBag({part})] ELSE loaded
    BY <1>2, <1>5 DEF ReadWeight, Load
  <2>2. DOMAIN loaded = Nodes(m.topology)
    BY <1>2, <1>3 DEF Domains
  <2> QED
    BY ONLY <2>1, <2>2, <1>4 DEF Loads
<1>7. WorkerAt(m, s, v, next, "weights", agenda[v], counts[v], chan[v], acks[v], loaded[v])
  BY <1>1, <1>2 DEF IInv, AtStep
<1>8. WorkerAt(m, s, v, next, "weights", agenda[v], counts[v], Tail(chan[v]), acks[v], loaded'[v])
  BY <1>1, <1>2, <1>5, <1>6, <1>7, WorkerReadsWeight
<1>9. Domains'
  BY ONLY <1>1, <1>3, <1>6 DEF Domains
<1>10. chan'[v] = Tail(chan[v]) /\ \A w \in Workers(model) : w # v => chan'[w] = chan[w]
  BY ONLY <1>1, <1>3, v \in Workers(model) DEF Domains
<1>11. \A w \in Workers(model) : w # v => Untouched(w)
  BY ONLY <1>1, <1>2, <1>4, <1>6, <1>10 DEF Untouched
<1>12. AtStep(v)'
  BY <1>1, <1>2, <1>8, <1>10 DEF AtStep
<1>13. loaded'[Root] = loaded[Root]
  BY <1>2, <1>4, <1>6, WorkersAre
<1> QED
  BY <1>1, <1>3, <1>9, <1>10, <1>11, <1>12, <1>13, ShorterQueue, OneWorker

LEMMA ZeroStep ==
  ASSUME IInv, NEW v \in Workers(model), ReadZero(v)
  PROVE  IInv'
<1>1. /\ phase[v] = "weights" /\ chan[v] # <<>> /\ Head(chan[v]).name = "zero"
      /\ chan' = [chan EXCEPT ![v] = Tail(@)]
      /\ acks' = [acks EXCEPT ![v] = @ + 1]
      /\ phase' = [phase EXCEPT ![v] = "ready"]
      /\ UNCHANGED <<model, root, next, agenda, counts, loaded, failures>>
  BY DEF ReadZero
<1>2. PICK m \in Models, s \in {Script(model)} : m = model /\ s = Script(m)
  BY DEF IInv
<1>3. Domains /\ failures \in 0 .. MaxFailures
  BY DEF IInv
<1>4. WorkerAt(m, s, v, next, "weights", agenda[v], counts[v], chan[v], acks[v], loaded[v])
  BY <1>1, <1>2 DEF IInv, AtStep
<1>5. WorkerAt(m, s, v, next, "ready", agenda[v], counts[v], Tail(chan[v]), acks[v] + 1, loaded[v])
  BY <1>1, <1>2, <1>4, WorkerReadsZero
<1>6. Domains'
  BY ONLY <1>1, <1>3 DEF Domains
<1>7. /\ phase'[v] = "ready" /\ chan'[v] = Tail(chan[v]) /\ acks'[v] = acks[v] + 1
      /\ \A w \in Workers(model) : w # v => Untouched(w)
  BY ONLY <1>1, <1>3, v \in Workers(model) DEF Domains, Untouched
<1>8. AtStep(v)'
  BY <1>1, <1>2, <1>5, <1>7 DEF AtStep
<1> QED
  BY <1>1, <1>3, <1>6, <1>7, <1>8, ShorterQueue, OneWorker

LEMMA LeaveStep ==
  ASSUME IInv, NEW v \in Workers(model), Leave(v),
         UNCHANGED <<model, root, next, counts, acks, loaded>>, failures' \in 0 .. MaxFailures
  PROVE  IInv'
<1>1. /\ phase' = [phase EXCEPT ![v] = "listening"]
      /\ chan' = [chan EXCEPT ![v] = <<>>]
      /\ agenda' = [agenda EXCEPT ![v] = <<>>]
      /\ UNCHANGED <<model, root, next, counts, acks, loaded>>
  BY DEF Leave
<1>2. PICK m \in Models, s \in {Script(model)} : m = model /\ s = Script(m)
  BY DEF IInv
<1>3. Domains /\ RootAt
  BY DEF IInv
<1>4. acks[v] \in {0, 1} /\ \E X : loaded[v] = SetToBag(X)
  BY <1>2, WorkerTypes DEF IInv, AtStep
<1>5. next \in Nat
  BY <1>2, <1>3, ScriptLength DEF RootAt
<1>6. WorkerAt(m, s, v, next, "listening", <<>>, counts[v], <<>>, acks[v], loaded[v])
  BY <1>4, <1>5 DEF WorkerAt, AtListening
<1>7. Domains'
  BY ONLY <1>1, <1>3 DEF Domains
<1>8. /\ phase'[v] = "listening" /\ chan'[v] = <<>> /\ agenda'[v] = <<>>
      /\ \A w \in Workers(model) : w # v => Untouched(w)
  BY ONLY <1>1, <1>3, v \in Workers(model) DEF Domains, Untouched
<1>9. AtStep(v)'
  BY <1>1, <1>2, <1>6, <1>8 DEF AtStep
<1>10. Len(chan'[v]) <= SocketCapacity
  BY <1>8, EmptySeq, ModelLoadingAssumption
<1> QED
  BY <1>1, <1>7, <1>8, <1>9, <1>10, OneWorker

LEMMA IInvStep == IInv /\ [Next]_vars => IInv'
<1> SUFFICES ASSUME IInv, [Next]_vars PROVE IInv'
  OBVIOUS
<1>1. CASE RootLoads
  BY <1>1, LoadsStep
<1>2. CASE RootWrites
  BY <1>2, WritesStep
<1>3. CASE RootReadsAck
  BY <1>3, AckStep
<1>4. CASE RootThrows
  BY <1>4 DEF RootThrows, IInv, RootAt, Domains, AtStep
<1>5. CASE RootFails
  <2>1. failures' \in 0 .. MaxFailures
    BY <1>5, ModelLoadingAssumption DEF RootFails, IInv
  <2> QED
    BY <2>1, <1>5 DEF RootFails, IInv, RootAt, Domains, AtStep
<1>6. ASSUME NEW v \in Workers(model), WorkerStep(v)
      PROVE  IInv'
  <2>1. CASE ReadField(v)
    BY <2>1, FieldStep
  <2>2. CASE EnterLoop(v)
    BY <2>2, LoopStep
  <2>3. CASE WriteAck(v)
    BY <2>3, WriteAckStep
  <2>4. CASE ReadWeight(v)
    BY <2>4, WeightStep
  <2>5. CASE ReadZero(v)
    BY <2>5, ZeroStep
  <2>6. CASE SessionEnds(v)
    <3>1. Leave(v) /\ UNCHANGED <<model, root, next, counts, acks, loaded, failures>>
      BY <2>6 DEF SessionEnds
    <3>2. failures' \in 0 .. MaxFailures
      BY <3>1 DEF IInv
    <3> QED
      BY <3>1, <3>2, LeaveStep
  <2> QED
    BY <1>6, <2>1, <2>2, <2>3, <2>4, <2>5, <2>6 DEF WorkerStep
<1>7. ASSUME NEW v \in Workers(model), WorkerFails(v)
      PROVE  IInv'
  <2>1. /\ Leave(v) /\ UNCHANGED <<model, root, next, counts, acks, loaded>>
        /\ failures < MaxFailures /\ failures' = failures + 1
    BY <1>7 DEF WorkerFails
  <2>2. failures' \in 0 .. MaxFailures
    BY <2>1, ModelLoadingAssumption DEF IInv
  <2> QED
    BY <2>1, <2>2, LeaveStep
<1>8. CASE UNCHANGED vars
  BY <1>8 DEF vars, IInv, RootAt, Domains, AtStep
<1> QED
  BY <1>1, <1>2, <1>3, <1>4, <1>5, <1>6, <1>7, <1>8 DEF Next, RootStep

\* The inductive invariant holds.
THEOREM InductiveInvariant == Spec => []IInv
<1>1. Init => IInv
  BY IInvInit
<1>2. IInv /\ [Next]_vars => IInv'
  BY IInvStep
<1> QED
  BY <1>1, <1>2, PTL DEF Spec

-----------------------------------------------------------------------------
(* What follows.                                                           *)

\* The state has its types; no part of a weight is loaded twice and at most one
\* acknowledgement of a worker is under way (NnRootWeightLoader, readAckPacket).
THEOREM TypeCorrect == Spec => []TypeOK
<1>1. IInv => TypeOK
  <2> SUFFICES ASSUME IInv PROVE TypeOK
    OBVIOUS
  <2>1. PICK m \in Models, s \in {Script(model)} : m = model /\ s = Script(m) /\ Scripts[model] = s
    BY ScriptOf DEF IInv
  <2>2. ASSUME NEW w \in Workers(m)
        PROVE  acks[w] \in {0, 1} /\ \E X : loaded[w] = SetToBag(X)
    BY <2>1, WorkerTypes DEF IInv, AtStep
  <2>3. ASSUME NEW n \in Nodes(m.topology), NEW p \in DOMAIN loaded[n]
        PROVE  loaded[n][p] = 1
    <3>1. \E X : loaded[n] = SetToBag(X)
      <4>1. CASE n = Root
        BY <4>1, <2>1 DEF IInv, RootAt
      <4>2. CASE n # Root
        BY <4>2, <2>2, WorkersAre
      <4> QED
        BY <4>1, <4>2
    <3> QED
      BY <3>1, BagOfSet
  <2> QED
    BY <2>1, <2>2, <2>3 DEF TypeOK, IInv, RootAt, Domains
<1> QED
  BY <1>1, InductiveInvariant, PTL

\* No reader takes a field for another, for every net and node configuration:
\* the loops that write it (nn-network.cpp:1910-1981) and those that read it
\* (1995-2087) agree, and nothing of it is left where the weights begin.
THEOREM InStepAlways == Spec => []InStep
<1>1. IInv => InStep
  <2> SUFFICES ASSUME IInv, NEW w \in Workers(model), chan[w] # <<>>
               PROVE  CASE phase[w] \in {"net", "node"} ->
                             agenda[w] # <<>> /\ (Head(agenda[w]).body = <<>>
                                                    => Head(agenda[w]).name = Head(chan[w]).name)
                        [] phase[w] = "weights" -> Head(chan[w]).name \in {"weight", "zero"}
                        [] OTHER -> FALSE
    BY DEF InStep
  <2>1. \/ /\ phase[w] \in {"net", "node"} /\ agenda[w] # <<>>
           /\ Head(agenda[w]).body = <<>> => Head(agenda[w]).name = Head(chan[w]).name
        \/ phase[w] = "weights" /\ Head(chan[w]).name \in {"weight", "zero"}
    BY WorkerInStep DEF IInv, AtStep
  <2> QED
    BY <2>1
<1> QED
  BY <1>1, InductiveInvariant, PTL

\* Every node that has not failed when the root goes on has loaded exactly the
\* parts its operations use, for every topology with sp = 1 and every model.
THEOREM WeightsPlacedAlways == Spec => []WeightsPlaced
<1>1. IInv => WeightsPlaced
  <2> SUFFICES ASSUME IInv, root = "ready", model.topology.spSize = 1
               PROVE  /\ BagToSet(loaded[Root]) = Needed(model, Root)
                      /\ \A w \in Workers(model) :
                           \/ phase[w] = "ready" /\ BagToSet(loaded[w]) = Needed(model, w)
                           \/ phase[w] = "listening"
    BY DEF WeightsPlaced
  <2>1. PICK m \in Models, s \in {Script(model)} : m = model /\ s = Script(m)
    BY DEF IInv
  <2>2. next = Len(s) + 1 /\ loaded[Root] = SetToBag(PartsOf(m, s, Root, next))
    BY <2>1 DEF IInv, RootAt
  <2>3. Len(s) \in Nat /\ Delivered(m) \in Nat /\ Delivered(m) <= Len(s)
    BY <2>1, WeightsAre DEF WeightPlaces
  <2>4. Root \in Nodes(m.topology) /\ Workers(m) \subseteq Nodes(m.topology)
    BY WorkersAre
  <2>5. BagToSet(loaded[Root]) = Needed(m, Root)
    <3>1. next \in Nat /\ Delivered(m) < next
      BY <2>2, <2>3
    <3>2. PartsOf(m, s, Root, next) = Needed(m, Root)
      BY <3>1, <2>1, <2>4, PartsAll
    <3> QED
      BY <3>2, <2>2, BagOfSet
  <2>6. ASSUME NEW w \in Workers(m)
        PROVE  \/ phase[w] = "ready" /\ BagToSet(loaded[w]) = Needed(m, w)
               \/ phase[w] = "listening"
    <3>1. WorkerAt(m, s, w, next, phase[w], agenda[w], counts[w], chan[w], acks[w], loaded[w])
      BY <2>1 DEF IInv, AtStep
    <3>2. /\ Base(w) \in Nat /\ NodeBase(w) \in Nat /\ Settled(w) \in Nat /\ End(m, w) \in Nat
          /\ NodeBase(w) = Base(w) + (Len(NetFields) + 1)
          /\ Settled(w) = NodeBase(w) + (Len(NodeFields) + 1)
          /\ NodeBase(w) < Settled(w) /\ Settled(w) <= End(m, w) /\ End(m, w) + 1 <= Len(s)
          /\ Delivered(m) < End(m, w)
      BY <2>1, PlaceNumbers
    <3>3. ~AtNet(s, w, next, agenda[w], counts[w], chan[w], acks[w], loaded[w])
      BY <3>2, <2>2, <2>3 DEF AtNet, Reading
    <3>4. ~AtNode(s, w, next, agenda[w], counts[w], chan[w], acks[w], loaded[w])
      BY <3>2, <2>2, <2>3 DEF AtNode, Reading
    <3>5. ~AtWeights(m, s, w, next, chan[w], acks[w], loaded[w])
      BY <3>2, <2>2, <2>3 DEF AtWeights
    <3>6. CASE phase[w] = "ready"
      <4>1. loaded[w] = SetToBag(PartsOf(m, s, w, End(m, w) + 1))
        BY <3>1, <3>6 DEF WorkerAt, AtReady
      <4>2. End(m, w) + 1 \in Nat /\ Delivered(m) < End(m, w) + 1
        BY <3>2, <2>3
      <4>3. PartsOf(m, s, w, End(m, w) + 1) = Needed(m, w)
        BY <4>2, <2>1, <2>4, PartsAll
      <4> QED
        BY <4>1, <4>3, <3>6, BagOfSet
    <3> QED
      BY <3>1, <3>3, <3>4, <3>5, <3>6 DEF WorkerAt
  <2> QED
    BY <2>1, <2>5, <2>6
<1> QED
  BY <1>1, InductiveInvariant, PTL

=============================================================================
