------------------------------- MODULE Slices -------------------------------
(***************************************************************************)
(* How work and weights are cut up inside a stage: SPLIT_THREADS gives     *)
(* every thread of an operation a range of what it works on, the splitters *)
(* of nn-core.cpp give every tensor-parallel node its part of a weight,    *)
(* and attention picks the key-value rows a query head of a node reads.    *)
(*                                                                         *)
(* A weight is a matrix of rows of blocks (getBlockSize numbers each);     *)
(* Block(n, r, j) is the place of block j of row r when a row has n blocks.*)
(***************************************************************************)
EXTENDS Integers

-----------------------------------------------------------------------------
(* Threads.                                                                *)

SplitStart(len, nThreads, t) ==
  LET rest == len % nThreads
  IN  t * (len \div nThreads) + (IF t < rest THEN t ELSE rest)

SplitEnd(len, nThreads, t) ==
  SplitStart(len, nThreads, t) + (len \div nThreads) + (IF t < len % nThreads THEN 1 ELSE 0)

\* What thread t works on.
ThreadRange(len, nThreads, t) ==
  SplitStart(len, nThreads, t) .. SplitEnd(len, nThreads, t) - 1

-----------------------------------------------------------------------------
(* Weights.                                                                *)

Block(n, row, j) == row * n + j

\* splitRowMatmulWeight: where node i takes block j of its row d from, when
\* each of the nodes holds d0 rows of n blocks.
RowBlock(d0, n, i, d, j) == d0 * i * n + (d * n + j)

\* splitColMatmulWeight: where node i takes block j of its row d from, when
\* each of the nodes holds n0 blocks of the n of every row.
ColBlock(n0, n, i, d, j) == n * d + i * n0 + j

-----------------------------------------------------------------------------
(* Attention heads.  A key or value row holds headDim numbers per head; a  *)
(* node's cache holds kvDim0 of them, from kvDim0 * i on.                  *)

KvMul(nHeads, nKvHeads) == nHeads \div nKvHeads

\* The head of the query row a node's head h0 is (sliceMultiHeadAtt).
GlobalHead(nHeads, nNodes, i, h0) == i * (nHeads \div nNodes) + h0

\* The number of the whole row that multiheadAtt_F32 starts to read at.
KvRead(nHeads, nKvHeads, headDim, nNodes, i, h0) ==
  LET kvDim0 == (headDim * nKvHeads) \div nNodes
  IN  i * kvDim0 + (h0 \div KvMul(nHeads, nKvHeads)) * headDim

\* The number it should start at: grouped-query attention shares a key-value
\* head among KvMul query heads.
KvOwn(nHeads, nKvHeads, headDim, nNodes, i, h0) ==
  (GlobalHead(nHeads, nNodes, i, h0) \div KvMul(nHeads, nKvHeads)) * headDim

=============================================================================
