---------------------------- MODULE RootContext ----------------------------
(* What the programs of the root node share: the context of the model (one  *)
(* key/value cache for SeqLen positions), the calls that fill the input of a *)
(* step, and RootLlmInference::forward with the place its answer is left in. *)
(*                                                                           *)
(* A row of the cache is the token it was computed from. A token says which  *)
(* turn of the conversation it belongs to (BOS: turn 0), that turn's content,*)
(* its place in the turn, and where it came from: the tokenizer ("prompt"),  *)
(* the model ("reply"), or memory nobody wrote for it ("stale").             *)
EXTENDS Integers, Sequences, FiniteSets

CONSTANTS
  SeqLen,          \* positions of the context
  NBatches,        \* rows of a step
  PpSize,          \* pipeline stages
  ChunkSize,       \* --prefill-chunk-size, 0: derived
  ChunkThreshold,  \* --prefill-chunk-threshold
  LogitsModes      \* answers of a decode step: 0 logits, 1 token, 2 top-k

ASSUME ContextAssumption ==
  /\ {SeqLen, NBatches, PpSize} \subseteq Nat \ {0}
  /\ {ChunkSize, ChunkThreshold} \subseteq Nat
  /\ LogitsModes \subseteq 0..2

VARIABLES
  mode,        \* which program runs: a driver of dllama.cpp, or "server"
  logitsMode,  \* decodeLogitsMode
  pc,          \* where the program is
  phase,       \* controlPacket.phase: "prefill" or "decode"
  pos,         \* the next position to evaluate
  token,       \* the token to evaluate there
  kv,          \* the rows of the key/value caches
  held,        \* where forward left its answer: logits, token, topk, or the
               \* logits pipe with nothing but an index in it
  read         \* what the program then sampled from, or "nothing"

contextVars == <<mode, logitsMode, pc, phase, pos, token, kv, held, read>>

Positions == 0..(SeqLen - 1)
Least(a, b) == IF a < b THEN a ELSE b
Most(a, b)  == IF a < b THEN b ELSE a

Tok(turn, of, i, kind) == [turn |-> turn, of |-> of, i |-> i, kind |-> kind]
NoToken  == Tok(0, "", 0, "stale")
Foreign  == Tok(0, "", 0, "foreign")    \* a row of no use to this conversation
AsStale(t) == [t EXCEPT !.kind = "stale"]

---------------------------------------------------------------------------
\* Rows of a prefill step for a prompt of n tokens before the last.
AutoChunk(n) ==
  LET even     == Most(1, NBatches \div PpSize)
      deep     == IF PpSize >= 4 THEN Most(1, even \div 2) ELSE even
      pressure == n \div Most(1, ChunkThreshold)
  IN  CASE pressure >= 16                   -> Most(1, deep \div 4)
        [] pressure \in 8..15               -> Most(1, deep \div 2)
        [] OTHER                            -> deep

ResolvePrefillChunkBatchSize(n) ==
  CASE PpSize = 1 \/ n < ChunkThreshold -> NBatches
    [] PpSize > 1 /\ n >= ChunkThreshold /\ ChunkSize > 0 -> Least(NBatches, ChunkSize)
    [] OTHER -> AutoChunk(n)

\* assert(position + execution->batchSize - 1 < header->seqLen)
Fits(p, batch) == p + batch <= SeqLen /\ batch <= NBatches

\* A step over the tokens ts at p and up: every row sees the rows below it.
Write(p, ts) ==
  [q \in Positions |-> IF q \in p..(p + Len(ts) - 1) THEN ts[q - p + 1] ELSE kv[q]]

\* What the last stage computes into its logits pipe. With --pp-token-only it
\* is built with the fused argmax head: the index of the best logit of a row,
\* and no logits in any step.
HeadOutput == IF logitsMode = 1 THEN "index" ELSE "logits"

\* Where forward leaves the answer of a step of this phase and size.
Delivered(ph, batch) ==
  IF ph = "decode" /\ batch = 1 /\ logitsMode # 0
  THEN IF logitsMode = 1 THEN "token" ELSE "topk"
  ELSE HeadOutput

\* What sampleToken looks at.
SampleSource(ph, batch) ==
  CASE logitsMode = 1 /\ ph = "decode" /\ batch = 1 -> "token"
    [] logitsMode = 2 /\ ph = "decode" /\ batch = 1 -> "topk"
    [] OTHER -> "logits"

\* forward over the tokens ts at p and up, in phase ph.
Evaluate(p, ts, ph) ==
  /\ kv' = Write(p, ts)
  /\ phase' = ph
  /\ held' = Delivered(ph, Len(ts))

\* Where the program is after that step: a failed assert() ends it.
Then(p, batch, next) == IF Fits(p, batch) THEN next ELSE "aborted"

---------------------------------------------------------------------------
\* A step outside the context or wider than a batch never reaches the model,
\* except in perplexity, which checks the length of its text nowhere.
StaysInContext == pc = "aborted" => mode = "perplexity"
=============================================================================
