---------------------------- MODULE RootAppProofs ---------------------------
(***************************************************************************)
(* Theorems about the programs that use the root's context, Drivers and    *)
(* ApiServer.  No driver but perplexity evaluates a position outside the   *)
(* context or more rows than a step has; what they sample from is the      *)
(* answer of the last step; and what the server's prefix cache says of the *)
(* rows of the context is what they hold.  For every context, batch,       *)
(* pipeline, chunk, prompt and number of requests.                         *)
(***************************************************************************)
EXTENDS Drivers, ApiServer, FiniteSetTheorems, WellFoundedInduction, TLAPS

---------------------------------------------------------------------------
(* Chunks.                                                                  *)

LEMMA Halved ==
  ASSUME NEW a \in Nat, NEW b \in Nat \ {0}
  PROVE  a \div b \in Nat /\ a \div b <= a
OBVIOUS

\* A chunk has at least one row, so that the prefill comes to an end, and no
\* more than a step (resolvePrefillChunkBatchSize, whatever the options).
THEOREM ChunkBounds ==
  ASSUME NEW n \in Nat
  PROVE  ResolvePrefillChunkBatchSize(n) \in 1..NBatches
<1> USE ContextAssumption
<1> DEFINE even     == Most(1, NBatches \div PpSize)
           deep     == IF PpSize >= 4 THEN Most(1, even \div 2) ELSE even
           pressure == n \div Most(1, ChunkThreshold)
<1>1. NBatches \in Nat \ {0} /\ PpSize \in Nat \ {0} /\ ChunkSize \in Nat /\ ChunkThreshold \in Nat
  OBVIOUS
<1>2. even \in 1..NBatches
  <2>1. NBatches \div PpSize \in Nat /\ NBatches \div PpSize <= NBatches
    BY <1>1, Halved
  <2> QED
    BY <1>1, <2>1 DEF Most
<1>3. deep \in 1..NBatches
  <2>1. even \div 2 \in Nat /\ even \div 2 <= even
    BY <1>2, Halved
  <2> QED
    BY <1>1, <1>2, <2>1 DEF Most
<1>4. Most(1, deep \div 2) \in 1..NBatches /\ Most(1, deep \div 4) \in 1..NBatches
  <2>1. deep \div 2 \in Nat /\ deep \div 2 <= deep /\ deep \div 4 \in Nat /\ deep \div 4 <= deep
    BY <1>3, Halved
  <2> QED
    BY <1>1, <1>3, <2>1 DEF Most
<1>5. pressure \in Nat
  BY <1>1, Halved DEF Most
<1>6. AutoChunk(n) \in 1..NBatches
  <2>1. AutoChunk(n) = CASE pressure >= 16      -> Most(1, deep \div 4)
                         [] pressure \in 8..15  -> Most(1, deep \div 2)
                         [] OTHER               -> deep
    BY DEF AutoChunk
  <2>2. CASE pressure >= 16
    BY <1>4, <1>5, <2>1, <2>2
  <2>3. CASE pressure \in 8..15
    BY <1>4, <1>5, <2>1, <2>3
  <2>4. CASE ~(pressure >= 16) /\ pressure \notin 8..15
    BY <1>3, <2>1, <2>4
  <2> QED
    BY <2>2, <2>3, <2>4
<1>7. CASE PpSize = 1 \/ n < ChunkThreshold
  BY <1>1, <1>7 DEF ResolvePrefillChunkBatchSize
<1>8. CASE PpSize > 1 /\ n >= ChunkThreshold /\ ChunkSize > 0
  BY <1>1, <1>8 DEF ResolvePrefillChunkBatchSize, Least
<1>9. CASE ~(PpSize = 1 \/ n < ChunkThreshold) /\ ~(PpSize > 1 /\ n >= ChunkThreshold /\ ChunkSize > 0)
  BY <1>1, <1>6, <1>9 DEF ResolvePrefillChunkBatchSize
<1> QED
  BY <1>7, <1>8, <1>9

---------------------------------------------------------------------------
(* The inductive invariant: what a loop may count on when it begins a step. *)

\* The end of a turn is within the context, and so is its begin.
InText ==
  /\ pos \in Nat /\ base \in 0..SeqLen
  /\ mode # "perplexity" => maxPos \in 0..SeqLen
  /\ pc = "prefill" => Len(prompt) \in Nat \ {0}

\* Perplexity is a loop of its own.
OwnLoop ==
  /\ pc = "score" => mode = "perplexity"
  /\ mode = "perplexity" => pc \in {"score", "done", "aborted"}

\* The prompts of the file were checked against the context.
InFile ==
  pc = "fill" =>
    \A r \in DOMAIN reqs :
      /\ {"tokens", "pos"} \subseteq DOMAIN reqs[r]
      /\ reqs[r].pos \in Nat
      /\ Len(reqs[r].tokens) \in 1..SeqLen

IInv == InText /\ OwnLoop /\ InFile /\ StaysInContext

LEMMA PromptLen ==
  ASSUME NEW turn, NEW n \in Nat
  PROVE  Len(PromptOf(turn, n)) = n
BY DEF PromptOf

LEMMA InitInv == DriversInit => IInv
<1> USE ContextAssumption, DriversAssumption
<1> SUFFICES ASSUME DriversInit PROVE IInv
  OBVIOUS
<1>0. SeqLen \in Nat \ {0} /\ PromptLengths \subseteq Nat \ {0, 1} /\ StepLimits \subseteq Nat \ {0}
  OBVIOUS
<1>1. CASE InferenceInit
  <2>1. PICK n \in PromptLengths, steps \in StepLimits :
           /\ mode = "inference" /\ prompt = PromptOf(1, n)
           /\ pc = "prefill" /\ maxPos = Least(SeqLen, steps)
    BY <1>1 DEF InferenceInit, TextInit
  <2>2. Len(prompt) = n
    BY <1>0, <2>1, PromptLen
  <2> QED
    BY <1>0, <2>1, <2>2 DEF DriversInit, IInv, InText, OwnLoop, InFile, StaysInContext, Least
<1>2. CASE PerplexityInit
  BY <1>0, <1>2 DEF DriversInit, PerplexityInit, IInv, InText, OwnLoop, InFile, StaysInContext
<1>3. CASE ChatInit
  BY <1>0, <1>3 DEF DriversInit, ChatInit, IInv, InText, OwnLoop, InFile, StaysInContext
<1>4. CASE BatchInit
  <2>1. PICK n \in 1..MaxRequests, steps \in StepLimits :
           /\ mode = "batch" /\ pc = "fill" /\ maxPos = Least(SeqLen, steps)
           /\ \E ns \in [1..n -> PromptLengths] :
                /\ \A r \in 1..n : Accepted(ns[r], steps)
                /\ reqs = [r \in 1..n |-> Request(r, ns[r], steps)]
    BY <1>4 DEF BatchInit
  <2>2. PICK ns \in [1..n -> PromptLengths] :
           /\ \A r \in 1..n : Accepted(ns[r], steps)
           /\ reqs = [r \in 1..n |-> Request(r, ns[r], steps)]
    BY <2>1
  <2>3. ASSUME NEW r \in 1..n
        PROVE  /\ {"tokens", "pos"} \subseteq DOMAIN reqs[r]
               /\ reqs[r].pos = 0
               /\ Len(reqs[r].tokens) \in 1..SeqLen
    <3>1. reqs[r] = Request(r, ns[r], steps) /\ ns[r] \in Nat \ {0, 1} /\ ns[r] <= SeqLen
      BY <1>0, <2>2 DEF Accepted
    <3>2. Len(reqs[r].tokens) = ns[r] /\ reqs[r].pos = 0 /\ {"tokens", "pos"} \subseteq DOMAIN reqs[r]
      BY <3>1, PromptLen DEF Request
    <3> QED
      BY <1>0, <3>1, <3>2
  <2>4. InFile
    BY <2>2, <2>3 DEF InFile
  <2> QED
    BY <1>0, <2>1, <2>4 DEF DriversInit, IInv, InText, OwnLoop, StaysInContext, Least
<1> QED
  BY <1>1, <1>2, <1>3, <1>4 DEF DriversInit

\* A chunk of the prompt ends where the prompt does, or the context.
LEMMA PrefillChunkKeeps ==
  ASSUME IInv, PrefillChunk
  PROVE  IInv'
<1> USE ContextAssumption
<1> DEFINE cap   == ResolvePrefillChunkBatchSize(PrefillEnd - base)
           batch == Least(PrefillEnd - pos, cap)
<1>0. NBatches \in Nat \ {0} /\ SeqLen \in Nat \ {0}
  OBVIOUS
<1>1. /\ pc = "prefill" /\ pos < PrefillEnd /\ pos' = pos + batch /\ pc' = Then(pos, batch, pc)
      /\ UNCHANGED <<mode, prompt, base, maxPos, reqs>>
  BY DEF PrefillChunk, driverVars
<1>2. pos \in Nat /\ base \in 0..SeqLen /\ Len(prompt) \in Nat \ {0}
  BY <1>1 DEF IInv, InText
<1>3. PrefillEnd \in Nat /\ PrefillEnd <= SeqLen /\ PrefillEnd - base \in Nat
  BY <1>0, <1>2 DEF PrefillEnd, Least
<1>4. cap \in 1..NBatches
  BY <1>3, ChunkBounds
<1>5. batch \in 1..NBatches /\ pos + batch <= SeqLen
  BY <1>0, <1>1, <1>2, <1>3, <1>4 DEF Least
<1>6. pc' = "prefill"
  BY <1>1, <1>5 DEF Then, Fits
<1> QED
  BY <1>0, <1>1, <1>2, <1>5, <1>6 DEF IInv, InText, OwnLoop, InFile, StaysInContext

LEMMA DecodeStepKeeps ==
  ASSUME IInv, DecodeStep
  PROVE  IInv'
<1> USE ContextAssumption
<1>0. NBatches \in Nat \ {0} /\ SeqLen \in Nat \ {0}
  OBVIOUS
<1>1. /\ pc = "decode" /\ pos < maxPos /\ pos' = pos + 1
      /\ UNCHANGED <<mode, prompt, base, maxPos, reqs>>
      /\ pc' = Then(pos, 1, pc) \/ (mode = "chat" /\ pc' = Then(pos, 1, "user"))
  BY DEF DecodeStep
<1>2. pos \in Nat /\ maxPos \in 0..SeqLen /\ mode # "perplexity"
  BY <1>1 DEF IInv, InText, OwnLoop
<1>3. pc' \in {"decode", "user"}
  BY <1>0, <1>1, <1>2 DEF Then, Fits
<1> QED
  BY <1>0, <1>1, <1>2, <1>3 DEF IInv, InText, OwnLoop, InFile, StaysInContext

\* A chunk of a prompt of the file ends before its last token.
LEMMA FillRequestKeeps ==
  ASSUME IInv, FillRequest
  PROVE  IInv'
<1> USE ContextAssumption
<1>0. NBatches \in Nat \ {0} /\ SeqLen \in Nat \ {0}
  OBVIOUS
<1> DEFINE rest(r)  == Len(reqs[r].tokens) - 1 - reqs[r].pos
           batch(r) == Least(rest(r), ResolvePrefillChunkBatchSize(Len(reqs[r].tokens) - 1))
<1>1. pc = "fill" /\ UNCHANGED <<mode, pos, prompt, base, maxPos>>
  BY DEF FillRequest
<1>2. PICK r \in Unfilled :
         /\ reqs' = [reqs EXCEPT ![r].pos = reqs[r].pos + batch(r),
                                 ![r].token = reqs[r].tokens[reqs[r].pos + batch(r) + 1]]
         /\ pc' = Then(reqs[r].pos, batch(r), pc)
  BY DEF FillRequest
<1>3. /\ r \in DOMAIN reqs /\ {"tokens", "pos"} \subseteq DOMAIN reqs[r]
      /\ reqs[r].pos \in Nat /\ Len(reqs[r].tokens) \in 1..SeqLen
      /\ reqs[r].pos + 1 < Len(reqs[r].tokens)
  BY <1>1, <1>2 DEF IInv, InFile, Unfilled
<1>4. ResolvePrefillChunkBatchSize(Len(reqs[r].tokens) - 1) \in 1..NBatches
  <2>1. Len(reqs[r].tokens) - 1 \in Nat
    BY <1>0, <1>3
  <2> QED
    BY <2>1, ChunkBounds
<1>5. batch(r) \in 1..NBatches /\ reqs[r].pos + batch(r) <= SeqLen
  BY <1>0, <1>3, <1>4 DEF Least
<1>6. pc' = "fill"
  BY <1>1, <1>2, <1>3, <1>5 DEF Then, Fits
<1>7. InFile'
  <2> DEFINE moved == reqs[r].pos + batch(r)
             next  == reqs[r].tokens[moved + 1]
  <2>1. moved \in Nat
    BY <1>3, <1>5
  <2>2. reqs' = [reqs EXCEPT ![r].pos = moved, ![r].token = next]
    BY <1>2
  <2> HIDE DEF moved, next
  <2>3. ASSUME NEW s \in DOMAIN reqs
        PROVE  /\ {"tokens", "pos"} \subseteq DOMAIN reqs'[s]
               /\ reqs'[s].pos \in Nat
               /\ Len(reqs'[s].tokens) \in 1..SeqLen
    <3>1. CASE s = r
      <4>1. reqs'[s] = [reqs[r] EXCEPT !.pos = moved, !.token = next]
        BY <1>3, <2>2, <3>1
      <4>2. reqs'[s].pos = moved /\ reqs'[s].tokens = reqs[r].tokens /\ DOMAIN reqs'[s] = DOMAIN reqs[r]
        BY <1>3, <4>1
      <4> QED
        BY <1>3, <2>1, <4>2
    <3>2. CASE s # r
      <4>1. reqs'[s] = reqs[s]
        BY <1>3, <2>2, <3>2
      <4> QED
        BY <1>1, <4>1 DEF IInv, InFile
    <3> QED
      BY <3>1, <3>2
  <2>4. DOMAIN reqs' = DOMAIN reqs
    BY <2>2
  <2> QED
    BY <2>3, <2>4 DEF InFile
<1> QED
  BY <1>0, <1>1, <1>6, <1>7 DEF IInv, InText, OwnLoop, StaysInContext

LEMMA UserTurnKeeps ==
  ASSUME IInv, UserTurn
  PROVE  IInv'
<1> USE ContextAssumption, DriversAssumption
<1>1. PICK n \in PromptLengths :
         prompt' = PromptOf(IF prompt = <<>> THEN 1 ELSE prompt[1].turn + 1, n)
  BY DEF UserTurn
<1>2. n \in Nat \ {0} /\ SeqLen \in Nat
  OBVIOUS
<1>3. Len(prompt') = n
  BY <1>1, <1>2, PromptLen
<1>4. pc = "user" /\ pos < SeqLen /\ base' = pos /\ pc' = "prefill" /\ UNCHANGED <<mode, pos, maxPos, reqs>>
  BY DEF UserTurn
<1> QED
  BY <1>2, <1>3, <1>4 DEF IInv, InText, OwnLoop, InFile, StaysInContext

LEMMA NextKeeps ==
  ASSUME IInv, [DriversNext]_<<contextVars, driverVars>>
  PROVE  IInv'
<1> USE DEF IInv, InText, OwnLoop, InFile, StaysInContext
<1>1. CASE PrefillChunk
  BY <1>1, PrefillChunkKeeps
<1>2. CASE PrefillDone
  BY <1>2 DEF PrefillDone, driverVars
<1>3. CASE DecodeStep
  BY <1>3, DecodeStepKeeps
<1>4. CASE LoopDone
  BY <1>4 DEF LoopDone, driverVars
<1>5. CASE Score
  BY <1>5 DEF Score, driverVars, Then
<1>6. CASE FillRequest
  BY <1>6, FillRequestKeeps
<1>7. CASE Filled
  BY <1>7 DEF Filled, driverVars
<1>8. CASE Round
  BY <1>8 DEF Round
<1>9. CASE RoundsDone
  BY <1>9 DEF RoundsDone, driverVars
<1>10. CASE UserTurn
  BY <1>10, UserTurnKeeps
<1>11. CASE EndOfContext
  BY <1>11 DEF EndOfContext, driverVars
<1>12. CASE UNCHANGED <<contextVars, driverVars>>
  BY <1>12 DEF contextVars, driverVars
<1> QED
  BY <1>1, <1>2, <1>3, <1>4, <1>5, <1>6, <1>7, <1>8, <1>9, <1>10, <1>11, <1>12
     DEF DriversNext, DriversLoops

\* No loop of inference, chat or continuous batching asks for a position
\* outside the context or for more rows than a step has: the assert() of
\* setPosition and setBatchSize never fails (forward and the loops of
\* dllama.cpp, for every context, chunk, prompt length and limit).
THEOREM DriversStayInContext == DriversSpec => []StaysInContext
<1>1. IInv => StaysInContext
  BY DEF IInv
<1> QED
  BY <1>1, InitInv, NextKeeps, PTL DEF DriversSpec

---------------------------------------------------------------------------
(* Whoever samples reads the answer of the step before it.                  *)

\* The loops of continuous batching are its own, and a reply is sampled in the
\* decode phase only.
ReadsOwn ==
  /\ logitsMode \in 0..2
  /\ pc \in {"fill", "round"} => mode = "batch"
  /\ pc = "decode" => phase = "decode"

ReadInv == OwnLoop /\ ReadsOwn /\ LogitsFresh

LEMMA ReadInit == DriversInit => ReadInv
BY ContextAssumption DEF DriversInit, InferenceInit, PerplexityInit, ChatInit, BatchInit, ReadInv, OwnLoop,
   ReadsOwn, LogitsFresh

\* In the decode phase sampling looks where forward left the answer of a step
\* of one row; in the prefill phase the fused head leaves no logits to sample.
LEMMA SourceIsAnswer ==
  ASSUME logitsMode \in 0..2
  PROVE  SampleSource("decode", 1) = Delivered("decode", 1)
<1>1. CASE logitsMode = 1
  BY <1>1 DEF SampleSource, Delivered
<1>2. CASE logitsMode = 2
  BY <1>2 DEF SampleSource, Delivered
<1>3. CASE logitsMode = 0
  BY <1>3 DEF SampleSource, Delivered, HeadOutput
<1> QED
  BY <1>1, <1>2, <1>3

LEMMA ReadKeeps ==
  ASSUME ReadInv, [DriversNext]_<<contextVars, driverVars>>
  PROVE  ReadInv'
<1> USE DEF ReadInv, OwnLoop, ReadsOwn, LogitsFresh
<1>1. CASE PrefillChunk
  <2>1. pc = "prefill" /\ pc' \in {"prefill", "aborted"} /\ read' = "nothing" /\ UNCHANGED <<mode, logitsMode>>
    BY <1>1 DEF PrefillChunk, Then
  <2> QED
    BY <2>1
<1>2. CASE PrefillDone
  BY <1>2 DEF PrefillDone, driverVars
<1>3. CASE DecodeStep
  <2>1. /\ pc = "decode" /\ pc' \in {"decode", "user", "aborted"} /\ UNCHANGED <<mode, logitsMode>>
        /\ phase = "decode" /\ phase' = "decode"
        /\ read' = SampleSource("decode", 1) /\ held' = Delivered("decode", 1)
    <3>1. Len(<<token>>) = 1 /\ phase = "decode"
      BY <1>3 DEF DecodeStep
    <3> QED
      BY <1>3, <3>1 DEF DecodeStep, Then, Evaluate
  <2>2. read' = held'
    BY <2>1, SourceIsAnswer
  <2> QED
    BY <2>1, <2>2
<1>4. CASE LoopDone
  BY <1>4 DEF LoopDone, driverVars
<1>5. CASE Score
  <2>1. pc = "score" /\ pc' \in {"score", "aborted"} /\ UNCHANGED <<mode, logitsMode>>
    BY <1>5 DEF Score, Then
  <2> QED
    BY <2>1
<1>6. CASE FillRequest
  <2>1. /\ pc = "fill" /\ pc' \in {"fill", "aborted"} /\ UNCHANGED <<mode, logitsMode>>
    BY <1>6 DEF FillRequest, Then
  <2> QED
    BY <2>1
<1>7. CASE Filled
  BY <1>7 DEF Filled, driverVars
<1>8. CASE Round
  <2>1. pc = "round" /\ UNCHANGED <<pc, mode, logitsMode>>
    BY <1>8 DEF Round
  <2> QED
    BY <2>1
<1>9. CASE RoundsDone
  BY <1>9 DEF RoundsDone, driverVars
<1>10. CASE UserTurn
  BY <1>10 DEF UserTurn
<1>11. CASE EndOfContext
  BY <1>11 DEF EndOfContext, driverVars
<1>12. CASE UNCHANGED <<contextVars, driverVars>>
  BY <1>12 DEF contextVars, driverVars
<1> QED
  BY <1>1, <1>2, <1>3, <1>4, <1>5, <1>6, <1>7, <1>8, <1>9, <1>10, <1>11, <1>12
     DEF DriversNext, DriversLoops

\* Inference and chat sample from the answer of the step they just ran, whatever
\* the decode phase leaves (logits, a token, a top-k list), however many chunks
\* the prompt took and however many turns came before: they never sample in the
\* prefill phase (forward, sampleToken and the loops of dllama.cpp).
THEOREM DriversReadFresh == DriversSpec => []LogitsFresh
<1>1. ReadInv => LogitsFresh
  BY DEF ReadInv
<1> QED
  BY <1>1, ReadInit, ReadKeeps, PTL DEF DriversSpec

---------------------------------------------------------------------------
(* The rounds of continuous batching.                                       *)

\* A request as the file gives it and the rounds leave it.
Tokens == [turn : Nat, of : {"", "text"}, i : Nat, kind : {"prompt", "reply", "stale", "foreign"}]
FileRequests ==
  [tokens : Seq(Tokens), pos : Nat, maxPos : Nat, token : Tokens, finished : BOOLEAN]

\* No prompt of the file is evaluated past its last token but one before the
\* rounds begin, and the cursor stays on the file.
InTurn ==
  /\ reqs \in Seq(FileRequests)
  /\ cursor \in Nat \ {0} /\ (reqs # <<>> => cursor <= Len(reqs))
  /\ pc = "fill" => \A r \in DOMAIN reqs : reqs[r].pos <= Len(reqs[r].tokens) - 1

\* Of two requests that both still run, the one whose turn comes first has
\* decoded as many tokens as the other or one less.
ByTurns(r, s) == Turn(r) < Turn(s) => Decoded(r) <= Decoded(s) /\ Decoded(s) <= Decoded(r) + 1
RoundsInv == pc = "round" => \A r, s \in Active : ByTurns(r, s)

FairInv == InTurn /\ RoundsInv

\* The turns of the requests of a file are different, and all within a round.
LEMMA TurnsDiffer ==
  ASSUME InTurn, reqs # <<>>
  PROVE  /\ \A r \in DOMAIN reqs : Turn(r) \in 0..(Len(reqs) - 1)
         /\ \A r, s \in DOMAIN reqs : Turn(r) = Turn(s) => r = s
<1>1. Len(reqs) \in Nat \ {0} /\ DOMAIN reqs = 1..Len(reqs) /\ cursor \in 1..Len(reqs)
  BY DEF InTurn
<1> QED
  BY <1>1 DEF Turn

LEMMA PromptTyped ==
  ASSUME NEW r \in Nat, NEW n \in Nat
  PROVE  PromptOf(r, n) \in Seq(Tokens)
<1>1. ASSUME NEW i \in 1..n
      PROVE  Tok(r, "text", i, "prompt") \in Tokens
  <2>1. i \in Nat
    OBVIOUS
  <2> QED
    BY <2>1 DEF Tok, Tokens
<1> QED
  BY <1>1 DEF PromptOf

LEMMA FairInit == DriversInit => FairInv
<1> USE ContextAssumption, DriversAssumption
<1> SUFFICES ASSUME DriversInit PROVE FairInv
  OBVIOUS
<1>0. SeqLen \in Nat \ {0} /\ PromptLengths \subseteq Nat \ {0, 1} /\ StepLimits \subseteq Nat \ {0}
  OBVIOUS
<1>1. cursor = 1 /\ pc # "round"
  BY DEF DriversInit, InferenceInit, PerplexityInit, ChatInit, BatchInit
<1>2. CASE reqs = <<>>
  BY <1>1, <1>2 DEF FairInv, InTurn, RoundsInv
<1>3. CASE BatchInit
  <2>1. PICK n \in 1..MaxRequests, steps \in StepLimits :
           \E ns \in [1..n -> PromptLengths] : reqs = [r \in 1..n |-> Request(r, ns[r], steps)]
    BY <1>3 DEF BatchInit
  <2>2. PICK ns \in [1..n -> PromptLengths] : reqs = [r \in 1..n |-> Request(r, ns[r], steps)]
    BY <2>1
  <2>3. Least(SeqLen, steps) \in Nat
    BY <1>0 DEF Least
  <2>4. ASSUME NEW r \in 1..n
        PROVE  Request(r, ns[r], steps) \in FileRequests /\ Request(r, ns[r], steps).pos = 0
               /\ Len(Request(r, ns[r], steps).tokens) \in Nat \ {0}
    <3>1. ns[r] \in Nat \ {0, 1}
      BY <1>0, <2>2
    <3>2. PromptOf(r, ns[r]) \in Seq(Tokens) /\ Len(PromptOf(r, ns[r])) = ns[r]
      BY <3>1, PromptTyped, PromptLen
    <3>3. PromptOf(r, ns[r])[1] \in Tokens
      BY <3>1, <3>2
    <3> QED
      BY <2>3, <3>1, <3>2, <3>3 DEF Request, FileRequests
  <2>5. reqs \in Seq(FileRequests) /\ Len(reqs) = n /\ DOMAIN reqs = 1..n
    BY <2>2, <2>4
  <2>6. ASSUME NEW r \in DOMAIN reqs
        PROVE  reqs[r].pos = 0 /\ Len(reqs[r].tokens) \in Nat \ {0}
    BY <2>2, <2>4, <2>5
  <2> QED
    BY <1>1, <2>5, <2>6 DEF FairInv, InTurn, RoundsInv
<1> QED
  BY <1>2, <1>3 DEF DriversInit, InferenceInit, PerplexityInit, ChatInit, TextInit

\* A chunk of the prefill of the file ends before the prompt's last token.
LEMMA FillKeepsTurns ==
  ASSUME FairInv, FillRequest
  PROVE  FairInv'
<1> USE ContextAssumption
<1>0. NBatches \in Nat \ {0} /\ SeqLen \in Nat \ {0}
  OBVIOUS
<1> DEFINE rest(r)  == Len(reqs[r].tokens) - 1 - reqs[r].pos
           batch(r) == Least(rest(r), ResolvePrefillChunkBatchSize(Len(reqs[r].tokens) - 1))
<1>1. pc = "fill" /\ pc' # "round" /\ UNCHANGED cursor
  BY DEF FillRequest, Then
<1>2. PICK r \in Unfilled :
         reqs' = [reqs EXCEPT ![r].pos = reqs[r].pos + batch(r),
                              ![r].token = reqs[r].tokens[reqs[r].pos + batch(r) + 1]]
  BY DEF FillRequest
<1>3. reqs \in Seq(FileRequests) /\ r \in DOMAIN reqs /\ reqs[r] \in FileRequests
  BY <1>2 DEF FairInv, InTurn, Unfilled
<1>4. reqs[r].pos \in Nat /\ Len(reqs[r].tokens) \in Nat /\ reqs[r].pos + 1 < Len(reqs[r].tokens)
      /\ reqs[r].tokens \in Seq(Tokens)
  BY <1>2, <1>3 DEF Unfilled, FileRequests
<1>5. ResolvePrefillChunkBatchSize(Len(reqs[r].tokens) - 1) \in 1..NBatches
  <2>1. Len(reqs[r].tokens) - 1 \in Nat
    BY <1>4
  <2> QED
    BY <2>1, ChunkBounds
<1> DEFINE moved == reqs[r].pos + batch(r)
           next  == reqs[r].tokens[moved + 1]
<1>6. moved \in Nat /\ moved <= Len(reqs[r].tokens) - 1
  <2>1. PICK cap \in 1..NBatches : cap = ResolvePrefillChunkBatchSize(Len(reqs[r].tokens) - 1)
    BY <1>5
  <2>2. PICK at \in Nat, len \in Nat : at = reqs[r].pos /\ len = Len(reqs[r].tokens) /\ at + 1 < len
    BY <1>4
  <2>3. moved = at + Least(len - 1 - at, cap)
    BY <2>1, <2>2
  <2>4. at + Least(len - 1 - at, cap) \in Nat /\ at + Least(len - 1 - at, cap) <= len - 1
    BY ONLY SMTT(60), <1>0, <2>1, <2>2, cap \in 1..NBatches, at \in Nat, len \in Nat DEF Least
  <2> QED
    BY <2>2, <2>3, <2>4
<1>7. next \in Tokens
  BY <1>4, <1>6
<1>8. reqs' = [reqs EXCEPT ![r].pos = moved, ![r].token = next]
  BY <1>2
<1> HIDE DEF moved, next
<1>9. reqs' = [reqs EXCEPT ![r] = [reqs[r] EXCEPT !.pos = moved, !.token = next]]
  BY <1>3, <1>8
<1>10. [reqs[r] EXCEPT !.pos = moved, !.token = next] \in FileRequests
  BY <1>3, <1>6, <1>7 DEF FileRequests
<1>11. reqs' \in Seq(FileRequests) /\ Len(reqs') = Len(reqs) /\ DOMAIN reqs' = DOMAIN reqs
  BY <1>3, <1>9, <1>10
<1>12. ASSUME NEW s \in DOMAIN reqs
       PROVE  reqs'[s].pos <= Len(reqs'[s].tokens) - 1
  <2>1. CASE s = r
    <3>1. reqs'[s] = [reqs[r] EXCEPT !.pos = moved, !.token = next]
      BY <1>3, <1>9, <2>1
    <3>2. reqs'[s].pos = moved /\ reqs'[s].tokens = reqs[r].tokens
      BY <1>3, <3>1 DEF FileRequests
    <3> QED
      BY <1>6, <3>2
  <2>2. CASE s # r
    <3>1. reqs'[s] = reqs[s]
      BY <1>9, <2>2
    <3> QED
      BY <1>1, <3>1 DEF FairInv, InTurn
  <2> QED
    BY <2>1, <2>2
<1>13. reqs # <<>> /\ reqs' # <<>>
  BY <1>3, <1>11
<1> QED
  BY <1>1, <1>11, <1>12, <1>13 DEF FairInv, InTurn, RoundsInv


\* The picked requests are the first ones of the round: no active request
\* before the last picked one is left out.
LEMMA PickedAreFirst ==
  ASSUME InTurn, NEW last \in LastOf(Picked)
  PROVE  Picked = {r \in Active : Turn(r) <= Turn(last)}
<1> DEFINE before(r) == {s \in Active : Turn(s) < Turn(r)}
<1>1. last \in Picked /\ \A s \in Picked : Turn(s) <= Turn(last)
  BY DEF LastOf
<1>2. last \in Active /\ Cardinality(before(last)) < MaxActive
  BY <1>1 DEF Picked
<1>3. reqs # <<>> /\ Len(reqs) \in Nat /\ \A r \in Active : r \in 1..Len(reqs)
  BY <1>2 DEF Active, InTurn
<1>4. \A r \in Active : Turn(r) \in Int
  BY <1>3, TurnsDiffer DEF InTurn
<1>5. IsFiniteSet(1..Len(reqs))
  <2>1. 1 \in Int /\ Len(reqs) \in Int
    BY <1>3
  <2> QED
    BY <2>1, FS_Interval
<1>6. \A r \in Active : IsFiniteSet(before(r)) /\ Cardinality(before(r)) \in Nat
  <2> TAKE r \in Active
  <2>1. before(r) \subseteq 1..Len(reqs)
    BY <1>3
  <2> QED
    BY <2>1, <1>5, FS_Subset, FS_CardinalityType
<1>7. ASSUME NEW r \in Active, Turn(r) <= Turn(last)
      PROVE  r \in Picked
  <2>1. before(r) \subseteq before(last)
    BY <1>2, <1>4, <1>7
  <2>2. Cardinality(before(r)) <= Cardinality(before(last))
    BY <1>2, <1>6, <2>1, FS_Subset
  <2>3. Cardinality(before(r)) < MaxActive
    <3>1. Cardinality(before(r)) \in Nat /\ Cardinality(before(last)) \in Nat /\ MaxActive \in Int
      BY <1>2, <1>6, DriversAssumption, ContextAssumption
    <3> QED
      BY <1>2, <2>2, <3>1
  <2> QED
    BY <2>3 DEF Picked
<1>8. ASSUME NEW r \in Picked
      PROVE  r \in Active /\ Turn(r) <= Turn(last)
  BY <1>1 DEF Picked
<1> QED
  BY <1>7, <1>8

\* After the round the others come first, and the picked ones after them.
LEMMA CursorMoves ==
  ASSUME InTurn, NEW last \in DOMAIN reqs, NEW r \in DOMAIN reqs, Len(reqs') = Len(reqs),
         cursor' = (last % Len(reqs)) + 1
  PROVE  /\ Turn(r) <= Turn(last) => Turn(r)' = Turn(r) - Turn(last) - 1 + Len(reqs)
         /\ Turn(r) > Turn(last) => Turn(r)' = Turn(r) - Turn(last) - 1
<1>1. PICK n \in Nat \ {0} : n = Len(reqs) /\ DOMAIN reqs = 1..n
  BY DEF InTurn
<1>2. cursor \in 1..n /\ last \in 1..n /\ r \in 1..n
  BY <1>1 DEF InTurn
<1>3. cursor' = IF last = n THEN 1 ELSE last + 1
  BY <1>1, <1>2
<1>4. Turn(r) = (IF r < cursor THEN n + r - cursor ELSE r - cursor)
      /\ Turn(last) = (IF last < cursor THEN n + last - cursor ELSE last - cursor)
      /\ Turn(r)' = (IF r < cursor' THEN n + r - cursor' ELSE r - cursor')
  BY <1>1 DEF Turn
<1> HIDE DEF Turn
<1>5. cursor' \in 1..n
  BY <1>2, <1>3
<1> QED
  <2> DEFINE old == Turn(r)  new == Turn(r)'  at == Turn(last)  c == cursor  d == cursor'
  <2>1. old = (IF r < c THEN n + r - c ELSE r - c) /\ at = (IF last < c THEN n + last - c ELSE last - c)
        /\ new = (IF r < d THEN n + r - d ELSE r - d) /\ d = IF last = n THEN 1 ELSE last + 1
    BY <1>3, <1>4
  <2>2. c \in 1..n /\ d \in 1..n
    BY <1>2, <1>5
  <2> HIDE DEF old, new, at, c, d
  <2>3. (old <= at => new = old - at - 1 + n) /\ (old > at => new = old - at - 1)
    <3>1. CASE r < c /\ last < c
      BY ONLY n \in Nat \ {0}, <1>2, <2>1, <2>2, <3>1
    <3>2. CASE r < c /\ ~(last < c)
      BY ONLY n \in Nat \ {0}, <1>2, <2>1, <2>2, <3>2
    <3>3. CASE ~(r < c) /\ last < c
      BY ONLY n \in Nat \ {0}, <1>2, <2>1, <2>2, <3>3
    <3>4. CASE ~(r < c) /\ ~(last < c)
      BY ONLY n \in Nat \ {0}, <1>2, <2>1, <2>2, <3>4
    <3> QED
      BY <3>1, <3>2, <3>3, <3>4
  <2> QED
    BY <1>1, <2>3 DEF old, new, at

LEMMA NextTokenTyped ==
  ASSUME NEW t \in Tokens
  PROVE  NextToken(t) \in Tokens
<1>1. t.turn \in Nat /\ t.of \in {"", "text"} /\ t.i \in Nat
  BY DEF Tokens
<1>2. t.i + 1 \in Nat
  <2>1. PICK i \in Nat : t.i = i
    BY <1>1
  <2> QED
    BY <2>1
<1> QED
  BY <1>1, <1>2 DEF NextToken, Tok, Tokens

LEMMA RoundKeepsTurns ==
  ASSUME FairInv, Round
  PROVE  FairInv'
<1>1. pc = "round" /\ UNCHANGED pc
  BY DEF Round
<1>2. PICK eos \in SUBSET Picked :
        reqs' = [r \in DOMAIN reqs |->
          IF r \in Picked
          THEN [reqs[r] EXCEPT !.pos = @ + 1, !.token = NextToken(@),
                  !.finished = r \in eos \/ reqs[r].pos + 1 >= reqs[r].maxPos]
          ELSE reqs[r]]
  BY DEF Round
<1>3. PICK last \in LastOf(Picked) : cursor' = (last % Len(reqs)) + 1
  BY DEF Round
<1>4. InTurn /\ Picked = {r \in Active : Turn(r) <= Turn(last)}
  BY <1>3, PickedAreFirst DEF FairInv
<1>5. last \in Active /\ last \in DOMAIN reqs /\ Picked \subseteq DOMAIN reqs
  BY <1>3, <1>4 DEF LastOf, Active, InTurn
<1>6. reqs \in Seq(FileRequests) /\ Len(reqs) \in Nat \ {0} /\ DOMAIN reqs = 1..Len(reqs)
  BY <1>4, <1>5 DEF InTurn
<1>7. ASSUME NEW r \in DOMAIN reqs
      PROVE  /\ reqs'[r] \in FileRequests
             /\ reqs'[r].tokens = reqs[r].tokens /\ reqs'[r].maxPos = reqs[r].maxPos
             /\ reqs'[r].pos = IF r \in Picked THEN reqs[r].pos + 1 ELSE reqs[r].pos
             /\ r \notin Picked => reqs'[r] = reqs[r]
  <2>1. reqs[r] \in FileRequests
    BY <1>6
  <2>2. CASE r \notin Picked
    BY <1>2, <2>1, <2>2
  <2>3. CASE r \in Picked
    <3> DEFINE over == (r \in eos \/ reqs[r].pos + 1 >= reqs[r].maxPos)
    <3>1. reqs'[r] = [reqs[r] EXCEPT !.pos = reqs[r].pos + 1, !.token = NextToken(reqs[r].token), !.finished = over]
      BY <1>2, <2>3
    <3>2. over \in BOOLEAN
      BY Zenon
    <3>3. reqs[r].token \in Tokens /\ reqs[r].pos \in Nat
      BY <2>1 DEF FileRequests
    <3>4. NextToken(reqs[r].token) \in Tokens /\ reqs[r].pos + 1 \in Nat
      BY <3>3, NextTokenTyped
    <3> HIDE DEF over
    <3>5. reqs'[r] \in FileRequests /\ reqs'[r].tokens = reqs[r].tokens
          /\ reqs'[r].maxPos = reqs[r].maxPos /\ reqs'[r].pos = reqs[r].pos + 1
      <4>1. PICK q \in FileRequests : q = reqs[r]
        BY <2>1
      <4>2. PICK at \in Nat : at = reqs[r].pos + 1
        BY <3>4
      <4>3. PICK t \in Tokens : t = NextToken(reqs[r].token)
        BY <3>4
      <4>4. PICK f \in BOOLEAN : f = over
        BY <3>2
      <4>5. reqs'[r] = [q EXCEPT !.pos = at, !.token = t, !.finished = f]
        BY ONLY <3>1, <4>1, <4>2, <4>3, <4>4
      <4>6. reqs'[r] \in FileRequests /\ reqs'[r].tokens = q.tokens
            /\ reqs'[r].maxPos = q.maxPos /\ reqs'[r].pos = at
        BY ONLY <4>5, q \in FileRequests, at \in Nat, t \in Tokens, f \in BOOLEAN DEF FileRequests
      <4> QED
        BY <4>1, <4>2, <4>6
    <3> QED
      BY <2>3, <3>5
  <2> QED
    BY <2>2, <2>3
<1>8. DOMAIN reqs' = DOMAIN reqs
  BY <1>2
<1>9. reqs' \in Seq(FileRequests) /\ Len(reqs') = Len(reqs)
  <2>1. reqs' = [r \in 1..Len(reqs) |-> reqs'[r]]
    BY <1>2, <1>6
  <2>2. \A r \in 1..Len(reqs) : reqs'[r] \in FileRequests
    BY <1>6, <1>7
  <2> QED
    BY ONLY <1>6, <2>1, <2>2
<1>10. cursor' \in 1..Len(reqs)
  BY <1>3, <1>5, <1>6
<1>11. InTurn'
  BY <1>1, <1>6, <1>9, <1>10 DEF InTurn
<1>12. ASSUME NEW r \in Active'
       PROVE  r \in Active /\ r \in DOMAIN reqs
              /\ Decoded(r)' = (IF r \in Picked THEN Decoded(r) + 1 ELSE Decoded(r))
              /\ Decoded(r) \in Int
  <2>1. r \in DOMAIN reqs /\ ~reqs'[r].finished /\ reqs'[r].pos < reqs'[r].maxPos
    BY <1>6, <1>9 DEF Active
  <2>2. reqs[r].pos \in Nat /\ Len(reqs[r].tokens) \in Nat
    <3>1. reqs[r] \in FileRequests
      BY <1>6, <2>1
    <3> QED
      BY <3>1 DEF FileRequests
  <2>3. r \in Active
    <3>1. CASE r \in Picked
      BY <1>4, <3>1
    <3>2. CASE r \notin Picked
      BY <1>6, <1>7, <2>1, <3>2 DEF Active
    <3> QED
      BY <3>1, <3>2
  <2>4. Decoded(r) \in Int
    BY <2>2 DEF Decoded
  <2>5. reqs'[r].tokens = reqs[r].tokens
        /\ reqs'[r].pos = IF r \in Picked THEN reqs[r].pos + 1 ELSE reqs[r].pos
    BY <1>7, <2>1
  <2>6. Decoded(r)' = reqs'[r].pos - (Len(reqs'[r].tokens) - 1)
    BY DEF Decoded
  <2>7. Decoded(r)' = (IF r \in Picked THEN Decoded(r) + 1 ELSE Decoded(r))
    BY <2>2, <2>5, <2>6 DEF Decoded
  <2> QED
    BY <2>1, <2>3, <2>4, <2>7
<1>13. ASSUME NEW r \in Active', NEW s \in Active'
       PROVE  ByTurns(r, s)'
  <2>1. PICK n \in Nat \ {0} : n = Len(reqs)
    BY <1>6
  <2>2. Turn(r) \in 0..(n - 1) /\ Turn(s) \in 0..(n - 1) /\ Turn(last) \in 0..(n - 1)
    <3>1. r \in DOMAIN reqs /\ s \in DOMAIN reqs /\ last \in DOMAIN reqs /\ reqs # <<>>
      BY <1>5, <1>12, <1>6
    <3> QED
      BY <1>4, <2>1, <3>1, TurnsDiffer
  <2>3. /\ Turn(r) <= Turn(last) => Turn(r)' = Turn(r) - Turn(last) - 1 + n
        /\ Turn(r) > Turn(last) => Turn(r)' = Turn(r) - Turn(last) - 1
    BY <1>3, <1>4, <1>5, <1>9, <1>12, <2>1, CursorMoves
  <2>4. /\ Turn(s) <= Turn(last) => Turn(s)' = Turn(s) - Turn(last) - 1 + n
        /\ Turn(s) > Turn(last) => Turn(s)' = Turn(s) - Turn(last) - 1
    BY <1>3, <1>4, <1>5, <1>9, <1>12, <2>1, CursorMoves
  <2>5. (r \in Picked <=> Turn(r) <= Turn(last)) /\ (s \in Picked <=> Turn(s) <= Turn(last))
    BY <1>4, <1>12
  <2>6. ByTurns(r, s) /\ ByTurns(s, r)
    BY <1>1, <1>12 DEF FairInv, RoundsInv
  <2>7. /\ Turn(r) < Turn(s) => Decoded(r) <= Decoded(s) /\ Decoded(s) <= Decoded(r) + 1
        /\ Turn(s) < Turn(r) => Decoded(s) <= Decoded(r) /\ Decoded(r) <= Decoded(s) + 1
    BY <2>6 DEF ByTurns
  <2>8. Turn(r)' < Turn(s)' => Decoded(r)' <= Decoded(s)' /\ Decoded(s)' <= Decoded(r)' + 1
    <3> DEFINE tr == Turn(r)  ts == Turn(s)  tl == Turn(last)  tr2 == Turn(r)'  ts2 == Turn(s)'
               dr == Decoded(r)  ds == Decoded(s)  dr2 == Decoded(r)'  ds2 == Decoded(s)'
    <3>1. tr \in 0..(n - 1) /\ ts \in 0..(n - 1) /\ tl \in 0..(n - 1) /\ dr \in Int /\ ds \in Int
      BY <1>12, <2>2
    <3>2. dr2 = (IF tr <= tl THEN dr + 1 ELSE dr) /\ ds2 = (IF ts <= tl THEN ds + 1 ELSE ds)
      BY <1>12, <2>5
    <3>3. tr2 = (IF tr <= tl THEN tr - tl - 1 + n ELSE tr - tl - 1)
          /\ ts2 = (IF ts <= tl THEN ts - tl - 1 + n ELSE ts - tl - 1)
      BY <2>3, <2>4, <3>1
    <3>4. (tr < ts => dr <= ds /\ ds <= dr + 1) /\ (ts < tr => ds <= dr /\ dr <= ds + 1)
      BY <2>7
    <3> HIDE DEF tr, ts, tl, tr2, ts2, dr, ds, dr2, ds2
    <3>5. tr2 < ts2 => dr2 <= ds2 /\ ds2 <= dr2 + 1
      BY <3>1, <3>2, <3>3, <3>4
    <3> QED
      BY <3>5 DEF tr, ts, tl, tr2, ts2, dr, ds, dr2, ds2
  <2> QED
    BY <2>8 DEF ByTurns
<1>14. RoundsInv'
  BY <1>13 DEF RoundsInv
<1> QED
  BY <1>11, <1>14 DEF FairInv


LEMMA FairKeeps ==
  ASSUME FairInv, [DriversNext]_<<contextVars, driverVars>>
  PROVE  FairInv'
<1>1. CASE FillRequest
  BY <1>1, FillKeepsTurns
<1>2. CASE Round
  BY <1>2, RoundKeepsTurns
<1>3. CASE Filled
  <2>1. pc = "fill" /\ Unfilled = {} /\ pc' = "round" /\ UNCHANGED <<reqs, cursor>>
    BY <1>3 DEF Filled, driverVars
  <2>2. ASSUME NEW r \in Active'
        PROVE  Decoded(r)' = 0
    <3>1. r \in DOMAIN reqs /\ reqs[r] \in FileRequests
      BY <2>1 DEF Active, FairInv, InTurn
    <3>2. reqs[r].pos \in Nat /\ Len(reqs[r].tokens) \in Nat
      BY <3>1 DEF FileRequests
    <3>3. reqs[r].pos <= Len(reqs[r].tokens) - 1 /\ ~(reqs[r].pos + 1 < Len(reqs[r].tokens))
      BY <2>1, <3>1 DEF FairInv, InTurn, Unfilled
    <3>4. reqs[r].pos = Len(reqs[r].tokens) - 1
      BY <3>2, <3>3
    <3> QED
      BY <2>1, <3>2, <3>4 DEF Decoded
  <2>3. RoundsInv'
    BY <2>2 DEF RoundsInv, ByTurns
  <2>4. InTurn'
    BY <2>1 DEF FairInv, InTurn
  <2> QED
    BY <2>3, <2>4 DEF FairInv
<1>4. CASE PrefillChunk \/ PrefillDone \/ DecodeStep \/ LoopDone \/ Score \/ RoundsDone \/ UserTurn
           \/ EndOfContext
  <2>1. pc' \notin {"fill", "round"} /\ UNCHANGED <<reqs, cursor>>
    BY <1>4 DEF PrefillChunk, PrefillDone, DecodeStep, LoopDone, Score, RoundsDone, UserTurn, EndOfContext,
       driverVars, Then
  <2> QED
    BY <2>1 DEF FairInv, InTurn, RoundsInv
<1>5. CASE UNCHANGED <<contextVars, driverVars>>
  <2>1. UNCHANGED <<pc, reqs, cursor>>
    BY <1>5 DEF contextVars, driverVars
  <2> QED
    BY <2>1 DEF FairInv, InTurn, RoundsInv, ByTurns, Active, Turn, Decoded
<1> QED
  BY <1>1, <1>2, <1>3, <1>4, <1>5 DEF DriversNext, DriversLoops

LEMMA TurnsAreFair == FairInv => RoundRobinFair
<1> SUFFICES ASSUME FairInv, pc = "round", NEW r \in Active, NEW s \in Active
             PROVE  Decoded(r) <= Decoded(s) + 1
  BY DEF RoundRobinFair
<1>1. ByTurns(r, s) /\ ByTurns(s, r)
  BY DEF FairInv, RoundsInv
<1>2. reqs \in Seq(FileRequests) /\ r \in DOMAIN reqs /\ s \in DOMAIN reqs /\ reqs # <<>>
  BY DEF FairInv, InTurn, Active
<1>3. Turn(r) \in Int /\ Turn(s) \in Int /\ (Turn(r) = Turn(s) => r = s)
  BY <1>2, TurnsDiffer DEF FairInv
<1>4. Decoded(r) \in Int /\ Decoded(s) \in Int
  <2>1. reqs[r] \in FileRequests /\ reqs[s] \in FileRequests
    BY <1>2
  <2>2. /\ reqs[r].pos \in Nat /\ Len(reqs[r].tokens) \in Nat
        /\ reqs[s].pos \in Nat /\ Len(reqs[s].tokens) \in Nat
    BY <2>1 DEF FileRequests
  <2> QED
    BY <2>2 DEF Decoded
<1>5. CASE Turn(r) < Turn(s)
  BY <1>1, <1>4, <1>5 DEF ByTurns
<1>6. CASE Turn(s) < Turn(r)
  BY <1>1, <1>4, <1>6 DEF ByTurns
<1>7. CASE Turn(r) = Turn(s)
  BY <1>3, <1>4, <1>7
<1> QED
  BY <1>3, <1>5, <1>6, <1>7

\* Continuous batching never gives a request two tokens while another one
\* that still runs waits: the picks of a round and the cursor after it keep
\* every two of them within one decode step, for any number of prompts, of
\* rows per round, and wherever replies end (the picking loop of
\* inferenceContinuousBatching).
THEOREM RoundsAreFair == DriversSpec => []RoundRobinFair
<1> QED
  BY TurnsAreFair, FairInit, FairKeeps, PTL DEF DriversSpec


---------------------------------------------------------------------------
(* The context of inference, perplexity and chat is the dialog.             *)

\* Each loop runs in its own modes.
OwnModes ==
  /\ mode \in {"inference", "perplexity", "chat", "batch"}
  /\ mode = "batch" => pc \in {"fill", "round", "done", "aborted"}
  /\ pc \in {"fill", "round"} => mode = "batch"
  /\ pc = "user" => mode = "chat"

TextTyped ==
  /\ prompt \in Seq(Tokens) /\ dialog \in Seq(Tokens)
  /\ token \in Tokens /\ kv \in [Positions -> Tokens]

\* What was evaluated is the dialog so far, token by token.
RowsAreDialog ==
  /\ pos <= Len(dialog) /\ pos <= SeqLen
  /\ \A p \in 0..(pos - 1) : SameToken(kv[p], dialog[p + 1])

\* In the prefill the dialog ends with the prompt, and after its last chunk the
\* token at hand is the prompt's last one.
AtPrompt ==
  /\ Len(prompt) \in Nat \ {0, 1} /\ Len(dialog) = base + Len(prompt)
  /\ \A i \in 1..Len(prompt) : prompt[i].kind = "prompt" /\ dialog[base + i] = prompt[i]
  /\ base <= pos /\ pos <= base + Len(prompt) - 1
  /\ pos = base + Len(prompt) - 1 => SameToken(token, dialog[pos + 1])

\* In the reply the token at hand is the one the dialog ends with.
AtReply == pos < maxPos => Len(dialog) = pos + 1 /\ SameToken(token, dialog[pos + 1])

AtScore == dialog = prompt /\ maxPos = Len(prompt) - 1

DialogKept ==
  mode # "batch" /\ pc # "aborted" =>
    /\ RowsAreDialog
    /\ pc = "prefill" => AtPrompt
    /\ pc = "decode" => AtReply
    /\ pc = "user" => pos = Len(dialog)
    /\ pc = "score" => AtScore

DialogInv == IInv /\ OwnModes /\ TextTyped /\ DialogKept

LEMMA WriteRows ==
  ASSUME NEW p \in Nat, NEW ts \in Seq(Tokens), kv \in [Positions -> Tokens]
  PROVE  /\ Write(p, ts) \in [Positions -> Tokens]
         /\ \A q \in Positions :
              Write(p, ts)[q] = IF p <= q /\ q < p + Len(ts) THEN ts[q - p + 1] ELSE kv[q]
<1>1. SeqLen \in Nat /\ Positions \subseteq Nat
  BY ContextAssumption DEF Positions
<1>2. Len(ts) \in Nat
  OBVIOUS
<1>3. ASSUME NEW q \in Positions
      PROVE  /\ Write(p, ts)[q] = IF p <= q /\ q < p + Len(ts) THEN ts[q - p + 1] ELSE kv[q]
             /\ Write(p, ts)[q] \in Tokens
  <2>1. q \in Nat
    BY <1>1
  <2>2. Write(p, ts)[q] = IF q \in p..(p + Len(ts) - 1) THEN ts[q - p + 1] ELSE kv[q]
    BY DEF Write
  <2>3. q \in p..(p + Len(ts) - 1) <=> p <= q /\ q < p + Len(ts)
    BY <1>2, <2>1
  <2>4. CASE q \in p..(p + Len(ts) - 1)
    <3>1. q - p + 1 \in 1..Len(ts)
      BY <1>2, <2>1, <2>4
    <3>2. ts[q - p + 1] \in Tokens
      BY <3>1
    <3> QED
      BY <2>2, <2>3, <2>4, <3>2
  <2>5. CASE q \notin p..(p + Len(ts) - 1)
    BY <2>2, <2>3, <2>5
  <2> QED
    BY <2>4, <2>5
<1>4. Write(p, ts) = [q \in Positions |-> Write(p, ts)[q]]
  BY DEF Write
<1> QED
  BY <1>3, <1>4

\* A step over the next tokens of the dialog keeps the rows a part of it.
LEMMA RowsGrow ==
  ASSUME RowsAreDialog, TextTyped, pos \in Nat, mode' = mode,
         NEW ts \in Seq(Tokens), kv' = Write(pos, ts), pos' = pos + Len(ts),
         pos + Len(ts) <= SeqLen,
         dialog' \in Seq(Tokens), pos + Len(ts) <= Len(dialog'),
         \A p \in 1..pos : dialog'[p] = dialog[p],
         \A i \in 1..Len(ts) : SameToken(ts[i], dialog'[pos + i])
  PROVE  RowsAreDialog' /\ kv' \in [Positions -> Tokens]
<1>1. SeqLen \in Nat /\ Len(ts) \in Nat /\ Len(dialog') \in Nat
  BY ContextAssumption
<1>2. /\ kv' \in [Positions -> Tokens]
      /\ \A q \in Positions : kv'[q] = IF pos <= q /\ q < pos + Len(ts) THEN ts[q - pos + 1] ELSE kv[q]
  BY WriteRows DEF TextTyped
<1>3. ASSUME NEW p \in 0..(pos' - 1)
      PROVE  SameToken(kv'[p], dialog'[p + 1])
  <2>1. p \in Nat /\ p < pos + Len(ts) /\ p \in Positions
    BY <1>1 DEF Positions
  <2>2. CASE p < pos
    <3>1. kv'[p] = kv[p] /\ p \in 0..(pos - 1) /\ p + 1 \in 1..pos
      BY <1>2, <2>1, <2>2
    <3>2. SameToken(kv[p], dialog[p + 1]) /\ dialog'[p + 1] = dialog[p + 1]
      BY <3>1 DEF RowsAreDialog
    <3> QED
      BY <3>1, <3>2
  <2>3. CASE ~(p < pos)
    <3>1. PICK i \in 1..Len(ts) : i = p - pos + 1
      BY <1>1, <2>1, <2>3
    <3>2. p + 1 = pos + i /\ p - pos + 1 = i
      BY <2>1, <3>1
    <3>3. kv'[p] = ts[i]
      BY <1>1, <1>2, <2>1, <2>3, <3>2
    <3> QED
      BY <3>2, <3>3
  <2> QED
    BY <2>2, <2>3
<1>4. pos' <= Len(dialog') /\ pos' <= SeqLen
  OBVIOUS
<1>5. RowsAreDialog' <=>
        /\ pos' <= Len(dialog') /\ pos' <= SeqLen
        /\ \A p \in 0..(pos' - 1) : SameToken(kv[p], dialog[p + 1])'
  BY DEF RowsAreDialog
<1>6. ASSUME NEW p \in 0..(pos' - 1)
      PROVE  SameToken(kv[p], dialog[p + 1])'
  BY <1>3, <1>6 DEF SameToken
<1> QED
  BY <1>2, <1>4, <1>5, <1>6

LEMMA DialogInit == DriversInit => DialogInv
<1> USE ContextAssumption, DriversAssumption
<1> SUFFICES ASSUME DriversInit PROVE DialogInv
  OBVIOUS
<1>0. SeqLen \in Nat \ {0} /\ PromptLengths \subseteq Nat \ {0, 1}
  OBVIOUS
<1>1. IInv
  BY InitInv
<1>2. pos = 0 /\ base = 0 /\ kv = [p \in Positions |-> Foreign]
  BY DEF DriversInit
<1>3. kv \in [Positions -> Tokens]
  <2>1. Foreign \in Tokens
    BY DEF Foreign, Tok, Tokens
  <2> QED
    BY <1>2, <2>1
<1>4. RowsAreDialog <=> 0 <= Len(dialog)
  <2>1. 0..(pos - 1) = {}
    BY <1>2
  <2> QED
    BY <1>0, <1>2, <2>1 DEF RowsAreDialog
<1>5. ASSUME NEW n \in PromptLengths, TextInit(n)
      PROVE  /\ prompt \in Seq(Tokens) /\ dialog = prompt /\ token \in Tokens /\ Len(prompt) = n
             /\ AtPrompt
  <2>1. n \in Nat \ {0, 1} /\ prompt = PromptOf(1, n) /\ dialog = prompt /\ token = prompt[1]
    BY <1>0, <1>5 DEF TextInit
  <2>2. prompt \in Seq(Tokens) /\ Len(prompt) = n
    BY <2>1, PromptTyped, PromptLen
  <2>3. \A i \in 1..n : prompt[i].kind = "prompt"
    BY <2>1 DEF PromptOf, Tok
  <2>4. token \in Tokens
    BY <2>1, <2>2
  <2> QED
    BY <1>2, <2>1, <2>2, <2>3, <2>4 DEF AtPrompt
<1>6. CASE InferenceInit
  <2>1. PICK n \in PromptLengths : TextInit(n)
    BY <1>6 DEF InferenceInit
  <2>2. mode = "inference" /\ pc = "prefill"
    BY <1>6 DEF InferenceInit
  <2>3. 0 <= Len(dialog)
    BY <1>5, <2>1
  <2> QED
    BY <1>1, <1>3, <1>4, <1>5, <2>1, <2>2, <2>3 DEF DialogInv, OwnModes, TextTyped, DialogKept
<1>7. CASE PerplexityInit
  <2>1. PICK n \in PromptLengths : TextInit(n) /\ maxPos = n - 1
    BY <1>7 DEF PerplexityInit
  <2>2. mode = "perplexity" /\ pc = "score"
    BY <1>7 DEF PerplexityInit
  <2>3. 0 <= Len(dialog)
    BY <1>5, <2>1
  <2> QED
    BY <1>1, <1>3, <1>4, <1>5, <2>1, <2>2, <2>3 DEF DialogInv, OwnModes, TextTyped, DialogKept, AtScore
<1>8. CASE ChatInit
  <2>1. mode = "chat" /\ pc = "user" /\ prompt = <<>> /\ dialog = <<>> /\ token = NoToken
    BY <1>8 DEF ChatInit
  <2>2. token \in Tokens
    BY <2>1 DEF NoToken, Tok, Tokens
  <2> QED
    BY <1>1, <1>2, <1>3, <1>4, <2>1, <2>2 DEF DialogInv, OwnModes, TextTyped, DialogKept
<1>9. CASE BatchInit
  <2>1. mode = "batch" /\ pc = "fill" /\ prompt = <<>> /\ dialog = <<>> /\ token = NoToken
    BY <1>9 DEF BatchInit
  <2>2. token \in Tokens
    BY <2>1 DEF NoToken, Tok, Tokens
  <2> QED
    BY <1>1, <1>3, <2>1, <2>2 DEF DialogInv, OwnModes, TextTyped, DialogKept
<1> QED
  BY <1>6, <1>7, <1>8, <1>9 DEF DriversInit


LEMMA ChunkOfPrompt ==
  ASSUME IInv, PrefillChunk
  PROVE  \E batch \in 1..NBatches :
           /\ pos + batch <= PrefillEnd /\ PrefillEnd <= SeqLen
           /\ kv' = Write(pos, SubSeq(prompt, pos - base + 1, pos - base + batch))
           /\ pos' = pos + batch /\ pc' = "prefill"
           /\ token' \in AfterChunk(pos - base + batch)
<1> USE ContextAssumption
<1> DEFINE cap   == ResolvePrefillChunkBatchSize(PrefillEnd - base)
           batch == Least(PrefillEnd - pos, cap)
<1>0. NBatches \in Nat \ {0} /\ SeqLen \in Nat \ {0}
  OBVIOUS
<1>1. /\ pc = "prefill" /\ pos < PrefillEnd /\ pos' = pos + batch /\ pc' = Then(pos, batch, pc)
      /\ kv' = Write(pos, SubSeq(prompt, pos - base + 1, pos - base + batch))
      /\ token' \in AfterChunk(pos - base + batch)
  BY DEF PrefillChunk, Evaluate
<1>2. pos \in Nat /\ base \in 0..SeqLen /\ Len(prompt) \in Nat \ {0}
  BY <1>1 DEF IInv, InText
<1>3. PrefillEnd \in Nat /\ PrefillEnd <= SeqLen /\ PrefillEnd - base \in Nat
  BY <1>0, <1>2 DEF PrefillEnd, Least
<1>4. cap \in 1..NBatches
  BY <1>3, ChunkBounds
<1>5. batch \in 1..NBatches /\ pos + batch <= PrefillEnd
  BY <1>0, <1>1, <1>2, <1>3, <1>4 DEF Least
<1>6. pos + batch <= SeqLen
  BY <1>0, <1>2, <1>3, <1>5
<1>7. pc' = "prefill"
  BY <1>0, <1>1, <1>5, <1>6 DEF Then, Fits
<1> HIDE DEF batch
<1> QED
  BY <1>1, <1>3, <1>5, <1>7

LEMMA PrefillChunkKeepsDialog ==
  ASSUME DialogInv, PrefillChunk
  PROVE  DialogInv'
<1> USE ContextAssumption
<1>0. NBatches \in Nat \ {0} /\ SeqLen \in Nat \ {0}
  OBVIOUS
<1>1. PICK batch \in 1..NBatches :
        /\ pos + batch <= PrefillEnd /\ PrefillEnd <= SeqLen
        /\ kv' = Write(pos, SubSeq(prompt, pos - base + 1, pos - base + batch))
        /\ pos' = pos + batch /\ pc' = "prefill"
        /\ token' \in AfterChunk(pos - base + batch)
  BY ChunkOfPrompt DEF DialogInv
<1>2. pc = "prefill" /\ UNCHANGED <<mode, prompt, base, dialog>>
  BY DEF PrefillChunk, driverVars
<1>3. mode \in {"inference", "chat"}
  BY <1>2 DEF DialogInv, OwnModes, IInv, OwnLoop
<1>4. RowsAreDialog /\ AtPrompt /\ TextTyped /\ pos \in Nat /\ base \in Nat
  BY <1>2, <1>3 DEF DialogInv, DialogKept, IInv, InText
<1>5. PICK n \in Nat \ {0, 1} : n = Len(prompt) /\ Len(dialog) = base + n
  BY <1>4 DEF AtPrompt
<1>6. prompt \in Seq(Tokens) /\ dialog \in Seq(Tokens)
  BY <1>4 DEF TextTyped
<1>7. pos + batch <= base + n - 1 /\ base <= pos
  <2>1. PrefillEnd <= base + n - 1 /\ PrefillEnd \in Int
    BY <1>0, <1>4, <1>5 DEF PrefillEnd, Least
  <2> QED
    BY <1>1, <1>4, <2>1 DEF AtPrompt
<1>8. PICK k \in Nat : k = pos - base /\ k + batch + 1 <= n
  BY <1>4, <1>5, <1>7
<1>9. \A i \in 1..n : prompt[i] \in Tokens /\ prompt[i].kind = "prompt" /\ dialog[base + i] = prompt[i]
  BY <1>4, <1>5, <1>6 DEF AtPrompt
<1> DEFINE ts == SubSeq(prompt, k + 1, k + batch)
<1>10. ts \in Seq(Tokens) /\ Len(ts) = batch /\ \A i \in 1..batch : ts[i] = prompt[k + i]
  <2>1. k + 1 \in 1..(Len(prompt) + 1) /\ k + batch \in 0..Len(prompt)
    BY <1>5, <1>8
  <2> QED
    BY <1>0, <1>6, <2>1
<1> HIDE DEF ts
<1>11. \A i \in 1..batch : SameToken(ts[i], dialog'[pos + i])
  <2> TAKE i \in 1..batch
  <2>1. k + i \in 1..n /\ pos + i = base + (k + i)
    BY <1>0, <1>4, <1>5, <1>8
  <2>2. ts[i] = dialog[pos + i]
    BY <1>9, <1>10, <2>1
  <2> QED
    BY <1>2, <2>2 DEF SameToken
<1>12. RowsAreDialog' /\ kv' \in [Positions -> Tokens]
  <2>1. kv' = Write(pos, ts) /\ pos' = pos + Len(ts) /\ pos + Len(ts) <= SeqLen
        /\ pos + Len(ts) <= Len(dialog')
    BY <1>0, <1>1, <1>2, <1>4, <1>5, <1>7, <1>8, <1>10 DEF ts, PrefillEnd, Least
  <2>2. \A i \in 1..Len(ts) : SameToken(ts[i], dialog'[pos + i])
    BY <1>10, <1>11
  <2> QED
    BY <1>2, <1>4, <1>6, <1>10, <2>1, <2>2, RowsGrow
<1>13. PICK j \in Nat \ {0} : j = k + batch /\ j <= n - 1 /\ pos' = base + j
  BY <1>0, <1>1, <1>4, <1>8
<1>14. prompt[j + 1] \in Tokens /\ dialog[pos' + 1] = prompt[j + 1] /\ prompt[j + 1].kind = "prompt"
  <2>1. j + 1 \in 1..n /\ pos' + 1 = base + (j + 1)
    BY <1>4, <1>5, <1>13
  <2> QED
    BY <1>9, <2>1
<1>15. token' \in AfterChunk(j)
  BY <1>1, <1>8, <1>13
<1>16. token' \in Tokens /\ (pos' = base + n - 1 => SameToken(token', dialog[pos' + 1]))
  <2>1. CASE mode = "inference"
    BY <1>14, <1>15, <2>1 DEF AfterChunk, SameToken
  <2>2. CASE mode = "chat" /\ j + 2 <= n
    <3>1. token' = prompt[j + 2] /\ j + 2 \in 1..n
      BY <1>5, <1>13, <1>15, <2>2 DEF AfterChunk
    <3>2. pos' # base + n - 1
      BY <1>4, <1>5, <1>13, <2>2
    <3> QED
      BY <1>9, <3>1, <3>2
  <2>3. CASE mode = "chat" /\ ~(j + 2 <= n)
    <3>1. j + 1 = n /\ token' \in {prompt[j + 1], AsStale(prompt[j + 1])}
      <4>1. j + 1 = n
        BY <1>5, <1>13, <2>3
      <4>2. token' \in {prompt[Len(prompt)], AsStale(prompt[Len(prompt)])}
        BY <1>5, <1>15, <2>3 DEF AfterChunk
      <4> QED
        BY <1>5, <4>1, <4>2
    <3>2. PICK t \in Tokens : t = prompt[j + 1]
      BY <1>14
    <3>3. AsStale(t) \in Tokens
      BY DEF AsStale, Tokens
    <3> QED
      BY <1>14, <2>3, <3>1, <3>2, <3>3 DEF SameToken
  <2> QED
    BY <1>3, <2>1, <2>2, <2>3
<1>17. AtPrompt'
  <2>1. pos' = base + n - 1 => SameToken(token, dialog[pos + 1])'
    BY <1>2, <1>16 DEF SameToken
  <2>2. base <= pos' /\ pos' <= base + n - 1
    BY <1>4, <1>5, <1>13
  <2> QED
    BY <1>2, <1>4, <1>5, <2>1, <2>2 DEF AtPrompt
<1>18. TextTyped'
  BY <1>2, <1>6, <1>12, <1>16 DEF TextTyped
<1>19. IInv'
  BY PrefillChunkKeeps DEF DialogInv
<1> QED
  BY <1>1, <1>2, <1>3, <1>12, <1>17, <1>18, <1>19 DEF DialogInv, OwnModes, DialogKept


LEMMA OneToken ==
  ASSUME NEW t \in Tokens
  PROVE  \E ts \in Seq(Tokens) : ts = <<t>> /\ Len(ts) = 1 /\ ts[1] = t
<1>1. <<t>> \in Seq(Tokens) /\ Len(<<t>>) = 1 /\ <<t>>[1] = t
  OBVIOUS
<1> QED
  BY <1>1

LEMMA Joined ==
  ASSUME NEW s \in Seq(Tokens), NEW t \in Seq(Tokens)
  PROVE  /\ s \o t \in Seq(Tokens) /\ Len(s \o t) = Len(s) + Len(t)
         /\ \A p \in 1..Len(s) : (s \o t)[p] = s[p]
         /\ \A i \in 1..Len(t) : (s \o t)[Len(s) + i] = t[i]
OBVIOUS

LEMMA DecodeStepKeepsDialog ==
  ASSUME DialogInv, DecodeStep
  PROVE  DialogInv'
<1> USE ContextAssumption
<1>0. NBatches \in Nat \ {0} /\ SeqLen \in Nat \ {0}
  OBVIOUS
<1>1. /\ pc = "decode" /\ pos < maxPos /\ pos' = pos + 1
      /\ kv' = Write(pos, <<token>>) /\ token' = NextToken(token)
      /\ \/ dialog' = Append(dialog, token') /\ pc' = Then(pos, 1, pc)
         \/ mode = "chat" /\ dialog' = dialog /\ pc' = Then(pos, 1, "user")
      /\ UNCHANGED <<mode, prompt, base, maxPos>>
  BY DEF DecodeStep, Evaluate
<1>2. pos \in Nat /\ maxPos \in 0..SeqLen /\ mode # "perplexity" /\ mode # "batch"
  BY <1>1 DEF DialogInv, OwnModes, IInv, InText, OwnLoop
<1>3. RowsAreDialog /\ TextTyped /\ Len(dialog) = pos + 1 /\ SameToken(token, dialog[pos + 1])
  BY <1>1, <1>2 DEF DialogInv, DialogKept, AtReply
<1>4. dialog \in Seq(Tokens) /\ token \in Tokens /\ token' \in Tokens
  BY <1>1, <1>3, NextTokenTyped DEF TextTyped
<1>5. /\ dialog' \in Seq(Tokens) /\ Len(dialog') \in {pos + 1, pos + 2}
      /\ \A p \in 1..(pos + 1) : dialog'[p] = dialog[p]
      /\ Len(dialog') = pos + 2 => dialog'[pos + 2] = token'
  <2>1. CASE dialog' = dialog
    BY <1>2, <1>3, <1>4, <2>1
  <2>2. CASE dialog' = Append(dialog, token')
    BY <1>2, <1>3, <1>4, <2>2
  <2> QED
    BY <1>1, <2>1, <2>2
<1>6. RowsAreDialog' /\ kv' \in [Positions -> Tokens]
  <2>1. PICK ts \in Seq(Tokens) : ts = <<token>> /\ Len(ts) = 1 /\ ts[1] = token
    BY <1>4, OneToken
  <2>2. \A i \in 1..Len(ts) : SameToken(ts[i], dialog'[pos + i])
    <3>1. SameToken(ts[1], dialog'[pos + 1])
      BY <1>2, <1>3, <1>5, <2>1
    <3> QED
      BY <2>1, <3>1
  <2>3. kv' = Write(pos, ts) /\ pos' = pos + Len(ts) /\ pos + Len(ts) <= SeqLen /\ pos + Len(ts) <= Len(dialog')
    BY <1>0, <1>1, <1>2, <1>5, <2>1
  <2>4. \A p \in 1..pos : dialog'[p] = dialog[p]
    BY SMTT(60), <1>2, <1>5
  <2> QED
    BY <1>1, <1>2, <1>3, <1>5, <2>2, <2>3, <2>4, RowsGrow
<1>7. \/ pc' = "decode" /\ dialog' = Append(dialog, token')
      \/ pc' = "user" /\ mode = "chat" /\ dialog' = dialog
  <2>1. Fits(pos, 1)
    BY <1>0, <1>1, <1>2 DEF Fits
  <2>2. Then(pos, 1, pc) = "decode" /\ Then(pos, 1, "user") = "user"
    BY <1>1, <2>1 DEF Then
  <2> QED
    BY <1>1, <2>2
<1>8. pc' = "decode" => AtReply'
  <2>1. ASSUME pc' = "decode"
        PROVE  Len(dialog') = pos' + 1 /\ dialog'[pos' + 1] = token'
    <3>1. Len(dialog') = pos + 2
      BY <1>2, <1>3, <1>4, <1>7, <2>1
    <3> QED
      BY <1>1, <1>2, <1>5, <3>1
  <2> QED
    BY <2>1 DEF AtReply, SameToken
<1>9. pc' = "user" => pos' = Len(dialog')
  BY <1>1, <1>3, <1>7
<1>10. TextTyped'
  BY <1>1, <1>3, <1>4, <1>5, <1>6 DEF TextTyped
<1>11. IInv'
  BY DecodeStepKeeps DEF DialogInv
<1> QED
  BY <1>1, <1>2, <1>6, <1>7, <1>8, <1>9, <1>10, <1>11 DEF DialogInv, OwnModes, DialogKept

LEMMA ScoreKeepsDialog ==
  ASSUME DialogInv, Score
  PROVE  DialogInv'
<1> USE ContextAssumption
<1>1. /\ pc = "score" /\ pos < maxPos /\ pos' = pos + 1
      /\ kv' = Write(pos, <<prompt[pos + 1]>>) /\ token' = prompt[pos + 2]
      /\ pc' = Then(pos, 1, pc)
      /\ UNCHANGED <<mode, prompt, base, maxPos, dialog, reqs>>
  BY DEF Score, Evaluate, driverVars
<1>2. pos \in Nat /\ mode = "perplexity"
  BY <1>1 DEF DialogInv, IInv, InText, OwnLoop
<1>3. RowsAreDialog /\ TextTyped /\ dialog = prompt /\ maxPos = Len(prompt) - 1
  BY <1>1, <1>2 DEF DialogInv, DialogKept, AtScore
<1>4. prompt \in Seq(Tokens) /\ Len(prompt) \in Nat /\ pos + 2 <= Len(prompt)
  BY <1>1, <1>2, <1>3 DEF TextTyped
<1>5. prompt[pos + 1] \in Tokens /\ prompt[pos + 2] \in Tokens
  BY <1>2, <1>4
<1>6. PICK ts \in Seq(Tokens) : ts = <<prompt[pos + 1]>> /\ Len(ts) = 1 /\ ts[1] = prompt[pos + 1]
  BY <1>5, OneToken
<1>7. kv' \in [Positions -> Tokens]
  BY <1>1, <1>2, <1>3, <1>6, WriteRows DEF TextTyped
<1>8. pc' # "aborted" => RowsAreDialog'
  <2> SUFFICES ASSUME pc' # "aborted" PROVE RowsAreDialog'
    OBVIOUS
  <2>1. pos + 1 <= SeqLen
    BY <1>1 DEF Then, Fits
  <2>2. kv' = Write(pos, ts) /\ pos' = pos + Len(ts) /\ pos + Len(ts) <= SeqLen /\ pos + Len(ts) <= Len(dialog')
    BY <1>1, <1>2, <1>3, <1>4, <1>6, <2>1
  <2>3. \A i \in 1..Len(ts) : SameToken(ts[i], dialog'[pos + i])
    <3>1. SameToken(ts[1], dialog'[pos + 1])
      BY <1>1, <1>3, <1>6 DEF SameToken
    <3> QED
      BY <1>6, <3>1
  <2>4. dialog' \in Seq(Tokens) /\ \A p \in 1..pos : dialog'[p] = dialog[p]
    BY <1>1, <1>3, <1>4
  <2> QED
    BY <1>1, <1>2, <1>3, <2>2, <2>3, <2>4, RowsGrow
<1>9. TextTyped'
  BY <1>1, <1>3, <1>5, <1>7 DEF TextTyped
<1>10. IInv'
  BY NextKeeps DEF DialogInv, DriversNext, DriversLoops
<1>11. pc' \in {"score", "aborted"} /\ AtScore'
  BY <1>1, <1>3 DEF Then, AtScore
<1> QED
  BY <1>1, <1>2, <1>8, <1>9, <1>10, <1>11 DEF DialogInv, OwnModes, DialogKept

LEMMA UserTurnKeepsDialog ==
  ASSUME DialogInv, UserTurn
  PROVE  DialogInv'
<1> USE ContextAssumption, DriversAssumption
<1> DEFINE turn == IF prompt = <<>> THEN 1 ELSE prompt[1].turn + 1
<1>1. PICK n \in PromptLengths : prompt' = PromptOf(turn, n)
  BY DEF UserTurn
<1>2. /\ pc = "user" /\ pos < SeqLen /\ base' = pos /\ pc' = "prefill" /\ dialog' = dialog \o prompt'
      /\ UNCHANGED <<mode, pos, maxPos, token, kv>>
  BY DEF UserTurn
<1>3. n \in Nat \ {0, 1} /\ SeqLen \in Nat
  OBVIOUS
<1>4. mode = "chat" /\ RowsAreDialog /\ pos = Len(dialog) /\ TextTyped /\ pos \in Nat
  BY <1>2 DEF DialogInv, OwnModes, DialogKept, IInv, InText
<1>5. prompt \in Seq(Tokens) /\ dialog \in Seq(Tokens)
  BY <1>4 DEF TextTyped
<1>6. turn \in Nat
  <2>1. CASE prompt = <<>>
    BY <2>1
  <2>2. CASE prompt # <<>>
    <3>1. prompt[1] \in Tokens
      BY <1>5, <2>2
    <3>2. prompt[1].turn \in Nat
      BY <3>1 DEF Tokens
    <3> QED
      BY <2>2, <3>2
  <2> QED
    BY <2>1, <2>2
<1> HIDE DEF turn
<1>7. prompt' \in Seq(Tokens) /\ Len(prompt') = n
  BY <1>1, <1>3, <1>6, PromptTyped, PromptLen
<1>8. \A i \in 1..n : prompt'[i].kind = "prompt"
  BY <1>1 DEF PromptOf, Tok
<1>9. /\ dialog' \in Seq(Tokens) /\ Len(dialog') = pos + n
      /\ \A p \in 1..pos : dialog'[p] = dialog[p]
      /\ \A i \in 1..n : dialog'[pos + i] = prompt'[i]
  <2>1. PICK t \in Seq(Tokens) : t = prompt' /\ Len(t) = n
    BY <1>7
  <2>2. /\ dialog \o t \in Seq(Tokens) /\ Len(dialog \o t) = Len(dialog) + Len(t)
        /\ \A p \in 1..Len(dialog) : (dialog \o t)[p] = dialog[p]
        /\ \A i \in 1..Len(t) : (dialog \o t)[Len(dialog) + i] = t[i]
    BY <1>5, Joined
  <2>3. dialog' = dialog \o t
    BY <1>2, <2>1
  <2> QED
    BY <1>4, <2>1, <2>2, <2>3
<1>10. RowsAreDialog'
  <2>1. ASSUME NEW p \in 0..(pos - 1)
        PROVE  SameToken(kv[p], dialog[p + 1])'
    <3>1. SameToken(kv[p], dialog[p + 1]) /\ dialog'[p + 1] = dialog[p + 1]
      BY SMTT(60), <1>4, <1>9 DEF RowsAreDialog
    <3> QED
      BY <1>2, <3>1 DEF SameToken
  <2>2. pos' <= Len(dialog') /\ pos' <= SeqLen
    BY <1>2, <1>3, <1>4, <1>9
  <2> QED
    BY <1>2, <2>1, <2>2 DEF RowsAreDialog
<1>11. AtPrompt'
  BY <1>2, <1>3, <1>4, <1>7, <1>8, <1>9 DEF AtPrompt
<1>12. TextTyped'
  BY <1>2, <1>4, <1>7, <1>9 DEF TextTyped
<1>13. IInv'
  BY UserTurnKeeps DEF DialogInv
<1> QED
  BY <1>2, <1>4, <1>10, <1>11, <1>12, <1>13 DEF DialogInv, OwnModes, DialogKept


---------------------------------------------------------------------------
(* Numbers.                                                                  *)

\* Every set of naturals that is not empty has a least element.
LEMMA LeastNatural ==
  ASSUME NEW T, T \subseteq Nat, T # {}
  PROVE  \E n \in T : \A m \in T : n <= m
<1>1. PICK R : R = OpToRel(<, Nat)
  OBVIOUS
<1>2. IsWellFoundedOn(R, Nat)
  BY <1>1, NatLessThanWellFounded
<1>3. R = {ss \in Nat \X Nat : ss[1] < ss[2]}
  BY <1>1 DEF OpToRel
<1>4. PICK n \in T : \A m \in T : ~(<<m, n>> \in R)
  BY <1>2, WFMin
<1>5. ASSUME NEW m \in T
      PROVE  n <= m
  <2>1. <<m, n>> \notin R
    BY <1>4
  <2>2. <<m, n>> \in Nat \X Nat => ~(m < n)
    BY <2>1, <1>3
  <2>3. m \in Nat /\ n \in Nat
    OBVIOUS
  <2> QED
    BY <2>2, <2>3
<1> QED
  BY <1>5

\* Of some requests of a file one comes last.
LEMMA SomeLast ==
  ASSUME InTurn, reqs # <<>>, NEW rs \in SUBSET DOMAIN reqs, rs # {}
  PROVE  \E r \in LastOf(rs) : TRUE
<1> DEFINE T == {k \in 0..(Len(reqs) - 1) : \E r \in rs : k = Len(reqs) - 1 - Turn(r)}
<1>1. Len(reqs) \in Nat \ {0} /\ \A r \in rs : Turn(r) \in 0..(Len(reqs) - 1)
  BY TurnsDiffer DEF InTurn
<1>2. T \subseteq Nat /\ T # {} /\ \A r \in rs : Len(reqs) - 1 - Turn(r) \in T
  BY <1>1
<1>3. PICK k \in T : \A m \in T : k <= m
  <2> HIDE DEF T
  <2> QED
    BY <1>2, LeastNatural
<1>4. PICK r \in rs : k = Len(reqs) - 1 - Turn(r)
  OBVIOUS
<1>5. \A s \in rs : Turn(s) <= Turn(r)
  <2> TAKE s \in rs
  <2>1. k <= Len(reqs) - 1 - Turn(s)
    BY <1>2, <1>3
  <2> QED
    BY <1>1, <1>4, <2>1
<1> QED
  BY <1>5 DEF LastOf

\* The prefill is over where the prompt's last token is next, or the context
\* ends.
LEMMA PrefillDoneKeepsDialog ==
  ASSUME DialogInv, PrefillDone
  PROVE  DialogInv'
<1>1. /\ pc = "prefill" /\ pos >= PrefillEnd /\ pc' = "decode"
      /\ UNCHANGED <<mode, pos, token, kv, prompt, base, maxPos, dialog>>
  BY DEF PrefillDone, driverVars
<1>2. mode \in {"inference", "chat"}
  BY <1>1 DEF DialogInv, OwnModes, IInv, OwnLoop
<1>3. RowsAreDialog /\ AtPrompt /\ pos \in Nat /\ base \in Nat /\ maxPos \in 0..SeqLen
  BY <1>1, <1>2 DEF DialogInv, DialogKept, IInv, InText
<1>4. AtReply
  <2>1. PICK n \in Nat : n = Len(prompt) /\ Len(dialog) = base + n /\ pos <= base + n - 1
    BY <1>3 DEF AtPrompt
  <2>2. SeqLen \in Nat
    BY ContextAssumption
  <2>3. pos < maxPos => pos = base + n - 1
    BY <1>1, <1>3, <2>1, <2>2 DEF PrefillEnd, Least
  <2>4. pos = base + n - 1 => SameToken(token, dialog[pos + 1])
    BY <1>3, <2>1 DEF AtPrompt
  <2> QED
    BY <1>3, <2>1, <2>3, <2>4 DEF AtReply
<1>5. AtReply' /\ RowsAreDialog'
  BY <1>1, <1>3, <1>4 DEF AtReply, RowsAreDialog, SameToken
<1>6. IInv'
  BY NextKeeps DEF DialogInv, DriversNext, DriversLoops
<1> QED
  BY <1>1, <1>2, <1>5, <1>6 DEF DialogInv, OwnModes, TextTyped, DialogKept

\* The steps of continuous batching leave the tokens typed.
LEMMA BatchKeepsDialog ==
  ASSUME DialogInv, InTurn, FillRequest \/ Filled \/ Round \/ RoundsDone
  PROVE  DialogInv'
<1>1. mode = "batch" /\ mode' = "batch" /\ pc' \in {"fill", "round", "done", "aborted"}
      /\ UNCHANGED <<token, prompt, dialog>>
  BY DEF FillRequest, Filled, Round, RoundsDone, driverVars, Then, DialogInv, OwnModes
<1>2. kv \in [Positions -> Tokens] /\ reqs \in Seq(FileRequests)
  BY DEF DialogInv, TextTyped, InTurn
<1>3. IInv'
  BY NextKeeps DEF DialogInv, DriversNext, DriversLoops
<1>4. kv' \in [Positions -> Tokens]
  <2>1. CASE FillRequest
    <3> DEFINE rest(r)  == Len(reqs[r].tokens) - 1 - reqs[r].pos
               batch(r) == Least(rest(r), ResolvePrefillChunkBatchSize(Len(reqs[r].tokens) - 1))
    <3>1. PICK r \in Unfilled :
            kv' = Write(reqs[r].pos, SubSeq(reqs[r].tokens, reqs[r].pos + 1, reqs[r].pos + batch(r)))
      BY <2>1 DEF FillRequest, Evaluate
    <3>2. r \in DOMAIN reqs /\ reqs[r] \in FileRequests
      BY <1>2 DEF Unfilled
    <3>3. PICK at \in Nat, ts \in Seq(Tokens) : at = reqs[r].pos /\ ts = reqs[r].tokens
      BY <3>2 DEF FileRequests
    <3>4. at + 1 < Len(ts)
      BY <3>3 DEF Unfilled
    <3>5. PICK cap \in 1..NBatches : cap = ResolvePrefillChunkBatchSize(Len(reqs[r].tokens) - 1)
      <4>1. Len(reqs[r].tokens) - 1 \in Nat
        BY <3>3, <3>4
      <4> QED
        BY <4>1, ChunkBounds
    <3>6. PICK n \in Nat : n = batch(r) /\ at + n <= Len(ts)
      <4>1. Len(ts) \in Nat /\ NBatches \in Nat
        BY ContextAssumption
      <4>2. Least(Len(ts) - 1 - at, cap) \in Nat /\ at + Least(Len(ts) - 1 - at, cap) <= Len(ts)
        BY <3>4, <4>1 DEF Least
      <4> QED
        BY <3>3, <3>5, <4>2
    <3>7. SubSeq(ts, at + 1, at + n) \in Seq(Tokens)
      BY <3>4, <3>6
    <3>8. Write(at, SubSeq(ts, at + 1, at + n)) \in [Positions -> Tokens]
      BY <1>2, <3>7, WriteRows
    <3> QED
      BY <3>1, <3>3, <3>6, <3>8
  <2>2. CASE Round
    <3>1. kv' = WriteRound
      BY <2>2 DEF Round
    <3> DEFINE here(p) == {r \in Picked : reqs[r].pos = p}
    <3>2. ASSUME NEW p \in Positions
          PROVE  (IF here(p) = {} THEN kv[p] ELSE reqs[CHOOSE r \in LastOf(here(p)) : TRUE].token) \in Tokens
      <4>1. CASE here(p) = {}
        BY <1>2, <4>1
      <4>2. CASE here(p) # {}
        <5>0. here(p) \subseteq DOMAIN reqs /\ reqs # <<>>
          BY <1>2, <4>2 DEF Picked, Active
        <5>1. \E r \in LastOf(here(p)) : TRUE
          <6> HIDE DEF here
          <6> QED
            BY <4>2, <5>0, SomeLast
        <5>2. (CHOOSE r \in LastOf(here(p)) : TRUE) \in LastOf(here(p))
          BY <5>1
        <5>3. PICK r \in DOMAIN reqs : r = CHOOSE q \in LastOf(here(p)) : TRUE
          <6>1. (CHOOSE q \in LastOf(here(p)) : TRUE) \in here(p)
            <7> HIDE DEF here
            <7> QED
              BY <5>2 DEF LastOf
          <6>2. (CHOOSE q \in LastOf(here(p)) : TRUE) \in DOMAIN reqs
            BY <5>0, <6>1
          <6> QED
            BY <6>2
        <5>4. reqs[r] \in FileRequests
          BY <1>2
        <5>5. reqs[r].token \in Tokens
          BY <5>4 DEF FileRequests
        <5> QED
          BY <4>2, <5>3, <5>5
      <4> QED
        BY <4>1, <4>2
    <3>3. WriteRound = [p \in Positions |->
             IF here(p) = {} THEN kv[p] ELSE reqs[CHOOSE r \in LastOf(here(p)) : TRUE].token]
      BY DEF WriteRound
    <3> QED
      BY <3>1, <3>2, <3>3
  <2>3. CASE Filled \/ RoundsDone
    BY <1>2, <2>3 DEF Filled, RoundsDone
  <2> QED
    BY <2>1, <2>2, <2>3
<1>5. TextTyped'
  BY <1>1, <1>4 DEF DialogInv, TextTyped
<1> QED
  BY <1>1, <1>3, <1>5 DEF DialogInv, OwnModes, DialogKept


---------------------------------------------------------------------------
(* A single request of a file has the rows to itself.                       *)

OneRequest ==
  mode = "batch" /\ Len(reqs) = 1 /\ pc # "aborted" =>
    /\ reqs[1].maxPos <= SeqLen
    /\ \A i \in 1..Len(reqs[1].tokens) : reqs[1].tokens[i].turn = 1 /\ reqs[1].tokens[i].i = i
    /\ reqs[1].token.turn = 1 /\ reqs[1].token.i = reqs[1].pos + 1
    /\ \A p \in 0..(reqs[1].pos - 1) : kv[p].turn = 1 /\ kv[p].i = p + 1

ContextInv == DialogInv /\ FairInv /\ OneRequest

LEMMA OneInit == DriversInit => OneRequest
<1> USE ContextAssumption, DriversAssumption
<1> SUFFICES ASSUME DriversInit, mode = "batch", Len(reqs) = 1 PROVE OneRequest
  BY DEF OneRequest
<1>0. SeqLen \in Nat \ {0} /\ PromptLengths \subseteq Nat \ {0, 1} /\ StepLimits \subseteq Nat \ {0}
  OBVIOUS
<1>1. PICK n \in 1..MaxRequests, steps \in StepLimits :
         \E ns \in [1..n -> PromptLengths] : reqs = [r \in 1..n |-> Request(r, ns[r], steps)]
  BY DEF DriversInit, InferenceInit, PerplexityInit, ChatInit, BatchInit
<1>2. PICK ns \in [1..n -> PromptLengths] : reqs = [r \in 1..n |-> Request(r, ns[r], steps)]
  BY <1>1
<1>3. n \in Nat \ {0}
  OBVIOUS
<1>4. PICK k \in Nat \ {0, 1} : k = ns[1] /\ reqs[1] = Request(1, k, steps)
  <2>1. 1 \in 1..n
    BY <1>3
  <2>2. ns[1] \in Nat \ {0, 1} /\ reqs[1] = Request(1, ns[1], steps)
    BY <1>0, <1>2, <2>1
  <2> QED
    BY <2>2
<1>5. reqs[1].maxPos <= SeqLen /\ reqs[1].pos = 0 /\ reqs[1].tokens = PromptOf(1, k)
      /\ reqs[1].token = PromptOf(1, k)[1]
  BY SMTT(60), <1>0, <1>4 DEF Request, Least
<1>6. /\ Len(PromptOf(1, k)) = k
      /\ \A i \in 1..k : PromptOf(1, k)[i].turn = 1 /\ PromptOf(1, k)[i].i = i
  BY <1>4, PromptLen DEF PromptOf, Tok
<1>7. 0..(reqs[1].pos - 1) = {} /\ reqs[1].token.turn = 1 /\ reqs[1].token.i = reqs[1].pos + 1
  BY <1>4, <1>5, <1>6
<1> QED
  BY <1>5, <1>6, <1>7 DEF OneRequest

LEMMA FillKeepsOne ==
  ASSUME ContextInv, FillRequest
  PROVE  OneRequest'
<1> USE ContextAssumption
<1>0. NBatches \in Nat \ {0} /\ SeqLen \in Nat \ {0}
  OBVIOUS
<1> DEFINE rest(r)  == Len(reqs[r].tokens) - 1 - reqs[r].pos
           batch(r) == Least(rest(r), ResolvePrefillChunkBatchSize(Len(reqs[r].tokens) - 1))
<1>1. pc = "fill" /\ mode = "batch" /\ reqs \in Seq(FileRequests) /\ kv \in [Positions -> Tokens]
  BY DEF FillRequest, ContextInv, DialogInv, OwnModes, FairInv, InTurn, TextTyped
<1>2. PICK r \in Unfilled :
        /\ reqs' = [reqs EXCEPT ![r].pos = reqs[r].pos + batch(r),
                                ![r].token = reqs[r].tokens[reqs[r].pos + batch(r) + 1]]
        /\ kv' = Write(reqs[r].pos, SubSeq(reqs[r].tokens, reqs[r].pos + 1, reqs[r].pos + batch(r)))
  BY DEF FillRequest, Evaluate
<1> SUFFICES ASSUME Len(reqs') = 1 PROVE OneRequest'
  BY DEF OneRequest
<1>3. r = 1 /\ Len(reqs) = 1 /\ DOMAIN reqs = {1} /\ reqs[1] \in FileRequests
  <2>1. r \in DOMAIN reqs /\ DOMAIN reqs = 1..Len(reqs) /\ Len(reqs) \in Nat
    BY <1>1 DEF Unfilled
  <2>2. Len(reqs') = Len(reqs)
    BY <1>1, <1>2
  <2>3. Len(reqs) = 1 /\ r = 1 /\ DOMAIN reqs = {1}
    BY <2>1, <2>2
  <2> QED
    BY SMTT(60), <1>1, <2>3
<1>4. PICK at \in Nat, ts \in Seq(Tokens) : at = reqs[1].pos /\ ts = reqs[1].tokens
  BY <1>3 DEF FileRequests
<1>5. at + 1 < Len(ts) /\ Len(ts) <= SeqLen /\ Len(ts) \in Nat
  BY <1>1, <1>2, <1>3, <1>4 DEF Unfilled, ContextInv, DialogInv, IInv, InFile
<1>6. PICK cap \in 1..NBatches : cap = ResolvePrefillChunkBatchSize(Len(reqs[1].tokens) - 1)
  <2>1. Len(reqs[1].tokens) - 1 \in Nat
    BY <1>4, <1>5
  <2> QED
    BY <2>1, ChunkBounds
<1>7. PICK n \in Nat : n = batch(1) /\ at + n <= Len(ts) - 1
  <2>1. Least(Len(ts) - 1 - at, cap) \in Nat /\ at + Least(Len(ts) - 1 - at, cap) <= Len(ts) - 1
    BY <1>0, <1>5 DEF Least
  <2> QED
    BY <1>4, <1>6, <2>1
<1>8. PICK step \in Seq(Tokens) :
        step = SubSeq(ts, at + 1, at + n) /\ Len(step) = n /\ \A i \in 1..n : step[i] = ts[at + i]
  <2>1. at + 1 \in 1..(Len(ts) + 1) /\ at + n \in 0..Len(ts)
    BY <1>5, <1>7
  <2>2. SubSeq(ts, at + 1, at + n) \in Seq(Tokens) /\ Len(SubSeq(ts, at + 1, at + n)) = n
        /\ \A i \in 1..n : SubSeq(ts, at + 1, at + n)[i] = ts[at + i]
    BY <2>1
  <2> QED
    BY <2>2
<1>9. kv' = Write(at, step)
  BY <1>2, <1>3, <1>4, <1>7, <1>8
<1>10. /\ reqs[1].maxPos <= SeqLen
       /\ \A i \in 1..Len(ts) : ts[i].turn = 1 /\ ts[i].i = i
       /\ \A p \in 0..(at - 1) : kv[p].turn = 1 /\ kv[p].i = p + 1
  BY <1>1, <1>3, <1>4 DEF ContextInv, OneRequest
<1>11. /\ reqs'[1].pos = at + n /\ reqs'[1].token = ts[at + n + 1]
       /\ reqs'[1].tokens = ts /\ reqs'[1].maxPos = reqs[1].maxPos
  <2>1. reqs' = [reqs EXCEPT ![1].pos = at + n, ![1].token = ts[at + n + 1]]
    BY <1>2, <1>3, <1>4, <1>7
  <2>2. reqs'[1] = [reqs[1] EXCEPT !.pos = at + n, !.token = ts[at + n + 1]]
    BY <1>3, <2>1
  <2> QED
    BY <1>3, <1>4, <2>2 DEF FileRequests
<1>12. ts[at + n + 1].turn = 1 /\ ts[at + n + 1].i = at + n + 1
  <2>1. at + n + 1 \in 1..Len(ts)
    BY SMTT(60), <1>5, <1>7
  <2> QED
    BY <1>10, <2>1
<1>13. ASSUME NEW p \in 0..(at + n - 1)
       PROVE  kv'[p].turn = 1 /\ kv'[p].i = p + 1
  <2>1. p \in Nat /\ p < at + n /\ p \in Positions
    BY SMTT(60), <1>0, <1>5, <1>7 DEF Positions
  <2>2. kv'[p] = IF at <= p /\ p < at + Len(step) THEN step[p - at + 1] ELSE kv[p]
    BY <1>1, <1>9, <2>1, WriteRows
  <2>3. CASE p < at
    <3>1. kv'[p] = kv[p] /\ p \in 0..(at - 1)
      BY <2>1, <2>2, <2>3
    <3> QED
      BY <1>10, <3>1
  <2>4. CASE ~(p < at)
    <3>1. PICK i \in 1..n : i = p - at + 1
      BY <2>1, <2>4
    <3>2. p - at + 1 = i /\ at + i = p + 1 /\ at <= p
      BY <2>1, <2>4, <3>1
    <3>3. p < at + Len(step)
      BY <1>8, <2>1
    <3>4. kv'[p] = step[i]
      BY <2>2, <3>2, <3>3
    <3>5. step[i] = ts[at + i] /\ p + 1 \in 1..Len(ts)
      <4>1. step[i] = ts[at + i]
        BY <1>8
      <4>2. p + 1 \in 1..Len(ts)
        BY <1>5, <1>7, <2>1
      <4> QED
        BY <4>1, <4>2
    <3> QED
      BY <1>10, <3>2, <3>4, <3>5
  <2> QED
    BY <2>3, <2>4
<1>14. /\ reqs'[1].maxPos <= SeqLen
       /\ \A i \in 1..Len(reqs'[1].tokens) : reqs'[1].tokens[i].turn = 1 /\ reqs'[1].tokens[i].i = i
  BY <1>10, <1>11
<1>15. reqs'[1].token.turn = 1 /\ reqs'[1].token.i = reqs'[1].pos + 1
  BY <1>11, <1>12
<1>16. \A p \in 0..(reqs'[1].pos - 1) : kv'[p].turn = 1 /\ kv'[p].i = p + 1
  BY <1>11, <1>13
<1> QED
  BY <1>14, <1>15, <1>16 DEF OneRequest


LEMMA RoundKeepsOne ==
  ASSUME ContextInv, Round
  PROVE  OneRequest'
<1> USE ContextAssumption
<1>0. SeqLen \in Nat \ {0}
  OBVIOUS
<1>1. /\ pc = "round" /\ mode = "batch" /\ reqs \in Seq(FileRequests) /\ kv \in [Positions -> Tokens]
      /\ UNCHANGED <<mode, pc>> /\ kv' = WriteRound
  BY DEF Round, ContextInv, DialogInv, OwnModes, FairInv, InTurn, TextTyped
<1>2. PICK eos \in SUBSET Picked :
        reqs' = [r \in DOMAIN reqs |->
          IF r \in Picked
          THEN [reqs[r] EXCEPT !.pos = @ + 1, !.token = NextToken(@),
                  !.finished = r \in eos \/ reqs[r].pos + 1 >= reqs[r].maxPos]
          ELSE reqs[r]]
  BY DEF Round
<1> SUFFICES ASSUME Len(reqs') = 1 PROVE OneRequest'
  BY DEF OneRequest
<1>3. Len(reqs) = 1 /\ DOMAIN reqs = {1} /\ reqs[1] \in FileRequests
  <2>0. DOMAIN reqs' = DOMAIN reqs
    BY <1>2
  <2>1. DOMAIN reqs = 1..Len(reqs) /\ Len(reqs) \in Nat /\ DOMAIN reqs' = DOMAIN reqs
    BY <1>1, <2>0
  <2>2. reqs' \in Seq(FileRequests)
    BY RoundKeepsTurns DEF ContextInv, FairInv, InTurn
  <2>3. DOMAIN reqs' = 1..1
    BY <2>2
  <2>4. Len(reqs) = 1
    <3>1. PICK n \in Nat : n = Len(reqs) /\ 1..n = 1..1
      BY <2>1, <2>3
    <3>2. 1 \in 1..n /\ (n > 1 => n \in 1..n)
      BY <3>1
    <3>3. n = 1
      BY <3>1, <3>2
    <3> QED
      BY <3>1, <3>3
  <2>5. DOMAIN reqs = {1}
    BY <2>1, <2>4
  <2>6. reqs[1] \in FileRequests
    <3>1. 1 \in DOMAIN reqs
      BY <2>5
    <3> QED
      BY ONLY <1>1, <3>1
  <2> QED
    BY <2>4, <2>5, <2>6
<1>4. PICK at \in Nat, ts \in Seq(Tokens), t \in Tokens :
        at = reqs[1].pos /\ ts = reqs[1].tokens /\ t = reqs[1].token
  BY <1>3 DEF FileRequests
<1>5. /\ reqs[1].maxPos <= SeqLen
      /\ \A i \in 1..Len(ts) : ts[i].turn = 1 /\ ts[i].i = i
      /\ t.turn = 1 /\ t.i = at + 1
      /\ \A p \in 0..(at - 1) : kv[p].turn = 1 /\ kv[p].i = p + 1
  BY <1>1, <1>3, <1>4 DEF ContextInv, OneRequest
<1>6. CASE 1 \notin Picked
  <2>1. Picked = {}
    <3>1. \A r \in Picked : r = 1
      BY <1>3 DEF Picked, Active
    <3> QED
      BY <1>6, <3>1
  <2>2. reqs'[1] = reqs[1]
    BY <1>2, <1>3, <1>6
  <2>3. kv' = kv
    <3>1. WriteRound = [p \in Positions |-> kv[p]]
      BY <2>1 DEF WriteRound
    <3> QED
      BY <1>1, <3>1
  <2> QED
    BY <1>4, <1>5, <2>2, <2>3 DEF OneRequest
<1>7. CASE 1 \in Picked
  <2>1. Picked = {1}
    <3>1. \A r \in Picked : r = 1
      BY <1>3 DEF Picked, Active
    <3> QED
      BY <1>7, <3>1
  <2>2. at < reqs[1].maxPos /\ reqs[1].maxPos \in Nat
    <3>1. reqs[1].pos < reqs[1].maxPos
      BY <1>7 DEF Picked, Active
    <3> QED
      BY <1>3, <1>4, <3>1 DEF FileRequests
  <2>3. at \in Positions
    BY <1>0, <1>5, <2>2 DEF Positions
  <2>4. /\ reqs'[1].pos = at + 1 /\ reqs'[1].token = NextToken(t)
        /\ reqs'[1].tokens = ts /\ reqs'[1].maxPos = reqs[1].maxPos
    <3> DEFINE over == (1 \in eos \/ reqs[1].pos + 1 >= reqs[1].maxPos)
    <3>1. reqs'[1] = [reqs[1] EXCEPT !.pos = reqs[1].pos + 1, !.token = NextToken(reqs[1].token), !.finished = over]
      BY <1>2, <1>3, <1>7
    <3> HIDE DEF over
    <3>2. reqs'[1] = [reqs[1] EXCEPT !.pos = at + 1, !.token = NextToken(t), !.finished = over]
      BY <1>4, <3>1
    <3> QED
      BY <1>3, <1>4, <3>2 DEF FileRequests
  <2>5. NextToken(t).turn = 1 /\ NextToken(t).i = at + 2
    BY <1>4, <1>5 DEF NextToken, Tok
  <2>6. ASSUME NEW p \in Positions
        PROVE  kv'[p] = IF p = at THEN t ELSE kv[p]
    <3> DEFINE here == {r \in Picked : reqs[r].pos = p}
    <3>1. WriteRound[p] = IF here = {} THEN kv[p] ELSE reqs[CHOOSE r \in LastOf(here) : TRUE].token
      BY DEF WriteRound
    <3>2. CASE p = at
      <4>1. here = {1}
        BY <1>4, <2>1, <3>2
      <4>2. LastOf({1}) = {1}
        <5>1. Turn(1) <= Turn(1)
          <6>1. InTurn /\ reqs # <<>> /\ 1 \in DOMAIN reqs
            <7>1. InTurn
              BY DEF ContextInv, FairInv
            <7>2. 1 \in DOMAIN reqs
              BY <1>3
            <7>3. reqs # <<>>
              BY ONLY <7>2
            <7> QED
              BY <7>1, <7>2, <7>3
          <6>2. Turn(1) \in 0..(Len(reqs) - 1)
            BY <6>1, TurnsDiffer
          <6>3. Turn(1) \in Int
            BY <1>3, <6>2
          <6> QED
            BY <6>3
        <5> QED
          BY <5>1 DEF LastOf
      <4>3. (CHOOSE r \in {1} : TRUE) = 1
        OBVIOUS
      <4> QED
        BY <1>1, <1>4, <3>1, <3>2, <4>1, <4>2, <4>3
    <3>3. CASE p # at
      <4>1. here = {}
        BY <1>4, <2>1, <3>3
      <4> QED
        BY <1>1, <3>1, <3>3, <4>1
    <3> QED
      BY <3>2, <3>3
  <2>7. ASSUME NEW p \in 0..at
        PROVE  kv'[p].turn = 1 /\ kv'[p].i = p + 1
    <3>1. p \in Positions
      BY <1>0, <2>3 DEF Positions
    <3>2. kv'[p] = IF p = at THEN t ELSE kv[p]
      BY <2>6, <3>1
    <3>3. CASE p = at
      BY <1>5, <3>2, <3>3
    <3>4. CASE p # at
      <4>1. p \in 0..(at - 1)
        BY <3>4
      <4> QED
        BY <1>5, <3>2, <3>4, <4>1
    <3> QED
      BY <3>3, <3>4
  <2>8. \A p \in 0..(reqs'[1].pos - 1) : kv'[p].turn = 1 /\ kv'[p].i = p + 1
    BY <2>4, <2>7
  <2>9. reqs'[1].token.turn = 1 /\ reqs'[1].token.i = reqs'[1].pos + 1
    BY <2>4, <2>5
  <2> QED
    BY <1>5, <2>4, <2>8, <2>9 DEF OneRequest
<1> QED
  BY <1>6, <1>7

LEMMA ContextKeeps ==
  ASSUME ContextInv, [DriversNext]_<<contextVars, driverVars>>
  PROVE  ContextInv'
<1>0. DialogInv /\ FairInv /\ FairInv' /\ InTurn
  BY FairKeeps DEF ContextInv, FairInv
<1>1. CASE PrefillChunk \/ PrefillDone \/ DecodeStep \/ Score \/ UserTurn
  <2>1. DialogInv'
    BY <1>0, <1>1, PrefillChunkKeepsDialog, PrefillDoneKeepsDialog, DecodeStepKeepsDialog,
       ScoreKeepsDialog, UserTurnKeepsDialog
  <2>2. mode # "batch" /\ mode' = mode
    BY <1>0, <1>1 DEF PrefillChunk, PrefillDone, DecodeStep, Score, UserTurn, DialogInv, OwnModes
  <2> QED
    BY <1>0, <2>1, <2>2 DEF ContextInv, OneRequest
<1>2. CASE FillRequest
  BY <1>0, <1>2, BatchKeepsDialog, FillKeepsOne DEF ContextInv
<1>3. CASE Round
  BY <1>0, <1>3, BatchKeepsDialog, RoundKeepsOne DEF ContextInv
<1>4. CASE Filled \/ RoundsDone
  <2>1. DialogInv'
    BY <1>0, <1>4, BatchKeepsDialog
  <2>2. pc # "aborted" /\ UNCHANGED <<mode, reqs, kv>>
    BY <1>4 DEF Filled, RoundsDone, driverVars
  <2> QED
    BY <1>0, <2>1, <2>2 DEF ContextInv, OneRequest
<1>5. CASE LoopDone \/ EndOfContext
  <2>1. /\ pc \in {"decode", "score", "user"} /\ pc' = "done"
        /\ UNCHANGED <<mode, pos, token, kv, prompt, base, maxPos, dialog, reqs>>
    BY <1>5 DEF LoopDone, EndOfContext, driverVars
  <2>2. mode # "batch"
    BY <1>0, <2>1 DEF DialogInv, OwnModes
  <2>3. IInv'
    BY <1>0, NextKeeps DEF DialogInv
  <2>4. RowsAreDialog /\ RowsAreDialog'
    BY <1>0, <2>1, <2>2 DEF DialogInv, DialogKept, RowsAreDialog, SameToken
  <2>5. DialogInv'
    BY <1>0, <2>1, <2>2, <2>3, <2>4 DEF DialogInv, OwnModes, TextTyped, DialogKept
  <2> QED
    BY <1>0, <2>1, <2>2, <2>5 DEF ContextInv, OneRequest
<1>6. CASE UNCHANGED <<contextVars, driverVars>>
  <2>1. UNCHANGED <<mode, pc, pos, token, kv, prompt, base, maxPos, dialog, reqs>>
    BY <1>6 DEF contextVars, driverVars
  <2>2. IInv'
    BY <1>0, NextKeeps DEF DialogInv
  <2>3. DialogKept'
    BY <1>0, <2>1 DEF DialogInv, DialogKept, RowsAreDialog, AtPrompt, AtReply, AtScore, SameToken
  <2>4. DialogInv'
    BY <1>0, <2>1, <2>2, <2>3 DEF DialogInv, OwnModes, TextTyped
  <2>5. OneRequest'
    BY <2>1 DEF ContextInv, OneRequest
  <2> QED
    BY <1>0, <2>4, <2>5 DEF ContextInv
<1> QED
  BY <1>1, <1>2, <1>3, <1>4, <1>5, <1>6 DEF DriversNext, DriversLoops

LEMMA ContextHolds == ContextInv => ContextIsDialog
<1> SUFFICES ASSUME ContextInv, pc # "aborted"
             PROVE  /\ mode \in {"inference", "perplexity", "chat"} =>
                         /\ pos <= Len(dialog)
                         /\ \A p \in 0..(pos - 1) : SameToken(kv[p], dialog[p + 1])
                    /\ mode = "batch" /\ Len(reqs) = 1 =>
                         \A p \in 0..(reqs[1].pos - 1) : kv[p].turn = 1 /\ kv[p].i = p + 1
  BY DEF ContextIsDialog
<1>1. mode \in {"inference", "perplexity", "chat"} => RowsAreDialog
  BY DEF ContextInv, DialogInv, DialogKept
<1> QED
  BY <1>1 DEF ContextInv, OneRequest, RowsAreDialog

\* The context a token is sampled from is the dialog: through every chunk of a
\* prompt of any length, every turn of a chat and every sampled token, each
\* token is at its own position, none missing, twice or left over from the
\* step before (the loops of inference, perplexity and chat, and of
\* continuous batching for a single request).
THEOREM ContextFollowsDialog == DriversSpec => []ContextIsDialog
<1>1. DriversInit => ContextInv
  BY DialogInit, FairInit, OneInit DEF ContextInv
<1> QED
  BY <1>1, ContextKeeps, ContextHolds, PTL DEF DriversSpec

---------------------------------------------------------------------------
(* What the tokenizer makes of messages.                                     *)

ApiTokens ==
  [turn : Nat, of : Contents \cup {""}, i : Nat, kind : {"prompt", "reply", "stale", "foreign"}]

\* Joining two sequences of Q gives one of Q; f joins the first of s.
Closed(Q) == \A a, b \in Q : a \o b \in Q
JoinedBy(f, s, n) == f[1] = s[1] /\ \A i \in 2..n : f[i] = f[i - 1] \o s[i]

\* A sequence that is described by its first entry and by how the next one is
\* made of the one before exists.
LEMMA JoinsExist ==
  ASSUME NEW n \in Nat \ {0}, NEW Q, NEW s, \A i \in 1..n : s[i] \in Q, Closed(Q)
  PROVE  \E f \in [1..n -> Q] : JoinedBy(f, s, n)
<1> USE DEF Closed, JoinedBy
<1> DEFINE Joins(f, m) == f \in [1..m -> Q] /\ JoinedBy(f, s, m)
           T == {m \in 1..n : ~\E f : Joins(f, m)}
<1>1. SUFFICES ASSUME T # {} PROVE FALSE
  <2>1. n \in 1..n
    OBVIOUS
  <2> HIDE DEF Joins
  <2>2. ~(T # {}) => \E f : Joins(f, n)
    BY <2>1
  <2> USE DEF Joins
  <2> QED
    BY <2>2
<1>2. PICK m \in T : \A k \in T : m <= k
  <2>1. T \subseteq Nat
    <3> HIDE DEF Joins
    <3> QED
      OBVIOUS
  <2> HIDE DEF T
  <2> QED
    BY <1>1, <2>1, LeastNatural
<1>3. m \in 1..n /\ m \in Nat /\ ~\E f : Joins(f, m)
  <2> HIDE DEF Joins
  <2> QED
    OBVIOUS
<1>4. CASE m = 1
  <2> DEFINE f == [i \in 1..1 |-> s[1]]
  <2>1. s[1] \in Q
    OBVIOUS
  <2>2. f \in [1..1 -> Q] /\ f[1] = s[1] /\ 2..1 = {}
    BY <2>1
  <2> HIDE DEF f
  <2>3. Joins(f, 1)
    BY <2>2
  <2> QED
    BY <1>3, <1>4, <2>3
<1>5. CASE m # 1
  <2>1. PICK k \in 1..n : m = k + 1
    BY <1>3, <1>5
  <2>2. k \in Nat /\ k >= 1 /\ ~(m <= k)
    BY <2>1
  <2>3. k \notin T
    BY <1>2, <2>2
  <2>4. PICK f : Joins(f, k)
    BY <2>1, <2>3
  <2> DEFINE g == [i \in 1..m |-> IF i = m THEN f[k] \o s[m] ELSE f[i]]
  <2>5. f[k] \o s[m] \in Q
    BY <1>3, <2>2, <2>4
  <2>6. g \in [1..m -> Q]
    <3>1. ASSUME NEW i \in 1..m, i # m
          PROVE  f[i] \in Q
      BY <2>1, <2>2, <2>4, <3>1
    <3> QED
      BY <2>5, <3>1
  <2>7. g[1] = s[1]
    BY <1>3, <1>5, <2>4
  <2>8. ASSUME NEW i \in 2..m
        PROVE  g[i] = g[i - 1] \o s[i]
    <3>1. CASE i = m
      <4>1. k \in 1..m /\ k # m /\ m \in 1..m /\ i - 1 = k
        BY <2>1, <2>2, <3>1
      <4>2. g[m] = f[k] \o s[m] /\ g[k] = f[k]
        BY <4>1
      <4> QED
        BY ONLY <3>1, <4>1, <4>2
    <3>2. CASE i # m
      <4>1. i \in 2..k /\ i - 1 \in 1..m /\ i - 1 # m /\ i \in 1..m
        BY <2>1, <2>2, <3>2
      <4>2. f[i] = f[i - 1] \o s[i]
        BY <2>4, <4>1
      <4>3. g[i] = f[i] /\ g[i - 1] = f[i - 1]
        BY <3>2, <4>1
      <4> QED
        BY ONLY <4>2, <4>3
    <3> QED
      BY <3>1, <3>2
  <2> HIDE DEF g
  <2>9. Joins(g, m)
    BY <2>6, <2>7, <2>8
  <2> QED
    BY <1>3, <2>9
<1> QED
  BY <1>4, <1>5

\* FlattenSeq joins the sequences one after the other.
LEMMA Flattened ==
  ASSUME NEW n \in Nat \ {0}, NEW Q, NEW s, Len(s) = n, \A i \in 1..n : s[i] \in Q, Closed(Q)
  PROVE  \E f : JoinedBy(f, s, n) /\ FlattenSeq(s) = f[n]
<1>1. PICK f \in [1..n -> Q] : JoinedBy(f, s, n)
  BY JoinsExist
<1> DEFINE Flat(g) == g = [i \in 1..n |-> IF i = 1 THEN s[i] ELSE g[i - 1] \o s[i]]
<1>2. Flat(f)
  <2>1. ASSUME NEW i \in 1..n
        PROVE  f[i] = IF i = 1 THEN s[i] ELSE f[i - 1] \o s[i]
    <3>1. i # 1 => i \in 2..n
      OBVIOUS
    <3> QED
      BY <1>1, <3>1 DEF JoinedBy
  <2>2. PICK w : w = [i \in 1..n |-> IF i = 1 THEN s[i] ELSE f[i - 1] \o s[i]]
    OBVIOUS
  <2>3. \A i \in 1..n : w[i] = f[i]
    BY <2>1, <2>2
  <2>4. w = [i \in 1..n |-> w[i]] /\ f = [i \in 1..n |-> f[i]]
    BY <1>1, <2>2
  <2>5. w = f
    BY ONLY <2>3, <2>4
  <2> QED
    BY ONLY <2>2, <2>5
<1>3. PICK h : h = CHOOSE g : Flat(g)
  OBVIOUS
<1>4. Flat(h)
  <2> HIDE DEF Flat
  <2> QED
    BY <1>2, <1>3
<1>5. FlattenSeq(s) = h[n]
  <2>1. FlattenSeq(s) = (CHOOSE g : g = [i \in 1..n |-> IF i = 1 THEN s[i] ELSE g[i - 1] \o s[i]])[n]
    BY n # 0 DEF FlattenSeq
  <2> QED
    BY <1>3, <2>1
<1>6. h[1] = s[1]
  <2>1. 1 \in 1..n
    OBVIOUS
  <2> QED
    BY <1>4, <2>1
<1>7. ASSUME NEW i \in 2..n
      PROVE  h[i] = h[i - 1] \o s[i]
  <2>1. i \in 1..n /\ i # 1
    OBVIOUS
  <2> QED
    BY <1>4, <2>1
<1> HIDE DEF Flat
<1> QED
  BY <1>5, <1>6, <1>7 DEF JoinedBy
\* ts is the turns a to b of the messages ms, one complete turn after the other.
IsRun(ts, ms, a, b) ==
  /\ ts \in Seq(ApiTokens) /\ Len(ts) # 0
  /\ ts[1].turn = a /\ ts[1].i = 1
  /\ \A q \in 2..Len(ts) : Follows(ts[q - 1], ts[q])
  /\ \A q \in 1..Len(ts) :
       ts[q].turn \in a..b /\ (ts[q].turn > 0 => ts[q].of = ms[ts[q].turn])
  /\ ts[Len(ts)].turn = b
  /\ ts[Len(ts)].kind = "prompt" => ts[Len(ts)].i = TokensOf[ts[Len(ts)].of]

LEMMA JoinedTokens ==
  ASSUME NEW s \in Seq(ApiTokens), NEW t \in Seq(ApiTokens)
  PROVE  /\ s \o t \in Seq(ApiTokens) /\ Len(s \o t) = Len(s) + Len(t)
         /\ \A q \in 1..Len(s) : (s \o t)[q] = s[q]
         /\ \A i \in 1..Len(t) : (s \o t)[Len(s) + i] = t[i]
         /\ \A q \in 1..(Len(s) + Len(t)) : q \notin 1..Len(s) =>
              q - Len(s) \in 1..Len(t) /\ (s \o t)[q] = t[q - Len(s)]
OBVIOUS

\* The turns a to b and the turns after b are the turns from a on.
LEMMA RunsJoin ==
  ASSUME NEW ms, NEW a \in Nat, NEW b \in Nat, NEW c \in Nat, a <= b, b < c,
         NEW s, NEW t, IsRun(s, ms, a, b), IsRun(t, ms, b + 1, c)
  PROVE  IsRun(s \o t, ms, a, c)
<1>1. /\ s \in Seq(ApiTokens) /\ t \in Seq(ApiTokens)
      /\ Len(s) \in Nat \ {0} /\ Len(t) \in Nat \ {0}
  BY DEF IsRun
<1>2. PICK u \in Seq(ApiTokens) :
        /\ u = s \o t /\ Len(u) = Len(s) + Len(t)
        /\ \A q \in 1..Len(s) : u[q] = s[q]
        /\ \A q \in 1..Len(u) : q \notin 1..Len(s) =>
             q - Len(s) \in 1..Len(t) /\ u[q] = t[q - Len(s)]
  <2>1. s \o t \in Seq(ApiTokens) /\ Len(s \o t) = Len(s) + Len(t)
    BY <1>1, JoinedTokens
  <2>2. \A q \in 1..Len(s) : (s \o t)[q] = s[q]
    BY <1>1, JoinedTokens
  <2>3. \A q \in 1..(Len(s) + Len(t)) : q \notin 1..Len(s) =>
              q - Len(s) \in 1..Len(t) /\ (s \o t)[q] = t[q - Len(s)]
    BY <1>1, JoinedTokens
  <2> QED
    BY ONLY <2>1, <2>2, <2>3
<1>3. Len(u) \in Nat \ {0} /\ u[1] = s[1] /\ u[Len(u)] = t[Len(t)]
  <2>1. 1 \in 1..Len(s) /\ Len(u) \in 1..Len(u) /\ Len(u) \notin 1..Len(s) /\ Len(u) - Len(s) = Len(t)
    BY <1>1, <1>2
  <2> QED
    BY <1>2, <2>1
<1>4. ASSUME NEW q \in 2..Len(u)
      PROVE  Follows(u[q - 1], u[q])
  <2>1. CASE q \in 1..Len(s)
    <3>1. q \in 2..Len(s) /\ q - 1 \in 1..Len(s)
      BY <1>1, <2>1
    <3>2. u[q] = s[q] /\ u[q - 1] = s[q - 1]
      BY <1>2, <3>1
    <3> QED
      BY <3>1, <3>2 DEF IsRun
  <2>2. CASE q = Len(s) + 1
    <3>1. q \in 1..Len(u) /\ q \notin 1..Len(s) /\ q - Len(s) = 1 /\ q - 1 = Len(s) /\ Len(s) \in 1..Len(s)
      BY <1>1, <1>2, <2>2
    <3>2. u[q] = t[1] /\ u[q - 1] = s[Len(s)]
      BY <1>2, <3>1
    <3>3. /\ t[1].turn = b + 1 /\ t[1].i = 1 /\ s[Len(s)].turn = b
          /\ s[Len(s)].kind = "prompt" => s[Len(s)].i = TokensOf[s[Len(s)].of]
      BY DEF IsRun
    <3> QED
      BY <3>2, <3>3 DEF Follows
  <2>3. CASE q \notin 1..Len(s) /\ q # Len(s) + 1
    <3>1. /\ q \in 1..Len(u) /\ q - 1 \in 1..Len(u) /\ q - 1 \notin 1..Len(s)
          /\ q - Len(s) \in 2..Len(t) /\ (q - 1) - Len(s) = (q - Len(s)) - 1
      BY <1>1, <1>2, <2>3
    <3>2. u[q] = t[q - Len(s)] /\ u[q - 1] = t[(q - Len(s)) - 1]
      BY <1>2, <2>3, <3>1
    <3> QED
      BY <3>1, <3>2 DEF IsRun
  <2> QED
    BY <2>1, <2>2, <2>3
<1>5. ASSUME NEW q \in 1..Len(u)
      PROVE  u[q].turn \in a..c /\ (u[q].turn > 0 => u[q].of = ms[u[q].turn])
  <2>1. CASE q \in 1..Len(s)
    <3>1. s[q].turn \in a..b /\ (s[q].turn > 0 => s[q].of = ms[s[q].turn]) /\ u[q] = s[q]
      BY <1>2, <2>1 DEF IsRun
    <3> QED
      BY <3>1
  <2>2. CASE q \notin 1..Len(s)
    <3>1. PICK p \in 1..Len(t) : u[q] = t[p]
      BY <1>2, <2>2
    <3>2. t[p].turn \in (b + 1)..c /\ (t[p].turn > 0 => t[p].of = ms[t[p].turn])
      BY <3>1 DEF IsRun
    <3> QED
      BY <3>1, <3>2
  <2> QED
    BY <2>1, <2>2
<1>6. /\ s[1].turn = a /\ s[1].i = 1 /\ t[Len(t)].turn = c
      /\ t[Len(t)].kind = "prompt" => t[Len(t)].i = TokensOf[t[Len(t)].of]
  BY DEF IsRun
<1>7. IsRun(u, ms, a, c)
  BY <1>3, <1>4, <1>5, <1>6 DEF IsRun
<1> QED
  BY <1>2, <1>7

\* One message.
LEMMA PieceIsRun ==
  ASSUME NEW ms \in Seq(Contents), NEW m \in 1..Len(ms)
  PROVE  IsRun([i \in 1..TokensOf[ms[m]] |-> Tok(m, ms[m], i, "prompt")], ms, m, m)
<1>1. ms[m] \in Contents /\ m \in Nat \ {0}
  OBVIOUS
<1>2. PICK n \in Nat \ {0} : n = TokensOf[ms[m]]
  BY <1>1, ServerAssumption
<1>3. PICK ts : ts = [i \in 1..n |-> Tok(m, ms[m], i, "prompt")]
  OBVIOUS
<1>4. ASSUME NEW i \in 1..n
      PROVE  /\ ts[i] \in ApiTokens
             /\ ts[i].turn = m /\ ts[i].of = ms[m] /\ ts[i].i = i /\ ts[i].kind = "prompt"
  <2>1. ts[i] = [turn |-> m, of |-> ms[m], i |-> i, kind |-> "prompt"]
    BY <1>3 DEF Tok
  <2>2. i \in Nat /\ m \in Nat
    BY <1>1
  <2>3. PICK c \in Contents : c = ms[m]
    BY <1>1
  <2>4. [turn |-> m, of |-> c, i |-> i, kind |-> "prompt"] \in ApiTokens
    BY ONLY <2>2, c \in Contents DEF ApiTokens
  <2> QED
    BY <2>1, <2>3, <2>4
<1>5. ts \in Seq(ApiTokens) /\ Len(ts) = n
  <2>1. ts \in [1..n -> ApiTokens]
    BY <1>3, <1>4
  <2> QED
    BY <2>1
<1>6. ASSUME NEW q \in 2..n
      PROVE  Follows(ts[q - 1], ts[q])
  <2>1. q \in 1..n /\ q - 1 \in 1..n
    OBVIOUS
  <2>2. ts[q - 1].turn = m /\ ts[q].turn = m /\ ts[q].i = q /\ ts[q - 1].i = q - 1
    BY <1>4, <2>1
  <2> QED
    BY <2>1, <2>2 DEF Follows
<1>7. 1 \in 1..n /\ n \in 1..n /\ m \in m..m
  BY <1>1
<1>8. ts[n].i = TokensOf[ts[n].of] /\ \A q \in 1..n : ts[q].turn \in m..m /\ ts[q].of = ms[ts[q].turn]
  BY <1>2, <1>4, <1>7
<1>9. ts[1].turn = m /\ ts[1].i = 1 /\ ts[n].turn = m
  BY <1>4, <1>7
<1>10. IsRun(ts, ms, m, m)
  BY <1>5, <1>6, <1>8, <1>9 DEF IsRun
<1> QED
  BY <1>2, <1>3, <1>10

\* The tokens of the messages after the first k are their turns.
LEMMA EncodeIsRun ==
  ASSUME NEW ms \in Seq(Contents), NEW k \in Nat, k < Len(ms)
  PROVE  IsRun(Encode(ms, k), ms, k + 1, Len(ms))
<1> DEFINE piece(j) == [i \in 1..TokensOf[ms[k + j]] |-> Tok(k + j, ms[k + j], i, "prompt")]
<1>1. PICK n \in Nat \ {0} : n = Len(ms) - k
  OBVIOUS
<1>2. ASSUME NEW j \in 1..n
      PROVE  IsRun(piece(j), ms, k + j, k + j)
  <2>1. PICK m \in 1..Len(ms) : m = k + j
    BY <1>1
  <2>2. IsRun([i \in 1..TokensOf[ms[m]] |-> Tok(m, ms[m], i, "prompt")], ms, m, m)
    BY <2>1, PieceIsRun
  <2> QED
    BY <2>1, <2>2
<1> HIDE DEF piece
<1>3. PICK s : s = [j \in 1..n |-> piece(j)]
  OBVIOUS
<1>4. Len(s) = n
  <2>1. s \in Seq({piece(j) : j \in 1..n})
    BY <1>3
  <2>2. DOMAIN s = 1..n
    BY <1>3
  <2> QED
    BY <2>1, <2>2
<1>5. PICK Q : Q = Seq(ApiTokens)
  OBVIOUS
<1>6. Closed(Q)
  BY <1>5, JoinedTokens DEF Closed
<1>7. \A j \in 1..n : s[j] \in Q
  BY <1>2, <1>3, <1>5 DEF IsRun
<1>8. PICK f : JoinedBy(f, s, n) /\ FlattenSeq(s) = f[n]
  BY <1>4, <1>6, <1>7, Flattened
<1> DEFINE U == {m \in 1..n : ~IsRun(f[m], ms, k + 1, k + m)}
<1>9. U = {}
  <2>1. SUFFICES ASSUME U # {} PROVE FALSE
    OBVIOUS
  <2>2. PICK m \in U : \A l \in U : m <= l
    <3>1. U \subseteq Nat
      OBVIOUS
    <3> HIDE DEF U
    <3> QED
      BY <2>1, <3>1, LeastNatural
  <2>3. m \in 1..n /\ ~IsRun(f[m], ms, k + 1, k + m)
    OBVIOUS
  <2>4. CASE m = 1
    <3>1. f[1] = piece(1)
      BY <1>3, <1>8, <2>3, <2>4 DEF JoinedBy
    <3>2. IsRun(piece(1), ms, k + 1, k + 1)
      BY <1>2, <2>3, <2>4
    <3> QED
      BY <2>3, <2>4, <3>1, <3>2
  <2>5. CASE m # 1
    <3>1. PICK l \in 1..n : m = l + 1
      BY <2>3, <2>5
    <3>2. l \in Nat /\ l >= 1 /\ ~(m <= l)
      BY <3>1
    <3>3. IsRun(f[l], ms, k + 1, k + l)
      <4>1. l \notin U
        BY <2>2, <3>2
      <4> QED
        BY <3>1, <4>1
    <3>4. f[m] = f[l] \o piece(m)
      <4>1. m \in 2..n /\ m - 1 = l
        BY <2>3, <2>5, <3>1
      <4>2. f[m] = f[m - 1] \o s[m] /\ s[m] = piece(m)
        BY <1>3, <1>8, <2>3, <4>1 DEF JoinedBy
      <4> QED
        BY <4>1, <4>2
    <3>5. IsRun(piece(m), ms, (k + l) + 1, k + m)
      <4>1. IsRun(piece(m), ms, k + m, k + m) /\ k + m = (k + l) + 1
        BY <1>2, <2>3, <3>1
      <4> QED
        BY <4>1
    <3>6. IsRun(f[l] \o piece(m), ms, k + 1, k + m)
      <4>1. k + 1 \in Nat /\ k + l \in Nat /\ k + m \in Nat /\ k + 1 <= k + l /\ k + l < k + m
        BY <2>3, <3>1, <3>2
      <4> QED
        BY <3>3, <3>5, <4>1, RunsJoin
    <3> QED
      BY <2>3, <3>4, <3>6
  <2> QED
    BY <2>4, <2>5
<1>10. IsRun(f[n], ms, k + 1, k + n)
  BY <1>9
<1>11. Encode(ms, k) = FlattenSeq(s)
  BY <1>1, <1>3 DEF Encode, piece
<1> QED
  BY <1>1, <1>8, <1>10, <1>11

\* The prompt: BOS at position 0, the turns of the new messages, and the header
\* of the answer.
LEMMA PromptIsRun ==
  ASSUME NEW ms \in Seq(Contents), NEW k \in Nat, k < Len(ms), NEW isStart \in BOOLEAN,
         isStart => k = 0, NEW reply \in Contents
  PROVE  \E body \in Seq(ApiTokens) :
           /\ IsRun(body, ms, IF isStart THEN 0 ELSE k + 1, Len(ms))
           /\ PromptTokens(ms, k, isStart, reply) \in Seq(ApiTokens)
           /\ Len(PromptTokens(ms, k, isStart, reply)) = Len(body) + 1
           /\ \A q \in 1..Len(body) : PromptTokens(ms, k, isStart, reply)[q] = body[q]
           /\ PromptTokens(ms, k, isStart, reply)[Len(body) + 1] = Tok(Len(ms) + 1, reply, 1, "reply")
<1>1. PICK code \in Seq(ApiTokens) : code = Encode(ms, k) /\ IsRun(code, ms, k + 1, Len(ms))
  BY EncodeIsRun DEF IsRun
<1>2. PICK head \in ApiTokens : head = Tok(Len(ms) + 1, reply, 1, "reply")
  <2>1. Len(ms) + 1 \in Nat
    OBVIOUS
  <2> QED
    BY <2>1 DEF Tok, ApiTokens
<1>3. PICK bos \in ApiTokens : bos = Tok(0, "", 1, "reply")
  BY DEF Tok, ApiTokens
<1>4. PICK body \in Seq(ApiTokens) :
         /\ body = (IF isStart THEN <<bos>> ELSE <<>>) \o code
         /\ IsRun(body, ms, IF isStart THEN 0 ELSE k + 1, Len(ms))
  <2>1. CASE isStart
    <3>1. PICK one \in Seq(ApiTokens) : one = <<bos>> /\ Len(one) = 1 /\ one[1] = bos
      <4>1. <<bos>> \in Seq(ApiTokens) /\ Len(<<bos>>) = 1 /\ <<bos>>[1] = bos
        OBVIOUS
      <4> QED
        BY <4>1
    <3>2. bos.turn = 0 /\ bos.i = 1 /\ bos.kind = "reply"
      BY <1>3 DEF Tok
    <3>3. IsRun(one, ms, 0, 0)
      BY <3>1, <3>2 DEF IsRun
    <3>4. IsRun(code, ms, 0 + 1, Len(ms)) /\ Len(ms) \in Nat /\ 0 < Len(ms)
      BY <1>1, <2>1
    <3>5. IsRun(one \o code, ms, 0, Len(ms))
      BY <3>3, <3>4, RunsJoin
    <3>6. one \o code \in Seq(ApiTokens)
      BY <3>5 DEF IsRun
    <3> QED
      BY <2>1, <3>1, <3>5, <3>6
  <2>2. CASE ~isStart
    <3>1. <<>> \o code = code
      OBVIOUS
    <3> QED
      BY <1>1, <2>2, <3>1
  <2> QED
    BY <2>1, <2>2
<1>5. PromptTokens(ms, k, isStart, reply) = body \o <<head>>
  BY <1>1, <1>2, <1>3, <1>4 DEF PromptTokens
<1>6. /\ body \o <<head>> \in Seq(ApiTokens) /\ Len(body \o <<head>>) = Len(body) + 1
      /\ \A q \in 1..Len(body) : (body \o <<head>>)[q] = body[q]
      /\ (body \o <<head>>)[Len(body) + 1] = head
  OBVIOUS
<1> QED
  BY <1>2, <1>4, <1>5, <1>6

---------------------------------------------------------------------------
(* The inductive invariant.                                                  *)

CacheItems == [msg : Contents, endPos : 1..SeqLen]

\* How many messages of the request the cache stood for, and the messages it
\* stands for now.
Known == Len(messages) - params.new
Cached == [j \in 1..Len(cache) |-> cache[j].msg]

Serving == pc \in {"open", "prefill", "answer", "finish"}

\* The server never fails an assert().
ApiShape ==
  /\ mode = "server"
  /\ pc \in {"accept", "open", "prefill", "answer", "finish", "restart", "terminated"}
  /\ cache \in Seq(CacheItems)
  /\ unevaluated \in BOOLEAN

\* A request on its way: what complete computed from it before the first step,
\* and how far it has come.
RequestShape ==
  Serving =>
    /\ messages \in Seq(Contents) /\ params.new \in 1..Len(messages) /\ params.reply \in Contents
    /\ start \in 0..SeqLen /\ (start = 0 <=> Known = 0)
    /\ delta = PromptTokens(messages, Known, start = 0, params.reply)
    /\ promptEnd = Least(SeqLen, start + Len(delta) - 1)
    /\ maxPred \in promptEnd..SeqLen /\ (maxPred > promptEnd \/ promptEnd = SeqLen)
    /\ Len(cache) = Len(messages) /\ cache[Len(cache)].endPos = promptEnd
    /\ \A j \in 1..Len(messages) : cache[j].msg = messages[j]
    /\ pos \in start..SeqLen
    /\ pc = "open" => pos = start
    /\ pc = "prefill" => pos <= promptEnd
    /\ pc \in {"answer", "finish"} => pos >= promptEnd
    /\ pc = "finish" => pos > promptEnd \/ pos = SeqLen

ShapeInv == ApiShape /\ RequestShape

\* What RequestShape says of the prompt.
LEMMA DeltaShape ==
  ASSUME RequestShape, Serving
  PROVE  \E body \in Seq(ApiTokens) :
           /\ IsRun(body, messages, IF start = 0 THEN 0 ELSE Known + 1, Len(messages))
           /\ Known \in Nat /\ Known < Len(messages) /\ Len(messages) \in Nat
           /\ delta \in Seq(ApiTokens) /\ Len(delta) = Len(body) + 1 /\ Len(body) \in Nat \ {0}
           /\ \A q \in 1..Len(body) : delta[q] = body[q]
           /\ delta[Len(body) + 1] = Tok(Len(messages) + 1, params.reply, 1, "reply")
           /\ start \in 0..SeqLen /\ promptEnd = Least(SeqLen, start + Len(body))
           /\ promptEnd \in start..SeqLen /\ promptEnd >= 1
<1>1. /\ messages \in Seq(Contents) /\ params.new \in 1..Len(messages) /\ params.reply \in Contents
      /\ start \in 0..SeqLen /\ (start = 0 <=> Known = 0)
      /\ delta = PromptTokens(messages, Known, start = 0, params.reply)
      /\ promptEnd = Least(SeqLen, start + Len(delta) - 1)
  BY DEF RequestShape
<1>2. PICK k \in Nat : k = Known /\ k < Len(messages)
  BY <1>1 DEF Known
<1>3. PICK isStart \in BOOLEAN : isStart = (start = 0)
  OBVIOUS
<1>4. PICK body \in Seq(ApiTokens) :
        /\ IsRun(body, messages, IF isStart THEN 0 ELSE k + 1, Len(messages))
        /\ PromptTokens(messages, k, isStart, params.reply) \in Seq(ApiTokens)
        /\ Len(PromptTokens(messages, k, isStart, params.reply)) = Len(body) + 1
        /\ \A q \in 1..Len(body) : PromptTokens(messages, k, isStart, params.reply)[q] = body[q]
        /\ PromptTokens(messages, k, isStart, params.reply)[Len(body) + 1]
             = Tok(Len(messages) + 1, params.reply, 1, "reply")
  <2>1. isStart => k = 0
    BY <1>1, <1>2, <1>3
  <2> QED
    BY <1>1, <1>2, <2>1, PromptIsRun
<1>5. /\ delta \in Seq(ApiTokens) /\ Len(delta) = Len(body) + 1
      /\ \A q \in 1..Len(body) : delta[q] = body[q]
      /\ delta[Len(body) + 1] = Tok(Len(messages) + 1, params.reply, 1, "reply")
  BY <1>1, <1>2, <1>3, <1>4
<1>6. IsRun(body, messages, IF start = 0 THEN 0 ELSE Known + 1, Len(messages))
  BY <1>2, <1>3, <1>4
<1>7. Len(body) \in Nat \ {0} /\ Len(messages) \in Nat /\ SeqLen \in Nat \ {0}
  BY <1>1, <1>4, ContextAssumption DEF IsRun
<1>8. promptEnd = Least(SeqLen, start + Len(body))
  <2>1. start + Len(delta) - 1 = start + Len(body)
    BY SMTT(60), <1>1, <1>5, <1>7
  <2> QED
    BY <1>1, <2>1
<1>9. promptEnd \in start..SeqLen /\ promptEnd >= 1
  BY <1>1, <1>7, <1>8 DEF Least
<1> QED
  BY <1>1, <1>2, <1>5, <1>6, <1>7, <1>8, <1>9

LEMMA ShapeInit == ApiInit => ShapeInv
<1> SUFFICES ASSUME ApiInit PROVE ShapeInv
  OBVIOUS
<1>1. mode = "server" /\ pc = "accept" /\ cache = <<>> /\ unevaluated = FALSE
  BY DEF ApiInit
<1>2. cache \in Seq(CacheItems)
  BY <1>1
<1> QED
  BY <1>1, <1>2 DEF ShapeInv, ApiShape, RequestShape, Serving

\* What a request finds: nothing, or every message the cache stands for.
LEMMA ResolvedShape ==
  ASSUME cache \in Seq(CacheItems), NEW ms \in Seq(Contents), ms # <<>>
  PROVE  \/ Resolved(ms) = 0
         \/ /\ Resolved(ms) = Len(cache) /\ Len(cache) \in Nat \ {0} /\ Len(cache) < Len(ms)
            /\ \A i \in 1..Len(cache) : cache[i].msg = ms[i]
            /\ cache[Len(cache)].endPos \in 1..SeqLen
<1>1. CASE cache # <<>> /\ Len(ms) > Len(cache) /\ \A i \in DOMAIN cache : cache[i].msg = ms[i]
  <2>1. Resolved(ms) = Len(cache)
    BY <1>1 DEF Resolved
  <2>2. Len(cache) \in Nat \ {0} /\ DOMAIN cache = 1..Len(cache) /\ Len(ms) \in Nat
    BY <1>1
  <2>3. cache[Len(cache)] \in CacheItems
    BY <2>2
  <2> QED
    BY <1>1, <2>1, <2>2, <2>3 DEF CacheItems
<1>2. CASE ~(cache # <<>> /\ Len(ms) > Len(cache) /\ \A i \in DOMAIN cache : cache[i].msg = ms[i])
  BY <1>2 DEF Resolved
<1> QED
  BY <1>1, <1>2

\* The cache after the messages of a request were pushed.
Pushed(ms, k, end) ==
  Kept(k) \o [j \in 1..(Len(ms) - k) |-> [msg |-> ms[k + j], endPos |-> end]]

LEMMA PushedShape ==
  ASSUME cache \in Seq(CacheItems), NEW ms \in Seq(Contents), NEW k \in 0..Len(ms), k <= Len(cache),
         k < Len(ms), NEW end \in 1..SeqLen, \A i \in 1..k : cache[i].msg = ms[i]
  PROVE  /\ Pushed(ms, k, end) \in Seq(CacheItems) /\ Len(Pushed(ms, k, end)) = Len(ms)
         /\ \A j \in 1..Len(ms) : Pushed(ms, k, end)[j].msg = ms[j]
         /\ Pushed(ms, k, end)[Len(ms)].endPos = end
<1>0. PICK pushed : pushed = Pushed(ms, k, end)
  OBVIOUS
<1>1. Len(cache) \in Nat /\ Len(ms) \in Nat /\ k \in Nat
  OBVIOUS
<1>2. PICK old \in Seq(CacheItems) :
        old = Kept(k) /\ Len(old) = k /\ \A i \in 1..k : old[i] = cache[i]
  <2>1. SubSeq(cache, 1, k) \in Seq(CacheItems) /\ Len(SubSeq(cache, 1, k)) = k
    BY <1>1
  <2>2. \A i \in 1..k : SubSeq(cache, 1, k)[i] = cache[i]
    BY <1>1
  <2> QED
    BY <2>1, <2>2 DEF Kept
<1>3. PICK n \in Nat \ {0} : n = Len(ms) - k
  <2>1. Len(ms) - k \in Nat \ {0}
    BY <1>1
  <2> QED
    BY <2>1
<1>4. PICK new : new = [j \in 1..n |-> [msg |-> ms[k + j], endPos |-> end]]
  OBVIOUS
<1>5. ASSUME NEW j \in 1..n
      PROVE  new[j] \in CacheItems /\ new[j].msg = ms[k + j] /\ new[j].endPos = end
  <2>1. PICK c \in Contents : c = ms[k + j]
    <3>1. k + j \in 1..Len(ms)
      BY <1>1, <1>3
    <3> QED
      BY <3>1
  <2>2. new[j] = [msg |-> c, endPos |-> end]
    BY <1>4, <2>1
  <2>3. [msg |-> c, endPos |-> end] \in CacheItems
    BY DEF CacheItems
  <2> QED
    BY <2>1, <2>2, <2>3
<1>6. new \in Seq(CacheItems) /\ Len(new) = n
  <2>1. new \in [1..n -> CacheItems]
    BY <1>4, <1>5
  <2> QED
    BY ONLY <2>1, n \in Nat
<1>7. pushed = old \o new
  BY <1>0, <1>2, <1>3, <1>4 DEF Pushed
<1>8. /\ pushed \in Seq(CacheItems) /\ Len(pushed) = Len(ms)
      /\ \A i \in 1..k : pushed[i] = old[i]
      /\ \A i \in 1..n : pushed[k + i] = new[i]
  <2>1. /\ old \o new \in Seq(CacheItems) /\ Len(old \o new) = Len(old) + Len(new)
        /\ \A i \in 1..Len(old) : (old \o new)[i] = old[i]
        /\ \A i \in 1..Len(new) : (old \o new)[Len(old) + i] = new[i]
    BY ONLY old \in Seq(CacheItems), <1>6
  <2>2. Len(old) = k /\ Len(new) = n /\ k + n = Len(ms)
    BY <1>1, <1>2, <1>3, <1>6
  <2> QED
    BY ONLY <1>7, <2>1, <2>2
<1>9. ASSUME NEW j \in 1..Len(ms)
      PROVE  pushed[j].msg = ms[j]
  <2>1. CASE j \in 1..k
    BY <1>2, <1>8, <2>1
  <2>2. CASE j \notin 1..k
    <3>1. PICK i \in 1..n : j = k + i
      <4>1. j - k \in 1..n /\ j = k + (j - k)
        BY <1>1, <1>3, <2>2
      <4> QED
        BY <4>1
    <3>2. pushed[j] = new[i]
      BY <1>8, <3>1
    <3> QED
      BY <1>5, <3>1, <3>2
  <2> QED
    BY <2>1, <2>2
<1>10. pushed[Len(ms)].endPos = end
  <2>1. k + n = Len(ms) /\ n \in 1..n
    BY <1>1, <1>3
  <2>2. pushed[Len(ms)] = new[n]
    BY <1>8, <2>1
  <2> QED
    BY <1>5, <2>1, <2>2
<1> QED
  BY <1>0, <1>8, <1>9, <1>10

LEMMA RequestTyped ==
  ASSUME NEW ms \in Requests
  PROVE  ms \in Seq(Contents) /\ Len(ms) \in Nat \ {0} /\ ms # <<>>
<1>1. PICK n \in 1..MaxMessages : ms \in [1..n -> Contents]
  BY DEF Requests
<1>2. n \in Nat \ {0}
  BY <1>1, ServerAssumption
<1>3. ms \in Seq(Contents) /\ Len(ms) = n
  BY <1>1, <1>2
<1> QED
  BY <1>2, <1>3

\* A request builds upon nothing, or upon every message the cache stands for.
LEMMA Received ==
  ASSUME ApiShape, Receive
  PROVE  /\ ShapeInv' /\ pc' = "open" /\ pos' = start'
         /\ start' \in Nat /\ promptEnd' \in Nat /\ start' <= promptEnd'
         /\ \/ Known' = 0 /\ start' = 0
            \/ /\ Known' = Len(cache) /\ Len(cache) \in Nat \ {0} /\ start' = cache[Len(cache)].endPos
               /\ \A i \in 1..Len(cache) : cache[i].msg = messages'[i]
               /\ kv' = kv /\ unevaluated' = unevaluated
<1>1. PICK ms \in Requests, stream \in BOOLEAN, max \in MaxTokens, reply \in Contents :
       LET k    == Resolved(ms)
           from == IF k = 0 THEN 0 ELSE cache[k].endPos
           toks == PromptTokens(ms, k, from = 0, reply)
           end  == Least(SeqLen, from + Len(toks) - 1)
       IN  /\ messages' = ms
           /\ params' = [stream |-> stream, new |-> Len(ms) - k, reply |-> reply]
           /\ delta' = toks
           /\ start' = from /\ pos' = from
           /\ promptEnd' = end
           /\ maxPred' = IF max > 0 THEN Least(SeqLen, end + max) ELSE SeqLen
           /\ cache' = Kept(k)
                \o [j \in 1..(Len(ms) - k) |-> [msg |-> ms[k + j], endPos |-> end]]
           /\ unevaluated' = (k > 0 /\ unevaluated)
           /\ kv' = IF from = 0 THEN [p \in Positions |-> Foreign] ELSE kv
  BY DEF Receive
<1>2. pc' = "open" /\ mode' = "server"
  BY DEF Receive, ApiShape
<1>3. ms \in Seq(Contents) /\ Len(ms) \in Nat \ {0} /\ ms # <<>>
  BY <1>1, RequestTyped
<1>4. cache \in Seq(CacheItems) /\ unevaluated \in BOOLEAN /\ Len(cache) \in Nat
  BY DEF ApiShape
<1>5. PICK k : k = Resolved(ms)
  OBVIOUS
<1>6. \/ k = 0
      \/ /\ k = Len(cache) /\ Len(cache) \in Nat \ {0} /\ Len(cache) < Len(ms)
         /\ \A i \in 1..Len(cache) : cache[i].msg = ms[i]
         /\ cache[Len(cache)].endPos \in 1..SeqLen
  BY <1>3, <1>4, <1>5, ResolvedShape
<1>7. SeqLen \in Nat \ {0}
  BY ContextAssumption
<1>8. PICK from : from = IF k = 0 THEN 0 ELSE cache[k].endPos
  OBVIOUS
<1>9. /\ k \in 0..Len(ms) /\ k < Len(ms) /\ k <= Len(cache) /\ k \in Nat
      /\ from \in 0..SeqLen /\ (from = 0 <=> k = 0)
  BY <1>3, <1>4, <1>6, <1>7, <1>8
<1>10. PICK toks : toks = PromptTokens(ms, k, from = 0, reply)
  OBVIOUS
<1>11. Len(toks) \in Nat /\ Len(toks) >= 2
  <2>1. PICK isStart \in BOOLEAN : isStart = (from = 0)
    OBVIOUS
  <2>2. isStart => k = 0
    BY <1>9, <2>1
  <2>3. \E body \in Seq(ApiTokens) :
          /\ IsRun(body, ms, IF isStart THEN 0 ELSE k + 1, Len(ms))
          /\ Len(PromptTokens(ms, k, isStart, reply)) = Len(body) + 1
    BY <1>1, <1>3, <1>9, <2>2, PromptIsRun
  <2>4. PICK body \in Seq(ApiTokens) : Len(body) # 0 /\ Len(toks) = Len(body) + 1
    BY <1>10, <2>1, <2>3 DEF IsRun
  <2>5. Len(body) \in Nat
    BY <2>4
  <2> QED
    BY <2>4, <2>5
<1>12. PICK end : end = Least(SeqLen, from + Len(toks) - 1)
  OBVIOUS
<1>13. end \in 1..SeqLen /\ end >= from
  BY <1>7, <1>9, <1>11, <1>12 DEF Least
<1>14. /\ messages' = ms /\ params'.new = Len(ms) - k /\ params'.reply = reply
       /\ delta' = toks /\ start' = from /\ pos' = from /\ promptEnd' = end
       /\ maxPred' = IF max > 0 THEN Least(SeqLen, end + max) ELSE SeqLen
       /\ cache' = Kept(k) \o [j \in 1..(Len(ms) - k) |-> [msg |-> ms[k + j], endPos |-> end]]
       /\ unevaluated' = (k > 0 /\ unevaluated)
       /\ kv' = IF from = 0 THEN [p \in Positions |-> Foreign] ELSE kv
  BY <1>1, <1>5, <1>8, <1>10, <1>12
<1>15. Known' = k
  BY <1>3, <1>9, <1>14 DEF Known
<1>16. /\ cache' \in Seq(CacheItems) /\ Len(cache') = Len(ms)
       /\ \A j \in 1..Len(ms) : cache'[j].msg = ms[j]
       /\ cache'[Len(ms)].endPos = end
  <2>1. \A i \in 1..k : cache[i].msg = ms[i]
    BY <1>6
  <2>2. PICK pushed : pushed = Pushed(ms, k, end)
    OBVIOUS
  <2>3. /\ pushed \in Seq(CacheItems) /\ Len(pushed) = Len(ms)
        /\ \A j \in 1..Len(ms) : pushed[j].msg = ms[j]
        /\ pushed[Len(ms)].endPos = end
    BY ONLY <1>3, <1>4, <1>9, <1>13, <2>1, <2>2, PushedShape
  <2>4. cache' = pushed
    BY <1>14, <2>2 DEF Pushed
  <2> QED
    BY ONLY <2>3, <2>4
<1>17. maxPred' \in end..SeqLen /\ (maxPred' > end \/ end = SeqLen)
  <2>1. max \in Nat
    BY <1>1, ServerAssumption
  <2> QED
    BY <1>7, <1>13, <1>14, <2>1 DEF Least
<1>18. ApiShape'
  BY <1>2, <1>4, <1>9, <1>14, <1>16 DEF ApiShape
<1>19. RequestShape'
  <2>1. /\ params'.new \in 1..Len(messages') /\ params'.reply \in Contents
    BY <1>1, <1>3, <1>9, <1>14
  <2>2. delta' = PromptTokens(messages', Known', start' = 0, params'.reply)
    BY <1>10, <1>14, <1>15
  <2>3. promptEnd' = Least(SeqLen, start' + Len(delta') - 1)
    BY <1>12, <1>14
  <2>4. start' \in 0..SeqLen /\ (start' = 0 <=> Known' = 0) /\ pos' \in start'..SeqLen /\ pos' = start'
    BY <1>7, <1>9, <1>14, <1>15
  <2>5. maxPred' \in promptEnd'..SeqLen /\ (maxPred' > promptEnd' \/ promptEnd' = SeqLen)
    BY <1>14, <1>17
  <2>6. /\ Len(cache') = Len(messages') /\ cache'[Len(cache')].endPos = promptEnd'
        /\ \A j \in 1..Len(messages') : cache'[j].msg = messages'[j]
    BY <1>14, <1>16
  <2>7. messages' \in Seq(Contents)
    BY <1>3, <1>14
  <2> QED
    BY ONLY <1>2, <2>1, <2>2, <2>3, <2>4, <2>5, <2>6, <2>7 DEF RequestShape
<1>22. start' \in Nat /\ promptEnd' \in Nat /\ start' <= promptEnd'
  BY <1>7, <1>9, <1>13, <1>14
<1>20. CASE k = 0
  BY <1>2, <1>8, <1>14, <1>15, <1>18, <1>19, <1>20, <1>22 DEF ShapeInv
<1>21. CASE k # 0
  <2>1. k = Len(cache) /\ Len(cache) \in Nat \ {0} /\ (\A i \in 1..Len(cache) : cache[i].msg = ms[i])
    BY <1>6, <1>21
  <2>2. from # 0 /\ from = cache[Len(cache)].endPos
    BY <1>8, <1>9, <1>21, <2>1
  <2>3. kv' = kv /\ unevaluated' = unevaluated
    BY <1>4, <1>9, <1>14, <1>21, <2>2
  <2> QED
    BY <1>2, <1>14, <1>15, <1>18, <1>19, <1>22, <2>1, <2>2, <2>3 DEF ShapeInv
<1> QED
  BY <1>20, <1>21

\* A chunk ends where the prompt does, or the context.
LEMMA ChunkShape ==
  ASSUME ShapeInv, ApiChunk
  PROVE  \E batch \in 1..NBatches :
           /\ pc = "prefill" /\ pos + batch <= promptEnd
           /\ kv' = Write(pos, SubSeq(delta, pos - start + 1, pos - start + batch))
           /\ held' = Delivered(phase, Len(SubSeq(delta, pos - start + 1, pos - start + batch)))
           /\ pos' = pos + batch /\ pc' = "prefill" /\ phase' = phase
           /\ token' \in IF pos - start + batch + 2 <= Len(delta) THEN {delta[pos - start + batch + 2]}
                         ELSE {delta[Len(delta)], AsStale(delta[Len(delta)])}
           /\ UNCHANGED <<mode, read, serverVars>>
<1> DEFINE cap   == ResolvePrefillChunkBatchSize(promptEnd - start)
           batch == Least(promptEnd - pos, cap)
           k     == pos - start + batch
<1>1. /\ pc = "prefill" /\ pos < promptEnd
      /\ kv' = Write(pos, SubSeq(delta, k - batch + 1, k))
      /\ held' = Delivered(phase, Len(SubSeq(delta, k - batch + 1, k)))
      /\ phase' = phase /\ pos' = pos + batch /\ pc' = Then(pos, batch, pc)
      /\ token' \in IF k + 2 <= Len(delta) THEN {delta[k + 2]}
                    ELSE {delta[Len(delta)], AsStale(delta[Len(delta)])}
      /\ UNCHANGED <<mode, read, serverVars>>
  BY DEF ApiChunk, Evaluate
<1>2. SeqLen \in Nat \ {0} /\ NBatches \in Nat \ {0}
  BY ContextAssumption
<1>3. start \in 0..SeqLen /\ promptEnd \in start..SeqLen /\ pos \in start..SeqLen
  <2>1. Serving /\ RequestShape
    BY <1>1 DEF Serving, ShapeInv
  <2>2. start \in 0..SeqLen /\ promptEnd \in start..SeqLen
    BY <2>1, DeltaShape
  <2> QED
    BY <2>1, <2>2 DEF RequestShape
<1>4. cap \in 1..NBatches
  <2>1. promptEnd - start \in Nat
    BY <1>2, <1>3
  <2> QED
    BY <2>1, ChunkBounds
<1>5. batch \in 1..NBatches /\ pos + batch <= promptEnd
  <2> HIDE DEF cap
  <2> QED
    BY <1>1, <1>2, <1>3, <1>4 DEF Least
<1>6. pc' = "prefill"
  <2> HIDE DEF batch
  <2> QED
    BY <1>1, <1>2, <1>3, <1>5 DEF Then, Fits
<1> HIDE DEF batch
<1>7. k - batch + 1 = pos - start + 1
  BY <1>2, <1>3, <1>5
<1>8. kv' = Write(pos, SubSeq(delta, pos - start + 1, k)) /\ held' = Delivered(phase, Len(SubSeq(delta, pos - start + 1, k)))
  BY <1>1, <1>7
<1> QED
  BY <1>1, <1>5, <1>6, <1>8

\* A token of the answer, within the context.
LEMMA AnswerShape ==
  ASSUME ShapeInv, Answer
  PROVE  /\ pc = "answer" /\ pos < maxPred /\ maxPred <= SeqLen /\ pos >= promptEnd
         /\ pos \in Nat /\ promptEnd \in Nat
         /\ kv' = Write(pos, <<token>>) /\ phase' = phase
         /\ held' = Delivered(phase, Len(<<token>>)) /\ read' = "logits"
         /\ token' = Tok(token.turn, token.of, token.i + 1, "reply")
         /\ pos' = pos + 1 /\ pc' \in {"answer", "finish", "accept"}
         /\ UNCHANGED <<mode, serverVars>>
<1>1. /\ pc = "answer" /\ pos < maxPred /\ kv' = Write(pos, <<token>>) /\ phase' = phase
      /\ held' = Delivered(phase, Len(<<token>>)) /\ read' = "logits"
      /\ token' = Tok(token.turn, token.of, token.i + 1, "reply")
      /\ pos' = pos + 1
      /\ pc' \in {Then(pos, 1, "answer"), Then(pos, 1, "finish"), Then(pos, 1, "accept")}
      /\ UNCHANGED <<mode, serverVars>>
  BY DEF Answer, Evaluate
<1>2. SeqLen \in Nat \ {0} /\ NBatches \in Nat \ {0}
  BY ContextAssumption
<1>3. Serving /\ RequestShape
  BY <1>1 DEF Serving, ShapeInv
<1>4. start \in 0..SeqLen /\ promptEnd \in start..SeqLen
  BY <1>3, DeltaShape
<1>5. pos \in start..SeqLen /\ pos >= promptEnd /\ maxPred \in promptEnd..SeqLen
  BY <1>1, <1>3 DEF RequestShape
<1>6. Fits(pos, 1)
  BY <1>1, <1>2, <1>4, <1>5 DEF Fits
<1> QED
  BY <1>1, <1>2, <1>4, <1>5, <1>6 DEF Then

\* RequestShape is about the server's own variables, the place and the position.
LEMMA SameRequest ==
  ASSUME RequestShape, Serving, UNCHANGED serverVars, pos' \in start..SeqLen,
         pc' \in {"prefill", "answer", "finish"},
         pc' = "prefill" => pos' <= promptEnd,
         pc' \in {"answer", "finish"} => pos' >= promptEnd,
         pc' = "finish" => pos' > promptEnd \/ pos' = SeqLen
  PROVE  RequestShape'
<1>1. UNCHANGED <<cache, messages, params, delta, start, promptEnd, maxPred>>
  BY DEF serverVars
<1>2. pc' # "open" /\ Known' = Known
  BY <1>1 DEF Known
<1> QED
  BY <1>1, <1>2 DEF RequestShape

LEMMA ShapeKeeps ==
  ASSUME ShapeInv, [ApiNext]_<<contextVars, serverVars>>
  PROVE  ShapeInv'
<1> USE DEF ShapeInv
<1>0. SeqLen \in Nat \ {0} /\ NBatches \in Nat \ {0}
  BY ContextAssumption
<1>a. Serving => /\ start \in 0..SeqLen /\ promptEnd \in start..SeqLen /\ pos \in start..SeqLen
                 /\ maxPred \in promptEnd..SeqLen /\ promptEnd >= 1
  <2>1. SUFFICES ASSUME Serving
                 PROVE  /\ start \in 0..SeqLen /\ promptEnd \in start..SeqLen /\ pos \in start..SeqLen
                        /\ maxPred \in promptEnd..SeqLen /\ promptEnd >= 1
    OBVIOUS
  <2>2. start \in 0..SeqLen /\ promptEnd \in start..SeqLen /\ promptEnd >= 1
    BY <2>1, DeltaShape
  <2> QED
    BY <2>1, <2>2 DEF RequestShape
<1>1. CASE Receive
  BY <1>1, Received
<1>2. CASE OpenStream
  <2>1. /\ pc = "open" /\ UNCHANGED <<mode, pos, cache, messages, params, delta, start, promptEnd, maxPred>>
        /\ \/ pc' = "prefill" /\ unevaluated' = unevaluated
           \/ pc' = "accept" /\ unevaluated' = TRUE
    BY <1>2 DEF OpenStream
  <2>2. ApiShape'
    BY <2>1 DEF ApiShape
  <2>3. CASE pc' = "accept"
    BY <2>2, <2>3 DEF RequestShape, Serving
  <2>4. CASE pc' = "prefill"
    <3>1. Serving /\ pos = start
      BY <2>1 DEF Serving, RequestShape
    <3>2. UNCHANGED serverVars
      BY <1>2, <2>1, <2>4 DEF OpenStream, serverVars
    <3>3. pos' = start /\ pos' \in start..SeqLen /\ pos' <= promptEnd
      BY <1>a, <2>1, <3>1
    <3> QED
      BY <2>2, <2>4, <3>1, <3>2, <3>3, SameRequest
  <2> QED
    BY <2>1, <2>3, <2>4
<1>3. CASE ApiChunk
  <2>1. PICK batch \in 1..NBatches :
           /\ pc = "prefill" /\ pos + batch <= promptEnd
           /\ pos' = pos + batch /\ pc' = "prefill" /\ UNCHANGED <<mode, read, serverVars>>
    BY <1>3, ChunkShape
  <2>2. ApiShape'
    BY <2>1 DEF ApiShape, serverVars
  <2>3. Serving
    BY <2>1 DEF Serving
  <2>4. pos' \in start..SeqLen /\ pos' <= promptEnd
    BY <1>0, <1>a, <2>1, <2>3
  <2> QED
    BY <2>1, <2>2, <2>3, <2>4, SameRequest
<1>4. CASE ApiPrefillDone
  <2>1. pc = "prefill" /\ pos >= promptEnd /\ pc' = "answer" /\ UNCHANGED <<mode, pos, serverVars>>
    BY <1>4 DEF ApiPrefillDone
  <2>2. ApiShape'
    BY <2>1 DEF ApiShape, serverVars
  <2>3. Serving
    BY <2>1 DEF Serving
  <2> QED
    BY <1>a, <2>1, <2>2, <2>3, SameRequest
<1>5. CASE Answer
  <2>1. /\ pc = "answer" /\ pos < maxPred /\ maxPred <= SeqLen /\ pos >= promptEnd
        /\ pos' = pos + 1 /\ pc' \in {"answer", "finish", "accept"} /\ UNCHANGED <<mode, serverVars>>
    BY <1>5, AnswerShape
  <2>2. ApiShape'
    BY <2>1 DEF ApiShape, serverVars
  <2>3. Serving
    BY <2>1 DEF Serving
  <2>4. pos' \in start..SeqLen /\ pos' > promptEnd /\ pos' >= promptEnd
    BY <1>0, <1>a, <2>1, <2>3
  <2>5. CASE pc' = "accept"
    BY <2>2, <2>5 DEF RequestShape, Serving
  <2>6. CASE pc' \in {"answer", "finish"}
    BY <2>1, <2>2, <2>3, <2>4, <2>6, SameRequest
  <2> QED
    BY <2>1, <2>5, <2>6
<1>6. CASE AnswerFull
  <2>1. pc = "answer" /\ pos >= maxPred /\ pc' = "finish" /\ UNCHANGED <<mode, pos, serverVars>>
    BY <1>6 DEF AnswerFull
  <2>2. ApiShape'
    BY <2>1 DEF ApiShape, serverVars
  <2>3. Serving
    BY <2>1 DEF Serving
  <2>4. maxPred > promptEnd \/ promptEnd = SeqLen
    BY <2>3 DEF RequestShape
  <2>5. pos' > promptEnd \/ pos' = SeqLen
    BY <1>0, <1>a, <2>1, <2>3, <2>4
  <2>6. pos' >= promptEnd
    BY <1>0, <1>a, <2>1, <2>3
  <2> QED
    BY <1>a, <2>1, <2>2, <2>3, <2>5, <2>6, SameRequest
<1>7. CASE Finish
  <2>1. /\ pc = "finish" /\ pc' = "accept" /\ mode' = mode
        /\ \/ cache' = <<>> /\ unevaluated' = FALSE
           \/ cache' = Append(cache, [msg |-> params.reply, endPos |-> pos]) /\ unevaluated' = unevaluated
    BY <1>7 DEF Finish
  <2>2. cache' \in Seq(CacheItems)
    <3>1. Serving
      BY <2>1 DEF Serving
    <3>2. pos \in 1..SeqLen
      BY <1>0, <1>a, <2>1, <3>1 DEF RequestShape
    <3>3. PICK c \in Contents : c = params.reply
      BY <3>1 DEF RequestShape
    <3>4. [msg |-> c, endPos |-> pos] \in CacheItems
      BY <3>2 DEF CacheItems
    <3>5. cache \in Seq(CacheItems)
      BY DEF ApiShape
    <3>6. Append(cache, [msg |-> c, endPos |-> pos]) \in Seq(CacheItems)
      BY ONLY <3>4, <3>5
    <3>7. <<>> \in Seq(CacheItems)
      OBVIOUS
    <3> QED
      BY <2>1, <3>3, <3>6, <3>7
  <2> QED
    BY <2>1, <2>2 DEF ApiShape, RequestShape, Serving
<1>8. CASE StepFails
  <2>1. /\ pc' \in {"accept", "restart", "terminated"} /\ mode' = mode /\ cache' = cache
        /\ unevaluated' \in BOOLEAN
    BY <1>8 DEF StepFails
  <2> QED
    BY <2>1 DEF ApiShape, RequestShape, Serving
<1>9. CASE Restart
  <2>1. pc' = "accept" /\ mode' = mode /\ cache' = <<>> /\ unevaluated' = FALSE
    BY <1>9 DEF Restart
  <2>2. cache' \in Seq(CacheItems)
    BY <2>1
  <2> QED
    BY <2>1, <2>2 DEF ApiShape, RequestShape, Serving
<1>10. CASE UNCHANGED <<contextVars, serverVars>>
  <2>1. UNCHANGED <<mode, pc, pos, cache, messages, params, delta, start, promptEnd, maxPred, unevaluated>>
    BY <1>10 DEF contextVars, serverVars
  <2> QED
    BY <2>1 DEF ApiShape, RequestShape, Serving, Known
<1> QED
  BY <1>1, <1>2, <1>3, <1>4, <1>5, <1>6, <1>7, <1>8, <1>9, <1>10 DEF ApiNext, Serve

\* The server asks for no position outside the context and for no more rows than
\* a step has, whatever prompts, limits and failures come: the assert() of
\* setPosition and setBatchSize never fails (the two loops of complete).
THEOREM ServerStaysInContext == ApiSpec => []StaysInContext
<1>1. ShapeInv => StaysInContext
  BY DEF ShapeInv, ApiShape, StaysInContext
<1> QED
  BY <1>1, ShapeInit, ShapeKeeps, PTL DEF ApiSpec

---------------------------------------------------------------------------
(* Rows.                                                                     *)

\* The same rows are those of every list that begins with the same messages.
LEMMA RowsAgree ==
  ASSUME NEW rows, NEW rows2, NEW ms, NEW ms2, NEW e \in Nat \ {0}, NEW n \in Nat,
         RowsOf(rows, ms, e, n), \A j \in 1..n : ms2[j] = ms[j],
         \A p \in 0..(e - 1) : rows2[p] = rows[p]
  PROVE  RowsOf(rows2, ms2, e, n)
<1>1. 0 \in 0..(e - 1) /\ e - 1 \in 0..(e - 1) /\ \A p \in 1..(e - 1) : p - 1 \in 0..(e - 1) /\ p \in 0..(e - 1)
  OBVIOUS
<1>2. rows2[0] = rows[0] /\ rows2[e - 1] = rows[e - 1]
  BY <1>1
<1>3. ASSUME NEW p \in 1..(e - 1)
      PROVE  Follows(rows2[p - 1], rows2[p])
  BY <1>1 DEF RowsOf
<1>4. ASSUME NEW p \in 0..(e - 1)
      PROVE  rows2[p].turn \in 0..n /\ (rows2[p].turn > 0 => rows2[p].of = ms2[rows2[p].turn])
  <2>1. rows[p].turn \in 0..n /\ (rows[p].turn > 0 => rows[p].of = ms[rows[p].turn]) /\ rows2[p] = rows[p]
    BY DEF RowsOf
  <2>2. rows[p].turn > 0 => rows[p].turn \in 1..n
    BY <2>1
  <2> QED
    BY <2>1, <2>2
<1> QED
  BY <1>2, <1>3, <1>4 DEF RowsOf

\* The rows of the messages known and, from there on, those of the rest of the
\* prompt are the rows of all the messages.
LEMMA RowsOfPrompt ==
  ASSUME NEW rows, NEW ms, NEW from \in Nat, NEW k \in Nat, NEW n \in Nat, k < n, NEW body,
         IsRun(body, ms, IF from = 0 THEN 0 ELSE k + 1, n),
         from > 0 => RowsOf(rows, ms, from, k),
         \A p \in from..(from + Len(body) - 1) : rows[p] = body[p - from + 1]
  PROVE  RowsOf(rows, ms, from + Len(body), n)
<1>1. PICK l \in Nat \ {0} : l = Len(body)
  BY DEF IsRun
<1>2. ASSUME NEW q \in 1..l
      PROVE  rows[from + q - 1] = body[q]
  <2>1. PICK p : p = from + q - 1
    OBVIOUS
  <2>2. p \in from..(from + Len(body) - 1) /\ p - from + 1 = q
    BY <1>1, <2>1
  <2> QED
    BY <2>1, <2>2
<1>3. PICK e \in Nat \ {0} : e = from + l
  BY <1>1
<1>4. e - 1 = from + l - 1 /\ l \in 1..l /\ 1 \in 1..l
  BY <1>3
<1>5. rows[e - 1] = body[l] /\ rows[from] = body[1]
  <2>1. rows[from + l - 1] = body[l] /\ rows[from + 1 - 1] = body[1]
    BY <1>2, <1>4
  <2>2. from + 1 - 1 = from
    OBVIOUS
  <2> QED
    BY <1>4, <2>1, <2>2
<1>6. rows[0].turn = 0 /\ rows[0].i = 1
  <2>1. CASE from = 0
    BY <1>5, <2>1 DEF IsRun
  <2>2. CASE from > 0
    BY <2>2 DEF RowsOf
  <2> QED
    BY <2>1, <2>2
<1>7. ASSUME NEW p \in 1..(e - 1)
      PROVE  Follows(rows[p - 1], rows[p])
  <2>1. CASE p < from
    <3>1. p \in 1..(from - 1)
      BY <2>1
    <3> QED
      BY <2>1, <3>1 DEF RowsOf
  <2>2. CASE p = from
    <3>1. from > 0 /\ rows[p] = body[1] /\ p - 1 = from - 1
      BY <1>5, <2>2
    <3>2. /\ rows[p - 1].turn = k
          /\ rows[p - 1].kind = "prompt" => rows[p - 1].i = TokensOf[rows[p - 1].of]
      BY <3>1 DEF RowsOf
    <3>3. rows[p].turn = k + 1 /\ rows[p].i = 1
      BY <3>1 DEF IsRun
    <3> QED
      BY <3>2, <3>3 DEF Follows
  <2>3. CASE p > from
    <3>1. PICK q \in 2..l : p = from + q - 1
      <4>1. p - from + 1 \in 2..l /\ p = from + (p - from + 1) - 1
        BY <1>3, <2>3
      <4> QED
        BY <4>1
    <3>2. q \in 1..l /\ q - 1 \in 1..l /\ p - 1 = from + (q - 1) - 1
      BY <3>1
    <3>3. rows[p] = body[q] /\ rows[p - 1] = body[q - 1]
      BY <1>2, <3>1, <3>2
    <3>4. Follows(body[q - 1], body[q])
      BY <1>1 DEF IsRun
    <3> QED
      BY <3>3, <3>4
  <2> QED
    BY <2>1, <2>2, <2>3
<1>8. ASSUME NEW p \in 0..(e - 1)
      PROVE  rows[p].turn \in 0..n /\ (rows[p].turn > 0 => rows[p].of = ms[rows[p].turn])
  <2>1. CASE p < from
    <3>1. p \in 0..(from - 1) /\ from > 0
      BY <2>1
    <3>2. rows[p].turn \in 0..k /\ (rows[p].turn > 0 => rows[p].of = ms[rows[p].turn])
      BY <3>1 DEF RowsOf
    <3> QED
      BY <3>2
  <2>2. CASE p >= from
    <3>1. PICK q \in 1..l : p = from + q - 1
      <4>1. p - from + 1 \in 1..l /\ p = from + (p - from + 1) - 1
        BY <1>3, <2>2
      <4> QED
        BY <4>1
    <3>2. rows[p] = body[q]
      BY <1>2, <3>1
    <3>3. /\ body[q].turn \in (IF from = 0 THEN 0 ELSE k + 1)..n
          /\ body[q].turn > 0 => body[q].of = ms[body[q].turn]
      BY <1>1 DEF IsRun
    <3>4. body[q].turn \in 0..n
      BY <3>3
    <3> QED
      BY <3>2, <3>3, <3>4
  <2> QED
    BY <2>1, <2>2
<1>9. body[l].turn = n /\ (body[l].kind = "prompt" => body[l].i = TokensOf[body[l].of])
  BY <1>1 DEF IsRun
<1>10. RowsOf(rows, ms, e, n)
  BY <1>5, <1>6, <1>7, <1>8, <1>9 DEF RowsOf
<1> QED
  BY <1>1, <1>3, <1>10

\* The j-th token of the answer to n messages.
IsReply(t, n, reply, j) ==
  t.turn = n + 1 /\ t.of = reply /\ t.i = j /\ t.kind # "prompt"

\* The rows of the messages and those of an answer are the rows of both.
LEMMA RowsOfAnswer ==
  ASSUME NEW rows, NEW ms, NEW ms2, NEW e \in Nat \ {0}, NEW to \in Nat, e < to, NEW n \in Nat, NEW reply,
         RowsOf(rows, ms, e, n),
         \A j \in 1..n : ms2[j] = ms[j], ms2[n + 1] = reply,
         \A p \in e..(to - 1) : IsReply(rows[p], n, reply, p - e + 1)
  PROVE  RowsOf(rows, ms2, to, n + 1)
<1>1. RowsOf(rows, ms2, e, n)
  BY RowsAgree
<1>2. ASSUME NEW p \in 1..(to - 1)
      PROVE  Follows(rows[p - 1], rows[p])
  <2>1. CASE p < e
    <3>1. p \in 1..(e - 1)
      BY <2>1
    <3> QED
      BY <1>1, <3>1 DEF RowsOf
  <2>2. CASE p = e
    <3>1. IsReply(rows[p], n, reply, 1) /\ p - 1 = e - 1
      BY <2>2
    <3>2. /\ rows[e - 1].turn = n
          /\ rows[e - 1].kind = "prompt" => rows[e - 1].i = TokensOf[rows[e - 1].of]
      BY <1>1 DEF RowsOf
    <3> QED
      BY <3>1, <3>2 DEF Follows, IsReply
  <2>3. CASE p > e
    <3>1. /\ p \in e..(to - 1) /\ p - 1 \in e..(to - 1)
          /\ p - e + 1 = ((p - 1) - e + 1) + 1
      BY <2>3
    <3>2. IsReply(rows[p], n, reply, p - e + 1) /\ IsReply(rows[p - 1], n, reply, (p - 1) - e + 1)
      BY <3>1
    <3> QED
      BY <3>1, <3>2 DEF Follows, IsReply
  <2> QED
    BY <2>1, <2>2, <2>3
<1>3. ASSUME NEW p \in 0..(to - 1)
      PROVE  rows[p].turn \in 0..(n + 1) /\ (rows[p].turn > 0 => rows[p].of = ms2[rows[p].turn])
  <2>1. CASE p < e
    <3>1. p \in 0..(e - 1)
      BY <2>1
    <3>2. rows[p].turn \in 0..n /\ (rows[p].turn > 0 => rows[p].of = ms2[rows[p].turn])
      BY <1>1, <3>1 DEF RowsOf
    <3> QED
      BY <3>2
  <2>2. CASE p >= e
    <3>1. p \in e..(to - 1)
      BY <2>2
    <3> QED
      BY <3>1 DEF IsReply
  <2> QED
    BY <2>1, <2>2
<1>4. rows[to - 1].turn = n + 1 /\ rows[to - 1].kind # "prompt"
  <2>1. to - 1 \in e..(to - 1)
    OBVIOUS
  <2> QED
    BY <2>1 DEF IsReply
<1>5. rows[0].turn = 0 /\ rows[0].i = 1
  BY <1>1 DEF RowsOf
<1> QED
  BY <1>2, <1>3, <1>4, <1>5 DEF RowsOf

\* The rows of a request that builds upon what was evaluated: those of the
\* messages known, those of the prompt so far, those of the answer so far.
PromptRows(rows, at) ==
  \A p \in start..(at - 1) : p < promptEnd => rows[p] = delta[p - start + 1]
AnswerRows(rows, at) ==
  \A p \in promptEnd..(at - 1) : IsReply(rows[p], Len(messages), params.reply, p - promptEnd + 1)

CacheRows ==
  pc = "accept" /\ ~unevaluated /\ cache # <<>> =>
    RowsOf(kv, Cached, cache[Len(cache)].endPos, Len(cache))
KnownRows ==
  Serving /\ ~unevaluated /\ start > 0 => RowsOf(kv, messages, start, Known)
NewRows ==
  Serving => PromptRows(kv, pos) /\ AnswerRows(kv, pos)
NextReply ==
  pc \in {"prefill", "answer"} /\ pos >= promptEnd /\ pos < SeqLen =>
    IsReply(token, Len(messages), params.reply, pos - promptEnd + 1)

RowsInv == CacheRows /\ KnownRows /\ NewRows /\ NextReply

\* A step changes the rows it is about.
LEMMA WrittenRows ==
  ASSUME NEW p \in Nat, NEW ts, Len(ts) \in Nat, p + Len(ts) <= SeqLen
  PROVE  /\ \A q \in 0..(p - 1) : Write(p, ts)[q] = kv[q]
         /\ \A q \in p..(p + Len(ts) - 1) : Write(p, ts)[q] = ts[q - p + 1]
<1>1. SeqLen \in Nat
  BY ContextAssumption
<1>2. ASSUME NEW q \in 0..(p - 1)
      PROVE  Write(p, ts)[q] = kv[q]
  <2>1. q \in Positions /\ q \notin p..(p + Len(ts) - 1)
    BY <1>1 DEF Positions
  <2> QED
    BY <2>1 DEF Write
<1>3. ASSUME NEW q \in p..(p + Len(ts) - 1)
      PROVE  Write(p, ts)[q] = ts[q - p + 1]
  <2>1. q \in Positions
    BY <1>1 DEF Positions
  <2> QED
    BY <2>1 DEF Write
<1> QED
  BY <1>2, <1>3

\* Where the request stands, as numbers.
LEMMA Place ==
  ASSUME ShapeInv, Serving
  PROVE  /\ start \in Nat /\ promptEnd \in Nat /\ pos \in Nat /\ SeqLen \in Nat \ {0}
         /\ start <= promptEnd /\ promptEnd <= SeqLen /\ start <= pos /\ pos <= SeqLen /\ promptEnd >= 1
         /\ Known \in Nat /\ Known < Len(messages) /\ Len(messages) \in Nat \ {0}
         /\ (start = 0 <=> Known = 0) /\ Len(cache) = Len(messages)
         /\ cache[Len(cache)].endPos = promptEnd /\ cache # <<>>
         /\ \A j \in 1..Len(messages) : Cached[j] = messages[j]
<1>1. RequestShape /\ ApiShape
  BY DEF ShapeInv
<1>2. /\ start \in 0..SeqLen /\ promptEnd \in start..SeqLen /\ promptEnd >= 1
      /\ Known \in Nat /\ Known < Len(messages) /\ Len(messages) \in Nat
  BY <1>1, DeltaShape
<1>3. /\ pos \in start..SeqLen /\ (start = 0 <=> Known = 0) /\ Len(cache) = Len(messages)
      /\ cache[Len(cache)].endPos = promptEnd
      /\ \A j \in 1..Len(messages) : cache[j].msg = messages[j]
  BY <1>1 DEF RequestShape
<1>4. SeqLen \in Nat \ {0}
  BY ContextAssumption
<1>5. cache # <<>>
  BY <1>2, <1>3
<1>6. \A j \in 1..Len(messages) : Cached[j] = messages[j]
  BY <1>3 DEF Cached
<1> QED
  BY <1>2, <1>3, <1>4, <1>5, <1>6

\* Once the prompt is evaluated to its end, the rows below are those of all the
\* messages.
LEMMA PromptEvaluated ==
  ASSUME ShapeInv, Serving, NEW rows, NEW at \in Nat, at >= promptEnd, promptEnd < SeqLen,
         start > 0 => RowsOf(rows, messages, start, Known), PromptRows(rows, at)
  PROVE  RowsOf(rows, messages, promptEnd, Len(messages))
<1>1. PICK body \in Seq(ApiTokens) :
           /\ IsRun(body, messages, IF start = 0 THEN 0 ELSE Known + 1, Len(messages))
           /\ Len(body) \in Nat \ {0} /\ \A q \in 1..Len(body) : delta[q] = body[q]
           /\ promptEnd = Least(SeqLen, start + Len(body))
  <2>1. RequestShape
    BY DEF ShapeInv
  <2> QED
    BY <2>1, DeltaShape
<1>2. /\ start \in Nat /\ promptEnd \in Nat /\ SeqLen \in Nat
      /\ Known \in Nat /\ Known < Len(messages) /\ Len(messages) \in Nat
  BY Place
<1>3. promptEnd = start + Len(body)
  BY <1>1, <1>2 DEF Least
<1>4. PICK from \in Nat : from = start
  BY <1>2
<1>5. PICK k \in Nat : k = Known
  BY <1>2
<1>6. PICK n \in Nat : n = Len(messages) /\ k < n
  BY <1>2, <1>5
<1>7. ASSUME NEW p \in from..(from + Len(body) - 1)
      PROVE  rows[p] = body[p - from + 1]
  <2>1. p \in start..(at - 1) /\ p < promptEnd /\ p - start + 1 = p - from + 1
    BY <1>1, <1>2, <1>3, <1>4
  <2>2. rows[p] = delta[p - start + 1]
    BY <2>1 DEF PromptRows
  <2>3. p - from + 1 \in 1..Len(body)
    BY <1>1
  <2> QED
    BY <1>1, <2>1, <2>2, <2>3
<1>8. /\ IsRun(body, messages, IF from = 0 THEN 0 ELSE k + 1, n)
      /\ from > 0 => RowsOf(rows, messages, from, k)
  BY <1>1, <1>4, <1>5, <1>6
<1>9. PICK ms : ms = messages
  OBVIOUS
<1>10. RowsOf(rows, ms, from + Len(body), n)
  BY <1>6, <1>7, <1>8, <1>9, RowsOfPrompt
<1> QED
  BY <1>3, <1>4, <1>6, <1>9, <1>10

\* RowsInv away from a request.
LEMMA RowsAside ==
  ASSUME pc' \in {"accept", "restart", "terminated"},
         pc' = "accept" => unevaluated' \/ cache' = <<>> \/
           RowsOf(kv', Cached', cache'[Len(cache')].endPos, Len(cache'))
  PROVE  RowsInv'
BY DEF RowsInv, CacheRows, KnownRows, NewRows, NextReply, Serving

LEMMA ReceiveKeepsRows ==
  ASSUME ShapeInv, RowsInv, Receive
  PROVE  RowsInv'
<1>1. ApiShape /\ pc = "accept"
  BY DEF ShapeInv, Receive
<1>2. /\ ShapeInv' /\ pc' = "open" /\ pos' = start'
      /\ start' \in Nat /\ promptEnd' \in Nat /\ start' <= promptEnd'
      /\ \/ Known' = 0 /\ start' = 0
         \/ /\ Known' = Len(cache) /\ Len(cache) \in Nat \ {0} /\ start' = cache[Len(cache)].endPos
            /\ \A i \in 1..Len(cache) : cache[i].msg = messages'[i]
            /\ kv' = kv /\ unevaluated' = unevaluated
  BY <1>1, Received
<1>3. KnownRows'
  <2>1. SUFFICES ASSUME ~unevaluated', start' > 0
                 PROVE  RowsOf(kv', messages', start', Known')
    BY DEF KnownRows
  <2>2. /\ Known' = Len(cache) /\ Len(cache) \in Nat \ {0} /\ start' = cache[Len(cache)].endPos
        /\ \A i \in 1..Len(cache) : cache[i].msg = messages'[i]
        /\ kv' = kv /\ ~unevaluated
    BY <1>2, <2>1
  <2>3. cache # <<>> /\ cache[Len(cache)] \in CacheItems
    BY <1>1, <2>2 DEF ApiShape
  <2>4. RowsOf(kv, Cached, cache[Len(cache)].endPos, Len(cache))
    BY <1>1, <2>2, <2>3 DEF RowsInv, CacheRows
  <2>5. PICK e \in Nat \ {0} : e = cache[Len(cache)].endPos
    BY <2>3, ContextAssumption DEF CacheItems
  <2>6. PICK n \in Nat : n = Len(cache)
    BY <2>2
  <2>7. PICK ms : ms = Cached
    OBVIOUS
  <2>8. PICK ms2 : ms2 = messages'
    OBVIOUS
  <2>9. PICK rows : rows = kv
    OBVIOUS
  <2>10. RowsOf(rows, ms, e, n)
    BY <2>4, <2>5, <2>6, <2>7, <2>9
  <2>11. \A j \in 1..n : ms2[j] = ms[j]
    BY <2>2, <2>6, <2>7, <2>8 DEF Cached
  <2>12. RowsOf(rows, ms2, e, n)
    BY ONLY <2>10, <2>11, e \in Nat \ {0}, n \in Nat, RowsAgree
  <2> QED
    BY <2>2, <2>5, <2>6, <2>8, <2>9, <2>12
<1>4. NewRows'
  <2>1. start' \in Nat /\ promptEnd' \in Nat /\ start' <= promptEnd' /\ pos' = start'
    BY <1>2
  <2>2. PICK a \in Nat : a = start'
    BY <2>1
  <2>3. PICK b \in Nat : b = promptEnd'
    BY <2>1
  <2>4. \A p \in a..(a - 1) : FALSE
    OBVIOUS
  <2>5. a <= b
    BY <2>1, <2>2, <2>3
  <2>6. \A p \in b..(a - 1) : FALSE
    BY ONLY a \in Nat, b \in Nat, <2>5
  <2> QED
    BY <2>1, <2>2, <2>3, <2>4, <2>6 DEF NewRows, PromptRows, AnswerRows
<1>5. CacheRows' /\ NextReply'
  BY <1>2 DEF CacheRows, NextReply
<1> QED
  BY <1>3, <1>4, <1>5 DEF RowsInv

\* The rows of a chunk are the next tokens of the prompt; after the last one
\* the header of the answer is next, in whatever memory it was found.
LEMMA ChunkKeepsRows ==
  ASSUME ShapeInv, RowsInv, ApiChunk
  PROVE  RowsInv'
<1>1. PICK batch \in 1..NBatches :
           /\ pc = "prefill" /\ pos + batch <= promptEnd
           /\ kv' = Write(pos, SubSeq(delta, pos - start + 1, pos - start + batch))
           /\ pos' = pos + batch /\ pc' = "prefill"
           /\ token' \in IF pos - start + batch + 2 <= Len(delta) THEN {delta[pos - start + batch + 2]}
                         ELSE {delta[Len(delta)], AsStale(delta[Len(delta)])}
           /\ UNCHANGED <<mode, read, serverVars>>
  BY ChunkShape
<1>2. UNCHANGED <<cache, messages, params, delta, start, promptEnd, maxPred, unevaluated>>
  BY <1>1 DEF serverVars
<1>3. Serving /\ RequestShape
  BY <1>1 DEF Serving, ShapeInv
<1>4. /\ start \in Nat /\ promptEnd \in Nat /\ pos \in Nat /\ SeqLen \in Nat \ {0}
      /\ start <= promptEnd /\ promptEnd <= SeqLen /\ start <= pos /\ promptEnd >= 1
  BY <1>3, Place
<1>5. batch \in Nat /\ batch >= 1
  BY <1>1, ContextAssumption
<1>6. PICK body \in Seq(ApiTokens) :
           /\ delta \in Seq(ApiTokens) /\ Len(delta) = Len(body) + 1 /\ Len(body) \in Nat \ {0}
           /\ delta[Len(body) + 1] = Tok(Len(messages) + 1, params.reply, 1, "reply")
           /\ promptEnd = Least(SeqLen, start + Len(body))
  BY <1>3, DeltaShape
<1>7. promptEnd <= start + Len(body)
  BY <1>4, <1>6 DEF Least
<1>8. PICK k \in Nat : k = pos - start
  BY <1>4
<1>9. k + batch <= Len(body) /\ k + batch <= Len(delta)
  BY <1>1, <1>4, <1>5, <1>6, <1>7, <1>8
<1>10. PICK ts \in Seq(ApiTokens) :
         /\ ts = SubSeq(delta, pos - start + 1, pos - start + batch)
         /\ Len(ts) = batch /\ \A i \in 1..batch : ts[i] = delta[k + i]
  <2>1. PICK d \in Seq(ApiTokens) : d = delta /\ k + batch <= Len(d)
    BY <1>6, <1>9
  <2>2. /\ SubSeq(d, k + 1, k + batch) \in Seq(ApiTokens)
        /\ Len(SubSeq(d, k + 1, k + batch)) = batch
        /\ \A i \in 1..batch : SubSeq(d, k + 1, k + batch)[i] = d[k + i]
    BY ONLY k \in Nat, <1>5, <2>1
  <2>3. SubSeq(d, k + 1, k + batch) = SubSeq(delta, pos - start + 1, pos - start + batch)
    BY <1>8, <2>1
  <2> QED
    BY <2>1, <2>2, <2>3
<1>11. /\ \A q \in 0..(pos - 1) : kv'[q] = kv[q]
       /\ \A q \in pos..(pos + batch - 1) : kv'[q] = ts[q - pos + 1]
  <2>1. kv' = Write(pos, ts) /\ Len(ts) \in Nat /\ pos + Len(ts) <= SeqLen /\ Len(ts) = batch
    BY <1>1, <1>4, <1>5, <1>10
  <2>2. pos \in Nat
    BY <1>4
  <2>3. /\ \A q \in 0..(pos - 1) : Write(pos, ts)[q] = kv[q]
        /\ \A q \in pos..(pos + Len(ts) - 1) : Write(pos, ts)[q] = ts[q - pos + 1]
    BY ONLY <2>1, <2>2, WrittenRows
  <2> QED
    BY ONLY <2>1, <2>3
<1>12. KnownRows'
  <2>1. SUFFICES ASSUME ~unevaluated', start' > 0
                 PROVE  RowsOf(kv', messages', start', Known')
    BY DEF KnownRows
  <2>2. RowsOf(kv, messages, start, Known)
    BY <1>2, <1>3, <2>1 DEF RowsInv, KnownRows
  <2>3. PICK e \in Nat \ {0} : e = start
    BY <1>2, <1>4, <2>1
  <2>4. PICK n \in Nat : n = Known
    BY <1>3, Place
  <2>5. \A p \in 0..(e - 1) : kv'[p] = kv[p]
    BY <1>4, <1>11, <2>3
  <2>6. PICK rows2 : rows2 = kv'
    OBVIOUS
  <2>7. RowsOf(rows2, messages, e, n)
    BY <2>2, <2>3, <2>4, <2>5, <2>6, RowsAgree
  <2>8. Known' = n
    BY <1>2, <2>4 DEF Known
  <2> QED
    BY <1>2, <2>3, <2>6, <2>7, <2>8
<1>13. PromptRows(kv, pos)
  BY <1>3 DEF RowsInv, NewRows
<1>14. ASSUME NEW p \in start..(pos + batch - 1)
       PROVE  kv'[p] = delta[p - start + 1]
  <2>1. CASE p < pos
    <3>1. p \in 0..(pos - 1) /\ p \in start..(pos - 1) /\ p < promptEnd
      BY <1>1, <1>4, <1>5, <2>1
    <3> QED
      BY <1>11, <1>13, <3>1 DEF PromptRows
  <2>2. CASE p >= pos
    <3>1. PICK i \in 1..batch : i = p - pos + 1
      BY <1>4, <1>5, <2>2
    <3>2. p \in pos..(pos + batch - 1) /\ k + i = p - start + 1
      BY <1>4, <1>5, <1>8, <2>2, <3>1
    <3>3. kv'[p] = ts[i]
      BY <1>11, <3>1, <3>2
    <3> QED
      BY <1>10, <3>2, <3>3
  <2> QED
    BY <1>4, <1>5, <2>1, <2>2
<1>15. NewRows'
  <2>1. ASSUME NEW p \in promptEnd'..(pos' - 1)
        PROVE  FALSE
    BY <1>1, <1>2, <1>4, <1>5
  <2>2. PICK a \in Nat : a = start /\ start' = a
    BY <1>2, <1>4
  <2>3. PICK b \in Nat : b = pos + batch /\ pos' = b
    BY <1>1, <1>4, <1>5
  <2>4. PICK d : d = delta /\ delta' = d
    BY <1>2
  <2>5. PICK rows : rows = kv'
    OBVIOUS
  <2>6. \A p \in a..(b - 1) : rows[p] = d[p - a + 1]
    <3> TAKE p \in a..(b - 1)
    <3>1. p \in start..(pos + batch - 1) /\ p - start + 1 = p - a + 1
      BY <1>4, <1>5, <2>2, <2>3
    <3>2. kv'[p] = delta[p - start + 1]
      BY <1>14, <3>1
    <3> QED
      BY <2>4, <2>5, <3>1, <3>2
  <2>7. PromptRows(kv, pos)'
    BY <2>2, <2>3, <2>4, <2>5, <2>6 DEF PromptRows
  <2> QED
    BY <2>1, <2>7 DEF NewRows, AnswerRows
<1>16. NextReply'
  <2>1. SUFFICES ASSUME pos' >= promptEnd, pos' < SeqLen
                 PROVE  IsReply(token', Len(messages), params.reply, pos' - promptEnd + 1)
    BY <1>2 DEF NextReply
  <2>2. pos' = promptEnd /\ promptEnd = start + Len(body)
    <3>1. pos' = pos + batch /\ pos + batch <= promptEnd
      BY <1>1
    <3>2. pos' = promptEnd
      BY ONLY <1>4, <1>5, <2>1, <3>1
    <3> QED
      BY <1>4, <1>6, <2>1, <3>2 DEF Least
  <2>3. pos - start + batch + 2 = Len(delta) + 1
    <3>1. pos + batch = start + Len(body) /\ Len(body) \in Nat /\ Len(delta) = Len(body) + 1
      BY <1>1, <1>6, <2>2
    <3> QED
      BY ONLY <1>4, <1>5, <3>1
  <2>4. token' \in {delta[Len(delta)], AsStale(delta[Len(delta)])}
    BY <1>1, <1>6, <2>3
  <2>5. delta[Len(delta)] = [turn |-> Len(messages) + 1, of |-> params.reply, i |-> 1, kind |-> "reply"]
    BY <1>6 DEF Tok
  <2>6. /\ token'.turn = Len(messages) + 1 /\ token'.of = params.reply /\ token'.i = 1
        /\ token'.kind \in {"reply", "stale"}
    BY <2>4, <2>5 DEF AsStale
  <2>7. pos' - promptEnd + 1 = 1
    BY <1>4, <2>2
  <2> QED
    BY <2>6, <2>7 DEF IsReply
<1>17. CacheRows'
  BY <1>1 DEF CacheRows
<1> QED
  BY <1>12, <1>15, <1>16, <1>17 DEF RowsInv

\* RowsInv where a request stays the same and only its place changes.
LEMMA RowsStay ==
  ASSUME RowsInv, Serving, UNCHANGED <<pos, token, kv, serverVars>>,
         pc' \in {"prefill", "answer", "finish"},
         pc' \in {"prefill", "answer"} => pc \in {"prefill", "answer"} \/ ~(pos >= promptEnd /\ pos < SeqLen)
  PROVE  RowsInv'
<1>1. UNCHANGED <<cache, messages, params, delta, start, promptEnd, unevaluated>>
  BY DEF serverVars
<1>2. Known' = Known /\ Serving'
  BY <1>1 DEF Known, Serving
<1>3. KnownRows'
  BY <1>1, <1>2 DEF RowsInv, KnownRows
<1>4. NewRows'
  <2>1. PromptRows(kv, pos) /\ AnswerRows(kv, pos)
    BY DEF RowsInv, NewRows
  <2>2. PromptRows(kv, pos)'
    BY <1>1, <2>1 DEF PromptRows
  <2>3. AnswerRows(kv, pos)'
    BY <1>1, <2>1 DEF AnswerRows
  <2> QED
    BY <2>2, <2>3 DEF NewRows
<1>5. NextReply'
  BY <1>1 DEF RowsInv, NextReply
<1>6. CacheRows'
  BY DEF CacheRows
<1> QED
  BY <1>3, <1>4, <1>5, <1>6 DEF RowsInv

LEMMA OpenKeepsRows ==
  ASSUME ShapeInv, RowsInv, OpenStream
  PROVE  RowsInv'
<1>1. /\ pc = "open" /\ UNCHANGED <<pos, token, kv, cache, messages, params, delta, start, promptEnd, maxPred, workers>>
      /\ \/ pc' = "prefill" /\ unevaluated' = unevaluated
         \/ pc' = "accept" /\ unevaluated' = TRUE
  BY DEF OpenStream
<1>2. CASE pc' = "accept"
  BY <1>1, <1>2, RowsAside
<1>3. CASE pc' = "prefill"
  <2>1. Serving /\ RequestShape
    BY <1>1 DEF Serving, ShapeInv
  <2>2. pos = start
    BY <1>1, <2>1 DEF RequestShape
  <2>3. PICK body \in Seq(ApiTokens) :
           Len(body) \in Nat \ {0} /\ promptEnd = Least(SeqLen, start + Len(body))
    BY <2>1, DeltaShape
  <2>4. start \in Nat /\ SeqLen \in Nat
    BY <2>1, Place
  <2>5. ~(pos >= promptEnd /\ pos < SeqLen)
    BY <2>2, <2>3, <2>4 DEF Least
  <2>6. UNCHANGED serverVars
    BY <1>1, <1>3 DEF serverVars
  <2> QED
    BY <1>1, <1>3, <2>1, <2>5, <2>6, RowsStay
<1> QED
  BY <1>1, <1>2, <1>3

\* What the cache says after a request stopped behind its prompt.
LEMMA StoppedInAnswer ==
  ASSUME ShapeInv, Serving, NEW rows, NEW at \in Nat, at >= promptEnd, promptEnd < SeqLen,
         start > 0 => RowsOf(rows, messages, start, Known), PromptRows(rows, at)
  PROVE  RowsOf(rows, Cached, cache[Len(cache)].endPos, Len(cache))
<1>1. /\ promptEnd \in Nat /\ promptEnd >= 1 /\ Len(messages) \in Nat /\ Len(cache) = Len(messages)
      /\ cache[Len(cache)].endPos = promptEnd
      /\ \A j \in 1..Len(messages) : Cached[j] = messages[j]
  BY Place
<1>2. RowsOf(rows, messages, promptEnd, Len(messages))
  BY PromptEvaluated
<1>3. PICK e \in Nat \ {0} : e = promptEnd
  BY <1>1
<1>4. PICK n \in Nat : n = Len(messages)
  BY <1>1
<1>5. PICK ms : ms = messages
  OBVIOUS
<1>6. PICK ms2 : ms2 = Cached
  OBVIOUS
<1>7. RowsOf(rows, ms, e, n) /\ \A j \in 1..n : ms2[j] = ms[j]
  BY <1>1, <1>2, <1>3, <1>4, <1>5, <1>6
<1>8. RowsOf(rows, ms2, e, n)
  BY ONLY <1>7, e \in Nat \ {0}, n \in Nat, RowsAgree
<1> QED
  BY <1>1, <1>3, <1>4, <1>6, <1>8

\* A token of the answer is evaluated at its own position.
LEMMA AnswerKeepsRows ==
  ASSUME ShapeInv, RowsInv, Answer
  PROVE  RowsInv'
<1>1. /\ pc = "answer" /\ pos < maxPred /\ maxPred <= SeqLen /\ pos >= promptEnd
      /\ kv' = Write(pos, <<token>>)
      /\ token' = Tok(token.turn, token.of, token.i + 1, "reply")
      /\ pos' = pos + 1 /\ pc' \in {"answer", "finish", "accept"}
      /\ UNCHANGED serverVars
  BY AnswerShape
<1>2. UNCHANGED <<cache, messages, params, delta, start, promptEnd, maxPred, unevaluated>>
  BY <1>1 DEF serverVars
<1>3. Serving /\ RequestShape
  BY <1>1 DEF Serving, ShapeInv
<1>4. /\ start \in Nat /\ promptEnd \in Nat /\ pos \in Nat /\ SeqLen \in Nat \ {0}
      /\ start <= promptEnd /\ promptEnd <= SeqLen /\ start <= pos /\ promptEnd >= 1
      /\ Known \in Nat
  BY <1>3, Place
<1>5. pos < SeqLen /\ promptEnd < SeqLen
  <2>1. maxPred \in promptEnd..SeqLen
    BY <1>3 DEF RequestShape
  <2> QED
    BY <1>1, <1>4, <2>1
<1>6. IsReply(token, Len(messages), params.reply, pos - promptEnd + 1)
  BY <1>1, <1>5 DEF RowsInv, NextReply
<1>7. PICK rows : rows = kv'
  OBVIOUS
<1>8. (\A q \in 0..(pos - 1) : rows[q] = kv[q]) /\ rows[pos] = token
  <2>1. PICK ts : ts = <<token>>
    OBVIOUS
  <2>2. Len(ts) = 1 /\ ts[1] = token
    BY <2>1
  <2>a. Len(ts) \in Nat /\ pos + Len(ts) <= SeqLen
    BY <1>4, <1>5, <2>2
  <2>3. \A q \in 0..(pos - 1) : Write(pos, ts)[q] = kv[q]
    BY <1>4, <2>a, WrittenRows
  <2>4. \A q \in pos..(pos + Len(ts) - 1) : Write(pos, ts)[q] = ts[q - pos + 1]
    BY <1>4, <2>a, WrittenRows
  <2>5. pos \in pos..(pos + Len(ts) - 1) /\ pos - pos + 1 = 1
    BY <1>4, <2>2
  <2>6. Write(pos, ts)[pos] = token
    BY <2>2, <2>4, <2>5
  <2> QED
    BY <1>1, <1>7, <2>1, <2>3, <2>6
<1>9. ~unevaluated /\ start > 0 => RowsOf(rows, messages, start, Known)
  <2>1. SUFFICES ASSUME ~unevaluated, start > 0
                 PROVE  RowsOf(rows, messages, start, Known)
    OBVIOUS
  <2>2. PICK e \in Nat \ {0} : e = start
    BY <1>4, <2>1
  <2>3. PICK n \in Nat : n = Known
    BY <1>4
  <2>4. PICK ms : ms = messages
    OBVIOUS
  <2>5. PICK old : old = kv
    OBVIOUS
  <2>6. RowsOf(old, ms, e, n)
    BY <1>3, <2>1, <2>2, <2>3, <2>4, <2>5 DEF RowsInv, KnownRows
  <2>7. \A p \in 0..(e - 1) : rows[p] = old[p]
    <3> TAKE p \in 0..(e - 1)
    <3>1. p \in 0..(pos - 1)
      BY <1>4, <2>2
    <3> QED
      BY <1>8, <2>5, <3>1
  <2>8. RowsOf(rows, ms, e, n)
    BY ONLY <2>6, <2>7, e \in Nat \ {0}, n \in Nat, RowsAgree
  <2> QED
    BY <2>2, <2>3, <2>4, <2>8
<1>10. PromptRows(rows, pos + 1)
  <2>1. PromptRows(kv, pos)
    BY <1>3 DEF RowsInv, NewRows
  <2>2. ASSUME NEW p \in start..((pos + 1) - 1), p < promptEnd
        PROVE  rows[p] = delta[p - start + 1]
    <3>1. p \in start..(pos - 1) /\ p \in 0..(pos - 1)
      BY <1>1, <1>4, <2>2
    <3> QED
      BY <1>8, <2>1, <2>2, <3>1 DEF PromptRows
  <2> QED
    BY <2>2 DEF PromptRows
<1>11. AnswerRows(rows, pos + 1)
  <2>1. AnswerRows(kv, pos)
    BY <1>3 DEF RowsInv, NewRows
  <2>2. ASSUME NEW p \in promptEnd..((pos + 1) - 1)
        PROVE  IsReply(rows[p], Len(messages), params.reply, p - promptEnd + 1)
    <3>1. CASE p = pos
      BY <1>6, <1>8, <3>1
    <3>2. CASE p # pos
      <4>1. p \in promptEnd..(pos - 1) /\ p \in 0..(pos - 1)
        BY <1>4, <3>2
      <4> QED
        BY <1>8, <2>1, <4>1 DEF AnswerRows
    <3> QED
      BY <3>1, <3>2
  <2> QED
    BY <2>2 DEF AnswerRows
<1>12. CASE pc' = "accept"
  <2>1. ASSUME ~unevaluated'
        PROVE  RowsOf(kv', Cached', cache'[Len(cache')].endPos, Len(cache'))
    <3>1. start > 0 => RowsOf(rows, messages, start, Known)
      BY <1>2, <1>9, <2>1
    <3>2. pos + 1 \in Nat /\ pos + 1 >= promptEnd
      BY <1>1, <1>4
    <3>3. RowsOf(rows, Cached, cache[Len(cache)].endPos, Len(cache))
      BY <1>3, <1>5, <1>10, <3>1, <3>2, StoppedInAnswer
    <3>4. Cached' = Cached
      BY <1>2 DEF Cached
    <3> QED
      BY <1>2, <1>7, <3>3, <3>4
  <2> QED
    BY <1>12, <2>1, RowsAside
<1>13. CASE pc' \in {"answer", "finish"}
  <2>1. Known' = Known /\ Serving'
    BY <1>2, <1>13 DEF Known, Serving
  <2>2. KnownRows'
    BY <1>2, <1>7, <1>9, <2>1 DEF KnownRows
  <2>3. NewRows'
    <3>1. PromptRows(kv, pos)'
      BY <1>1, <1>2, <1>7, <1>10 DEF PromptRows
    <3>2. AnswerRows(kv, pos)'
      BY <1>1, <1>2, <1>7, <1>11 DEF AnswerRows
    <3> QED
      BY <3>1, <3>2 DEF NewRows
  <2>4. NextReply'
    <3>1. IsReply(token', Len(messages), params.reply, (pos + 1) - promptEnd + 1)
      <4>1. (pos + 1) - promptEnd + 1 = (pos - promptEnd + 1) + 1
        BY <1>4
      <4> QED
        BY <1>1, <1>6, <4>1 DEF IsReply, Tok
    <3> QED
      BY <1>1, <1>2, <3>1 DEF NextReply
  <2>5. CacheRows'
    BY <1>13 DEF CacheRows
  <2> QED
    BY <2>2, <2>3, <2>4, <2>5 DEF RowsInv
<1> QED
  BY <1>1, <1>12, <1>13

\* The answer is a message of the conversation, and its rows end where the
\* cache says; a full context leaves an empty cache.
LEMMA FinishKeepsRows ==
  ASSUME ShapeInv, RowsInv, Finish
  PROVE  RowsInv'
<1>1. /\ pc = "finish" /\ pc' = "accept" /\ kv' = kv
      /\ \/ pos = SeqLen /\ cache' = <<>>
         \/ /\ pos # SeqLen /\ unevaluated' = unevaluated
            /\ cache' = Append(cache, [msg |-> params.reply, endPos |-> pos])
  BY DEF Finish
<1>2. Serving /\ RequestShape /\ ApiShape
  BY <1>1 DEF Serving, ShapeInv
<1>3. /\ start \in Nat /\ promptEnd \in Nat /\ pos \in Nat /\ SeqLen \in Nat \ {0}
      /\ promptEnd <= SeqLen /\ start <= pos /\ pos <= SeqLen /\ promptEnd >= 1
      /\ Len(messages) \in Nat \ {0} /\ Len(cache) = Len(messages)
      /\ \A j \in 1..Len(messages) : Cached[j] = messages[j]
  BY <1>2, Place
<1>4. ASSUME ~unevaluated', cache' # <<>>
      PROVE  RowsOf(kv', Cached', cache'[Len(cache')].endPos, Len(cache'))
  <2>1. /\ pos # SeqLen /\ ~unevaluated
        /\ cache' = Append(cache, [msg |-> params.reply, endPos |-> pos])
    BY <1>1, <1>4
  <2>2. promptEnd < pos /\ promptEnd < SeqLen /\ pos >= promptEnd
    BY <1>1, <1>2, <1>3, <2>1 DEF RequestShape
  <2>3. PICK e \in Nat \ {0} : e = promptEnd
    BY <1>3
  <2>4. PICK n \in Nat \ {0} : n = Len(messages)
    BY <1>3
  <2>5. PICK to \in Nat : to = pos /\ e < to
    BY <1>3, <2>2, <2>3
  <2>6. RowsOf(kv, messages, promptEnd, Len(messages))
    <3>1. start > 0 => RowsOf(kv, messages, start, Known)
      BY <1>2, <2>1 DEF RowsInv, KnownRows
    <3>2. PromptRows(kv, pos)
      BY <1>2 DEF RowsInv, NewRows
    <3> QED
      BY <1>2, <1>3, <2>2, <3>1, <3>2, PromptEvaluated
  <2>7. PICK item : item = [msg |-> params.reply, endPos |-> pos]
    OBVIOUS
  <2>8. /\ Len(cache') = n + 1 /\ cache'[n + 1] = item
        /\ \A j \in 1..n : cache'[j] = cache[j]
    <3>1. cache \in Seq(CacheItems) /\ Len(cache) = n
      BY <1>2, <1>3, <2>4 DEF ApiShape
    <3>2. cache' = Append(cache, item)
      BY <2>1, <2>7
    <3> QED
      BY ONLY <3>1, <3>2, n \in Nat \ {0}
  <2>9. PICK ms2 : ms2 = Cached'
    OBVIOUS
  <2>10. PICK ms : ms = messages
    OBVIOUS
  <2>11. PICK rows : rows = kv
    OBVIOUS
  <2>12. PICK reply : reply = params.reply
    OBVIOUS
  <2>13. ms2[n + 1] = reply /\ \A j \in 1..n : ms2[j] = ms[j]
    <3>1. ms2 = [j \in 1..(n + 1) |-> cache'[j].msg]
      BY <2>8, <2>9 DEF Cached
    <3>2. n + 1 \in 1..(n + 1)
      OBVIOUS
    <3>3. ms2[n + 1] = cache'[n + 1].msg
      BY <3>1, <3>2
    <3>4. ASSUME NEW j \in 1..n
          PROVE  ms2[j] = ms[j]
      <4>1. j \in 1..(n + 1) /\ cache'[j] = cache[j]
        BY <2>8
      <4>2. ms2[j] = cache[j].msg
        BY <3>1, <4>1
      <4>3. Cached[j] = cache[j].msg
        BY <1>3, <2>4 DEF Cached
      <4> QED
        BY <1>3, <2>4, <2>10, <4>2, <4>3
    <3> QED
      BY <2>7, <2>8, <2>12, <3>3, <3>4
  <2>14. \A p \in e..(to - 1) : IsReply(rows[p], n, reply, p - e + 1)
    <3>1. AnswerRows(kv, pos)
      BY <1>2 DEF RowsInv, NewRows
    <3> QED
      BY <2>3, <2>4, <2>5, <2>11, <2>12, <3>1 DEF AnswerRows
  <2>15. RowsOf(rows, ms, e, n)
    BY <2>3, <2>4, <2>6, <2>10, <2>11
  <2>16. RowsOf(rows, ms2, to, n + 1)
    BY ONLY e \in Nat \ {0}, to \in Nat, <2>5, n \in Nat \ {0}, <2>13, <2>14, <2>15, RowsOfAnswer
  <2>17. cache'[Len(cache')].endPos = to
    BY <2>5, <2>7, <2>8
  <2> QED
    BY <1>1, <2>8, <2>9, <2>11, <2>16, <2>17
<1> QED
  BY <1>1, <1>4, RowsAside

\* A step that fails before the end of the prompt is what the property excludes;
\* one that fails later leaves the rows of the prompt.
LEMMA FailureKeepsRows ==
  ASSUME ShapeInv, RowsInv, StepFails
  PROVE  RowsInv'
<1>1. /\ \/ pc = "prefill" /\ pos < promptEnd
         \/ pc = "answer" /\ pos < maxPred
      /\ pc' \in {"accept", "restart", "terminated"}
      /\ unevaluated' = (unevaluated \/ pos < promptEnd)
      /\ UNCHANGED <<kv, cache>>
  BY DEF StepFails
<1>2. Serving /\ RequestShape
  BY <1>1 DEF Serving, ShapeInv
<1>3. /\ promptEnd \in Nat /\ pos \in Nat /\ SeqLen \in Nat \ {0} /\ promptEnd <= SeqLen
  BY <1>2, Place
<1>4. ASSUME ~unevaluated'
      PROVE  RowsOf(kv', Cached', cache'[Len(cache')].endPos, Len(cache'))
  <2>1. ~unevaluated /\ pos >= promptEnd /\ pos < maxPred
    <3>1. ~unevaluated /\ ~(pos < promptEnd)
      BY <1>1, <1>4
    <3> QED
      BY <1>1, <1>3, <3>1
  <2>2. promptEnd < SeqLen
    <3>1. maxPred \in promptEnd..SeqLen
      BY <1>2 DEF RequestShape
    <3> QED
      BY <1>3, <2>1, <3>1
  <2>3. (start > 0 => RowsOf(kv, messages, start, Known)) /\ PromptRows(kv, pos)
    BY <1>2, <2>1 DEF RowsInv, KnownRows, NewRows
  <2>4. RowsOf(kv, Cached, cache[Len(cache)].endPos, Len(cache))
    BY <1>2, <1>3, <2>1, <2>2, <2>3, StoppedInAnswer
  <2>5. Cached' = Cached
    BY <1>1 DEF Cached
  <2> QED
    BY <1>1, <2>4, <2>5
<1> QED
  BY <1>1, <1>4, RowsAside

LEMMA RowsKeep ==
  ASSUME ShapeInv, RowsInv, [ApiNext]_<<contextVars, serverVars>>
  PROVE  RowsInv'
<1>1. CASE Receive
  BY <1>1, ReceiveKeepsRows
<1>2. CASE OpenStream
  BY <1>2, OpenKeepsRows
<1>3. CASE ApiChunk
  BY <1>3, ChunkKeepsRows
<1>4. CASE ApiPrefillDone
  <2>1. pc = "prefill" /\ pc' = "answer" /\ UNCHANGED <<pos, token, kv, serverVars>>
    BY <1>4 DEF ApiPrefillDone
  <2> QED
    BY <2>1, RowsStay DEF Serving
<1>5. CASE Answer
  BY <1>5, AnswerKeepsRows
<1>6. CASE AnswerFull
  <2>1. pc = "answer" /\ pc' = "finish" /\ UNCHANGED <<pos, token, kv, serverVars>>
    BY <1>6 DEF AnswerFull
  <2> QED
    BY <2>1, RowsStay DEF Serving
<1>7. CASE Finish
  BY <1>7, FinishKeepsRows
<1>8. CASE StepFails
  BY <1>8, FailureKeepsRows
<1>9. CASE Restart
  <2>1. pc' = "accept" /\ cache' = <<>>
    BY <1>9 DEF Restart
  <2> QED
    BY <2>1, RowsAside
<1>10. CASE UNCHANGED <<contextVars, serverVars>>
  <2>1. UNCHANGED <<pc, pos, token, kv, cache, messages, params, delta, start, promptEnd, unevaluated>>
    BY <1>10 DEF contextVars, serverVars
  <2>2. Known' = Known /\ Cached' = Cached /\ Serving' = Serving
    BY <2>1 DEF Known, Cached, Serving
  <2>3. CacheRows'
    BY <2>1, <2>2 DEF RowsInv, CacheRows
  <2>4. KnownRows'
    BY <2>1, <2>2 DEF RowsInv, KnownRows
  <2>5. NewRows'
    <3>1. CASE Serving
      <4>1. PromptRows(kv, pos) /\ AnswerRows(kv, pos)
        BY <3>1 DEF RowsInv, NewRows
      <4>2. PromptRows(kv, pos)'
        BY <2>1, <4>1 DEF PromptRows
      <4>3. AnswerRows(kv, pos)'
        BY <2>1, <4>1 DEF AnswerRows
      <4> QED
        BY <4>2, <4>3 DEF NewRows
    <3>2. CASE ~Serving
      BY <2>2, <3>2 DEF NewRows
    <3> QED
      BY <3>1, <3>2
  <2>6. NextReply'
    BY <2>1 DEF RowsInv, NextReply
  <2> QED
    BY <2>3, <2>4, <2>5, <2>6 DEF RowsInv
<1> QED
  BY <1>1, <1>2, <1>3, <1>4, <1>5, <1>6, <1>7, <1>8, <1>9, <1>10 DEF ApiNext, Serve

\* A request that builds upon the prefix cache builds upon the rows of its own
\* messages, each complete and in order, unless a client was lost before the
\* rows of such a message were evaluated (NaiveCache and complete, for every
\* context, chunk, conversation and failure).
THEOREM PrefixesAreOurs == ApiSpec => []ReusedRowsAreOurs
<1>1. ApiInit => RowsInv
  BY DEF ApiInit, RowsInv, CacheRows, KnownRows, NewRows, NextReply, Serving
<1>2. RowsInv => ReusedRowsAreOurs
  <2>1. SUFFICES ASSUME RowsInv, pc \in {"prefill", "answer"}, start > 0, ~unevaluated
                 PROVE  RowsOf(kv, messages, start, Len(messages) - params.new)
    BY DEF ReusedRowsAreOurs
  <2> QED
    BY <2>1 DEF RowsInv, KnownRows, Serving, Known
<1> QED
  BY <1>1, <1>2, ShapeInit, ShapeKeeps, RowsKeep, PTL DEF ApiSpec

=============================================================================
