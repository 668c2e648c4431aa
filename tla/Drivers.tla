------------------------------ MODULE Drivers ------------------------------
(* The drivers of dllama.cpp on the root: inference (with or without the     *)
(* wave), perplexity, chat, and inferenceContinuousBatching for a file of    *)
(* prompts. A step of a driver is one turn of its loop: it sets positions    *)
(* and tokens, calls forward, and samples.                                   *)
EXTENDS RootContext

CONSTANTS
  PromptLengths,  \* tokens of a prompt; the templates of chat give at least 2
  StepLimits,     \* --steps
  MaxRequests,    \* bound: prompts of the file
  MaxActive       \* --decode-cb-max-active

ASSUME DriversAssumption ==
  /\ PromptLengths \subseteq Nat \ {0, 1} /\ StepLimits \subseteq Nat \ {0}
  /\ MaxRequests \in Nat \ {0} /\ MaxActive \in 1..NBatches

VARIABLES
  prompt,   \* the tokens being evaluated, without those of earlier turns
  base,     \* the position of its first token
  maxPos,   \* min(seqLen, steps)
  reqs,     \* CbRequestState of every prompt of the file
  cursor,   \* rrCursor, counted from 1
  dialog    \* history: every token a user gave or saw, in order, except the
            \* last one of a reply, which no driver evaluates

driverVars == <<prompt, base, maxPos, reqs, cursor, dialog>>

PromptOf(turn, n) == [i \in 1..n |-> Tok(turn, "text", i, "prompt")]
NextToken(t) == Tok(t.turn, t.of, t.i + 1, "reply")

---------------------------------------------------------------------------
\* Accepted by the checks before the loops.
Accepted(n, steps) == n <= SeqLen /\ n <= steps

TextInit(n) ==
  /\ prompt = PromptOf(1, n)
  /\ dialog = prompt
  /\ token = prompt[1]
  /\ reqs = <<>>

InferenceInit ==
  \E n \in PromptLengths, steps \in StepLimits :
    /\ mode = "inference" /\ Accepted(n, steps)
    /\ TextInit(n)
    /\ pc = "prefill" /\ phase = "prefill"
    /\ maxPos = Least(SeqLen, steps)

PerplexityInit ==
  \E n \in PromptLengths :
    /\ mode = "perplexity" /\ logitsMode # 2
    /\ TextInit(n)
    /\ pc = "score" /\ phase = "decode"
    /\ maxPos = n - 1

ChatInit ==
  /\ mode = "chat"
  /\ prompt = <<>> /\ dialog = <<>> /\ token = NoToken /\ reqs = <<>>
  /\ pc = "user" /\ phase = "prefill"
  /\ maxPos = SeqLen

Request(r, n, steps) ==
  [tokens |-> PromptOf(r, n), pos |-> 0, maxPos |-> Least(SeqLen, steps),
   token |-> PromptOf(r, n)[1], finished |-> FALSE]

BatchInit ==
  \E n \in 1..MaxRequests, steps \in StepLimits :
    /\ mode = "batch"
    /\ \E ns \in [1..n -> PromptLengths] :
         /\ \A r \in 1..n : Accepted(ns[r], steps)
         /\ reqs = [r \in 1..n |-> Request(r, ns[r], steps)]
    /\ prompt = <<>> /\ dialog = <<>> /\ token = NoToken
    /\ pc = "fill" /\ phase = "prefill"
    /\ maxPos = Least(SeqLen, steps)

DriversInit ==
  /\ logitsMode \in LogitsModes
  /\ InferenceInit \/ PerplexityInit \/ ChatInit \/ BatchInit
  /\ pos = 0 /\ base = 0 /\ cursor = 1
  /\ kv = [p \in Positions |-> Foreign]
  /\ held = "nothing" /\ read = "nothing"

---------------------------------------------------------------------------
\* A slip: the prompt not cut at the end of the context.
PrefillEndUncut == base + Len(prompt) - 1
\* The end of the prefill: in inference the last token but one, in chat the
\* same within the context.
PrefillEnd == Least(SeqLen, base + Len(prompt) - 1)

\* A slip: the index of chat in inference as well.
AfterChunkAsChat(k) ==
  IF k + 2 <= Len(prompt) THEN {prompt[k + 2]}
  ELSE {prompt[Len(prompt)], AsStale(prompt[Len(prompt)])}
\* token = inputTokens[pos] in inference. Chat takes inputTokens[i + 1]: past
\* the last token of the prompt after the last chunk, where a merge of the
\* tokenizer left a copy of that token, or nothing was ever written.
AfterChunk(k) ==
  IF mode = "inference" THEN {prompt[k + 1]}
  ELSE IF k + 2 <= Len(prompt) THEN {prompt[k + 2]}
  ELSE {prompt[Len(prompt)], AsStale(prompt[Len(prompt)])}

PrefillChunk ==
  /\ pc = "prefill" /\ pos < PrefillEnd
  /\ LET cap   == ResolvePrefillChunkBatchSize(PrefillEnd - base)
         batch == Least(PrefillEnd - pos, cap)
         k     == pos - base
     IN  /\ Evaluate(pos, SubSeq(prompt, k + 1, k + batch), "prefill")
         /\ pos' = pos + batch
         /\ token' \in AfterChunk(k + batch)
         /\ pc' = Then(pos, batch, pc)
  /\ read' = "nothing"
  /\ UNCHANGED <<mode, logitsMode, driverVars>>

\* A slip: the decode phase not set after the prompt.
PrefillPhaseKept ==
  /\ pc = "prefill" /\ pos >= PrefillEnd
  /\ pc' = "decode"
  /\ UNCHANGED <<mode, logitsMode, phase, pos, token, kv, held, read, driverVars>>

\* drainPrefillLogits, then the decode phase.
PrefillDone ==
  /\ pc = "prefill" /\ pos >= PrefillEnd
  /\ pc' = "decode" /\ phase' = "decode"
  /\ UNCHANGED <<mode, logitsMode, pos, token, kv, held, read, driverVars>>

\* One token evaluated and the next sampled. A reply of chat ends with EOS.
DecodeStep ==
  /\ pc = "decode" /\ pos < maxPos
  /\ Evaluate(pos, <<token>>, phase)
  /\ read' = SampleSource(phase, 1)
  /\ token' = NextToken(token)
  /\ pos' = pos + 1
  /\ \/ dialog' = Append(dialog, token') /\ pc' = Then(pos, 1, pc)
     \/ mode = "chat" /\ dialog' = dialog /\ pc' = Then(pos, 1, "user")
  /\ UNCHANGED <<mode, logitsMode, prompt, base, maxPos, reqs, cursor>>

\* The end of the loop of inference, perplexity, or of chat's last reply.
LoopDone ==
  /\ pc \in {"decode", "score"} /\ pos >= maxPos
  /\ pc' = "done"
  /\ UNCHANGED <<mode, logitsMode, phase, pos, token, kv, held, read, driverVars>>

\* The next line of the user in chat: its tokens follow the last row.
UserTurn ==
  /\ pc = "user" /\ pos < SeqLen
  /\ \E n \in PromptLengths :
       prompt' = PromptOf(IF prompt = <<>> THEN 1 ELSE prompt[1].turn + 1, n)
  /\ dialog' = dialog \o prompt'
  /\ base' = pos
  /\ pc' = "prefill"
  /\ UNCHANGED <<mode, logitsMode, phase, pos, token, kv, held, read,
                 maxPos, reqs, cursor>>

EndOfContext ==
  /\ pc = "user" /\ pos >= SeqLen
  /\ pc' = "done"
  /\ UNCHANGED <<mode, logitsMode, phase, pos, token, kv, held, read, driverVars>>

\* perplexity: evaluate a token, read the probability of its successor.
Score ==
  /\ pc = "score" /\ pos < maxPos
  /\ Evaluate(pos, <<prompt[pos + 1]>>, phase)
  /\ read' = "logits"
  /\ pos' = pos + 1
  /\ token' = prompt[pos + 2]
  /\ pc' = Then(pos, 1, pc)
  /\ UNCHANGED <<mode, logitsMode, driverVars>>

---------------------------------------------------------------------------
\* Continuous batching. First the prompts one after the other, all from
\* position 0 of the one cache.
\* A slip: <= for <.
UnfilledToTheEnd == {r \in DOMAIN reqs : reqs[r].pos + 1 <= Len(reqs[r].tokens)}
Unfilled == {r \in DOMAIN reqs : reqs[r].pos + 1 < Len(reqs[r].tokens)}

FillRequest ==
  /\ pc = "fill"
  /\ \E r \in Unfilled :
       LET q     == reqs[r]
           rest  == Len(q.tokens) - 1 - q.pos
           batch == Least(rest, ResolvePrefillChunkBatchSize(Len(q.tokens) - 1))
       IN  /\ \A other \in Unfilled : r <= other
           /\ Evaluate(q.pos, SubSeq(q.tokens, q.pos + 1, q.pos + batch), "prefill")
           /\ reqs' = [reqs EXCEPT ![r].pos = q.pos + batch,
                                   ![r].token = q.tokens[q.pos + batch + 1]]
           /\ pc' = Then(q.pos, batch, pc)
  /\ UNCHANGED <<mode, logitsMode, pos, token, read, prompt, base, maxPos, cursor, dialog>>

Filled ==
  /\ pc = "fill" /\ Unfilled = {}
  /\ pc' = "round" /\ phase' = "decode"
  /\ UNCHANGED <<mode, logitsMode, pos, token, kv, held, read, driverVars>>

Active == {r \in 1..Len(reqs) : ~reqs[r].finished /\ reqs[r].pos < reqs[r].maxPos}

\* The places of a request behind the cursor, around the end of the file.
\* A slip: every round from the first request on.
TurnFromFirst(r) == r
Turn(r) == IF r < cursor THEN Len(reqs) + r - cursor ELSE r - cursor

\* The requests of the next round: the first MaxActive from the cursor on.
Picked == {r \in Active : Cardinality({s \in Active : Turn(s) < Turn(r)}) < MaxActive}
LastOf(rs) == {r \in rs : \A s \in rs : Turn(s) <= Turn(r)}

\* One row per picked request at its own position: rows of one step that fall
\* on the same position leave the last of them in the cache.
WriteRound ==
  [p \in Positions |->
     LET here == {r \in Picked : reqs[r].pos = p}
     IN  IF here = {} THEN kv[p] ELSE reqs[CHOOSE r \in LastOf(here) : TRUE].token]

Round ==
  /\ pc = "round" /\ Active # {}
  /\ kv' = WriteRound
  /\ held' = Delivered(phase, Cardinality(Picked))
  /\ read' = "logits"
  /\ \E eos \in SUBSET Picked :
       reqs' = [r \in DOMAIN reqs |->
          IF r \in Picked
          THEN [reqs[r] EXCEPT !.pos = @ + 1, !.token = NextToken(@),
                  !.finished = r \in eos \/ reqs[r].pos + 1 >= reqs[r].maxPos]
          ELSE reqs[r]]
  /\ \E last \in LastOf(Picked) : cursor' = (last % Len(reqs)) + 1
  /\ UNCHANGED <<mode, logitsMode, pc, phase, pos, token, prompt, base, maxPos, dialog>>

RoundsDone ==
  /\ pc = "round" /\ Active = {}
  /\ pc' = "done"
  /\ UNCHANGED <<mode, logitsMode, phase, pos, token, kv, held, read, driverVars>>

\* The loops, without waiting for the user.
DriversLoops ==
  \/ PrefillChunk \/ PrefillDone \/ DecodeStep \/ LoopDone \/ Score
  \/ FillRequest \/ Filled \/ Round \/ RoundsDone

DriversNext == DriversLoops \/ UserTurn \/ EndOfContext

DriversSpec == DriversInit /\ [][DriversNext]_<<contextVars, driverVars>>

---------------------------------------------------------------------------
\* The token at a place of the dialog, up to the slip of chat: the last token
\* of a prompt may have been evaluated as whatever the buffer held behind it.
SameToken(row, t) ==
  \/ row = t
  \/ mode = "chat" /\ t.kind = "prompt" /\ row = AsStale(t)

\* The context a token is sampled from is the dialog, every token of it at its
\* own position, none missing, none twice, none left over from a longer chunk,
\* through every chunk of the prompt, every turn and every sampled token
\* (the loops of inference, perplexity and chat; continuous batching of a
\* single request, since the requests of a file share the rows).
ContextIsDialog == pc # "aborted" =>
  /\ mode \in {"inference", "perplexity", "chat"} =>
       /\ pos <= Len(dialog)
       /\ \A p \in 0..(pos - 1) : SameToken(kv[p], dialog[p + 1])
  /\ mode = "batch" /\ Len(reqs) = 1 =>
       \A p \in 0..(reqs[1].pos - 1) : kv[p].turn = 1 /\ kv[p].i = p + 1

\* Inference and chat sample from what the last step left them, token, top-k
\* list or logits: forward and sampleToken decide that apart, from the phase
\* the driver set, and in the prefill phase --pp-token-only leaves an index
\* where sampleToken looks for logits. The other programs read the logits
\* pipe after every step; they are right without --pp-token-only and --pp-topk
\* only, and left out.
LogitsFresh ==
  mode \in {"inference", "chat"} /\ read # "nothing" => read = held

\* No request of a file waits while another one gets two tokens: the decode
\* steps of two requests that both still run differ by at most one
\* (the round robin of inferenceContinuousBatching).
Decoded(r) == reqs[r].pos - (Len(reqs[r].tokens) - 1)
RoundRobinFair ==
  pc = "round" => \A r, s \in Active : Decoded(r) <= Decoded(s) + 1
=============================================================================
