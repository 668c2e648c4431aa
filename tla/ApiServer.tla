----------------------------- MODULE ApiServer -----------------------------
(* dllama-api: one HTTP request at a time. ApiServer::complete looks the     *)
(* request's messages up in the NaiveCache, whose items say at which row of  *)
(* the key/value cache a message ends, evaluates what is new, answers, and   *)
(* adds the answer to the cache. A lost client is a NnTransferSocketException*)
(* that the server loop catches, and so is a lost worker the root cannot     *)
(* write to; a step that fails with a NnExecutorException ends               *)
(* runInferenceApp, and main starts over with everything new.                *)
EXTENDS RootContext, SequencesExt

CONSTANTS
  Contents,     \* contents of messages
  TokensOf,     \* their numbers of tokens
  MaxMessages,  \* bound: messages of a request
  MaxTokens     \* values of max_tokens, 0: not given

ASSUME ServerAssumption ==
  /\ TokensOf \in [Contents -> Nat \ {0}]
  /\ MaxMessages \in Nat \ {0} /\ MaxTokens \subseteq Nat

VARIABLES
  cache,       \* NaiveCache: [msg, endPos] per message
  messages,    \* params.messages
  params,      \* [stream, maxTokens, delta: messages that are new, reply]
  delta,       \* promptTokens
  start,       \* startPos
  promptEnd,   \* promptEndPos
  maxPred,     \* maxPredPos
  workers,     \* "up", or "lost" with nobody having noticed
  unevaluated  \* history: a request whose messages are in the cache stopped
               \* before their rows were evaluated

serverVars ==
  <<cache, messages, params, delta, start, promptEnd, maxPred, workers, unevaluated>>

Requests == UNION {[1..n -> Contents] : n \in 1..MaxMessages}
NoParams == [stream |-> FALSE, new |-> 0, reply |-> ""]

---------------------------------------------------------------------------
\* A slip: only the last cached message is compared.
ResolvedByLast(ms) ==
  IF cache # <<>> /\ Len(ms) > Len(cache) /\ cache[Len(cache)].msg = ms[Len(cache)]
  THEN Len(cache) ELSE 0

\* How many leading messages of the request the cache stands for: all of its
\* items or none, and there must be a message left to evaluate.
Resolved(ms) ==
  IF cache # <<>> /\ Len(ms) > Len(cache) /\ \A i \in DOMAIN cache : cache[i].msg = ms[i]
  THEN Len(cache) ELSE 0

\* encode of the generated chat: BOS at position 0, the tokens of the messages
\* after the first k, and one token of the header of the answer.
Encode(ms, k) ==
  FlattenSeq([j \in 1..(Len(ms) - k) |->
    [i \in 1..TokensOf[ms[k + j]] |-> Tok(k + j, ms[k + j], i, "prompt")]])

PromptTokens(ms, k, isStart, reply) ==
  (IF isStart THEN <<Tok(0, "", 1, "reply")>> ELSE <<>>)
    \o Encode(ms, k) \o <<Tok(Len(ms) + 1, reply, 1, "reply")>>

\* cache.clear() on a mismatch.
Kept(k) == SubSeq(cache, 1, k)

\* complete up to the first write: the new messages are pushed with the end of
\* the prompt before anything is evaluated. A prompt that starts at position 0
\* makes every row a foreign one (history: rows have no owner in the code).
Receive ==
  /\ pc = "accept"
  /\ \E ms \in Requests, stream \in BOOLEAN, max \in MaxTokens, reply \in Contents :
       LET k    == Resolved(ms)
           from == IF k = 0 THEN 0 ELSE cache[k].endPos
           toks == PromptTokens(ms, k, from = 0, reply)
           end  == Least(SeqLen, from + Len(toks) - 1)
       IN  /\ messages' = ms
           /\ params' = [stream |-> stream, new |-> Len(ms) - k, reply |-> reply]
           /\ delta' = toks
           /\ start' = from /\ pos' = from
           /\ promptEnd' = end
           /\ maxPred' = IF max > 0 THEN Least(SeqLen, end + max) ELSE SeqLen
           /\ cache' = Kept(k)
                \o [j \in 1..(Len(ms) - k) |-> [msg |-> ms[k + j], endPos |-> end]]
           /\ unevaluated' = (k > 0 /\ unevaluated)
           /\ kv' = IF from = 0 THEN [p \in Positions |-> Foreign] ELSE kv
  /\ pc' = "open" /\ token' = NoToken /\ read' = "nothing"
  /\ UNCHANGED <<mode, logitsMode, phase, held, workers>>

\* writeStreamStartChunk and the public prompt; a client that is gone by now
\* leaves its messages in the cache.
OpenStream ==
  /\ pc = "open"
  /\ \/ pc' = "prefill" /\ UNCHANGED unevaluated
     \/ params.stream /\ pc' = "accept" /\ unevaluated' = TRUE
  /\ UNCHANGED <<mode, logitsMode, phase, pos, token, kv, held, read,
                 cache, messages, params, delta, start, promptEnd, maxPred, workers>>

\* forward fails. The control packet cannot be written: the exception is of
\* the kind the server takes for a lost client, and it goes on to the next
\* one. Or the executor fails: runInferenceApp ends and main starts over. Or
\* the pipeline fails: a runtime_error that nobody catches.
StepFails ==
  /\ \/ pc = "prefill" /\ pos < promptEnd
     \/ pc = "answer" /\ pos < maxPred
  /\ workers' = "lost"
  /\ \/ pc' = "accept"
     \/ workers = "up" /\ pc' \in {"restart", "terminated"}
  /\ unevaluated' = (unevaluated \/ pos < promptEnd)
  /\ UNCHANGED <<mode, logitsMode, phase, pos, token, kv, held, read,
                 cache, messages, params, delta, start, promptEnd, maxPred>>

\* main: "Retrying in 3 seconds", with a new network, cache and ApiServer.
Restart ==
  /\ pc = "restart"
  /\ pc' = "accept" /\ workers' = "up"
  /\ cache' = <<>> /\ unevaluated' = FALSE
  /\ phase' = "prefill" /\ held' = "nothing" /\ read' = "nothing"
  /\ messages' = <<>> /\ params' = NoParams /\ delta' = <<>>
  /\ start' = 0 /\ promptEnd' = 0 /\ maxPred' = 0
  /\ pos' = 0 /\ token' = NoToken /\ kv' = [p \in Positions |-> Foreign]
  /\ UNCHANGED <<mode, logitsMode>>

\* A chunk of the prompt. The phase is never set: it stays prefill. After the
\* last chunk promptTokens[i + 1] lies past the prompt.
ApiChunk ==
  /\ pc = "prefill" /\ pos < promptEnd /\ workers = "up"
  /\ LET cap   == ResolvePrefillChunkBatchSize(promptEnd - start)
         batch == Least(promptEnd - pos, cap)
         k     == pos - start + batch
     IN  /\ Evaluate(pos, SubSeq(delta, k - batch + 1, k), phase)
         /\ pos' = pos + batch
         /\ token' \in IF k + 2 <= Len(delta) THEN {delta[k + 2]}
                       ELSE {delta[Len(delta)], AsStale(delta[Len(delta)])}
         /\ pc' = Then(pos, batch, pc)
  /\ UNCHANGED <<mode, logitsMode, read, serverVars>>

ApiPrefillDone ==
  /\ pc = "prefill" /\ pos >= promptEnd
  /\ pc' = "answer"
  /\ UNCHANGED <<mode, logitsMode, phase, pos, token, kv, held, read, serverVars>>

\* A token of the answer, sampled from the logits pipe, whatever the last stage
\* was built to leave there; the next step, the end at
\* EOS, or a client of a stream that is gone.
Answer ==
  /\ pc = "answer" /\ pos < maxPred /\ workers = "up"
  /\ Evaluate(pos, <<token>>, phase)
  /\ read' = "logits"
  /\ token' = Tok(token.turn, token.of, token.i + 1, "reply")
  /\ pos' = pos + 1
  /\ \/ pc' \in {Then(pos, 1, "answer"), Then(pos, 1, "finish")}
     \/ params.stream /\ pc' = Then(pos, 1, "accept")
  /\ UNCHANGED <<mode, logitsMode, serverVars>>

AnswerFull ==
  /\ pc = "answer" /\ pos >= maxPred
  /\ pc' = "finish"
  /\ UNCHANGED <<mode, logitsMode, phase, pos, token, kv, held, read, serverVars>>

\* The answer into the cache, or the cache cleared when the context is full;
\* then the last write, which the client gets or not.
Finish ==
  /\ pc = "finish"
  /\ IF pos = SeqLen
     THEN cache' = <<>> /\ unevaluated' = FALSE
     ELSE /\ cache' = Append(cache, [msg |-> params.reply, endPos |-> pos])
          /\ UNCHANGED unevaluated
  /\ pc' = "accept"
  /\ UNCHANGED <<mode, logitsMode, phase, pos, token, kv, held, read,
                 messages, params, delta, start, promptEnd, maxPred, workers>>

\* dllama-api is started without a mode, which runInferenceApp compares with
\* "perplexity" when --pp-topk is given: there is no server with top-k.
ApiInit ==
  /\ mode = "server" /\ logitsMode \in LogitsModes \ {2}
  /\ pc = "accept" /\ phase = "prefill"
  /\ pos = 0 /\ token = NoToken /\ kv = [p \in Positions |-> Foreign]
  /\ held = "nothing" /\ read = "nothing"
  /\ cache = <<>> /\ messages = <<>> /\ params = NoParams /\ delta = <<>>
  /\ start = 0 /\ promptEnd = 0 /\ maxPred = 0
  /\ workers = "up" /\ unevaluated = FALSE

\* A request on its way to its answer, and the start of a new server.
Serve ==
  \/ OpenStream \/ ApiChunk \/ ApiPrefillDone
  \/ Answer \/ AnswerFull \/ Finish
  \/ StepFails \/ Restart

ApiNext == Receive \/ Serve

ApiSpec == ApiInit /\ [][ApiNext]_<<contextVars, serverVars>>

---------------------------------------------------------------------------
\* b is the token after a: in the same turn, or the first of the next one once
\* a message is complete (where a reply ends is up to the model).
Follows(a, b) ==
  \/ b.turn = a.turn /\ b.i = a.i + 1
  \/ /\ b.turn = a.turn + 1 /\ b.i = 1
     /\ a.kind = "prompt" => a.i = TokensOf[a.of]

\* The rows below e are those of BOS and of the first n messages of ms, each
\* evaluated completely and in order.
RowsOf(rows, ms, e, n) ==
  /\ rows[0].turn = 0 /\ rows[0].i = 1
  /\ \A p \in 1..(e - 1) : Follows(rows[p - 1], rows[p])
  /\ \A p \in 0..(e - 1) :
       rows[p].turn \in 0..n /\ (rows[p].turn > 0 => rows[p].of = ms[rows[p].turn])
  /\ rows[e - 1].turn = n
  /\ rows[e - 1].kind = "prompt" => rows[e - 1].i = TokensOf[rows[e - 1].of]

\* The rows a request builds upon are those of its own messages, from the
\* first to the last one the cache claims: no row of another conversation, of
\* a longer answer or of a branch the client went back from. The row of a
\* prompt's last token, the first of the answer's turn, may be the stale one
\* that complete takes from past the end of the prompt. Excluded is a conversation of which a client was
\* lost before its prompt was evaluated (NaiveCache and the two loops of
\* complete).
ReusedRowsAreOurs ==
  mode = "server" /\ pc \in {"prefill", "answer"} /\ start > 0 /\ ~unevaluated =>
    RowsOf(kv, messages, start, Len(messages) - params.new)
=============================================================================
