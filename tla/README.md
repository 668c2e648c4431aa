# Verification of layer-skip-bypass

The repository is a C++ engine for distributed LLM inference (a fork of
distributed-llama) with an experimental *stage skip*: a pipeline stage may be
bypassed on a decode step when the activation entering the stage before it
hardly changed. This directory holds TLA+ models of the parts of the engine
that keep state and talk to each other, the TLC configurations that check them,
and TLAPS proofs of what holds for every size of a system. Paths are relative to
the repository (`src/app.cpp` is the file the manifest calls `src/src/app.cpp`).

How to run: `tlc -config X.cfg M` for the module and configuration of a run in
`PROJECT.json`; `tlapm M.tla` for `StagePipelineProofs`, `DeltaTransportProofs`,
`ExecutorProofs`, `AllReduceProofs`, `NetworkBringUpProofs`, `ModelLoadingProofs`,
`RootAppProofs` and `GatewayProofs`.

## 1. Inventory

| Component | State | Operations | Peers | What makes it correct |
|---|---|---|---|---|
| Pipeline inference with stage skip (`app.cpp` `RootLlmInference`, `WorkerLlmInference`, `runWorkerApp`) | control packet, phase, previous row, last norm, accept and reject counters, KV caches | `forward`, `forwardPrefillNoWait`, `drainPrefillLogits`, `finish`; `tryReadControlPacket`, `beforeForward`, `evaluateStageSkipDecision`, `afterForward` | sockets between root and every stage, and between neighbouring stages | all stages work on the same step; an answer comes from the right stages; KV holes only where a step was bypassed; runs of bypassed steps bounded; every call returns or throws, whoever dies |
| Pipeline communicator (`nn/nn-pipeline.cpp`) | previous sent and received row per socket | `sendActivation`, `recvActivation`, `tryRecvActivation` | network | both ends of a link keep in step |
| Executor (`nn/nn-executor.cpp`) | epoch, step index, two barrier counters, three flags, condition variable | `forward`, destructor, pool thread loop | one owner thread, n pool threads | lockstep, no work after a normal return, no hang after a failure |
| Collectives and KV exchange (`nn/nn-network.cpp` `sync*`) | rows of pipes, key and value buffers | star and ring all-reduce, broadcast, pairwise exchange of KV rows | sockets within a group | every node ends with the sum, or with all rows; no cyclic wait |
| Network bring-up (`NnNetwork::serve`, `connect`) | sockets by index | root connects to all; workers accept and connect to each other | all nodes | socket i leads to node i; ends |
| Topology (`nn/nn-topology.hpp`) | — | node index to (pp, sp, tp) and back, stage of a layer | — | bijection; builder and loader agree |
| Configuration and weight distribution | stream position, acknowledgements, loaded parts | root writes, workers read | root and every worker | same order at both ends; every node has its parts; ends |
| SpGroupScheduler | role and request of each sp group | assign, release | drivers | — |
| Drivers (`dllama.cpp`) | position, token, KV rows, requests of a file | prefill in chunks, generation, perplexity, chat, continuous batching | root inference | positions consecutive and within the context; sampled from what the last step left; fair |
| HTTP API server (`dllama-api.cpp`) | prompt prefix cache | one request at a time | root inference | the cached prefix is the one the KV caches hold |
| Gateway (`dllama-gateway.cpp`) | active requests, in-flight count and health per replica, round-robin cursor | admit, select, proxy, release | clients, replicas | counters match the requests, limits hold |
| Slicing (`nn/nn-core.cpp`, `SPLIT_THREADS`) | — | ranges of threads, slices of weights, heads | — | every item to exactly one; the right KV head |
| Graph builder, kernels, tokenizer, JSON, mmap, converters | data | sequential | — | numeric, or pure I/O |

How they interact: the root brings up the network, writes configurations and
weights, then runs one program (a driver or the server), whose every step is a
`forward` through the pipeline; each stage computes with its executor, and the
executor's threads call the collectives between segments. The gateway stands
before several API servers.

What is hard here: every stage is a process of its own, reads control packets
from one socket and activations from another, and no message is acknowledged;
the bypassed stage runs several steps behind; the stage after it cannot know
which of two sockets its next input will use; a wave sends many activations
before anyone reads logits; a process that dies is noticed one socket at a time;
the executor is a hand-made barrier of atomics with a failure path through it;
collectives follow each other on blocking sockets with nothing but byte order
between them; the network comes up through connections that carry no name; the
threads of the gateway give counters back on many paths; loops over chunks,
slices and layers are written out several times, and only their arithmetic makes
them agree. The hazards are listed one by one, each at its line, in `PROJECT.json`.

## 2. Modules

| Module | Models | Kind |
|---|---|---|
| `StagePipeline` | root, worker stages and the sockets between them, with stage skip and killed processes | model, properties |
| `StageSkipContract` | what the pipeline promises to the driver | abstract specification |
| `StagePipelineProofs` | theorems about `StagePipeline`: types, the bound of a run of accepted steps; routes, answers, KV caches, backlog, and the contract | proofs |
| `DeltaTransport`, `DeltaTransportProofs` | the two copies of a row at the ends of a socket with `--pipeline-delta 1`; theorems about them | model, proofs |
| `Executor` | the thread pool `NnExecutor` | model, properties |
| `ForwardContract` | what `NnExecutor::forward` promises its caller | abstract specification |
| `ExecutorProofs` | theorems about `Executor`, and its contract | proofs |
| `AllReduce` | `NnNetworkNodeSynchronizer::sync` of a group of nodes: star, ring, broadcast, KV exchange | model, properties |
| `AllReduceProofs` | theorems about `AllReduce` | proofs |
| `NetworkBringUp` | `NnNetwork::connect` and `serve`, roots and workers that die and come back | model, properties |
| `NetworkBringUpProofs` | theorems about `NetworkBringUp` | proofs |
| `Topology` | `NnParallelTopology`, the stage of a layer, the receivers of a weight | operators |
| `Slices` | ranges of threads, slices of weights, heads | operators |
| `ModelLoading`, `MCModelLoading` | configuration handshake and weight distribution over `Topology`; its instance for TLC | model, properties |
| `ModelLoadingProofs` | theorems about `Topology`, `Slices` and `ModelLoading` | proofs |
| `RootContext` | the context of the model and `forward` as the root's programs see it | shared state, properties |
| `Drivers`, `ApiServer` | the programs of `dllama` and `dllama-api` over `RootContext` | models, properties |
| `MCRootApp` | one of the programs per behaviour | composition for TLC |
| `RootAppProofs` | theorems about `Drivers` and `ApiServer` | proofs |
| `Gateway`, `MCGateway` | the threads of `dllama-gateway` and what they share; its instance for TLC | model, properties |
| `GatewayProofs` | theorems about `Gateway` | proofs |

Definitions commented "A slip: ..." are not part of a specification: each is a
plausible mistake in the definition after it, and PROJECT.json names the
property that catches it.

### StagePipeline

One *step* is one call of `forward()` or `forwardPrefillNoWait()`. Steps are
numbered 0, 1, 2, ...; the code's position is strictly increasing over steps
within a prompt, and only comparisons of positions for equality matter in the
code, so the number of the step stands for the position.

| Variable | Code |
|---|---|
| `mode` | `stageSkipEnabled`, `stageSkipShadow` of the control packet: off, shadow (decide and log), execute |
| `rootPc`, `nextPos`, `waveChunks` | where the driver thread is; `waveChunkCount` of `dllama.cpp:335` |
| `chan[<<i, j>>]` | bytes written by stage i to stage j and not read: control packets, activations, markers, in order |
| `pc[w]`, `cur[w]` | where stage w is in the loop of `runWorkerApp`, and its copy of the control packet |
| `xPipe[w]` | the activation in its pipe: the set of passes `<<stage, step>>` it went through |
| `kv[s]` | steps whose rows stage s wrote to its KV cache |
| `hasPrevXPipeRow`, `hasLastDeltaNorm`, `skipConsecutiveAccepts`, `skipRejectStreak`, `lastAccept` | fields of the decision stage |
| `answer`, `accepted`, `firstDecode` | the logits the root holds; two histories for the properties |

| Action | Code |
|---|---|
| `RootStart`, `RootForward`, `RootRecvLogits` | `RootLlmInference::forward`: broadcast, compute and send, receive |
| `RootStartChunk`, `RootStartDrain`, `RootRecvLogits` | wave prefill, `dllama.cpp:332-393` |
| `RootFinish`, `ReadStop` | `finish()` and its effect |
| `ReadControlPacket` | `tryReadControlPacket`, with the reset on a phase change |
| `RecvActivation`, `ProbeBypass`, `ProbeNormal` | `beforeForward`: the plain receive, and the two probes of the polling loop |
| `Forward` | `executor.forward()` |
| `EvaluateStageSkipDecision` | the decision, with its two counters; the comparison with theta is a free Boolean |
| `SendMarker`, `SendBypass`, `SendActivation` | `afterForward` |
| `RootThrows`, `BroadcastThrows`, `SessionEnds`, `PollTimeout` | what a process does when the socket it reads or writes is closed at the other end, or when the poll loop has waited for 30 s |
| `WorkerKilled`, `RootKilled` | the environment: one process of `Mortal` is killed, at any time |

Blocking is modelled where the code blocks: a send waits while the socket holds
`SocketCapacity` activations (control packets and markers are a few hundred
bytes and never wait), a receive waits for a frame, and a probe waits too when
the socket is in blocking mode (`NetTurbo = FALSE`). `Peer(w)` is the process
whose end of a socket stage w waits for: when that process is gone and nothing is
left to read, or there is no room to write, the exception ends the session of w.
The polling stage is the exception: `recvActivation` answers a probe with false
when it throws (`nn/nn-pipeline.cpp:420`), so that a closed socket looks like an
empty one (`FindsNothing`), frames that wait in it may be lost, and the stage polls
on until its 30 s are over (`PollTimeout`).
A broadcast to a closed socket may succeed (the kernel has not heard of it) or
throw. After a failure the model ends; a worker that listens again, and a root
that is started again, are `NetworkBringUp`.

Left out: several nodes in one stage; the statistics; the form of the logits
(`RootContext` has it). A prefill chunk of one row is taken for one of several:
nothing looks at the size of a prefill step.

### DeltaTransport

One socket in one direction. `prevSend` and `prevRecv` are `prevSendBySocket` and
`prevRecvBySocket` of its ends; `SendFull`, `SendDelta` and `SendMarker` are the
branches of `sendActivation`, `Recv` is `recvActivation`. The numbers of a row are
treated alike, so a row is its size and one number, and a frame may be off by up
to `Eps`: what the encoding and the arithmetic of floats do to it. The frames carry
histories (`base`, `row`): the exact row the sender had before and after.

### Executor

Every atomic access of `nn-executor.cpp:166-241` that another thread can come
between is an action (`Arrive`, `ResetCount`, `Advance`, `Leave`, ...), so are the
three stores of the destructor; the body of `forward()` under its lock is one.
`EvaluatePredicate` and `Sleep` split the wait on the condition variable at the
place where a notification without the mutex can be lost; `WakeSpuriously`
models a wait that ends on its own. `FailStep` is the catch block,
`StallTimeout` the watchdog of `forward()`
(180 s unless the environment says otherwise, `nn-executor.cpp:10`). The counter `worked` is a
history of the steps whose body a thread has finished.

### AllReduce

The arguments of the call (`nNodes`, `collectiveType`, `syncType`, `size`,
`spPrefillOnly`, `decodeFrom`) are variables that only Init chooses. `Ring` is the
choice of the algorithm at the top of `syncNodeSlices`. A value of a row is the
bag of `<<node, call>>` that were added to it, so that a contribution counted
twice, left out or taken from another call shows. `Enter` is the call, with what
the segment computed before it; `Write` and `Read` move one value of `writeMany`
and `readMany` through a socket of `SocketCapacity` values, in any order of the
sockets, as their loops over non-blocking sockets do; `StarReduce`,
`StarReceive`, `RingStep` and `PairStep` are what a node does with what it has
read, with the end of a loop step. `SliceRows` is the size of a step of the KV
exchange, computed at both ends; `missing` collects the positions that the
attention of the segment read before their rows came. The threshold of 8 nodes
is a constant. Left out of `Enter` is the throw in a decode step with
`--strict-kv-affinity 1 --allow-kv-migration 0` (`nn/nn-network.cpp:1811`): the root
refuses these options with several sequence groups unless `--prefill-sp-only 1`
is set too (`app.cpp:1590`), which leaves the exchange of a decode step before.

### NetworkBringUp

| Variable | Code |
|---|---|
| `attempt`, `rootPc`, `rootNext` | starts of the root; where `connect()` is, and its `i` |
| `pc[w]`, `session[w]` | where worker w is in `serve()` or after it; the attempt it answered |
| `sockets[w]` | the vector `sockets` of `serve()`, in the order it is filled |
| `backlog[w]` | the connections the kernel holds for the listening socket |
| `wire` | the packets of the handshake that were written and not read |

`RootConnect`, `RootHello`, `RootReadAck`, `RootReady` are the steps of `connect()`;
`AcceptRoot`, `ReadHello`, `ReadReady`, `AcceptPeer`, `ConnectPeer` those of
`serve()`. `connectSocket` takes a connection that is still being made for a
success (`nn/nn-network.cpp:327`): a connection to a worker that does not listen is
held like any other (`Dialed`) and found out by the next read or write (`RootFails`,
`LosesPeer`); that `connect` itself refuses at once is possible too (`RootFails`,
`PeerRefuses`). `EndSession` is what the destructors do when an exception leaves it, or
the inference after it, and `Relisten` the loop of `runWorkerApp`. `RootKilled` and
`WorkerKilled` are the crashes. Whether a connection is open at its other end
follows from the state of that node. Left out: address resolution, a host that
does not answer, and that a connection may reach its listener only some time after
`connect` has returned.

### Topology, ModelLoading

`Topology` holds the arithmetic of `nn-topology.hpp` and two computations of
the stage of a layer: `LayersOf` from the builder (`llm.cpp`) and `LayerOwner`
from the loader of weights. `Receives` and `SliceFor` are the branches of
`NnRootWeightLoader`.

`ModelLoading` is the traffic between the last packet of the bring-up and the
first control packet. The root's work is one sequence, `Script`: write the
configuration of the net and of the node to one worker after the other and wait
for each acknowledgement, then go through the weights in the order of the file,
load its own part and write those of the others, then the zero size and its
acknowledgements. `next` is the place in it. A worker's reader is an `agenda` of
fields and loops: a loop becomes as many copies of its body as the count just
read says (`EnterLoop`), so that writer and reader each follow their own code,
and `InStep` compares what comes with what is expected. `loaded[n]` is the bag of
parts in node n's executor. A process may fail (`WorkerFails`, `RootFails`); its
peers end when they read from or write to it (`RootThrows`, `SessionEnds`), and a
worker listens again.

### RootContext, Drivers, ApiServer

A KV row is the token it was computed from, and a token says which turn, what
content, which place in it, and where it came from (tokenizer, model, or a buffer
nobody filled). `Evaluate` is one `forward`: it writes rows, sets the phase and
leaves logits, one token, a top-k list or, where `--pp-token-only` has built the
last stage without logits (`HeadOutput`), an index in the logits pipe in `held`
(`decodeLogitsMode`); `Then` is the assertion on the position, which ends the
program. Each driver's loop body is
an action; `dialog` is a history of every token the user gave or saw. In
`ApiServer`, `Receive` is a request and the look-up in `NaiveCache`, `ApiChunk`,
`ApiPrefillDone`, `Answer`, `AnswerFull` and `Finish` are `ApiServer::complete`,
`StepFails` is a worker lost in the middle, after which the server goes on to
the next request without it, starts over (`Restart`, the loop of `main`) or ends. What a step does inside the pipeline is `StagePipeline`'s
business; here it is atomic.

### Gateway

`pc[r]` is where the thread of slot r is in `processClient`; slots are reused.
`activeRequests`, `inflight`, `unhealthy`, `rrCursor` are the shared state: each
access of the atomic counter is an action, so is each critical section.
`FromCursor` is the place of a replica in the search that starts at `rrCursor`.
`Forward` stands for everything between the acquisition and the release, and may
fail for the client or for the replica: the code does not tell them apart.
`lost` and `passedOver` are histories. Left out: `accept` failing, which ends the
program.

### Slices

`ThreadRange` is `SPLIT_THREADS`, `RowBlock` and `ColBlock` the places the two
splitters copy from, `KvRead` the number attention starts to read a key row at,
and `KvOwn` the one grouped-query attention asks for. There is no state; the
examples of the repository's own test are evaluated by the run `model_loading`.

## 3. Runs

| Run | Bounds | Shows |
|---|---|---|
| `pipeline` | 5 stages, target 2, 4 steps, runs of at most 2, reject streak 2, waves of 2 chunks, sockets of 1 activation, all modes; one of root, target and last stage killed at any time, a poll timeout | type, `NoStageFails`, `AnswerFollowsRoute`, `KvMatchesDecisions`, `SkipWindowBound`, `FreshDecodeIsFull`, `BacklogBound`, the contract, and `StepAnswered`, `WorkersStop` under fairness |
| `pipeline_blocking` | 4 stages, blocking sockets, 2 steps | violation of `ProbeReturns` |
| `pipeline_long_wave` | 3 stages, a wave of 7 chunks | violation of `WaveDrained` |
| `executor` | 2 threads, 2 steps, 2 calls, failures and stalls | type, `Lockstep`, `RunIsOver`, the contract, and `ForwardReturns`, `DestructorReturns` under fairness |
| `allreduce_calls` | groups of 2 to 4, rows of 4 and 6 values, sockets of 1, two calls, all kinds of synchronisation | type, `StarSums`, `RingReduces`, `KvGathered`, `CallsClose`, and `CallsReturn` under fairness |
| `allreduce_ring` | 3 nodes, rows of 3 values | violation of `RingSums` |
| `sp_attention` | 2 nodes, one position each | violation of `AttendsWholePrefix` |
| `root_app` | context of 6 positions, batches of 4, 2 stages, prompts of 2 to 8 tokens, 3 requests, 3 messages | `StaysInContext`, `LogitsFresh`, `ContextIsDialog`, `RoundRobinFair`, `ReusedRowsAreOurs`, and `Ends` under fairness |
| `model_loading` | 1 to 4 nodes in every topology, 3 layers, no or 2 experts, one failing process | type, `InStep`, `WeightsPlaced`, and `LoadingEnds` under fairness |
| `bring_up` | 3 workers, root started twice, one worker killed | type, `OneSocketPerNode`, and `AttemptEnds`, `WorkersListenAgain` under fairness |
| `bring_up_order` | 3 workers, one attempt | violation of `SocketsLeadToPeers` |
| `gateway` | 4 threads, 3 replicas with limit 2, queue limit 2, one lost refusal | type, `InflightMatches`, `AdmissionBound`, `NoReplicaPassedOver` |

Why the bounds are enough. With 5 stages and target 2 every role is a stage of
its own: root, decision stage, target, post-target stage, last stage. Four steps
allow a row to be remembered, a run of two accepted steps, the forced full route
after it, or a phase change between two decode phases. A run limit of 2 tells a
limit from its neighbours. The lag of the target is at most the run limit plus
one (`BacklogBound`), so four steps fill it. A socket of one activation blocks
earliest. Of the processes, the root, the stage that lags and the stage that
answers are killed: each leaves another pattern of readers and writers behind; a
second death adds nothing to what the first one's exceptions end. Two calls of
`forward()` are what it takes for a thread of one run to meet the counters of the
next; two threads make a first and a last arrival, and the proofs cover any
number (they were tried first with TLC on three). Four and three nodes are an
even and an odd ring, where neighbours with the same parity meet; a slice of two
values over a socket of one blocks its writer, and two calls let a node be one
ahead. Worker 3 is the first to have two lower peers, so three workers are what
it takes to race for a listener; two attempts let a session meet one of an older
root. A context of six positions holds a turn, a second turn and its overflow;
prompts of 2 to 8 tokens are shorter than, equal to and longer than a batch, a
chunk and the context. Three layers on four nodes give stages with one layer,
with several, with one left over and, with four stages, with none. Three replicas
make the least loaded one and the next from the cursor differ; four threads are
one more than the limits and the lost refusal let in.

The runs say `CHECK_DEADLOCK FALSE`: the root stops after `MaxSteps` or after
`finish()`, a killed process stays dead, the executor's owner ends with the
destructor, a group after `MaxCalls`, a gateway with `std::terminate`, a driver at
the end of its prompt, and a root need not be started again. That nothing else
stops is what the liveness properties say.

Fairness. The processes of the pipeline run all the time, and none of a
worker's steps waits for a user, so each worker has weak fairness; the root has
it for the steps of a call it has begun (`RootProgress`), not for beginning a
call (`RootStart`, `RootFinish`), which the user decides. The limit of the polling
loop is compared with the time between two probes only (`app.cpp:1426`), so that
`PollTimeout` is possible again and again but not all the time: it has strong
fairness, once some process is gone. While all are there it has none, and what the
run shows of answers does not rest on it; without this fairness `StepAnswered`
and `WorkersStop` are violated by a post-target stage that polls two closed
sockets for ever. Nobody is fair about being killed, or about a broadcast that
notices a closed socket. In the executor the operating system schedules every thread (weak
fairness of `ThreadStep`) and device operations end; the owner goes on from where
it waits. The watchdog gets none, and spurious wakeups are assumed to end, else
two of them could take turns forever without a step of the program. In
`AllReduce` every node has weak fairness, for its calls too: the executors of all
nodes run the same list of synchronisations. In `NetworkBringUp` and
`ModelLoading` the programs run (`RootStep`, `WorkerStep`), while starting, failing
and killing them is nobody's duty. In `MCRootApp` the program's own steps are fair
(`Progress`); the user and the clients are not.

### What the runs say about the code

- *Polling needs non-blocking sockets* (`pipeline_blocking`, finding at
  `nn/nn-network.cpp:221`). `tryRecvActivation` is a probe only with
  `--net-turbo 1`. With `--net-turbo 0` the post-target stage waits in `recv`
  for the socket that happens to be silent, and even the 30 s timeout of the
  polling loop is not reached.
- *A wave can block itself* (`pipeline_long_wave`, finding at `dllama.cpp:348`).
  The root reads no logits before it has sent the last chunk. If the prompt has
  more chunks than the sockets of the chain hold, all sends wait on each other
  until `writeSocket` gives up.
- *A death is noticed everywhere* (`pipeline`). Whichever process is killed,
  every stage comes to a read or a write that throws, or to its stop packet; the
  stage after the target, whose probes do not throw, to the end of its 30 s, and
  the stages and the root behind it only then. The decision and the KV rows that
  were written stay consistent. The mutant in
  which a session survives a closed socket breaks it.
- *Delta transport drifts* (`nn/nn-pipeline.cpp:387`). The sender subtracts its
  exact row, not the one the receiver has, so that no frame takes back the error
  of an earlier one; `ErrorsAddUp` is the bound that holds, and with an encoding
  that rounds it grows with every decode step until the batch size changes.
- *The destructor can miss a thread* (`nn/nn-executor.cpp:247`).
  `~NnExecutor` sets its flag, advances the epoch and notifies without the
  mutex. A thread that has found its predicate false and is not yet asleep
  misses all three, and `join` waits for good. `DestructorReturns` states what
  holds outside this window; without its hypothesis on `toSleep` TLC shows the
  lost wakeup.
- *The ring gathers the wrong slices* (`allreduce_ring`, finding at
  `nn/nn-network.cpp:1486`). After the first loop node i holds slice i + 1
  reduced; the second loop starts with slice i, so that raw contributions go
  around. It takes 8 tensor-parallel nodes and a row that divides by their number. With
  the indices of the second loop shifted by one the sums are right.
- *Attention runs before its rows come* (`sp_attention`, finding at
  `llm.cpp:424`). The KV exchange of a layer belongs to the segment that also
  holds its attention, and a segment's operations precede its synchronisations.
- *Peers are taken in the order they come* (`bring_up_order`, finding at
  `nn/nn-network.cpp:609`). With three or more workers, two lower peers race for
  the listener of the third, and nothing tells it which is which.
- *With sp > 1 weights go astray* (`nn/nn-network.cpp:2118`). `nodeInPpStage`
  divides by `tpSize` alone, so that with several stages and sequence groups a
  slice reaches nodes of another stage; `WeightsPlaced` is stated for sp = 1.
- *Heads must divide* (`app.cpp:1604`). Key-value heads that the nodes do not
  divide pass every check and make attention read across two heads;
  `MCModelLoading` evaluates an example, `HeadsReadTheirRows` is the hypothesis.
- *Token-only leaves no logits to fall back to* (`app.cpp:733`). The comment there
  says that batches fall back to full logits. But the graph of `--pp-token-only` has
  the fused argmax head and computes logits in no step; what continuous batching
  samples from after a round, perplexity scores, and the API server, which never
  sets the decode phase, samples from (`dllama-api.cpp:455`) is then a pipe with
  a token index in it. With `--pp-topk` a round of one request brings a list, and
  the pipe that is sampled is older. `LogitsFresh` is therefore about inference and
  chat; TLC finds it violated when it is stated of the others.
- *What the drivers do not promise.* Perplexity does not compare its text with
  the context, so that the assertion of `forward` ends it. The requests of a file
  share one range of positions and overwrite each other's rows. `ContextIsDialog` allows chat to
  evaluate, as the last token of a prompt, what its buffer held behind it.
- *A lost client leaves its prompt in the cache* (`dllama-api.cpp:398`).
  `NaiveCache` is extended before the prompt is evaluated; `ReusedRowsAreOurs`
  excludes the conversation of a client that was lost in between. It also accepts,
  as the last token of a prompt, the one that `promptTokens[i + 1]` finds in the
  buffer behind it (`dllama-api.cpp:441`).
- *Old sessions stay out by order alone.* Nothing in a connection says to which
  attempt it belongs; `OneSocketPerNode` holds because the root waits for each
  acknowledgement before it goes on (the mutant that does not wait breaks it).
- *A killed worker can strand its peers.* They wait in `accept()`, which has no
  timeout, until the next root comes, is taken for a peer and fails. The two
  liveness properties of `NetworkBringUp` exclude a killed worker.
- *A lost refusal raises the limit* (`dllama-gateway.cpp:348`). A request that
  finds no replica is subtracted before its refusal is written and, if that write
  throws, again at the end. `AdmissionBound` is the limit that remains.
- The command line accepts target stage 1 (`app.cpp:1600`), where the decision
  stage is the root, which never decides: nothing is ever bypassed, and the
  post-target stage polls without need.
- `README.md:95` says that skip decisions are logged on the target stage; the
  code logs them on the decision stage.

## 4. Proofs

Each theorem holds for every value of the constants that satisfies the named
assumption of its module, which states what the command line or a constructor
enforces, and no more.

`StagePipelineProofs` (`PipelineAssumption`: at least three stages, a target
between the first and the last, positive limits):

- `TypeCorrect`: `Spec => []TypeOK`;
- `SkipWindow`: `Spec => []SkipWindowBound` — no `MaxConsecutive + 1` consecutive
  steps are all accepted.

The bound of a run is not inductive by itself: it speaks of the history
`accepted`, the code counts in `skipConsecutiveAccepts`, the counter is reset in
several places, and the decision stage reads its control packets from a queue.
The invariant `IInv` adds

- `WaveCounted` — the root counts the chunks of its wave and has a step in hand
  when it computes (needed for the type of `waveChunks` and of what is sent);
- `OwnPlaces` — only the decision stage judges and only the post-target stage polls;
- `PacketsInOrder` — the control packets in the decision stage's queue have
  ascending positions, all above every accepted step and above the step in
  hand: no step is judged twice and none out of order;
- `RunCounted` — whenever the next decision can still be an accept, a run of
  accepted steps that ends just before the step in hand is at most as long as
  the counter; a reset of the counter always comes with something that makes
  the step in hand a full one (`hasPrevXPipeRow` or `hasLastDeltaNorm` false, or a
  step that is not a single decode row).

With it the step that accepts finds the counter below the limit, so the run it
extends is too. The proof has one lemma per action for each part of the
invariant; the steps that change none of `decisionVars` share one lemma. Killed
processes and sessions that end are steps like others: they take a process out
of its loop and leave queues, counters and decisions as they are.

The second half of the module proves the other safety properties of the run
`pipeline` and the refinement: `StagesStayInStep`, `AnswersAreOfTheStep`, `CachesMatchRoutes`,
`NewPhaseIsFull`, `BacklogBounded` and `ContractKept` (`Spec => KeepsContract`). None
of these can be stated of two processes alone: what a stage may find in its socket
depends on every decision made upstream that it has not heard of. `RouteInv` says
that every state has an *account of the run* that explains it (`Explained`):

- `plan`, the control packets the root has written so far; `rd[w]` of them stage w
  has read, it has taken `got[w]` activations and finished `out[w]` steps, `due`
  says how far the target has supplied the post-target stage, and `skip` is the
  set of steps that are bypassed;
- each socket holds an interval of one of the streams that `plan` and `skip`
  determine (`Carries`, with `ControlLines`, `FirstLine`, `ChainLines`, `AnswerLine`,
  `PostLine`, `BypassLine`): between the root and stage 1 packets and activations
  in turn, elsewhere one kind;
- each process is where its numbers say (`RootPlace`, `WorkerPlace`), and the numbers
  descend along the chain (`InOrder`);
- an accepted step is a one-row decode step that the decision stage was in
  (`Decided`), and not the first of its phase (`Phases`).

Each step keeps the account or moves one number of it by one, and the properties
are read off: the post-target stage is never offered two inputs, because the
intervals of `PostLine` and `BypassLine` are on different sides of `skip`; a
stage's lag behind the root is `nextPos - rd[w]`. The step lemmas are one for each
action, with lemmas on `Carries` for a frame written and a frame read.

`DeltaTransportProofs` (`DeltaOptions`, as a hypothesis) proves `BaseAlwaysKnown` and
`ErrorsAddUp`. The two ends are not related directly while frames are on the way;
the invariant is a chain (`Linked`): the first frame goes on from the row the
receiver stands for, each one from where the one before it ended, and the last one
ends at the sender's row, every frame saying of its step what it should
(`Truthful`). The module has no run of its own: an instance of two sizes, two values
and two frames in the socket was checked before the proof was written.

`ExecutorProofs` (any finite set of threads) proves `TypeCorrect`,
`StepsInLockstep`, `RunsEndComplete` and `ContractKept` (the pool implements
`ForwardContract`, step by step), with failing steps, stalls, spurious
wakeups and the destructor at any time. What makes it inductive:

- `MutexHeld` — a thread between its predicate and its sleep is alone in the
  critical section;
- `EpochCounts` — the epoch is the number of runs, and one more for a stall timeout
  and for the destructor;
- `StepsTogether` — once there was a run every thread has finished all steps
  before the current one, and at most that one more;
- `Barrier` — what a thread has finished follows from where it is, and the thread
  that opens the next step is the only one, everybody having arrived;
- `Counted` — `doneThreadCount` is the number of threads that have arrived, until
  the last one resets it, before it advances the step: the argument is about
  cardinalities;
- `AliveRun`, `AliveIdle`, `AliveClosing` — in a run in which nothing has failed,
  between runs, and while the destructor waits: where the threads can be, and
  that `doneRunThreadCount` counts those that have left.

`AllReduceProofs` (every number of nodes from two on, every length of row and of
slice, every capacity of the sockets, all four algorithms in one invariant, from
`AllReduceAssumption`) proves the type invariant and the four safety properties of
the run `allreduce_calls`: `StarSumsAlways`, `RingReducesAlways`,
`KvGatheredAlways`, `CallsCloseAlways`. A node keeps no sequence
number and a frame carries none, so that nothing in the state says which call a
value in a socket belongs to. The invariant reconstructs it. What node i writes to
node j over all calls is one stream of frames, one for each `writeMany`:

- `Written(i, j)` and `Taken(j, i)` count the frames the two ends have finished, each
  from its own `pc`, call and step only; `Start` and `Width` give the place of a
  frame in the stream, which differs from frame to frame in the exchange of pairs
  (a call has no, some or all rows of a slice);
- `Meant(i, f, o, v)` says what the value at offset o of frame f is to be: in the
  star a worker's own row of call f + 1 or the root's sum, in the broadcast the
  root's row, in the ring's first loop the sum of i and the s nodes before it
  (`Arc`), in the exchange a row of i's own slice;
- `Stream` (`StreamOf` for each linked pair): the socket and the values the reader
  holds are exactly the values from the reader's place to the writer's, each the
  one meant for its place;
- `SentOf`, `GotOf` — a `writeMany` or `readMany` is never past its end;
- `RowOf`, `SlicesOf`, `KeyValuesOf` — what a node's buffer holds at each of its
  places in the call.

The numbers of frames of two nodes are related by nothing but their streams: a
reader that is behind has its frames in the socket (`StreamOrder`). `CallsClose`
follows from that: around the ring, or through the root, each node is at most one
frame ahead of the next. That reducing the gathered rows is a sum, whatever the
order, is a fold over a set, proved with a least counterexample
(`GatheredValues`); so is that the arcs of the ring grow by one node at a time. TLC
checked the invariant on three instances, one with four nodes, before it was
proved. Of the second loop of the ring `Meant` and `SlicesOf` say nothing: what it
distributes is not the sum (the run `allreduce_ring`).

`RootAppProofs` is about the programs over `RootContext`.

- `ChunkBounds`: a prefill chunk has at least one row and no more than a batch,
  for every depth, chunk size and prompt.
- `DriversStayInContext`, `ServerStaysInContext`: the invariant adds that the end of
  a turn (`InText`) and the prompts of a file (`InFile`) lie within the context, that
  perplexity never leaves its own loop (`OwnLoop`), and what a request of the server
  is in each of its places (`ShapeInv`).
- `DriversReadFresh`: what inference and chat sample from is what the last step
  left them; the invariant (`ReadInv`) adds that they sample only after the phase
  was set to decode, in a step of one row.
- `RoundsAreFair`: between rounds the requests of a file have decoded as many
  tokens, within a round those whose turn has passed one more (`FairInv`; `Turn`
  counts from the cursor).
- `ContextFollowsDialog`: the rows of the context are the tokens of the dialog
  (`ContextInv`).
- `PrefixesAreOurs`: the rows a request of the server reuses are those of its own
  messages. The invariant (`RowsInv`) has a part for each place the loop can be in:
  between requests the rows up to the end of each cached message are the rows of the
  cached messages (`CacheRows`); in a request the reused rows (`KnownRows`), those
  evaluated since (`NewRows`) and the token to be evaluated next (`NextReply`) are
  of the request. What the tokenizer makes of several messages is a fold over
  them; that it is a run of the tokens of each (`PromptIsRun`) is induction over
  data, done with a least counterexample (`LeastNatural`).

Two of these proofs corrected the model. `StepFails` had been possible in places of
the server where no `forward` is called, and the invariant could not be kept there.
And `ReusedRowsAreOurs` now says that the reused rows are complete up to the last
message the cache claims, which is what the proof needs and gives.

`NetworkBringUpProofs` (any number of workers, any number of starts of the root,
any worker killed once) proves the type invariant and `OneSocketEach`. Nothing in a
connection says which session it belongs to, so that the proof has to say why an
old one cannot get in:

- `Indexed`, `HeldOnce` — which socket stands at which index, and that no connection
  is held twice;
- `RootFirst` — nothing in a backlog behind a root's connection is older than it;
- `AnsweredAll` — who has answered the running root is in no older session and cannot
  come to answer an older root, whose connections are gone from its listener;
- `LowerLeft` — once a root has reached w, the workers below w have left all older
  sessions for good: the root goes on only after an acknowledgement;
- `NeverAgain`, `Connected` — what a worker could still answer is later than every
  connection it has made, so it makes none twice.

With it all sockets of a joined worker are of the running attempt. The lower ones
are as many as there are lower workers and no two from the same one: that there
is one from each is the pigeonhole principle (`OneFromEach`). That they stand in the
order of the workers does not follow and is false (`bring_up_order`).

`ModelLoadingProofs` first proves the arithmetic: that placement and `GlobalRank` are
inverse (`PlacementInverse`, `PlacementOfRank`), that a worker infers the root's
topology, that builder and loader agree on the stage of a layer (`OwnerAgrees`, with
at least one layer per stage), and with sp = 1 that every node is given what its
operations need (`WeightsReachTheirOps`). It also proves of `Slices` that
`SPLIT_THREADS` and the two splitters give every item to exactly one thread or
node, and `HeadsReadTheirRows`. Both are arithmetic with division; the lemmas
state the bounds and the uniqueness of quotients once.

Then come all three invariants of the run `model_loading`, for every
configuration, set of models, topology, socket capacity and number of failures that
`ModelLoadingAssumption` allows. Two facts about the two sides' code come first.

- `ConfigurationsAgree`: the loops of the reader read what the loops of the writer
  write. "Agenda a, from counts c, reads exactly the fields f and ends with counts
  d" (`Reads`) would be a recursion on f; it is stated instead as membership in a
  relation each of whose elements advances to another (`Advances`), a relation
  that a proof names outright. It composes along `\o` and repeats as often as a count
  says, and so follows the nesting of the code: an operation, the operations of
  a segment, the segments of a node. The inner counts are read again for every segment, so that
  what they were before does not matter: `Follows` is stated for all of them.
- `DeliveriesOnce`: the script holds each weight of the file once for each node that
  receives it. `FileOrder` and `Deliveries` are flattened sequences; that they repeat
  nothing follows from what the weights of different layers, experts and
  operations differ in.

The inductive invariant (`IInv`) relates each worker to the root's place in the
script. A worker has taken the steps for it before a place r; its socket holds
exactly what the root wrote to it from r to `next` (`Carries`). While it reads a
configuration, its agenda reads exactly the fields from r to the end of that
configuration (`Reads`); while it loads, `loaded` is the parts the script gives
it before r (`PartsOf`); and it owes one acknowledgement if and only if the root
stands before the step that reads it. A worker that has failed has an empty socket,
and at most one acknowledgement on its way. With the root at the end of the script r is beyond the zero
size, so that all parts are there; that these are the needed ones is
`WeightsReachTheirOps`, for sp = 1 as the property says. `TypeOK` and `InStep` need
no such hypothesis. TLC checked the invariant on a small instance before it was
proved.

The proofs changed the form of the model, not what it allows: `Deliveries` is a
flattening of one `Deliver` per node, `Models` and `Topologies` are sets of records
with named fields, and the assumption on the configurations gives their types.

`GatewayProofs` proves all four properties of the run `gateway` for every finite
set of requests, number of replicas and limits (`GatewayAssumption`). The inductive
invariant adds to them

- `Unassigned` — a thread has a replica only between `Acquire` and `Release`, so
  that the handler of an exception before the choice releases nothing;
- `ActiveCounted` — the atomic counter is the number of counted requests, less
  the lost ones: what makes `AdmissionBound` follow from one comparison;
- `Approaches` — passed over so many times, a replica is that much nearer to the
  cursor: the measure behind `NoReplicaPassedOver`.

Its argument about the counters is one lemma on what a step of one request does to the
sets `Counted` and `Admitted` (`NumbersOfStep`), from the facts on
cardinalities of `FiniteSetTheorems`.

Every invariant of the passing runs is a theorem. Only model-checked are
all liveness properties, what the runs of the findings show, and the
examples that `MCModelLoading` evaluates. Out of the prover's reach: temporal properties under fairness and
`ENABLED`; a library theorem with an operator as a parameter, so that induction
over data is possible only with a least counterexample, one definition at a time,
as in `RootAppProofs`; anything with a `RECURSIVE` operator (the modules have none).

## 5. Not modelled

- *The encoding of activations* and the payload's checksum, which covers its fourth
  number only and whose mismatch only prints a warning.
- *Several nodes per stage in the pipeline*: the groups of a stage meet only in
  the collectives, which are a model of their own. That the nodes of a decision
  stage decide alike rests on equal floating-point rows.
- *SpGroupScheduler*: its call sites assign a group once and print it; nothing
  releases a group, and no behaviour depends on it.
- *Stall timeouts* of `readSocket` and `writeSocket` inside a collective or a wave:
  an exception that ends the session, as a closed socket does.
- *Option parsing, HTTP and JSON parsing, statistics and reports*: no state that
  another part reads. A malformed request throws what the server's loop does not
  catch; chat at the end of its input asks for ever.
- *Kernels, quantisation, SIMD, Vulkan, sampler, tokenizer*: what is right about
  them is numeric or textual.
- *Vendored code*: `json.hpp` alone is more than half of the repository's lines,
  which is why the share of mapped lines is small; the mapped lines are those of
  the engine's own control.
