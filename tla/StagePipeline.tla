--------------------------- MODULE StagePipeline ---------------------------
(***************************************************************************)
(* Pipeline-parallel inference with the experimental stage skip: the root  *)
(* (stage 0), the worker stages 1 .. PpSize-1 with one node each (sp = tp  *)
(* = 1), and the TCP sockets between them.                                 *)
(*                                                                         *)
(* One "step" is one call of RootLlmInference::forward or                  *)
(* forwardPrefillNoWait: the root broadcasts a control packet, computes    *)
(* its layers and sends the activation down the chain; the last stage      *)
(* returns logits.  The model numbers the steps 0, 1, 2, ...; the position *)
(* a packet carries is the number of its step.  A step is a decode or a    *)
(* prefill step (phase), and feeds one row or several (batchSize = 1).     *)
(*                                                                         *)
(* Data are abstracted to what the properties tell apart: an activation is *)
(* the set of passes <<stage, step>> it is the result of, a KV cache is    *)
(* the set of steps whose rows were written, and the comparison of the     *)
(* delta norm with theta is a Boolean the environment chooses.             *)
(***************************************************************************)
EXTENDS Integers, Sequences, FiniteSets

CONSTANTS
  PpSize,           \* number of pipeline stages
  Target,           \* stageSkipTarget: the stage that may be bypassed
  MaxConsecutive,   \* stageSkipMaxConsecutive
  MaxRejectStreak,  \* stageSkipMaxRejectStreak
  Modes,            \* the command lines considered: "off", "shadow", "execute"
  NetTurbo,         \* TRUE: sockets are non-blocking (--net-turbo 1)
  SocketCapacity,   \* activations one direction of a socket can buffer
  Mortal,           \* bound: the stages whose process may be killed
  MaxSteps,         \* bound: steps the root starts
  MaxWave           \* bound: prefill chunks of one wave

\* What AppCliArgs::parse and runInferenceApp enforce, and the bounds.
ASSUME PipelineAssumption ==
  /\ PpSize \in Nat /\ PpSize >= 3
  /\ Target \in 1 .. PpSize - 2
  /\ MaxConsecutive \in Nat \ {0}
  /\ MaxRejectStreak \in Nat \ {0}
  /\ Modes \subseteq {"off", "shadow", "execute"}
  /\ NetTurbo \in BOOLEAN
  /\ SocketCapacity \in Nat \ {0}
  /\ Mortal \subseteq 0 .. PpSize - 1
  /\ MaxSteps \in Nat
  /\ MaxWave \in Nat

Stages  == 0 .. PpSize - 1
Workers == 1 .. PpSize - 1
Last    == PpSize - 1
Decider == Target - 1      \* isStageSkipDecisionStage
Post    == Target + 1      \* isStageSkipPostTargetStage
Passes  == Stages \X Nat   \* a stage's layers run on the rows of a step

VARIABLES
  mode,         \* the skip mode the control packets carry
  \* the root
  rootPc,       \* "idle", "exec", "recv", "wave", "waveExec", "drain", "stopped",
                \* "ended" (killed, or a write or a read threw)
  nextPos,      \* number of the next step
  waveChunks,   \* waveChunkCount: chunks sent whose logits were not drained
  answer,       \* logits the root holds: their step and the passes behind them
  firstDecode,  \* history: first one-row step of the running decode phase, or -1
  \* the sockets: chan[<<i, j>>] holds what stage i wrote and j did not read
  chan,
  \* the worker stages
  pc,           \* where the stage is in runWorkerApp's loop; "ended" when the
                \* process was killed or an exception closed its session
  cur,          \* its copy of the control packet
  xPipe,        \* passes behind the activation in its pipe
  kv,           \* kv[s]: steps whose rows stage s wrote into its KV cache
  \* the skip state of the decision stage (the other stages keep the same
  \* fields for their statistics only)
  hasPrevXPipeRow, hasLastDeltaNorm, skipConsecutiveAccepts, skipRejectStreak,
  lastAccept,   \* hasLastSkipDecision /\ lastSkipDecisionAccept = 1
  accepted      \* history: steps the decision stage accepted

rootVars  == <<rootPc, nextPos, waveChunks, answer, firstDecode>>
deltaVars == <<hasPrevXPipeRow, hasLastDeltaNorm>>
judgeVars == <<skipConsecutiveAccepts, skipRejectStreak, lastAccept, accepted>>
skipVars  == <<deltaVars, judgeVars>>
vars == <<mode, rootVars, chan, pc, cur, xPipe, kv, skipVars>>

-----------------------------------------------------------------------------
(* Frames and sockets.  A socket carries control packets and activations   *)
(* of both kinds in one byte stream: root -> stage 1 interleaves them.     *)

Packet(p, d, s) == [kind |-> "ctrl", pos |-> p, decode |-> d, single |-> s]
StopPacket      == [kind |-> "stop", pos |-> 0, decode |-> FALSE, single |-> FALSE]
Activation(p, passes) ==
  [kind |-> "act", pos |-> p, bypass |-> FALSE, empty |-> FALSE, via |-> passes]
BypassActivation(p, passes) ==
  [kind |-> "act", pos |-> p, bypass |-> TRUE, empty |-> FALSE, via |-> passes]
Marker(p) == [kind |-> "act", pos |-> p, bypass |-> TRUE, empty |-> TRUE, via |-> {}]

ControlFrames == [kind : {"ctrl", "stop"}, pos : Nat, decode : BOOLEAN, single : BOOLEAN]
ActFrames == [kind : {"act"}, pos : Nat, bypass : BOOLEAN, empty : BOOLEAN, via : SUBSET Passes]

\* Frames with a payload are bounded by the socket buffers; control packets
\* and markers are a few hundred bytes and are not.
Payloads(q) == {i \in 1 .. Len(q) : q[i].kind = "act" /\ ~q[i].empty}
CanWrite(i, j) == Cardinality(Payloads(chan[<<i, j>>])) < SocketCapacity
Written(i, j, frame) == [chan EXCEPT ![<<i, j>>] = Append(@, frame)]
Broadcast(frame) ==
  [c \in Stages \X Stages |->
     IF c[1] = 0 /\ c[2] \in Workers THEN Append(chan[c], frame) ELSE chan[c]]
ReadFrom(i, j) == [chan EXCEPT ![<<i, j>>] = Tail(@)]

\* A process that was killed, or left its session with an exception, has
\* closed its sockets.  What it wrote before may still be read; a write to it
\* is lost or throws, a read from it that finds nothing throws.
Gone(s) == IF s = 0 THEN rootPc = "ended" ELSE pc[s] = "ended"

-----------------------------------------------------------------------------
(* The root.                                                               *)

\* forward() and forwardPrefillNoWait(): network->writeAll(&controlPacket).
StartStep(decode, single) ==
  /\ nextPos < MaxSteps
  /\ chan' = Broadcast(Packet(nextPos, decode, single))
  /\ nextPos' = nextPos + 1
  /\ firstDecode' = IF ~decode THEN -1
                    ELSE IF single /\ firstDecode = -1 THEN nextPos ELSE firstDecode
  /\ UNCHANGED <<mode, answer, pc, cur, xPipe, kv, skipVars>>

\* Nothing looks at batchSize in a prefill step: its last chunk, which may be
\* a single row, is taken for one of several.
RootStart ==
  /\ rootPc = "idle"
  /\ \E decode, single \in BOOLEAN : (single => decode) /\ StartStep(decode, single)
  /\ rootPc' = "exec"
  /\ UNCHANGED waveChunks

\* The wave prefill loop of dllama.cpp: chunk after chunk, no logits read.
RootStartChunk ==
  /\ rootPc \in {"idle", "wave"}
  /\ waveChunks < MaxWave
  /\ StartStep(FALSE, FALSE)
  /\ rootPc' = "waveExec"
  /\ waveChunks' = waveChunks + 1

\* executor->forward(), then the activation goes to stage 1.
RootForward ==
  /\ rootPc \in {"exec", "waveExec"}
  /\ CanWrite(0, 1)
  /\ kv' = [kv EXCEPT ![0] = @ \cup {nextPos - 1}]
  /\ chan' = Written(0, 1, Activation(nextPos - 1, {<<0, nextPos - 1>>}))
  /\ rootPc' = IF rootPc = "exec" THEN "recv" ELSE "wave"
  /\ UNCHANGED <<mode, nextPos, waveChunks, answer, firstDecode,
                 pc, cur, xPipe, skipVars>>

RootStartDrain ==
  /\ rootPc = "wave"
  /\ rootPc' = "drain"
  /\ UNCHANGED <<mode, nextPos, waveChunks, answer, firstDecode,
                 chan, pc, cur, xPipe, kv, skipVars>>

\* A slip: the wave is taken as drained after its first logits.
DrainFirstOnly ==
  /\ rootPc \in {"recv", "drain"}
  /\ chan[<<Last, 0>>] # <<>>
  /\ LET frame == Head(chan[<<Last, 0>>])
     IN  answer' = [pos |-> frame.pos, via |-> frame.via]
  /\ chan' = ReadFrom(Last, 0)
  /\ waveChunks' = 0
  /\ rootPc' = "idle"
  /\ UNCHANGED <<mode, nextPos, firstDecode, pc, cur, xPipe, kv, skipVars>>

\* recvActivation(ppSize - 1, ...) of forward() and drainPrefillLogits(): the
\* root does not look at the position the frame names.
RootRecvLogits ==
  /\ rootPc \in {"recv", "drain"}
  /\ chan[<<Last, 0>>] # <<>>
  /\ LET frame == Head(chan[<<Last, 0>>])
     IN  answer' = [pos |-> frame.pos, via |-> frame.via]
  /\ chan' = ReadFrom(Last, 0)
  /\ waveChunks' = IF rootPc = "drain" THEN waveChunks - 1 ELSE waveChunks
  /\ rootPc' = IF waveChunks' = 0 THEN "idle" ELSE rootPc
  /\ UNCHANGED <<mode, nextPos, firstDecode, pc, cur, xPipe, kv, skipVars>>

\* finish(): batchSize = 0 tells every worker to stop.
RootFinish ==
  /\ rootPc = "idle"
  /\ chan' = Broadcast(StopPacket)
  /\ rootPc' = "stopped"
  /\ UNCHANGED <<mode, nextPos, waveChunks, answer, firstDecode,
                 pc, cur, xPipe, kv, skipVars>>

RootEnds ==
  /\ rootPc' = "ended"
  /\ UNCHANGED <<mode, nextPos, waveChunks, answer, firstDecode,
                 chan, pc, cur, xPipe, kv, skipVars>>

\* sendActivation and recvActivation throw when stage 1, or the last stage,
\* has closed its socket; nothing in the drivers catches it.
RootThrows ==
  /\ \/ rootPc \in {"exec", "waveExec"} /\ Gone(1)
     \/ rootPc \in {"recv", "drain"} /\ Gone(Last)
  /\ RootEnds

\* writeAll of the control packet throws when any worker's socket is closed;
\* the workers that have the packet already may read it or find the root gone.
BroadcastThrows ==
  /\ rootPc \in {"exec", "waveExec"}
  /\ \E w \in Workers : Gone(w)
  /\ RootEnds

-----------------------------------------------------------------------------
(* A worker stage: tryReadControlPacket, beforeForward, executor.forward,  *)
(* afterForward, in the loop of runWorkerApp.                              *)

DecodeSingle(w) == cur[w].decode /\ cur[w].single
Execute  == mode = "execute"
Tracking == mode \in {"shadow", "execute"}

\* A slip: the post-target stage waits for its predecessor only.
PollsNoSocket(w) == FALSE

\* The post-target stage cannot know which socket the activation will use.
PollsBothSockets(w) == Execute /\ DecodeSingle(w) /\ w = Post

\* A slip: the row of the previous decode phase survives the phase change.
KeepSkipState(w, packet) == UNCHANGED <<skipConsecutiveAccepts, skipRejectStreak, hasPrevXPipeRow>>

\* tryReadControlPacket: a change of phase forgets the previous row and the
\* counters of the decision stage.
ResetOnPhaseChange(w, packet) ==
  IF w = Decider /\ packet.decode # cur[w].decode
  THEN /\ hasPrevXPipeRow' = FALSE
       /\ skipConsecutiveAccepts' = 0
       /\ skipRejectStreak' = 0
  ELSE UNCHANGED <<hasPrevXPipeRow, skipConsecutiveAccepts, skipRejectStreak>>

ReadStop(w) ==
  /\ pc[w] = "ctrl"
  /\ chan[<<0, w>>] # <<>> /\ Head(chan[<<0, w>>]).kind = "stop"
  /\ chan' = ReadFrom(0, w)
  /\ pc' = [pc EXCEPT ![w] = "stopped"]
  /\ UNCHANGED <<mode, rootVars, cur, xPipe, kv, skipVars>>

\* Bytes of an activation read as a control packet end the session ("failed").
ReadControlPacket(w) ==
  /\ pc[w] = "ctrl"
  /\ chan[<<0, w>>] # <<>> /\ Head(chan[<<0, w>>]).kind # "stop"
  /\ LET packet == Head(chan[<<0, w>>])
     IN  IF packet.kind = "ctrl"
         THEN /\ cur' = [cur EXCEPT ![w] = packet]
              /\ pc' = [pc EXCEPT ![w] = "recv"]
              /\ ResetOnPhaseChange(w, packet)
         ELSE /\ pc' = [pc EXCEPT ![w] = "failed"]
              /\ UNCHANGED <<cur, hasPrevXPipeRow, skipConsecutiveAccepts, skipRejectStreak>>
  /\ chan' = ReadFrom(0, w)
  /\ UNCHANGED <<mode, rootVars, xPipe, kv, hasLastDeltaNorm, lastAccept, accepted>>

Usable(w, frame) == frame.kind = "act" /\ frame.pos = cur[w].pos

\* A slip: the loop runs executor.forward() whatever shouldSkipForward() says.
ForwardAlways(w, frame) == IF Usable(w, frame) THEN "forward" ELSE "failed"

\* The bypassed stage takes its marker, whatever position it names, and is
\* back in its loop; any other frame must name the packet's position.
AfterReceive(w, frame) ==
  IF /\ frame.kind = "act" /\ frame.bypass /\ frame.empty
     /\ Execute /\ DecodeSingle(w) /\ w = Target
  THEN "ctrl"
  ELSE IF Usable(w, frame) THEN "forward" ELSE "failed"

\* beforeForward from the frame on.
Receive(w, source) ==
  LET frame  == Head(chan[<<source, w>>])
      tracks == w = Decider /\ Tracking /\ DecodeSingle(w) /\ Usable(w, frame)
  IN  /\ chan' = ReadFrom(source, w)
      /\ pc' = [pc EXCEPT ![w] = AfterReceive(w, frame)]
      /\ xPipe' = IF frame.kind = "act" /\ ~frame.empty
                  THEN [xPipe EXCEPT ![w] = frame.via] ELSE xPipe
      /\ hasLastDeltaNorm' = IF w = Decider THEN tracks /\ hasPrevXPipeRow ELSE hasLastDeltaNorm
      /\ hasPrevXPipeRow' = (hasPrevXPipeRow \/ tracks)
      /\ UNCHANGED <<mode, rootVars, cur, kv, judgeVars>>

RecvActivation(w) ==
  /\ pc[w] = "recv" /\ ~PollsBothSockets(w)
  /\ chan[<<w - 1, w>>] # <<>>
  /\ Receive(w, w - 1)

\* An exception ends the session: runWorkerApp leaves its loop and destroys
\* the network, so that the peers find their sockets closed.
SessionOver(w) ==
  /\ pc' = [pc EXCEPT ![w] = "ended"]
  /\ UNCHANGED <<mode, rootVars, chan, cur, xPipe, kv, skipVars>>

FindsNothing(w, source) ==
  \/ NetTurbo /\ chan[<<source, w>>] = <<>>
  \/ Gone(source)

\* One probe of the polling loop, which recvActivation answers with false when
\* it throws: a closed socket, like an empty one, only leads to the next
\* probe, and the frames that wait in it may be lost.  On a blocking socket
\* the probe does not return while its source is there and silent.
Probe(w, source, otherwise) ==
  \/ /\ chan[<<source, w>>] # <<>>
     /\ Receive(w, source)
  \/ /\ FindsNothing(w, source)
     /\ pc' = [pc EXCEPT ![w] = otherwise]
     /\ UNCHANGED <<mode, rootVars, chan, cur, xPipe, kv, skipVars>>

ProbeBypass(w) == pc[w] = "recv" /\ PollsBothSockets(w) /\ Probe(w, Decider, "probeNormal")
ProbeNormal(w) == pc[w] = "probeNormal" /\ Probe(w, Target, "recv")

\* executor.forward(): the stage's layers run and write their KV rows.
Forward(w) ==
  /\ pc[w] = "forward"
  /\ kv' = [kv EXCEPT ![w] = @ \cup {cur[w].pos}]
  /\ xPipe' = [xPipe EXCEPT ![w] = @ \cup {<<w, cur[w].pos>>}]
  /\ pc' = [pc EXCEPT ![w] = IF w = Decider THEN "judge" ELSE "send"]
  /\ UNCHANGED <<mode, rootVars, chan, cur, skipVars>>

\* Slips: no bound on a run of accepted steps, and a bound off by one.
JudgedUnbounded(low, forced) == low /\ ~forced
JudgedOffByOne(low, forced) == low /\ skipConsecutiveAccepts <= MaxConsecutive /\ ~forced

Judged(low, forced) == low /\ skipConsecutiveAccepts < MaxConsecutive /\ ~forced

\* evaluateStageSkipDecision; low stands for lastDeltaNorm <= stageSkipTheta.
EvaluateStageSkipDecision(w) ==
  /\ pc[w] = "judge"
  /\ IF Tracking /\ DecodeSingle(w) /\ hasLastDeltaNorm
     THEN \E low \in BOOLEAN :
            LET forced == skipRejectStreak >= MaxRejectStreak
                accept == Judged(low, forced)
            IN  /\ lastAccept' = accept
                /\ skipConsecutiveAccepts' = IF accept THEN skipConsecutiveAccepts + 1 ELSE 0
                /\ skipRejectStreak' = IF accept \/ forced THEN 0 ELSE skipRejectStreak + 1
                /\ accepted' = IF accept THEN accepted \cup {cur[w].pos} ELSE accepted
     ELSE /\ lastAccept' = FALSE
          /\ UNCHANGED <<skipConsecutiveAccepts, skipRejectStreak, accepted>>
  /\ pc' = [pc EXCEPT ![w] = "send"]
  /\ UNCHANGED <<mode, rootVars, chan, cur, xPipe, kv, deltaVars>>

\* A slip: a shadow run takes the bypass too.
SkippingInShadow(w) == DecodeSingle(w) /\ w = Decider /\ lastAccept

Skipping(w) == Execute /\ DecodeSingle(w) /\ w = Decider /\ lastAccept

\* A slip: the bypassed stage is not told.
SendNoMarker(w) ==
  /\ pc[w] = "send" /\ Skipping(w)
  /\ pc' = [pc EXCEPT ![w] = "bypass"]
  /\ UNCHANGED <<mode, rootVars, chan, cur, xPipe, kv, skipVars>>

\* afterForward on an accepted step: first the header-only marker to the
\* bypassed stage, then the activation past it.
SendMarker(w) ==
  /\ pc[w] = "send" /\ Skipping(w)
  /\ chan' = Written(w, Target, Marker(cur[w].pos))
  /\ pc' = [pc EXCEPT ![w] = "bypass"]
  /\ UNCHANGED <<mode, rootVars, cur, xPipe, kv, skipVars>>

SendBypass(w) ==
  /\ pc[w] = "bypass"
  /\ CanWrite(w, Post)
  /\ chan' = Written(w, Post, BypassActivation(cur[w].pos, xPipe[w]))
  /\ pc' = [pc EXCEPT ![w] = "ctrl"]
  /\ UNCHANGED <<mode, rootVars, cur, xPipe, kv, skipVars>>

\* afterForward on the full route; the last stage sends its logits to the root.
SendActivation(w) ==
  /\ pc[w] = "send" /\ ~Skipping(w)
  /\ LET next == IF w = Last THEN 0 ELSE w + 1
     IN  /\ CanWrite(w, next)
         /\ chan' = Written(w, next, Activation(cur[w].pos, xPipe[w]))
  /\ pc' = [pc EXCEPT ![w] = "ctrl"]
  /\ UNCHANGED <<mode, rootVars, cur, xPipe, kv, skipVars>>

\* The stage at the other end of the socket the worker reads or writes next.
Peer(w) ==
  CASE pc[w] = "ctrl"   -> 0
    [] pc[w] = "recv"   -> w - 1
    [] pc[w] = "bypass" -> Post
    [] pc[w] = "send"   -> IF Skipping(w) THEN Target ELSE IF w = Last THEN 0 ELSE w + 1

\* A slip: the loop of runWorkerApp goes on after the exception.
GoesOn(w) ==
  /\ pc[w] \in {"ctrl", "send", "bypass"} \/ (pc[w] = "recv" /\ ~PollsBothSockets(w))
  /\ Gone(Peer(w))
  /\ pc' = [pc EXCEPT ![w] = "ctrl"]
  /\ UNCHANGED <<mode, rootVars, chan, cur, xPipe, kv, skipVars>>

\* A closed socket throws NnTransferSocketException in the loop of
\* runWorkerApp; frames that wait in it may be lost with it.
SessionEnds(w) ==
  /\ pc[w] \in {"ctrl", "send", "bypass"} \/ (pc[w] = "recv" /\ ~PollsBothSockets(w))
  /\ Gone(Peer(w))
  /\ SessionOver(w)

\* The post-target stage gives up after 30 s of polling, whether or not the
\* activation is still to come.  It is the only way out of the loop when the
\* stages it polls are gone.
PollTimeout(w) ==
  /\ pc[w] = "probeNormal" /\ PollsBothSockets(w)
  /\ FindsNothing(w, Target)
  /\ SessionOver(w)

\* The process of one stage is killed, while the others are still there.
MayBeKilled(s) == s \in Mortal /\ \A t \in Stages : ~Gone(t)

WorkerKilled(w) ==
  /\ MayBeKilled(w)
  /\ pc[w] # "stopped"
  /\ SessionOver(w)

RootKilled ==
  /\ MayBeKilled(0)
  /\ rootPc # "stopped"
  /\ RootEnds

-----------------------------------------------------------------------------
Init ==
  /\ mode \in Modes
  /\ rootPc = "idle" /\ nextPos = 0 /\ waveChunks = 0
  /\ answer = [pos |-> -1, via |-> {}] /\ firstDecode = -1
  /\ chan = [c \in Stages \X Stages |-> <<>>]
  /\ pc = [w \in Workers |-> "ctrl"]
  /\ cur = [w \in Workers |-> Packet(0, FALSE, FALSE)]
  /\ xPipe = [w \in Workers |-> {}]
  /\ kv = [s \in Stages |-> {}]
  /\ hasPrevXPipeRow = FALSE /\ hasLastDeltaNorm = FALSE
  /\ skipConsecutiveAccepts = 0 /\ skipRejectStreak = 0
  /\ lastAccept = FALSE /\ accepted = {}

RootProgress == RootForward \/ RootStartDrain \/ RootRecvLogits \/ RootThrows

WorkerStep(w) ==
  \/ ReadStop(w)
  \/ ReadControlPacket(w)
  \/ RecvActivation(w)
  \/ ProbeBypass(w)
  \/ ProbeNormal(w)
  \/ Forward(w)
  \/ EvaluateStageSkipDecision(w)
  \/ SendMarker(w)
  \/ SendBypass(w)
  \/ SendActivation(w)
  \/ SessionEnds(w)

Fault ==
  \/ BroadcastThrows
  \/ RootKilled
  \/ \E w \in Workers : PollTimeout(w) \/ WorkerKilled(w)

Next ==
  \/ RootStart
  \/ RootStartChunk
  \/ RootProgress
  \/ RootFinish
  \/ \E w \in Workers : WorkerStep(w)
  \/ Fault

Spec == Init /\ [][Next]_vars

\* The processes keep running: none of these steps waits for a user.  A poll
\* does not outlast its 30 s; its limit is looked at between two probes only,
\* hence strong fairness.  It is assumed once a process is gone: while all are
\* there a step must be answered without the help of the limit.
FairSpec ==
  /\ Spec
  /\ WF_vars(RootProgress)
  /\ \A w \in Workers : WF_vars(WorkerStep(w))
  /\ SF_vars((\E s \in Stages : Gone(s)) /\ PollTimeout(Post))

-----------------------------------------------------------------------------
RootStates   == {"idle", "exec", "recv", "wave", "waveExec", "drain", "stopped",
                 "ended"}
WorkerStates == {"ctrl", "recv", "probeNormal", "forward", "judge", "send", "bypass",
                 "stopped", "failed", "ended"}

\* Only the root writes control packets.
SocketsOK(ch) ==
  /\ ch \in [Stages \X Stages -> Seq(ControlFrames \cup ActFrames)]
  /\ \A i \in Workers, j \in Stages : ch[<<i, j>>] \in Seq(ActFrames)

\* The counters of evaluateStageSkipDecision stay within the limits the
\* control packet carries, steps are numbered in order, and nothing but
\* frames is in a socket.
TypeOK ==
  /\ mode \in Modes
  /\ rootPc \in RootStates
  /\ nextPos \in 0 .. MaxSteps
  /\ waveChunks \in 0 .. MaxWave
  /\ answer \in [pos : Nat \cup {-1}, via : SUBSET Passes]
  /\ firstDecode \in Nat \cup {-1}
  /\ SocketsOK(chan)
  /\ pc \in [Workers -> WorkerStates]
  /\ cur \in [Workers -> ControlFrames]
  /\ xPipe \in [Workers -> SUBSET Passes]
  /\ kv \in [Stages -> SUBSET Nat]
  /\ hasPrevXPipeRow \in BOOLEAN
  /\ hasLastDeltaNorm \in BOOLEAN
  /\ skipConsecutiveAccepts \in 0 .. MaxConsecutive
  /\ skipRejectStreak \in 0 .. MaxRejectStreak
  /\ lastAccept \in BOOLEAN
  /\ accepted \in SUBSET Nat

\* beforeForward throws when the activation it read names another position
\* than the control packet, and the worker's session ends.  The stages read
\* control packets and activations from different sockets at their own pace,
\* the bypassed stage lags behind; they stay in step all the same.
NoStageFails == \A w \in Workers : pc[w] # "failed"

Answered == 0 .. answer.pos
Bypassed(p) == mode = "execute" /\ p \in accepted

\* forward() takes whatever frame the last stage's socket holds for the
\* logits of its step.  When it returns they are those of its last step, and
\* every stage, or every stage but the target on a bypassed step, worked on
\* the rows of that very step for them; scoring a decision (README: "while
\* still executing the full route") bypasses nothing.
AnswerFollowsRoute ==
  rootPc = "idle" =>
    /\ answer.pos = nextPos - 1
    /\ answer.pos >= 0 =>
         answer.via = {<<s, answer.pos>> : s \in IF Bypassed(answer.pos)
                                                 THEN Stages \ {Target} ELSE Stages}

\* The KV cache of a stage has a row for every answered step, except that the
\* target has none for the steps bypassed: a hole is never filled later and
\* is never in another stage.
KvMatchesDecisions ==
  \A p \in Answered :
    /\ \A s \in Stages \ {Target} : p \in kv[s]
    /\ p \in kv[Target] <=> ~Bypassed(p)

\* README, --pp-stage-skip-max-consecutive: "Force a full route after this
\* many consecutive accepts".  Whatever resets and phase changes come in
\* between, the steps accepted never make a longer run.
SkipWindowBound == \A p \in 0 .. MaxSteps : ~(p .. p + MaxConsecutive \subseteq accepted)

\* tryReadControlPacket drops the row of the previous decode phase: the first
\* one-row step of a phase has nothing to compare with and is not bypassed.
FreshDecodeIsFull == firstDecode \notin accepted

\* Control packets are broadcast without waiting for the workers.  The unread
\* ones are bounded all the same: the root waits for the logits, which every
\* stage but the bypassed one worked on, and the full route that ends a run
\* of accepted steps lets the bypassed one catch up.
Unread(w) == {i \in 1 .. Len(chan[<<0, w>>]) : chan[<<0, w>>][i].kind # "act"}
BacklogBound ==
  waveChunks = 0 =>
    \A w \in {v \in Workers : ~Gone(v)} :
      Cardinality(Unread(w)) <= (IF w = Target THEN MaxConsecutive + 1 ELSE 1)

\* Every forward() and every drained wave returns: no stage waits for a frame
\* that is never sent, and no cycle of full sockets blocks.  When a process is
\* killed or gives up its poll, the loss reaches the root one socket at a
\* time, and past a stage that polls by the 30 s limit of its loop, which
\* takes the closed sockets for silent ones.
StepAnswered == rootPc \in {"exec", "waveExec"} ~> rootPc \in {"idle", "ended"}

\* finish() reaches every worker, the lagging one too; and when the root ends
\* in the middle of a step no worker stays in its session, not even the stage
\* that polls and so does not see its sockets close.
WorkersStop == rootPc \in {"stopped", "ended"} ~>
                 \A w \in Workers : pc[w] \in {"stopped", "ended"}

\* nn-pipeline.cpp:421, "Polled recv path intentionally returns false on
\* "no data yet" style probes": the post-target stage never stays in a probe.
ProbeReturns == \A w \in Workers : pc[w] = "recv" /\ PollsBothSockets(w) ~> pc[w] # "recv"

\* nn-pipeline.cpp:272: the ACKs were removed so that logits and activations
\* do not block each other ("prevents the deadlock") in a wave, which the root
\* drains after its last chunk.
WaveDrained == rootPc = "waveExec" ~> rootPc = "idle"

\* The stages together keep the promise of RootLlmInference to its driver:
\* answers in order, by the full route or past the target only.
Contract == INSTANCE StageSkipContract WITH
  mayBypass <- mode = "execute",
  asked     <- nextPos,
  answered  <- answer.pos + 1,
  chosen    <- accepted,
  route     <- {s \in Stages : <<s, answer.pos>> \in answer.via}
KeepsContract == Contract!Spec

=============================================================================
